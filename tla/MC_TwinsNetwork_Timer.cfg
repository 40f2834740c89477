CONSTANTS
    Nodes = {1, 2, 3, 4}
    RID <- SoloRID
    Scenarios <- StalledPlan
    MaxView = 4
    DropTypes = {"propose", "vote", "hash", "newView", "timeout"}
    TimeoutTicks = 5
    MaxTicks = 7
SPECIFICATION Spec
INVARIANTS
    TimerFires
CHECK_DEADLOCK FALSE
