CONSTANTS
    Nodes = {1, 2, 3, 4, 5}
    RID <- TwinRID
    Scenarios <- TwinScenarios
    MaxView = 4
    DropTypes = {"propose", "vote", "hash", "newView", "timeout"}
    TimeoutTicks = 2
    MaxTicks = 7
SPECIFICATION Spec
INVARIANTS
    CommitsAgree
    ScenarioVerdict
CHECK_DEADLOCK FALSE
