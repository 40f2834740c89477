CONSTANTS
    Nodes = {1, 2, 3, 4}
    RID <- SoloRID
    Scenarios <- LedgerPlans
    MaxView = 5
    DropTypes = {"propose", "vote", "hash", "newView", "timeout"}
    TimeoutTicks = 2
    MaxTicks = 9
SPECIFICATION Spec
INVARIANTS
    HealedRunCommits
PROPERTIES
    ImplementsLedger
CHECK_DEADLOCK FALSE
