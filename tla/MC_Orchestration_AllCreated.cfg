CONSTANTS
    H = 3
    NumReplicas = 4
    NumClients = 2
    NoMsg = NoMsg
    Queued = Queued
SPECIFICATION Spec
CHECK_DEADLOCK FALSE
INVARIANTS
    AllReplicasCreated
