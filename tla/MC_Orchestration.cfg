CONSTANTS
    H = 2
    NumReplicas = 4
    NumClients = 2
    NoMsg = NoMsg
    Queued = Queued
SPECIFICATION Spec
CHECK_DEADLOCK FALSE
INVARIANTS
    IDsUnique
    AllReplicasCreated
