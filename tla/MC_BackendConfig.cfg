CONSTANTS
    Self = 1
    Peers <- MCPeers
    MaxSends = 2
    MaxProposals = 1
    SendKinds = {"vote"}
    MulticastKinds = {"propose"}
SPECIFICATION Spec
INVARIANTS
    EventsNotLost
    LastSendKept
PROPERTIES
    MetadataRecorded
    LastSendTransmitted
CHECK_DEADLOCK FALSE
