CONSTANTS
    Self = 1
    Peers <- MCPeers
    MaxSends = 1
    MaxProposals = 1
    SendKinds = {"newView"}
    MulticastKinds = {"timeout"}
SPECIFICATION Spec
INVARIANTS
    NoNilConfiguration
CHECK_DEADLOCK FALSE
