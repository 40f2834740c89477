CONSTANTS
    N = 4
    ChainLength = 3
    MaxView = 6
    ViewModulus = 16
    NoLeader = NoLeader
    Observers <- MCObservers
SPECIFICATION Spec
INVARIANTS
    CandidatesNonEmpty
    
