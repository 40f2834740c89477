CONSTANTS
    t1 = t1
    t2 = t2
    m1 = m1
    m2 = m2
    b1 = b1
    b2 = b2
    s1 = s1
    s2 = s2
    ZeroHash = ZeroHash
    NoRet = NoRet
    Threads <- MCThreads
    Msgs <- MCMsgs
    Batches <- MCBatches
    Sigs <- MCSigs
    Valid <- MCValid
    BatchValid <- MCBatchValid
    Capacity = 2
SPECIFICATION Spec
INVARIANTS
    LRUConsistent
    LRURecency
    VerifySound
    

    
