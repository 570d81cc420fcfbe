SPECIFICATION FairGuardSpec
CONSTANTS
    t1 = t1
    t2 = t2
    g1 = g1
    g2 = g2
    g3 = g3
    h1 = h1
    h2 = h2
    h3 = h3
    zero = zero
    one = one
    nopage = nopage
    Threads <- MCThreads
    Guards <- MCGuards
    Owner <- MCOwner
    Handles <- MCHandles
    Kinds <- MCKinds
    Unguarded = {0, 1}
    MaxAcquires <- MCMaxAcquires
    PoolSize = 1
    MaxPages = 2
    Data <- MCData
    Zero = zero
    NoPage = nopage
    IOFaults <- MCReliable
    MayCrash = FALSE
    DirtyNewPages = FALSE
CHECK_DEADLOCK FALSE
INVARIANTS
    GuardTypeOK
    PinsHaveOneGuard
    LatchesHaveGuards
    ChangesReported
PROPERTIES
    ReadersUndisturbed
    WaitersServed
