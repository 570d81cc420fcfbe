SPECIFICATION Spec
CONSTANTS
    h1 = h1
    h2 = h2
    h3 = h3
    zero = zero
    one = one
    nopage = nopage
    PoolSize = 2
    MaxPages = 3
    Handles <- MCHandles2
    Data <- MCData
    Zero = zero
    NoPage = nopage
    IOFaults <- MCReliable
    MayCrash = TRUE
    DirtyNewPages = TRUE
SYMMETRY HandleSymmetry
INVARIANTS
    CleanMatchesDisk
PROPERTIES
    ImplementsPageStore
