SPECIFICATION Spec
CONSTANTS
    h1 = h1
    h2 = h2
    h3 = h3
    zero = zero
    one = one
    nopage = nopage
    PoolSize = 2
    MaxPages = 3
    Handles <- MCHandles3
    Data <- MCOneData
    Zero = zero
    NoPage = nopage
    IOFaults <- MCFaulty
    MayCrash = TRUE
    DirtyNewPages = FALSE
SYMMETRY HandleSymmetry
INVARIANTS
    Bookkeeping
    HandlesStayValid
    NoFrameLeaks
