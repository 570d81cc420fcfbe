SPECIFICATION Spec
CONSTANTS
    PageSize = 32
    Word = 65536
    Rows <- MCRows
    Size <- MCSize
    MaxPages = 2
    Noise <- MCNoise
INVARIANTS TypeOK TuplesIntact ScanReadsLiveRows RowsMetOnce ScanComplete
PROPERTIES ImplementsRowStore
CHECK_DEADLOCK FALSE
