SPECIFICATION Spec
CONSTANTS
    PageSize = 32
    Word = 65536
    Rows <- MCRows
    Size <- MCSize
    MaxPages = 2
    Noise <- MCNoise
PROPERTIES UpdatesPerformed
CHECK_DEADLOCK FALSE
