SPECIFICATION Spec
CONSTANTS
    Frames = {0, 1, 2}
    K = 2
    MaxTimestamp = 7
INVARIANTS
    TypeOK
    VictimIsLRUK
    SizeCountsEvictable
PROPERTIES
    ImplementsReplacer
