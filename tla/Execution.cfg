SPECIFICATION Spec
CONSTANTS
    Tables = {t, u}
    Names = {a, b}
    Cols = {1, 2}
    Vals = {v, w}
    Setters <- MCSetters
    Error = Error
    Noise <- MCNoise
    KeyAttrs <- MCKeyAttrs
    MaxOid = 2
    MaxSlots = 2
    Deleted = Deleted
INVARIANTS TypeOK IndexAgrees InsertExact SelectExact ModifyExact
SYMMETRY Interchangeable
CHECK_DEADLOCK FALSE
