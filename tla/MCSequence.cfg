SPECIFICATION Spec
CONSTANTS
    ByteValues = 2
    TypeMin = 0
    TypeMax = 7
    MinValue = 2
    MaxValue = 6
    Bounds <- MCBounds
INVARIANTS
    RangeIsExact
    ValuesAgree
CHECK_DEADLOCK FALSE
