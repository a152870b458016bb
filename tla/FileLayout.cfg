CONSTANTS
    NumFiles = 3
    MaxLen = 2
    MaxPieceLen = 3
SPECIFICATION Spec
CHECK_DEADLOCK FALSE
INVARIANTS
    SelectionArithmetic
    StoredInPlace
PROPERTY AllWritten
