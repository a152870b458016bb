CONSTANTS
    LastPiece = 2
    NumBlocks = 3
    BlockUnits = 2
    LastUnits = 1
    PipelineDepth = 2
    RetryTimeout = 2
    StallTimeout = 8
    ChokedTimeout = 2
    ReadChunk = 2
    MinBurst = 2
    Rates = {0, 2}
    MaxRateChanges = 1
    MaxChokes = 2
SPECIFICATION Spec
INVARIANTS
    StreamWhole
    BlocksExact
PROPERTY
    PiecesAssembled
CHECK_DEADLOCK FALSE
