CONSTANTS
    Addr = {steady, x, y}
    Steady = {steady}
    NumParts = 2
    MaxParallel = 2
    MaxPresses = 1
    Behaviours = {}
SPECIFICATION Spec
INVARIANTS
    ClaimsOwned
    RemovalExact
PROPERTIES
    MetadataArrives
    ShutdownCompletes
CHECK_DEADLOCK FALSE
