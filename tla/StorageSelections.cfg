CONSTANTS
    NumPieces = 1
    MaxHolders = 1
    MaxAvail = 1
    Selections <- MCSelections
    NumFiles = 3
    FilesOf <- MCFilesOfWithEmpty
    MaxQueue = 2
    Faults = {"open", "sync", "lazy", "hasty"}
SPECIFICATION Spec
INVARIANTS
    CurrentFlagsExact
    SelectionSettles
