CONSTANTS
    NumPieces = 2
    MaxHolders = 1
    MaxAvail = 1
    Selections <- MCSelections
    NumFiles = 2
    FilesOf <- MCFilesOf
    MaxQueue = 1
    Faults = {"hasty"}
SPECIFICATION Spec
INVARIANT ServableIsStored
