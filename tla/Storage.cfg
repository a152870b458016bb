CONSTANTS
    NumPieces = 2
    MaxHolders = 2
    MaxAvail = 1
    Selections <- MCSelections
    NumFiles = 2
    FilesOf <- MCFilesOf
    MaxQueue = 2
    Faults = {"write", "flush", "power", "kill", "delete"}
SPECIFICATION Spec
INVARIANTS
    StorageTypeOK
    RecordedIsDurable
    CompletedIsStored
    ServableIsStored
    AnnouncedIsDone
