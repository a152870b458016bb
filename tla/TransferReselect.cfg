CONSTANTS
    NumPieces = 2
    MaxHolders = 1
    MaxAvail = 1
    Selections <- MCSelections
    NumFiles = 2
    FilesOf <- MCFilesOf
    Session = {s1, s2}
    Steady = {}
    Bitfields <- MCSeedBitfield
    Haves = {}
    MaxMailbox = 1
    MaxEvents = 8
    MaxEdits = 2
    Behaviours = {"abort"}
SPECIFICATION Spec
SYMMETRY MCSymmetry
INVARIANTS
    InterestKept
    ServableAdvertised
