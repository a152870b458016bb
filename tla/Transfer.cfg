CONSTANTS
    NumPieces = 2
    MaxHolders = 2
    MaxAvail = 2
    Selections <- MCSelections
    NumFiles = 2
    FilesOf <- MCFilesOf
    Session = {s1, s2}
    Steady = {}
    Bitfields <- MCBitfields
    Haves = {0, 1}
    MaxMailbox = 2
    MaxEvents = 2
    MaxEdits = 0
    Behaviours = {"write"}
SPECIFICATION Spec
SYMMETRY MCSymmetry
INVARIANTS
    TransferTypeOK
    ReservationsExact
    AvailabilityExact
