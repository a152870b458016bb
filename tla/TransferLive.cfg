CONSTANTS
    NumPieces = 2
    MaxHolders = 1
    MaxAvail = 2
    Selections <- MCSelections
    NumFiles = 1
    FilesOf <- MCOneFile
    Session = {s1, s2}
    Steady = {s1}
    Bitfields <- MCSeedBitfield
    Haves = {}
    MaxMailbox = 1
    MaxEvents = 1
    MaxEdits = 0
    Behaviours = {"check", "pause"}
SPECIFICATION FairSpec
PROPERTY DownloadFinishes
