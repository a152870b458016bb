CONSTANTS
    NumPieces = 3
    MaxHolders = 3
    MaxAvail = 2
    Selections <- MCSelections
SPECIFICATION ManagerSpec
INVARIANTS
    TypeOK
    NoWantedPieceLost
    MissingIsUnassigned
    DoneMeansAllWanted
    ManagerInv
PROPERTY NeverAssignsCompleted
