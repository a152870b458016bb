CONSTANTS
    a1 = a1
    a2 = a2
    bad = bad
    Addr = {a1, a2, bad}
    NoAddr = none
    Undialable = {bad}
    Task = {1, 2}
    PeerLists <- MCPeerLists
    NumTrackers = 2
    MaxActive = 1
    MaxQueued = 2
    PeerThreshold = 1
    MaxSlots = 1
    MaxInbound = 1
    MaxEvents = 2
    MaxAnnounces = 2
    Behaviours = {}
SPECIFICATION Spec
INVARIANTS
    TasksTracked
    AnnounceNeverStuck
    CompletedOwed
    StopReachesSessions
    SlotsExact
CHECK_DEADLOCK FALSE
