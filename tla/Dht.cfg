CONSTANTS
    n0 = n0
    n1 = n1
    n2 = n2
    n3 = n3
    Node = {n0, n1, n2, n3}
    IdOf <- MCIdOf
    PseudoIdOf <- MCPseudoIdOf
    Known <- MCKnown
    Bits = 3
    BucketSize = 1
    Searcher = {n0, n3}
    Announcer = {n3}
    InfoHash <- MCInfoHash
    Alpha = 2
    K = 2
    MaxShortList = 3
    MaxAnnounced = 2
    MaxPending = 3
    MaxRotations <- MCMaxRotations
    Behaviours = {}
SPECIFICATION Spec
INVARIANTS
    TableOrdered
    AnsweredAreAnnounced
    AnnounceAccepted
    PeerFound
CHECK_DEADLOCK FALSE
