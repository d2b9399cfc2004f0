SPECIFICATION PromptSpec
CONSTANTS
    c1 = c1
    c2 = c2
    c3 = c3
    Clients = {c1, c2, c3}
    IdModulus = 4
    Wraps = FALSE
    BroadcastCapacity = 1
    ListenerCapacity = 3
    Unreliable = {c1}
    MayClose = {}
    Late = {c2, c3}
SYMMETRY LateSymmetry
INVARIANTS
    LivePeersStayRegistered
    ChangesInOrder
    AnnouncedPeersAreDiscovered
    DiscoveryCoverage
    NoDuplicateSignal
    ChainCausality
CHECK_DEADLOCK FALSE
