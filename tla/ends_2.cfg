SPECIFICATION PromptSpec
CONSTANTS
    c1 = c1
    c2 = c2
    Clients = {c1, c2}
    IdModulus = 3
    Wraps = FALSE
    BroadcastCapacity = 1
    ListenerCapacity = 1
    Unreliable = {c1}
    MayClose = {c1, c2}
    Late = {}
INVARIANTS
    TypeOK
    LivePeersStayRegistered
    DiscoveryCoverage
    NoSignalLost
    ChainCausality
    NeverSelf
    ChangesInOrder
    NoDuplicateSignal
CHECK_DEADLOCK FALSE
