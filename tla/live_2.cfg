SPECIFICATION PromptFairSpec
CONSTANTS
    c1 = c1
    c2 = c2
    Clients = {c1, c2}
    IdModulus = 3
    Wraps = FALSE
    BroadcastCapacity = 2
    ListenerCapacity = 2
    Unreliable = {}
    MayClose = {c1}
    Late = {}
PROPERTIES
    StartReturns
    OffersAnswered
    ChainSpec
CHECK_DEADLOCK FALSE
