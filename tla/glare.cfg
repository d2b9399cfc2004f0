SPECIFICATION ExampleSpec
CONSTANTS
    c1 = c1
    c2 = c2
    Clients = {c1, c2}
    IdModulus = 3
    Wraps = FALSE
    BroadcastCapacity = 16
    ListenerCapacity = 16
    Unreliable = {}
    MayClose = {}
    Late = {}
INVARIANTS
    CallbacksSucceed
CHECK_DEADLOCK FALSE
