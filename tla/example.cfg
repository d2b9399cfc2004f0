SPECIFICATION PromptExampleSpec
CONSTANTS
    c1 = c1
    c2 = c2
    Clients = {c1, c2}
    IdModulus = 3
    Wraps = FALSE
    BroadcastCapacity = 1
    ListenerCapacity = 1
    Unreliable = {c1}
    MayClose = {}
    Late = {}
INVARIANTS
    ExampleTypeOK
    CallbacksFindTheirs
    OnlyGlareFails
    EchoSidesDiffer
PROPERTIES
    OffersEcho
    SignalRemovesTheDead
CHECK_DEADLOCK FALSE
