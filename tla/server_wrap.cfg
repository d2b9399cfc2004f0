SPECIFICATION MCServerSpec
CONSTANTS
    c1 = c1
    c2 = c2
    Clients = {c1, c2}
    IdModulus = 2
    Wraps = TRUE
    BroadcastCapacity = 1
    ListenerCapacity = 1
    MaxChanges = 2
    CalledOps = {"advertise", "open_listener", "open_peer_listener", "peer_discover"}
    CalledIds = {0}
    CalledKinds = {"offer"}
SYMMETRY ClientSymmetry
INVARIANTS
    ServerTypeOK
PROPERTIES
    ListenerKept
CHECK_DEADLOCK FALSE
