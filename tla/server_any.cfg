SPECIFICATION MCServerSpec
CONSTANTS
    c1 = c1
    c2 = c2
    Clients = {c1, c2}
    IdModulus = 3
    Wraps = FALSE
    BroadcastCapacity = 2
    ListenerCapacity = 1
    MaxChanges = 3
    CalledOps = {"advertise", "teardown", "open_listener", "signal"}
    CalledIds = {0, 1}
    CalledKinds = {"offer"}
SYMMETRY ClientSymmetry
INVARIANTS
    RemovalAnnounced
    AdditionAnnounced
PROPERTIES
    ListenerKept
    DirectorySpec
CHECK_DEADLOCK FALSE
