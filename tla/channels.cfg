SPECIFICATION TestFairSpec
CONSTANTS
    MaxStateChanges = 6
    MaxCandidates = 1
INVARIANTS
    TestTypeOK
    NoLostWakeup
PROPERTIES
    TestCompletes
CHECK_DEADLOCK FALSE
