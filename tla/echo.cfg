SPECIFICATION FairSpec
CONSTANTS
    MaxStateChanges = 4
    MaxCandidates = 1
INVARIANTS
    EchoTypeOK
    EchoAlternates
    TimeoutFollows
    UnwrapExplained
PROPERTIES
    EchoStarts
    FailureEnds
CHECK_DEADLOCK FALSE
