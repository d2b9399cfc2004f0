SPECIFICATION Spec
CONSTANTS
    MaxStateChanges = 3
    MaxCandidates = 1
INVARIANT UnwrapSucceeds
CHECK_DEADLOCK FALSE
