SPECIFICATION Spec
CONSTANTS
    Count = 1
    MaxSnapshots = 2
    MaxKernels = 2
    MaxFaults = 0
    MaxRounds = 2
    AnyDelete = FALSE
CHECK_DEADLOCK FALSE
INVARIANT PreviousStateBoots
