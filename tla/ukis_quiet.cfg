SPECIFICATION Spec
CONSTANTS
    Count = 1
    MaxSnapshots = 2
    MaxKernels = 2
    MaxFaults = 1
    MaxRounds = 2
    AnyDelete = FALSE
CHECK_DEADLOCK FALSE
INVARIANT TypeOK
INVARIANT RefreshersCover
INVARIANT QuietCovered
INVARIANT UkiNotOlder
PROPERTY EventuallyCovered
