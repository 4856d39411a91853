SPECIFICATION Spec
CONSTANTS
    at = at
    home = home
    Subvolumes <- ModelSubvolumes
    Root = at
    Home = home
    Configs <- AllConfigs
    Starts <- AllStarts
    MaxFaults = 3
    MaxReboots = 1
    MaxVolumes = 6
    SilentFaults = TRUE
    RebootFirst = FALSE
    Reconfigure = FALSE
CHECK_DEADLOCK FALSE
INVARIANT TypeOK
INVARIANT CompleteUnlocks
INVARIANT CompleteLayout
INVARIANT OldDataSafe
PROPERTY MigrationPreserves
