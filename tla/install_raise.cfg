SPECIFICATION Spec
CONSTANTS
    at = at
    home = home
    Subvolumes <- ModelSubvolumes
    Root = at
    Home = home
    Configs <- AllConfigs
    Starts <- AllStarts
    MaxFaults = 2
    MaxReboots = 1
    MaxVolumes = 6
    SilentFaults = FALSE
    RebootFirst = FALSE
    Reconfigure = TRUE
CHECK_DEADLOCK FALSE
INVARIANT OldDataSafe
PROPERTY OpenVolumeKeepsHeader
PROPERTY MigrationPreserves
