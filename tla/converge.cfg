SPECIFICATION Spec
CONSTANTS
    at = at
    home = home
    Subvolumes <- ModelSubvolumes
    Root = at
    Home = home
    Configs <- FreshConfigs
    Starts <- BlankStarts
    MaxFaults = 1
    MaxReboots = 1
    MaxVolumes = 6
    SilentFaults = TRUE
    RebootFirst = FALSE
    Reconfigure = FALSE
CHECK_DEADLOCK FALSE
INVARIANT CompleteConverged
