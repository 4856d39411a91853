SPECIFICATION Spec
CONSTANTS
    at = at
    home = home
    Subvolumes <- ModelSubvolumes
    Root = at
    Home = home
    Configs <- ErasingConfigs
    Starts <- BlankStarts
    MaxFaults = 2
    MaxReboots = 4
    MaxVolumes = 8
    SilentFaults = FALSE
    RebootFirst = TRUE
    Reconfigure = FALSE
CHECK_DEADLOCK FALSE
PROPERTY EventuallyComplete
