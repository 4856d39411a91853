SPECIFICATION Spec
CONSTANTS
    at = at
    home = home
    Subvolumes <- ModelSubvolumes
    Root = at
    Home = home
    Configs <- WipingConfigs
    Starts <- BlankStarts
    MaxFaults = 1
    MaxReboots = 0
    MaxVolumes = 6
    SilentFaults = FALSE
    RebootFirst = FALSE
    Reconfigure = FALSE
CHECK_DEADLOCK FALSE
PROPERTY EventuallyComplete
