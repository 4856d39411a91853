SPECIFICATION Spec
CONSTANTS
    Configs <- DefaultConfigs
    Firmwares <- InSetupMode
    MaxFaults = 1
    MaxReboots = 1
    MaxIds = 6
    MaxClones = 0
    MaxChanges = 0
    SilentFaults = FALSE
INVARIANT FirmwareAccepts
CHECK_DEADLOCK FALSE
