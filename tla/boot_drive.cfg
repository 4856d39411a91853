SPECIFICATION Spec
CONSTANTS
    Configs <- EnrollingConfigs
    Firmwares <- AnyFirmware
    MaxFaults = 3
    MaxReboots = 1
    MaxIds = 17
    MaxClones = 2
    MaxChanges = 1
    SilentFaults = TRUE
INVARIANT TypeOK
INVARIANT RecoveryBoots
INVARIANT SignedForFirmware
INVARIANT SigningKeyGone
PROPERTY SpareUnlocks
CHECK_DEADLOCK FALSE
