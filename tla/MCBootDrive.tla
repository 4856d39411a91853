----------------------------- MODULE MCBootDrive -----------------------------
(* Values of the constants of BootDrive for TLC. *)
EXTENDS BootDrive

\* with the default wipe and with wipe method skip, with and without the recovery system
EnrollingConfigs == {c \in ConfigType : c.enroll}
\* the default configuration, and one that never enrols
DefaultConfigs == {c \in ConfigType : c.wipe = "secure" /\ ~c.recovery}

AnyFirmware == {SetupMode, Foreign}
InSetupMode == {SetupMode}
=============================================================================
