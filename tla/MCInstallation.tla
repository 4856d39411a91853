--------------------------- MODULE MCInstallation ---------------------------
(* Values of the constants of Installation for TLC. *)
EXTENDS Installation

CONSTANTS at, home   \* the subvolumes @ and @home

ModelSubvolumes == {at, home}

\* every configuration validate_for_install accepts that does not migrate
FreshConfigs ==
    {c \in ConfigType : ~c.migration /\ c.source = "old" /\ validate_for_install(c)}

\* a migration, with the header on the disk or on a drive
MigrationConfigs ==
    {c \in ConfigType : c.migration /\ c.wipe = "quick" /\ ~c.swap}

AllConfigs == FreshConfigs \union MigrationConfigs

WipingConfigs == {c \in FreshConfigs : c.wipe # "skip"}

\* the ones whose wipe erases an old LUKS header too
ErasingConfigs == {c \in FreshConfigs : c.wipe \in {"secure", "discard"}}

AllStarts == {s \in StartType : s.disk = "none" => s.home /\ s.password = "old"}
BlankStarts == {s \in AllStarts : s.disk = "none"}
=============================================================================
