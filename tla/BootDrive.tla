------------------------------ MODULE BootDrive ------------------------------
(***************************************************************************)
(* What makes an installation with a USB boot drive start: the drive's     *)
(* three partitions, the Secure Boot keys on the target and in the         *)
(* firmware, the signatures, the recovery system, and a spare drive.       *)
(*                                                                         *)
(* The installer's steps that touch these run in order, fail at any        *)
(* command, and are run again in place or after a reboot.  The storage     *)
(* step is reduced to what it means here: it keeps a mounted target, opens *)
(* the old one, or makes a new one without keys (Installation has it in    *)
(* full).  Keys, filesystem UUIDs and LUKS volumes are numbered as they    *)
(* are made; 0 is none.                                                    *)
(***************************************************************************)
EXTENDS Naturals

CONSTANTS
    Configs,        \* configurations the operator may install with
    Firmwares,      \* what the firmware has enrolled at first
    MaxFaults,      \* bound: commands that fail, raising or silently
    MaxReboots,     \* bound: reboots of the live system
    MaxIds,         \* bound: keys, UUIDs and volumes ever made
    MaxClones,      \* bound: spare drives ever started
    MaxChanges,     \* bound: changes of the LUKS passphrase
    SilentFaults    \* may commands that never raise fail?

Foreign == 1        \* the vendor's keys: numbered before any key made here
SetupMode == 0      \* no platform key enrolled

ConfigType == [recovery: BOOLEAN, enroll: BOOLEAN, wipe: {"secure", "skip"}]

ASSUME BootDriveAssumption ==
    /\ Configs \subseteq ConfigType
    /\ Firmwares \subseteq {SetupMode, Foreign}
    /\ MaxFaults \in Nat /\ MaxReboots \in Nat
    /\ MaxIds \in Nat /\ MaxIds >= Foreign
    /\ MaxClones \in Nat /\ MaxChanges \in Nat
    /\ SilentFaults \in BOOLEAN

NoHeader == [vol |-> 0, change |-> 0]
NoUki == [cert |-> 0, uuid |-> 0, signed |-> 0]
\* the keys the system's UKIs and the boot loader are signed with, the recovery UKI, its entry
EmptyEsp == [uki |-> 0, loader |-> 0, recovery |-> NoUki, entry |-> FALSE]
\* the recovery filesystem: its UUID, how much of the live system is in it, the key that
\* signed its image
NoThird == [uuid |-> 0, live |-> "none", sig |-> 0]
BlankDrive == [esp |-> EmptyEsp, header |-> NoHeader, third |-> NoThird]
NoTarget == [vol |-> 0, pk |-> 0, db |-> 0]

VARIABLES
    cfg, pc,
    drive,      \* the USB boot drive
    target,     \* the root filesystem: its volume, and the Secure Boot keys sbctl keeps in it
    firmware,   \* the platform key, or SetupMode
    mounted,    \* is the target mounted at /mnt, with the ESP?
    recMount,   \* is something mounted at RECOVERY_MOUNT?
    key,        \* the one-time key in RECOVERY_SIGNING_DIRECTORY
    local,      \* what the run has read: setup mode, recovery UUID, certificate it packed
    spare,      \* the spare drive
    cpc,        \* the command of clone-usb-boot about to run
    clone,      \* the clone under way: is there a third partition to copy, does the kernel see
                \* the spare's new partition table, the header written to the second partition
    reported,   \* clone-usb-boot said that the spare is a USB boot drive
    faults, silent, reboots, ids, clones, changes

medium == <<drive, target, firmware>>
live == <<mounted, recMount, key, local>>
cloning == <<spare, cpc, clone, reported, clones>>
bounds == <<faults, silent, reboots, ids, changes>>
vars == <<cfg, pc, medium, live, cloning, bounds>>

NoClone == [third |-> FALSE, seen |-> FALSE, header |-> NoHeader]
NothingRead == [setup |-> FALSE, uuid |-> 0, cert |-> 0]

Init ==
    /\ cfg \in Configs /\ pc = "idle"
    /\ drive = BlankDrive /\ target = NoTarget /\ firmware \in Firmwares
    /\ mounted = FALSE /\ recMount = FALSE /\ key = 0 /\ local = NothingRead
    /\ spare = BlankDrive /\ cpc = "idle" /\ reported = FALSE
    /\ clone = NoClone
    /\ faults = 0 /\ silent = 0 /\ reboots = 0 /\ ids = Foreign
    /\ clones = 0 /\ changes = 0

\* a command run with raise_on_nonzero_exit=False fails
SilentFault == SilentFaults /\ faults + silent < MaxFaults /\ silent' = silent + 1

\* a new key, UUID or volume
Fresh == ids + 1
TakeFresh == ids < MaxIds /\ ids' = Fresh

Goto(label) == pc' = label /\ UNCHANGED <<cfg, cloning, faults, reboots, changes>>

StartRun ==
    /\ pc \in {"idle", "failed"} /\ cpc = "idle"
    /\ \E c \in Configs : (pc = "idle" => c = cfg) /\ cfg' = c
    /\ pc' = "drive" /\ local' = NothingRead
    /\ UNCHANGED <<medium, mounted, recMount, key, cloning, bounds>>

Reboot ==
    /\ pc = "failed" /\ cpc = "idle" /\ reboots < MaxReboots
    /\ reboots' = reboots + 1
    /\ mounted' = FALSE /\ recMount' = FALSE /\ key' = 0 /\ local' = NothingRead
    /\ UNCHANGED <<cfg, pc, medium, cloning, faults, silent, ids, changes>>

-----------------------------------------------------------------------------
(* USB boot drive *)

keeps_existing_drive ==
    (mounted \/ cfg.wipe = "skip") /\ drive.header # NoHeader

DriveKeep ==
    /\ pc = "drive" /\ keeps_existing_drive
    /\ Goto("storage")
    /\ UNCHANGED <<medium, live, silent, ids>>

\* release what a previous attempt left in use, then new partitions: an old header is wiped,
\* the other two are formatted next.  One or more of the commands may fail silently
Partition ==
    /\ pc = "drive" /\ ~keeps_existing_drive
    /\ \E header \in {NoHeader, drive.header} :
          /\ drive' = [drive EXCEPT !.header = header,
                                   !.third = IF cfg.recovery THEN drive.third ELSE NoThird]
          /\ mounted' \in {FALSE, mounted} /\ recMount' \in {FALSE, recMount}
          /\ IF header = NoHeader /\ ~mounted' /\ ~recMount' THEN UNCHANGED silent ELSE SilentFault
    /\ Goto("format")
    /\ UNCHANGED <<target, firmware, key, local, ids>>

Format ==
    /\ pc = "format"
    /\ drive' = [drive EXCEPT !.esp = EmptyEsp]
    /\ Goto(IF cfg.recovery THEN "store" ELSE "storage")
    /\ UNCHANGED <<target, firmware, live, silent, ids>>

\* mkfs.ext4 and mount refuse while something is mounted there
StoreFormat ==
    /\ pc = "store"
    /\ IF recMount
       THEN Goto("failed") /\ UNCHANGED <<drive, recMount, ids>>
       ELSE /\ TakeFresh
            /\ drive' = [drive EXCEPT !.third = [NoThird EXCEPT !.uuid = Fresh]]
            /\ recMount' = TRUE
            /\ Goto("extract")
    /\ UNCHANGED <<target, firmware, mounted, key, local, silent>>

\* umount in a finally that raises nothing
Unmount ==
    \/ recMount' = FALSE /\ UNCHANGED silent
    \/ UNCHANGED recMount /\ SilentFault

Extract ==
    /\ pc = "extract"
    /\ drive' = [drive EXCEPT !.third.live = "whole"]
    /\ Unmount
    /\ Goto("storage")
    /\ UNCHANGED <<target, firmware, mounted, key, local, ids>>

-----------------------------------------------------------------------------
(* Storage, as far as the boot chain depends on it *)

StorageKeep ==
    /\ pc = "storage" /\ mounted
    /\ Goto("setup")
    /\ UNCHANGED <<medium, live, silent, ids>>

\* a header on the drive is opened; wipe method skip keeps the filesystem of its volume
StorageOpen ==
    /\ pc = "storage" /\ ~mounted /\ drive.header # NoHeader
    /\ target' = IF cfg.wipe = "skip" /\ target.vol = drive.header.vol THEN target
                 ELSE [NoTarget EXCEPT !.vol = drive.header.vol]
    /\ mounted' = TRUE
    /\ Goto("setup")
    /\ UNCHANGED <<drive, firmware, recMount, key, local, silent, ids>>

\* otherwise a new volume: the keys of an earlier target are gone
StorageNew ==
    /\ pc = "storage" /\ ~mounted /\ drive.header = NoHeader
    /\ TakeFresh
    /\ drive' = [drive EXCEPT !.header = [NoHeader EXCEPT !.vol = Fresh]]
    /\ target' = [NoTarget EXCEPT !.vol = Fresh]
    /\ mounted' = TRUE
    /\ Goto("setup")
    /\ UNCHANGED <<firmware, recMount, key, local, silent>>

-----------------------------------------------------------------------------
(* Kernel images: Secure Boot keys, UKIs *)

\* neither sbctl nor the EFI variable answering reads as not in Setup Mode
ReadSetupMode ==
    /\ pc = "setup"
    /\ \/ local' = [local EXCEPT !.setup = (firmware = SetupMode)] /\ UNCHANGED silent
       \/ UNCHANGED local /\ SilentFault
    /\ Goto("create")
    /\ UNCHANGED <<medium, mounted, recMount, key, ids>>

\* mutant: keys are created whether or not there are some
CreateKeysAgain ==
    /\ pc = "create"
    /\ TakeFresh
    /\ target' = [target EXCEPT !.pk = Fresh, !.db = Fresh]
    /\ Goto("enroll")
    /\ UNCHANGED <<drive, firmware, live, silent>>

\* sbctl create-keys unless PK.key exists; it may stop after making that one
CreateKeys ==
    /\ pc = "create"
    /\ IF target.pk # 0
       THEN UNCHANGED <<target, silent, ids>>
       ELSE /\ TakeFresh
            /\ \/ target' = [target EXCEPT !.pk = Fresh, !.db = Fresh] /\ UNCHANGED silent
               \/ target' \in {target, [target EXCEPT !.pk = Fresh]} /\ SilentFault
    /\ Goto("enroll")
    /\ UNCHANGED <<drive, firmware, live>>

\* in Setup Mode, if configured; a failure, without all the keys for one, is only a warning
EnrollKeys ==
    /\ pc = "enroll"
    /\ \/ /\ firmware' = IF local.setup /\ cfg.enroll /\ target.db # 0 THEN target.db ELSE firmware
          /\ UNCHANGED silent
       \/ local.setup /\ cfg.enroll /\ UNCHANGED firmware /\ SilentFault
    /\ Goto("ukis")
    /\ UNCHANGED <<drive, target, live, ids>>

\* mkinitcpio -P
BuildUkis ==
    /\ pc = "ukis"
    /\ drive' = [drive EXCEPT !.esp.uki = 0]
    /\ Goto("sign")
    /\ UNCHANGED <<target, firmware, live, silent, ids>>

\* nothing is signed without db.key, and a failure raises nothing
SignUkis ==
    /\ pc = "sign"
    /\ \/ drive' = [drive EXCEPT !.esp.uki = target.db] /\ UNCHANGED silent
       \/ UNCHANGED drive /\ SilentFault
    /\ Goto("loader")
    /\ UNCHANGED <<target, firmware, live, ids>>

\* bootctl install, loader.conf, then the signature, without which nothing is raised
Bootloader ==
    /\ pc = "loader"
    /\ \/ drive' = [drive EXCEPT !.esp.loader = target.db] /\ UNCHANGED silent
       \/ drive' = [drive EXCEPT !.esp.loader = 0] /\ SilentFault
    /\ Goto(IF cfg.recovery THEN "rec_mount" ELSE "finish")
    /\ UNCHANGED <<target, firmware, live, ids>>

-----------------------------------------------------------------------------
(* Recovery system *)

\* blkid, mount and the version file of the live system: each raises if it is not there.
\* Nothing tells a live system that was extracted in part from a whole one
RecoveryMount ==
    /\ pc = "rec_mount"
    /\ IF drive.third.live # "none" /\ ~recMount
       THEN /\ local' = [local EXCEPT !.uuid = drive.third.uuid]
            /\ recMount' = TRUE
            /\ Goto("rec_key")
       ELSE UNCHANGED <<local, recMount>> /\ Goto("failed")
    /\ UNCHANGED <<medium, mounted, key, silent, ids>>

\* the signing directory of an earlier run is removed, a new one-time key is made
RecoveryKey ==
    /\ pc = "rec_key"
    /\ TakeFresh /\ key' = Fresh
    /\ Goto("rec_sign")
    /\ UNCHANGED <<medium, mounted, recMount, local, silent>>

\* mutant: the key stays with the certificate
SignRootImageKeepsKey ==
    /\ pc = "rec_sign"
    /\ drive' = [drive EXCEPT !.third.sig = key]
    /\ local' = [local EXCEPT !.cert = key]
    /\ Goto("rec_build")
    /\ UNCHANGED <<target, firmware, mounted, recMount, key, silent, ids>>

\* openssl cms -sign; rm of the key in a finally; the certificate goes to the build directory
SignRootImage ==
    /\ pc = "rec_sign"
    /\ drive' = [drive EXCEPT !.third.sig = key]
    /\ local' = [local EXCEPT !.cert = key]
    /\ \/ key' = 0 /\ UNCHANGED silent
       \/ UNCHANGED key /\ SilentFault
    /\ Goto("rec_build")
    /\ UNCHANGED <<target, firmware, mounted, recMount, ids>>

\* mutant: a recovery UKI that is there already is kept
BuildRecoveryUkiOnce ==
    /\ pc = "rec_build"
    /\ drive' = IF drive.esp.recovery # NoUki THEN drive
                ELSE [drive EXCEPT !.esp.recovery =
                         [cert |-> local.cert, uuid |-> local.uuid, signed |-> 0]]
    /\ recMount' = FALSE
    /\ Goto("rec_entry")
    /\ UNCHANGED <<target, firmware, mounted, key, local, silent, ids>>

\* ukify, then umount and rm in the finally; rm -rf of the signing directory went before
BuildRecoveryUki ==
    /\ pc = "rec_build"
    /\ drive' = [drive EXCEPT !.esp.recovery =
                    [cert |-> local.cert, uuid |-> local.uuid, signed |-> 0]]
    /\ Unmount
    /\ Goto("rec_entry")
    /\ UNCHANGED <<target, firmware, mounted, key, local, ids>>

RecoveryEntry ==
    /\ pc = "rec_entry"
    /\ drive' = [drive EXCEPT !.esp.entry = TRUE]
    /\ Goto("rec_sign_uki")
    /\ UNCHANGED <<target, firmware, live, silent, ids>>

\* this signature raises when it fails; without db.key the UKI stays unsigned
SignRecoveryUki ==
    /\ pc = "rec_sign_uki"
    /\ drive' = [drive EXCEPT !.esp.recovery.signed = target.db]
    /\ Goto("finish")
    /\ UNCHANGED <<target, firmware, live, silent, ids>>

Finish ==
    /\ pc = "finish"
    /\ Goto("complete")
    /\ UNCHANGED <<medium, live, silent, ids>>

-----------------------------------------------------------------------------
(* Faults *)

RecoverySteps == {"extract", "rec_key", "rec_sign", "rec_build"}
Running == {"drive", "format", "store", "storage", "setup", "create", "enroll", "ukis", "sign",
            "loader", "rec_mount", "rec_entry", "rec_sign_uki", "finish"} \union RecoverySteps

\* what a command that dies has done to the drive: all before it, or a part of its own
HalfDone ==
    CASE pc = "drive" /\ ~keeps_existing_drive /\ ~mounted'
            -> {drive, [drive EXCEPT !.header = NoHeader, !.third = NoThird]}
      [] pc = "format" -> {drive, [drive EXCEPT !.esp = EmptyEsp]}
      [] pc = "store" -> {drive, [drive EXCEPT !.third = NoThird]}
      [] pc = "extract" -> {drive, [drive EXCEPT !.third.live = "half"]}
      [] pc = "ukis" -> {drive, [drive EXCEPT !.esp.uki = 0]}
      [] pc = "loader" -> {drive, [drive EXCEPT !.esp.loader = 0]}
      [] pc = "rec_sign" -> {drive, [drive EXCEPT !.third.sig = 0]}
      [] pc = "rec_build" -> {drive, [drive EXCEPT !.esp.recovery = NoUki]}
      [] OTHER -> {drive}

\* an error the runner raises, or Ctrl-C, which may also stop sbctl create-keys half way;
\* the finally blocks unmount the recovery partition and remove the one-time key
Fault ==
    /\ pc \in Running /\ faults + silent < MaxFaults
    /\ faults' = faults + 1
    /\ pc' = "failed"
    /\ mounted' \in {mounted} \union
          (IF pc = "drive" /\ ~keeps_existing_drive THEN {FALSE} ELSE {})
    /\ drive' \in HalfDone
    /\ target' \in {target} \union
          (IF pc = "create" /\ target.pk = 0 /\ ids < MaxIds
           THEN {[target EXCEPT !.pk = Fresh]} ELSE {})
    /\ ids' = IF target' # target THEN Fresh ELSE ids
    /\ recMount' = (recMount /\ pc \notin RecoverySteps)
    /\ key' \in (IF pc = "rec_sign" THEN {} ELSE {key})
               \union (IF pc \in {"rec_key", "rec_sign"} THEN {0} ELSE {})
    /\ UNCHANGED <<cfg, firmware, local, cloning, silent, reboots, changes>>

\* the header of the new volume is written, its filesystem is not (Installation has the
\* targets that are mounted in part)
StorageFails ==
    /\ pc = "storage" /\ ~mounted /\ drive.header = NoHeader /\ faults + silent < MaxFaults
    /\ TakeFresh
    /\ faults' = faults + 1
    /\ pc' = "failed"
    /\ drive' = [drive EXCEPT !.header = [NoHeader EXCEPT !.vol = Fresh]]
    /\ target' = NoTarget
    /\ UNCHANGED <<cfg, firmware, live, cloning, silent, reboots, changes>>

Step ==
    \/ DriveKeep \/ Partition \/ Format \/ StoreFormat \/ Extract
    \/ StorageKeep \/ StorageOpen \/ StorageNew
    \/ ReadSetupMode \/ CreateKeys \/ EnrollKeys \/ BuildUkis \/ SignUkis \/ Bootloader
    \/ RecoveryMount \/ RecoveryKey \/ SignRootImage \/ BuildRecoveryUki
    \/ RecoveryEntry \/ SignRecoveryUki \/ Finish

-----------------------------------------------------------------------------
(* clone-usb-boot: a spare with the same partitions and contents *)

\* from a drive with a LUKS header; the new partition table shows what is left on the spare.
\* When the kernel does not take the table over, the copies go where the old one points
CloneStart ==
    /\ cpc = "idle" /\ pc \in {"failed", "complete"} /\ clones < MaxClones
    /\ drive.header # NoHeader
    /\ clones' = clones + 1 /\ cpc' = "esp" /\ reported' = FALSE
    /\ LET third == drive.third # NoThird IN
          /\ spare' = IF third THEN spare ELSE [spare EXCEPT !.third = NoThird]
          /\ \/ clone' = [NoClone EXCEPT !.third = third, !.seen = TRUE] /\ UNCHANGED silent
             \/ clone' = [NoClone EXCEPT !.third = third] /\ SilentFault
    /\ UNCHANGED <<cfg, pc, medium, live, faults, reboots, ids, changes>>

\* mutant: every partition is copied to the first of the spare
CopiedToFirst(part) == IF clone.seen THEN [spare EXCEPT !.esp = drive[part]] ELSE spare

\* dd of one partition to the spare
Copied(part) == IF clone.seen THEN [spare EXCEPT ![part] = drive[part]] ELSE spare

CopyTo(part, label) ==
    /\ spare' = Copied(part)
    /\ cpc' = label
    /\ UNCHANGED <<cfg, pc, medium, live, reported, clones, bounds>>

CloneEsp == cpc = "esp" /\ CopyTo("esp", "header") /\ UNCHANGED clone

CloneHeader ==
    /\ cpc = "header"
    /\ CopyTo("header", IF clone.third THEN "third" ELSE "compare")
    /\ clone' = [clone EXCEPT !.header = drive.header]

CloneThird == cpc = "third" /\ CopyTo("third", "compare") /\ UNCHANGED clone

\* mutant: the headers are not compared
CloneReport ==
    /\ cpc = "compare"
    /\ cpc' = "idle" /\ clone' = NoClone
    /\ reported' = TRUE
    /\ UNCHANGED <<cfg, pc, medium, live, spare, clones, bounds>>

\* cmp raises unless the two header partitions are the same
CloneCompare ==
    /\ cpc = "compare"
    /\ cpc' = "idle" /\ clone' = NoClone
    /\ reported' = (clone.header = drive.header)
    /\ UNCHANGED <<cfg, pc, medium, live, spare, clones, bounds>>

\* what a dd that dies leaves: a filesystem or a header that is of no use
Torn ==
    CASE cpc = "esp" -> [spare EXCEPT !.esp = EmptyEsp]
      [] cpc = "header" -> [spare EXCEPT !.header = NoHeader]
      [] cpc = "third" -> [spare EXCEPT !.third = NoThird]
      [] OTHER -> spare

CloneFails ==
    /\ cpc # "idle" /\ faults + silent < MaxFaults
    /\ faults' = faults + 1
    /\ spare' \in {spare, Torn}
    /\ cpc' = "idle" /\ clone' = NoClone
    /\ UNCHANGED <<cfg, pc, medium, live, reported, clones, silent, reboots, ids, changes>>

\* the operator changes the passphrase, perhaps while the drive is being cloned
ChangePassphrase ==
    /\ pc = "complete" /\ drive.header # NoHeader /\ changes < MaxChanges
    /\ changes' = changes + 1
    /\ drive' = [drive EXCEPT !.header.change = @ + 1]
    /\ UNCHANGED <<cfg, pc, target, firmware, live, cloning, faults, silent, reboots, ids>>

-----------------------------------------------------------------------------
Clone == CloneStart \/ CloneEsp \/ CloneHeader \/ CloneThird \/ CloneCompare \/ CloneFails

Next == StartRun \/ Reboot \/ Step \/ Fault \/ StorageFails \/ Clone \/ ChangePassphrase

Spec == Init /\ [][Next]_vars

Ids == 0..MaxIds
UkiType == [cert: Ids, uuid: Ids, signed: Ids]
EspType == [uki: Ids, loader: Ids, recovery: UkiType, entry: BOOLEAN]
HeaderType == [vol: Ids, change: 0..MaxChanges]
ThirdType == [uuid: Ids, live: {"none", "half", "whole"}, sig: Ids]
DriveType == [esp: EspType, header: HeaderType, third: ThirdType]
TargetType == [vol: Ids, pk: Ids, db: Ids]
LocalType == [setup: BOOLEAN, uuid: Ids, cert: Ids]
CloneType == [third: BOOLEAN, seen: BOOLEAN, header: HeaderType]

\* Every variable has its type: a partition holds what its kind of filesystem can hold, and
\* no counter passes its bound.
TypeOK ==
    /\ cfg \in Configs
    /\ pc \in Running \union {"idle", "failed", "complete"}
    /\ drive \in DriveType /\ spare \in DriveType
    /\ target \in TargetType /\ firmware \in Ids /\ key \in Ids
    /\ mounted \in BOOLEAN /\ recMount \in BOOLEAN /\ reported \in BOOLEAN
    /\ local \in LocalType
    /\ cpc \in {"idle", "esp", "header", "third", "compare"}
    /\ clone \in CloneType
    /\ ids \in Ids /\ reboots \in 0..MaxReboots
    /\ clones \in 0..MaxClones /\ changes \in 0..MaxChanges
    /\ faults \in Nat /\ silent \in Nat /\ faults + silent <= MaxFaults

\* A completed installation with a recovery system has one that starts: the entry leads to a
\* UKI that names the filesystem on the drive, carries the certificate of the one-time key
\* that signed the live system there, and is signed like the system's own, whichever steps
\* of which earlier runs failed (recovery.py signs and packs anew in every run).  And the live
\* system is whole, although only its version file is read: a run after a cut-short
\* extraction makes the drive anew (_keeps_existing_drive finds no header yet).  That last
\* part needs the header to be gone by then, so it is claimed only when no command failed
\* silently: after a wipefs that did, a truncated live system is kept and signed.
RecoveryBoots ==
    pc = "complete" /\ cfg.recovery =>
        /\ drive.esp.entry /\ drive.third.live # "none"
        /\ silent = 0 => drive.third.live = "whole"
        /\ drive.esp.recovery =
              [cert |-> drive.third.sig, uuid |-> drive.third.uuid, signed |-> target.db]
        /\ drive.third.sig # 0

\* When every command that never raises succeeded, the UKIs and the boot loader of a completed
\* installation are signed with the keys on its root filesystem, and if the firmware has keys
\* that this root filesystem ever held, these are they: a resumed run of _prepare_secure_boot
\* makes no second set.  (Keys are numbered after the volume they were made on.)
SignedForFirmware ==
    pc = "complete" /\ silent = 0 /\ target.db # 0 =>
        /\ drive.esp.uki = target.db /\ drive.esp.loader = target.db
        /\ firmware > target.vol => firmware = target.db

\* The private key that can sign a recovery system never outlives the run: _sign_root_image
\* removes it however it ends.
SigningKeyGone == pc \in {"failed", "complete"} /\ silent = 0 => key = 0

\* A drive that clone-usb-boot reports as a spare unlocks and boots the system just as the
\* original does then, although the header may have changed while it was copied and the spare
\* holds what an earlier clone left.
SpareUnlocks ==
    [][~reported /\ reported' /\ silent = 0 => spare' = drive]_vars

\* An installation whose run enrolled keys boots with Secure Boot: the firmware accepts the
\* UKIs of a completed installation (docs/secure-boot.md, steps 5 to 8).
FirmwareAccepts ==
    pc = "complete" /\ target.db # 0 /\ firmware > Foreign => drive.esp.uki = firmware
=============================================================================
