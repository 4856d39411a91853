---------------------------- MODULE Installation ----------------------------
(***************************************************************************)
(* The DALI installer as a process that works on a disk, a USB boot drive  *)
(* and the live system, fails at any command, and is run again.            *)
(*                                                                         *)
(* cli.py validates a configuration; installer.py runs the enabled steps   *)
(* of registry.py in order: migration staging, USB boot drive, storage,    *)
(* packages, migration restore, configuration steps, kernel images, boot   *)
(* loader, USB safeguards.  Nothing records how far a run came: the next   *)
(* run looks at what is mounted, which LUKS headers exist and which        *)
(* filesystem is inside, and decides from that what to keep.               *)
(*                                                                         *)
(* A command that raises ends the run (a fault, pc = "failed").  A command *)
(* run with raise_on_nonzero_exit=False that fails leaves no trace (a      *)
(* silent fault).  Both are bounded together by MaxFaults.                 *)
(***************************************************************************)
EXTENDS Naturals, FiniteSets

CONSTANTS
    Configs,      \* configurations the operator may install with
    Starts,       \* what the disk and the USB drive hold at first
    Subvolumes,   \* storage.btrfs.subvolumes
    Root,         \* the subvolume named @
    Home,         \* the subvolume named @home
    MaxFaults,    \* bound: commands that fail, raising or silently
    MaxReboots,   \* bound: reboots of the live system
    MaxVolumes,   \* bound: LUKS volumes ever made
    SilentFaults, \* may commands that never raise fail?
    RebootFirst,  \* does the operator reboot before running again?
    Reconfigure   \* may the operator change the configuration between runs?

Passwords == {"new", "old"}       \* "new" is the configured luks_password
Keyslots == Passwords \union {"none"}   \* "none": nothing unlocks the header
WipeMethods == {"quick", "secure", "discard", "skip"}
Layouts == {"ours", "other"}      \* where partition 2 starts: as configured, or not
Places == Layouts \union {"none", "stick"}   \* "none": no such partition
Devices == {"none", "part", "disk"}
Items == {"home", "keys"}         \* what migration preserves
Trees == {"top", "root"}          \* btrfs top level, subvolume @
OsStates == {"none", "bare", "partial", "full"}
Mounts == Subvolumes \union {"top", "efi"}
Entries == Mounts \union {"swap"}

ConfigType == [usb: BOOLEAN, migration: BOOLEAN, wipe: WipeMethods,
               swap: BOOLEAN, source: Passwords]
StartType == [disk: Layouts \union {"none"}, password: Passwords,
              home: BOOLEAN, stick: Passwords \union {"none"}]

ASSUME ConstantsAssumption ==
    /\ Configs \subseteq ConfigType
    /\ Starts \subseteq StartType
    /\ Root \in Subvolumes /\ Home \in Subvolumes
    /\ {"top", "efi", "swap"} \cap Subvolumes = {}
    /\ MaxFaults \in Nat /\ MaxReboots \in Nat /\ MaxVolumes \in Nat
    /\ SilentFaults \in BOOLEAN /\ RebootFirst \in BOOLEAN
    /\ Reconfigure \in BOOLEAN

VARIABLES
    cfg,      \* the configuration of the current run
    pc,       \* the command the run is about to execute
    table,    \* the target disk's partition table
    header,   \* LUKS header at each place; vol 0 means there is none
    fs,       \* the one btrfs on the disk, readable under the volume fs.vol
    filled,   \* is the disk filled with random data?
    mapper,   \* /dev/mapper/cryptroot
    mnt,      \* what is mounted at and below /mnt
    swapOn,   \* is the swapfile active on the live system?
    staged,   \* items in /tmp/migration-staging
    overlooked, \* items on the old system that its inspection did not find
    owed,     \* history: the items migration still has to preserve
    faults, reboots, volumes

disk == <<table, header, fs, filled>>
live == <<mapper, mnt, swapOn, staged>>
bounds == <<faults, reboots, volumes>>
promise == <<owed, overlooked>>
vars == <<cfg, pc, disk, live, promise, bounds>>

-----------------------------------------------------------------------------
(* Configuration *)

NoHeader == [vol |-> 0, pwd |-> "old"]
NoMapper == [vol |-> 0, dev |-> "none"]

NewFs(v) == [vol |-> v, subvols |-> {}, os |-> [t \in Trees |-> "none"],
             fstab |-> [t \in Trees |-> {}], swap |-> "none", items |-> {}]

NoFs == NewFs(0)

\* an earlier encrypted install: @ and @home, or @ with /home as one of its directories
OldFs(home) ==
    LET subvols == IF home THEN {Root, Home} ELSE {Root} IN
    [NewFs(1) EXCEPT !.subvols = subvols,
                     !.os = [t \in Trees |-> IF t = "root" THEN "full" ELSE "none"],
                     !.fstab = [t \in Trees |->
                                  IF t = "root" THEN subvols \union {"efi"} ELSE {}],
                     !.items = Items]

\* validate_for_install: with a detached header, quick and discard are refused
validate_for_install(c) ==
    c.usb /\ ~c.migration => c.wipe \notin {"quick", "discard"}

\* partition 2 of the drive, or of whatever table the disk has
luks_header_device(c) == IF c.usb THEN "stick" ELSE table
encrypted_device(c) == IF c.usb THEN "disk" ELSE "part"

wipe_method(c) ==
    IF c.migration THEN (IF c.usb THEN "secure" ELSE "quick") ELSE c.wipe

\* mountpoint -q /mnt
TargetMounted == mnt # {}

\* the tree that is mounted at /mnt
Tree == IF "top" \in mnt THEN "top" ELSE "root"

SilentFault == SilentFaults /\ faults < MaxFaults /\ faults' = faults + 1

-----------------------------------------------------------------------------
(* The order of the steps *)

AfterStaging == IF cfg.usb THEN "usb" ELSE "storage"
AfterPackages == IF cfg.migration THEN "restore" ELSE "configure"
\* mutant: the last label is not one the installer knows
UnknownLastStep == IF cfg.usb THEN "safeguards" ELSE "done"

AfterSnapshots == IF cfg.usb THEN "safeguards" ELSE "finish"

Init ==
    \E c \in Configs, s \in Starts :
        /\ cfg = c
        /\ pc = "idle"
        /\ table = s.disk
        /\ header = [p \in Places |->
              IF p = s.disk /\ p # "none" THEN [vol |-> 1, pwd |-> s.password]
              ELSE IF p = "stick" /\ s.stick # "none" THEN [vol |-> 2, pwd |-> s.stick]
              ELSE NoHeader]
        /\ fs = IF s.disk = "none" THEN NoFs ELSE OldFs(s.home)
        /\ filled = FALSE
        /\ mapper = NoMapper
        /\ mnt = {}
        /\ swapOn = FALSE
        /\ staged = {}
        /\ owed = IF s.disk = "none" THEN {} ELSE Items
        /\ overlooked = {}
        /\ faults = 0 /\ reboots = 0 /\ volumes = 2

\* make install; a failed run is started again, after a reboot if the operator does so.
\* An installation without migration gives up the data on the disk.
StartRun ==
    /\ pc \in {"idle", "failed"}
    /\ RebootFirst => mapper.vol = 0 /\ mnt = {} /\ staged = {}
    /\ \E c \in Configs :
          /\ pc = "failed" /\ ~Reconfigure => c = cfg
          /\ pc = "idle" => c = cfg
          /\ validate_for_install(c)
          /\ cfg' = c
          /\ pc' = IF c.migration THEN "stage" ELSE IF c.usb THEN "usb" ELSE "storage"
          /\ owed' = IF c.migration THEN owed ELSE {}
          /\ overlooked' = IF c.migration THEN overlooked ELSE {}
    /\ UNCHANGED <<disk, live, bounds>>

\* an item can be read from the disk: the header of the volume it is in is in its place
OnDisk(i) ==
    /\ i \in fs.items
    /\ \E p \in {table, "stick"} : header[p].vol # 0 /\ header[p].vol = fs.vol

\* the live system and everything it only holds in memory go; the disk and the drive stay
Reboot ==
    /\ pc = "failed"
    /\ mapper.vol # 0 \/ mnt # {} \/ staged # {}
    /\ reboots < MaxReboots
    /\ reboots' = reboots + 1
    /\ mapper' = NoMapper /\ mnt' = {} /\ swapOn' = FALSE /\ staged' = {}
    /\ owed' = {i \in owed : OnDisk(i)}
    /\ UNCHANGED <<cfg, pc, disk, overlooked, faults, volumes>>

Goto(label) == pc' = label /\ UNCHANGED <<cfg, promise>>

-----------------------------------------------------------------------------
(* Migration staging *)

\* the partition lsblk finds has a LUKS header, is not mapped already, opens with the
\* old password, and there is a btrfs inside
OldSystemOpens ==
    /\ table \in Layouts
    /\ header[table].vol # 0
    /\ mapper.vol = 0
    /\ header[table].pwd = cfg.source
    /\ fs.vol = header[table].vol

StagingRefuses ==
    /\ pc = "stage" /\ ~OldSystemOpens
    /\ Goto("failed")
    /\ UNCHANGED <<disk, live, bounds>>

\* home is only seen as the subvolume @home, the Secure Boot keys in @
Detected == {i \in fs.items : i = "home" => Home \in fs.subvols}

\* open, inspect, enough space: the staging directory of an earlier run is removed.  What the
\* inspection misses is passed over without a word: a /home that is not a subvolume, and
\* whatever a failing listing of the subvolumes or a failing test -d does not show
StagingStarts ==
    /\ pc = "stage" /\ OldSystemOpens
    /\ \E found \in SUBSET Detected :
          /\ overlooked' = fs.items \ found
          /\ IF found = Detected THEN UNCHANGED faults ELSE SilentFault
    /\ staged' = {}
    /\ pc' = "stage_copy"
    /\ UNCHANGED <<cfg, owed, disk, mapper, mnt, swapOn, reboots, volumes>>

\* mutant: items are moved into the staging directory
StageMoves ==
    /\ pc = "stage_copy"
    /\ \E i \in fs.items \ (staged \union overlooked) :
          staged' = staged \union {i} /\ fs' = [fs EXCEPT !.items = @ \ {i}]
    /\ Goto("stage_copy")
    /\ UNCHANGED <<table, header, filled, mapper, mnt, swapOn, bounds>>

StageItem ==
    /\ pc = "stage_copy"
    /\ \E i \in fs.items \ (staged \union overlooked) : staged' = staged \union {i}
    /\ Goto("stage_copy")
    /\ UNCHANGED <<disk, mapper, mnt, swapOn, bounds>>

\* mutant: staging ends as soon as something is staged
StagingEndsEarly ==
    /\ pc = "stage_copy" /\ staged # {}
    /\ Goto(AfterStaging)
    /\ UNCHANGED <<disk, live, bounds>>

\* everything found is staged
StagingEnds ==
    /\ pc = "stage_copy" /\ fs.items \subseteq staged \union overlooked
    /\ Goto(AfterStaging)
    /\ UNCHANGED <<disk, live, bounds>>

-----------------------------------------------------------------------------
(* USB boot drive *)

keeps_existing_drive ==
    /\ TargetMounted \/ (cfg.wipe = "skip" /\ ~cfg.migration)
    /\ header["stick"].vol # 0

UsbKeep ==
    /\ pc = "usb" /\ keeps_existing_drive
    /\ Goto("storage")
    /\ UNCHANGED <<disk, live, bounds>>

\* mutant: the volume a previous run left open is not closed
UsbReleaseKeepsOpen ==
    /\ pc = "usb" /\ ~keeps_existing_drive
    /\ Goto("usb_partition")
    /\ UNCHANGED <<disk, live, bounds>>

\* what umount -R leaves when something below /mnt is busy: the ESP goes first, /mnt last
PartlyUnmounted ==
    {m \in SUBSET mnt : {Root, "top"} \cap mnt \subseteq m /\ ("efi" \in m => m = mnt)}

\* the drive is large enough: unmount, swapoff and close what a previous run left in use.
\* umount comes before swapoff, so an active swapfile keeps /mnt and the volume busy.
UsbRelease ==
    /\ pc = "usb" /\ ~keeps_existing_drive
    /\ swapOn' = FALSE
    /\ \/ /\ ~(TargetMounted /\ swapOn)
          /\ mnt' = {} /\ mapper' = NoMapper /\ UNCHANGED faults
       \/ /\ TargetMounted /\ swapOn
          /\ mnt' \in PartlyUnmounted /\ UNCHANGED <<mapper, faults>>
       \/ /\ mapper.vol # 0   \* umount or close fails
          /\ SilentFault
          /\ mnt' \in PartlyUnmounted \union {{}} /\ UNCHANGED mapper
    /\ Goto("usb_partition")
    /\ UNCHANGED <<disk, staged, reboots, volumes>>

\* wipefs of the header partition is the command that removes an old header
UsbPartition ==
    /\ pc = "usb_partition"
    /\ \/ header' = [header EXCEPT !["stick"] = NoHeader] /\ UNCHANGED faults
       \/ UNCHANGED header /\ SilentFault
    /\ Goto("usb_format")
    /\ UNCHANGED <<table, fs, filled, live, reboots, volumes>>

\* mkfs.vfat on the EFI partition, the recovery system on the third
UsbFormat ==
    /\ pc = "usb_format"
    /\ Goto("storage")
    /\ UNCHANGED <<disk, live, bounds>>

-----------------------------------------------------------------------------
(* Storage *)

StorageKeep ==
    /\ pc = "storage" /\ TargetMounted
    /\ Goto("packages")
    /\ UNCHANGED <<disk, live, bounds>>

luks_is_usable(c) ==
    LET h == header[luks_header_device(c)] IN h.vol # 0 /\ h.pwd = "new"

StorageStart ==
    /\ pc = "storage" /\ ~TargetMounted
    /\ swapOn' = FALSE
    /\ \/ mapper' = NoMapper /\ UNCHANGED faults
       \/ mapper.vol # 0 /\ UNCHANGED mapper /\ SilentFault
    /\ Goto(IF wipe_method(cfg) # "skip" THEN "wipe"
            ELSE IF cfg.usb THEN "luks"
            ELSE IF table = "none" THEN "partition"
            ELSE IF ~luks_is_usable(cfg) THEN "wipe" ELSE "luks")
    /\ UNCHANGED <<disk, mnt, staged, reboots, volumes>>

\* what the disk holds after its partition table is gone and, if erased, every sector too
WipeEffect(erased) ==
    /\ table' = "none"
    /\ header' = IF erased THEN [header EXCEPT !["ours"] = NoHeader, !["other"] = NoHeader]
                 ELSE header
    /\ fs' = IF erased THEN NoFs ELSE fs

\* mutant: the disk is filled, or discarded, without the sectors of the LUKS header
WipeKeepsHeader ==
    /\ pc = "wipe"
    /\ WipeEffect(FALSE)
    /\ filled' = (wipe_method(cfg) = "secure")
    /\ Goto(IF cfg.usb THEN "luks" ELSE "partition")
    /\ UNCHANGED <<live, bounds>>

\* quick (and skip with an unusable volume) zaps the table only.  secure overwrites and
\* discard drops every sector, unless their commands fail, which raises nothing: the
\* sectors that held the header are overwritten by then, or not.
Wipe ==
    /\ pc = "wipe"
    /\ LET erases == wipe_method(cfg) \in {"secure", "discard"} IN
       \/ WipeEffect(erases) /\ filled' = (wipe_method(cfg) = "secure") /\ UNCHANGED faults
       \/ /\ erases /\ filled' = FALSE /\ SilentFault
          /\ \E erased \in BOOLEAN : WipeEffect(erased)
    /\ Goto(IF cfg.usb THEN "luks" ELSE "partition")
    /\ UNCHANGED <<live, reboots, volumes>>

WipeFails ==
    /\ pc = "wipe" /\ faults < MaxFaults
    /\ \E erased \in {FALSE, wipe_method(cfg) \in {"secure", "discard"}} : WipeEffect(erased)
    /\ filled' = FALSE
    /\ faults' = faults + 1
    /\ Goto("failed")
    /\ UNCHANGED <<live, reboots, volumes>>

\* sgdisk makes partitions and leaves the sectors in them as they were
Partition ==
    /\ pc = "partition"
    /\ table' = "ours"
    /\ Goto("luks")
    /\ UNCHANGED <<header, fs, filled, live, bounds>>

PartitionFails ==
    /\ pc = "partition" /\ faults < MaxFaults
    /\ table' \in {"none", "ours"}
    /\ faults' = faults + 1
    /\ Goto("failed")
    /\ UNCHANGED <<header, fs, filled, live, reboots, volumes>>

\* cryptroot is open already: keep it, or refuse it on another device
LuksAlreadyOpen ==
    /\ pc = "luks" /\ mapper.vol # 0
    /\ Goto(IF mapper.dev = encrypted_device(cfg) THEN "btrfs" ELSE "failed")
    /\ UNCHANGED <<disk, live, bounds>>

LuksFormat ==
    /\ pc = "luks" /\ mapper.vol = 0
    /\ header[luks_header_device(cfg)].vol = 0
    /\ volumes < MaxVolumes
    /\ volumes' = volumes + 1
    /\ header' = [header EXCEPT ![luks_header_device(cfg)] =
                                   [vol |-> volumes + 1, pwd |-> "new"]]
    /\ Goto("open")
    /\ UNCHANGED <<table, fs, filled, live, faults, reboots>>

\* luksFormat writes the header before it derives the key of the first keyslot: when it is
\* cut short, isLuks finds a header that nothing unlocks
LuksFormatFails ==
    /\ pc = "luks" /\ mapper.vol = 0 /\ faults < MaxFaults
    /\ header[luks_header_device(cfg)].vol = 0
    /\ volumes < MaxVolumes
    /\ volumes' = volumes + 1
    /\ header' = [header EXCEPT ![luks_header_device(cfg)] =
                                   [vol |-> volumes + 1, pwd |-> "none"]]
    /\ faults' = faults + 1
    /\ Goto("failed")
    /\ UNCHANGED <<table, fs, filled, live, reboots>>

LuksKeep ==
    /\ pc = "luks" /\ mapper.vol = 0
    /\ header[luks_header_device(cfg)].vol # 0
    /\ Goto("open")
    /\ UNCHANGED <<disk, live, bounds>>

LuksOpen ==
    /\ pc = "open"
    /\ LET h == header[luks_header_device(cfg)] IN
       IF h.pwd = "new"
       THEN /\ mapper' = [vol |-> h.vol, dev |-> encrypted_device(cfg)]
            /\ Goto("btrfs")
       ELSE UNCHANGED mapper /\ Goto("failed")
    /\ UNCHANGED <<disk, mnt, swapOn, staged, bounds>>

\* mkfs.btrfs unless the volume shows a btrfs
Btrfs ==
    /\ pc = "btrfs"
    /\ fs' = IF fs.vol = mapper.vol THEN fs ELSE NewFs(mapper.vol)
    /\ Goto("mount_top")
    /\ UNCHANGED <<table, header, filled, live, bounds>>

BtrfsFails ==
    /\ pc = "btrfs" /\ faults < MaxFaults
    /\ fs' \in {fs, IF fs.vol = mapper.vol THEN fs ELSE NoFs}
    /\ faults' = faults + 1
    /\ Goto("failed")
    /\ UNCHANGED <<table, header, filled, live, reboots, volumes>>

MountTopLevel ==
    /\ pc = "mount_top"
    /\ mnt' = {"top"}
    /\ Goto("subvolumes")
    /\ UNCHANGED <<disk, mapper, swapOn, staged, bounds>>

CreateSubvolume ==
    /\ pc = "subvolumes"
    /\ \E s \in Subvolumes \ fs.subvols : fs' = [fs EXCEPT !.subvols = @ \union {s}]
    /\ Goto("subvolumes")
    /\ UNCHANGED <<table, header, filled, live, bounds>>

UnmountTopLevel ==
    /\ pc = "subvolumes" /\ Subvolumes \subseteq fs.subvols
    /\ mnt' = {}
    /\ Goto("mount_root")
    /\ UNCHANGED <<disk, mapper, swapOn, staged, bounds>>

MountRoot ==
    /\ pc = "mount_root"
    /\ mnt' = {Root}
    /\ Goto("mount")
    /\ UNCHANGED <<disk, mapper, swapOn, staged, bounds>>

\* the list order of the other subvolumes is left open
MountSubvolume ==
    /\ pc = "mount"
    /\ \E s \in Subvolumes \ mnt : mnt' = mnt \union {s}
    /\ Goto("mount")
    /\ UNCHANGED <<disk, mapper, swapOn, staged, bounds>>

MountEfi ==
    /\ pc = "mount" /\ Subvolumes \subseteq mnt
    /\ mnt' = mnt \union {"efi"}
    /\ Goto(IF cfg.swap THEN "swap" ELSE "packages")
    /\ UNCHANGED <<disk, mapper, swapOn, staged, bounds>>

\* an existing file is only switched on, and swapon may refuse it without raising
Swapfile ==
    /\ pc = "swap"
    /\ IF fs.swap = "none"
       THEN fs' = [fs EXCEPT !.swap = "ready"] /\ swapOn' = TRUE
       ELSE UNCHANGED fs /\ swapOn' = (fs.swap = "ready")
    /\ Goto("packages")
    /\ UNCHANGED <<table, header, filled, mapper, mnt, staged, bounds>>

SwapfileFails ==
    /\ pc = "swap" /\ fs.swap = "none" /\ faults < MaxFaults
    /\ \E swap \in {"partial", "ready"} : fs' = [fs EXCEPT !.swap = swap]
    /\ faults' = faults + 1
    /\ Goto("failed")
    /\ UNCHANGED <<table, header, filled, live, reboots, volumes>>

-----------------------------------------------------------------------------
(* Packages *)

\* pacstrap into an empty tree; pacman, whose failure raises nothing, if os-release is
\* there.  A pacstrap that died early may have left no pacman to run
InstallPackages ==
    /\ pc = "packages"
    /\ \/ fs' = [fs EXCEPT !.os[Tree] = "full"] /\ UNCHANGED faults
       \/ fs.os[Tree] = "bare" /\ UNCHANGED <<fs, faults>>
       \/ fs.os[Tree] # "none" /\ UNCHANGED fs /\ SilentFault
    /\ Goto("fstab")
    /\ UNCHANGED <<table, header, filled, live, reboots, volumes>>

PacstrapFails ==
    /\ pc = "packages" /\ fs.os[Tree] = "none" /\ faults < MaxFaults
    /\ \E os \in {"bare", "partial"} : fs' = [fs EXCEPT !.os[Tree] = os]
    /\ faults' = faults + 1
    /\ Goto("failed")
    /\ UNCHANGED <<table, header, filled, live, reboots, volumes>>

\* genfstab -U lists what is mounted and the active swap, once
GenerateFstab ==
    /\ pc = "fstab"
    /\ fs' = IF fs.fstab[Tree] # {} THEN fs
             ELSE [fs EXCEPT !.fstab[Tree] =
                      mnt \union (IF swapOn THEN {"swap"} ELSE {})]
    /\ Goto("services")
    /\ UNCHANGED <<table, header, filled, live, bounds>>

\* systemctl enable NetworkManager raises if the package is not there
EnableServices ==
    /\ pc = "services"
    /\ Goto(IF fs.os[Tree] = "bare" THEN "failed" ELSE AfterPackages)
    /\ UNCHANGED <<disk, live, bounds>>

-----------------------------------------------------------------------------
(* Migration restore *)

RestoreItem ==
    /\ pc = "restore"
    /\ \E i \in staged \ fs.items : fs' = [fs EXCEPT !.items = @ \union {i}]
    /\ Goto("restore")
    /\ UNCHANGED <<table, header, filled, live, bounds>>

\* mutant: a copy that failed does not keep the staging directory
RestoreDropsStaging ==
    /\ pc = "restore"
    /\ staged' = {}
    /\ Goto("configure")
    /\ UNCHANGED <<disk, mapper, mnt, swapOn, bounds>>

\* everything staged is copied back, and only then the staging directory is removed
RestoreEnds ==
    /\ pc = "restore" /\ staged \subseteq fs.items
    /\ staged' = {}
    /\ Goto("configure")
    /\ UNCHANGED <<disk, mapper, mnt, swapOn, bounds>>

-----------------------------------------------------------------------------
(* Configuration, kernel images, boot loader, safeguards *)

\* system, docker and GPU driver: none of them touches the state kept here
Configure ==
    /\ pc = "configure"
    /\ Goto("kernels")
    /\ UNCHANGED <<disk, live, bounds>>

\* mutant: an empty LUKS UUID goes into the command line
KernelImagesAnyUuid ==
    /\ pc = "kernels"
    /\ Goto(IF fs.os[Tree] = "bare" THEN "failed" ELSE "bootloader")
    /\ UNCHANGED <<disk, live, bounds>>

\* raises without a LUKS header or without a kernel
KernelImages ==
    /\ pc = "kernels"
    /\ Goto(IF header[luks_header_device(cfg)].vol = 0 \/ fs.os[Tree] = "bare"
            THEN "failed" ELSE "bootloader")
    /\ UNCHANGED <<disk, live, bounds>>

\* mutant: a failed bootctl install raises nothing
BootloaderNeverRaises ==
    /\ pc = "bootloader"
    /\ Goto("snapshots")
    /\ UNCHANGED <<disk, live, bounds>>

\* bootctl install raises unless /efi is an EFI system partition
Bootloader ==
    /\ pc = "bootloader"
    /\ Goto(IF "efi" \in mnt THEN "snapshots" ELSE "failed")
    /\ UNCHANGED <<disk, live, bounds>>

\* recovery system, snapper, bootable snapshots, notifications and firewall
Snapshots ==
    /\ pc = "snapshots"
    /\ Goto(AfterSnapshots)
    /\ UNCHANGED <<disk, live, bounds>>

\* the /efi line of fstab is replaced by an on-demand mount
Safeguards ==
    /\ pc = "safeguards"
    /\ fs' = [fs EXCEPT !.fstab[Tree] = @ \union {"efi"}]
    /\ Goto("finish")
    /\ UNCHANGED <<table, header, filled, live, bounds>>

\* utility scripts, expected state, final configuration
Finish ==
    /\ pc = "finish"
    /\ Goto("complete")
    /\ UNCHANGED <<disk, live, bounds>>

-----------------------------------------------------------------------------
(* Faults of the steps that leave nothing half done, or what they did so far *)

PlainFaultSteps ==
    {"stage", "stage_copy", "usb", "usb_format", "storage", "luks", "open", "mount_top",
     "subvolumes", "mount_root", "mount", "swap", "packages", "fstab", "services", "restore",
     "configure", "kernels", "bootloader", "snapshots", "safeguards", "finish"}

\* an error the runner raises, or Ctrl-C; the finally of staging closes the old volume
Fault ==
    /\ pc \in PlainFaultSteps /\ faults < MaxFaults
    /\ faults' = faults + 1
    /\ Goto("failed")
    /\ UNCHANGED <<disk, live, reboots, volumes>>

UsbPartitionFails ==
    /\ pc = "usb_partition" /\ faults < MaxFaults
    /\ header' \in {header, [header EXCEPT !["stick"] = NoHeader]}
    /\ faults' = faults + 1
    /\ Goto("failed")
    /\ UNCHANGED <<table, fs, filled, live, reboots, volumes>>

-----------------------------------------------------------------------------
StagingStep == StagingRefuses \/ StagingStarts \/ StageItem \/ StagingEnds
UsbStep == UsbKeep \/ UsbRelease \/ UsbPartition \/ UsbFormat
StorageStep ==
    \/ StorageKeep \/ StorageStart \/ Wipe \/ Partition
    \/ LuksAlreadyOpen \/ LuksFormat \/ LuksKeep \/ LuksOpen
    \/ Btrfs \/ MountTopLevel \/ CreateSubvolume \/ UnmountTopLevel
    \/ MountRoot \/ MountSubvolume \/ MountEfi \/ Swapfile
PackagesStep == InstallPackages \/ GenerateFstab \/ EnableServices
RestoreStep == RestoreItem \/ RestoreEnds
BootStep == Configure \/ KernelImages \/ Bootloader \/ Snapshots \/ Safeguards \/ Finish

Step == StagingStep \/ UsbStep \/ StorageStep \/ PackagesStep \/ RestoreStep \/ BootStep

StepFails ==
    \/ WipeFails \/ PartitionFails \/ LuksFormatFails \/ BtrfsFails \/ SwapfileFails
    \/ PacstrapFails \/ UsbPartitionFails \/ Fault

Operator == StartRun \/ Reboot

Next == Operator \/ Step \/ StepFails

\* the program goes on while it can, and the operator runs a failed installation again;
\* nothing forces a fault
Spec == Init /\ [][Next]_vars /\ WF_vars(Step) /\ WF_vars(StartRun)
             /\ (RebootFirst => WF_vars(Reboot))
-----------------------------------------------------------------------------
(* Properties *)

Running == PlainFaultSteps \union {"usb_partition", "wipe", "partition", "btrfs"}

HeaderType == [vol: Nat, pwd: Keyslots]
FsType == [vol: Nat, subvols: SUBSET Subvolumes, os: [Trees -> OsStates],
           fstab: [Trees -> SUBSET Entries], swap: {"none", "partial", "ready"},
           items: SUBSET Items]

\* Type invariant: every variable of the installer, the disk, the drive and the live
\* system keeps its type.
TypeOK ==
    /\ cfg \in ConfigType
    /\ pc \in Running \union {"idle", "failed", "complete"}
    /\ table \in Layouts \union {"none"}
    /\ header \in [Places -> HeaderType]
    /\ fs \in FsType
    /\ filled \in BOOLEAN
    /\ mapper \in [vol: Nat, dev: Devices]
    /\ mnt \in SUBSET Mounts
    /\ swapOn \in BOOLEAN
    /\ staged \in SUBSET Items
    /\ owed \in SUBSET Items /\ overlooked \in SUBSET Items
    /\ faults \in Nat /\ reboots \in Nat /\ volumes \in Nat

\* Whatever failed and was run again before, a run that completes has installed into the
\* volume that the header it boots from unlocks, with the configured password
\* (StorageStepExecutor keeps mounted storage, _keeps_existing_drive keeps the drive,
\* KernelImagesStepExecutor takes the header's UUID).
CompleteUnlocks ==
    pc = "complete" =>
        LET h == header[luks_header_device(cfg)] IN
        h.vol # 0 /\ h.vol = fs.vol /\ h.pwd = "new"

\* A run that completes has the declared layout mounted: every subvolume exists and is
\* mounted, with the ESP, and the btrfs top level is not mistaken for the root, although
\* an interrupted run leaves exactly that mounted and the next run keeps it.
CompleteLayout ==
    pc = "complete" => mnt = Subvolumes \union {"efi"} /\ Subvolumes \subseteq fs.subvols

\* Migration never loses what its inspection of the old system found: each item is readable
\* on the disk or complete in the staging directory, whichever command failed, loudly or
\* silently, and however often the installation was run again, until it is run without
\* migration.  A reboot loses only what it finds in the staging directory alone.  What the
\* inspection overlooked is wiped with the disk, and the code has no second look: a /home that
\* is a directory of @, and what a failing btrfs subvolume list or test -d does not show.
OldDataSafe == \A i \in owed \ overlooked : OnDisk(i) \/ i \in staged

\* The refinement mapping: where each item still owed can be read.
Copies ==
    [i \in owed |-> (IF OnDisk(i) THEN {"disk"} ELSE {})
                       \union (IF i \in staged THEN {"memory"} ELSE {})]

Promise == INSTANCE PreservedData WITH copies <- Copies

\* The installer implements that promise: an inspection happens while everything is on the
\* disk, and staging, wiping, formatting and restoring only ever give up a copy of an item
\* it found in a step that another copy survives.
MigrationPreserves == Promise!Spec

\* No step destroys the LUKS header of the volume that is open as cryptroot: neither the
\* wipe of the disk nor the partitioning of the USB drive runs before the volume a
\* previous attempt left open is closed.
OpenVolumeKeepsHeader ==
    [][\A p \in Places : header[p].vol # 0 /\ header[p].vol = mapper.vol
           => header'[p] = header[p]]_vars

\* The installation completes: runs that fail, and are started again, come to an end
\* ("Failed installs can be resumed").
EventuallyComplete == <>(pc = "complete")

\* A completed installation is the declared one, however often it was interrupted ("The same
\* file gives you the same system on every run"): the fstab lists every declared mount, the
\* declared swapfile is active, every package is installed, and a disk the run had to fill
\* with random data was filled.
CompleteConverged ==
    pc = "complete" =>
        /\ Subvolumes \union {"efi"} \subseteq fs.fstab["root"]
        /\ cfg.swap => swapOn
        /\ fs.os["root"] = "full"
        /\ cfg.usb /\ wipe_method(cfg) = "secure" => filled
=============================================================================
