# TLA+ models of the DALI installer

DALI (`src/`) installs Arch Linux on an encrypted btrfs disk from one
`config.yaml`, optionally with the boot partition and the LUKS header on a USB
drive, and leaves two programs on the installed system: `manage-snapshot-ukis`,
which makes snapshots bootable, and `dotfiles-sync`, which shares dotfiles
between machines. This directory holds models of the parts of it whose
correctness depends on the order of things: a run that fails half way and is
started again, three refreshes that run at once, machines that push to one
remote, a configuration file rewritten by several runs.

Paths below are relative to `src/`.

## The system

| Part | State | Operations | What is hard about it |
|---|---|---|---|
| `installer.py`, `install_steps/` | none: nothing records how far a run came | run the enabled steps in order | a second run decides from the machine's state alone |
| storage step, `executors/storage.py` | partition table, LUKS header, btrfs, mounts under `/mnt`, swapfile | keep, wipe, partition, format, open, subvolumes, mount, swap | every command may be the last one of a run |
| USB boot step, `executors/usb_boot.py` | the drive with ESP and detached header | keep or remake the drive, release what is open | the drive holds the header of a volume that may be open |
| migration, `executors/migration.py` | `/tmp/migration-staging` | open the old system, stage, restore | the staging directory is the only copy after the wipe |
| packages step, `executors/packages.py` | packages and fstab of the target | pacstrap or pacman, fstab, services | an earlier fstab is kept; pacman does not raise |
| boot steps, `executors/boot.py` | kernel images, boot loader, Secure Boot keys on the target and in the firmware | create and enrol keys, build, sign, install | they are the first to notice a layout that is not there; the firmware remembers what a wiped disk forgets |
| recovery, `executors/recovery.py` | live system and its signature, recovery UKI and entry, one-time key | sign, build, sign | parts made by different runs must fit together |
| spare drive, `UsbBootDriveCloner` | a second drive | copy three partitions, compare the headers | interrupted copies, a drive in use |
| USB backup, `executors/usb_backup.py` | files on a partition | copy | - |
| snapshots, `scripts/manage_snapshot_entries.sh`, `executors/snapper.py` | UKIs on the ESP, pending marker, `ro` property | refresh, refresh-settled | no lock between path unit, pacman hook and catch-up |
| USB safeguards, `executors/usb_boot.py` | on-demand `/efi`, update guard, catch-up units | refuse updates, make up for skipped refreshes | the drive comes and goes |
| dotfiles, `scripts/dotfiles-sync.sh` | home, clone, remote, backups, lock | init, push, pull | rebases, rejected pushes, interruption, other machines |
| secrets, `core/secrets.py`, `config/secrets_file.py`, `cli.py` | encrypted entries of `config.yaml` | encrypt-secrets, decrypt-secrets | partial updates, changing keys, truncation |
| setup, `config/*`, `setup/session.py` | values and their sources | merge, ask, review, validate | environment, file and TUI overrule each other |
| system, docker, gpu, mirrors, firewall steps | configuration files | lists of commands | they can fail, nothing else |
| `verify_install.sh`, TUI widgets, logging | none | report, draw | - |

The installer calls its steps one after the other. The secrets and the setup
session produce its configuration. The storage, USB and migration steps share
the target disk, the drive, `/dev/mapper/cryptroot` and `/mnt`. The snapshot
service, the pacman hook and the catch-up service share the ESP and the
snapshots. The machines of `dotfiles-sync` share only the git remote.

What makes each part correct:

* installer: a run that completes has installed a system that its header
  unlocks and whose layout is whole; a failed run can be run again to the end;
  no step destroys what another still needs (the header of an open volume, the
  only copy of the old data).
* boot drive: what completes starts, its recovery system too, under Secure Boot; a
  spare is as good as the drive.
* snapshots: whenever nothing runs the newest snapshots can be booted, with a
  kernel that fits them; a refresh that was skipped is made up for.
* dotfiles: no edit of a user is lost; a push that reports success is published.
* secrets: the stored passwords belong together and reach the installation under
  their own names.

## Modules

| Module | Models | Proofs | Values for TLC |
|---|---|---|---|
| `Installation` | installer, storage, USB drive, migration, packages, boot steps | `InstallationProofs`, `MigrationProofs` | `MCInstallation` |
| `PreservedData` | what migration promises: the abstract specification `Installation` implements | refinement in `MigrationProofs` | instantiated by `Installation` |
| `BootDrive` | USB boot drive, Secure Boot keys and signatures, recovery system, spare drive | `BootDriveProofs` | `MCBootDrive` |
| `SnapshotUkis` | bootable snapshots and USB safeguards | `SnapshotUkisProofs`, `QuietProofs` | the module itself |
| `DotfilesSync` | `dotfiles-sync.sh` and git as it uses it | `DotfilesSyncProofs`, `VersionProofs` | `MCDotfilesSync` |
| `Credentials` | encrypt-secrets, assembly, TUI, validation of the passwords | `CredentialsProofs` | `MCCredentials` |

The operators named `...AnyUuid`, `StageMoves`, `EncryptNewFormat` and the
like, with a comment that begins with "mutant", are mutants: wrong versions of the definition that follows them, each of
which breaks one property. No specification uses them.

### Installation

`pc` names the command a run is about to execute, from `"idle"` to
`"complete"`; each action is one command or a group of commands between which
nothing can go wrong in a way that matters to what is left behind. The rest of
the state is what a later run can find: the partition table (`table`), the LUKS
headers on the disk and the drive (`header`), the btrfs (`fs`: subvolumes,
packages, fstab, swapfile, preserved items, and the volume under which it can be
read), `cryptroot` (`mapper`), mounts (`mnt`), active swap (`swapOn`) and staging
(`staged`).

* A command that raises (`Fault`, `WipeFails`, `PartitionFails`, `LuksFormatFails`,
  `BtrfsFails`, `SwapfileFails`, `PacstrapFails`, `UsbPartitionFails`) ends the run in
  `"failed"` with what the command had done by then. A `luksFormat` cut short leaves a
  header without a usable keyslot (`pwd = "none"`), which `isLuks` accepts and nothing
  opens; a `pacstrap` cut short leaves a tree with or without (`"bare"`) a working pacman.
* A command run with `raise_on_nonzero_exit=False` that fails (`SilentFault`)
  does nothing, or only a part (a fill of the disk), and the run goes on. Which commands can do so is read off each
  call of `core/command.py`. Tests of the live system itself (`test -d` on the staging
  directory, `mountpoint`) are taken to answer truthfully; those that inspect the old system are not.
* `StartRun` is the operator starting the installer again; with `Reconfigure` the
  configuration may be another one. `Reboot` restarts the live system: mounts,
  mapper, swap and staging are gone, the disk stays. With `RebootFirst` the
  operator always reboots after a failure.
* A LUKS volume has a number. A header opens the volume of its number, with its
  password; formatting makes a new number. A header may survive a quick wipe,
  because it lies where the new partition starts: `Layouts` says whether the old
  partition 2 started where the new one does.
* A btrfs mounted at its top level and one mounted by its subvolume `@` are two
  trees (`Trees`): packages and fstab written to one are not in the other.

`owed` is what is still to be preserved: at first everything on the old disk that a migration is for,
nothing any more once the operator runs without migration, and after a reboot
what the disk still holds. `overlooked` is what the inspection of the old system did not find: a `/home`
that is a directory of `@` and no subvolume, and anything a silently failing listing hides. The properties
are about `owed \ overlooked`, see the limits. `PreservedData` states the promise without any of the steps:
each item has copies in places, an inspection finds all of them on the disk and may overlook some, every
other step keeps a copy of each item found where it was, a reboot takes the copies in memory, the operator
may give the data up. `Copies` is the refinement mapping and `MigrationPreserves` the abstract
specification under it.

Left out: package lists, what the configuration steps write, the contents of
kernel images, and signing, which `BootDrive` has. `additional_paths` of a migration behave like its keys.

### BootDrive

The steps that make a drive start, in the order of a run: the USB boot step
(`DriveKeep`, `Partition`, `Format`, `StoreFormat`, `Extract`), storage reduced to
whether it keeps, opens or makes the target, Secure Boot (`ReadSetupMode`,
`CreateKeys`, `EnrollKeys`), `BuildUkis`, `SignUkis`, `Bootloader`, the
recovery step (`RecoveryMount` to `SignRecoveryUki`), and beside the runs
`clone-usb-boot` and a change of the passphrase. Keys, filesystem UUIDs and LUKS
volumes are numbers, counted up as they are made, so that an older part is told from a newer one:
the ESP records which key signed its UKIs and boot loader, and which
certificate and filesystem the recovery UKI was built for; the third partition
records which key signed the live system on it; the firmware records which
platform key it has (none in Setup Mode).

`Fault` ends a run at any command, with that command done in part (`HalfDone`); an extraction done in part
leaves a live system that is `"half"` there, version file included, which `RecoveryMount` accepts as the code does;
`StorageFails` leaves a header without a filesystem; the `finally` blocks of `recovery.py` and `usb_boot.py` are part of both
the step and its failure. Silent failures: every umount, `wipefs`, `partprobe`, `sbctl` except
for the recovery UKI, and `rm` of the one-time key. `StartRun` may change the
configuration; `Reboot` empties `/mnt` and `/run`. A clone is four commands,
with `CloneFails` between and within them; `clone.seen` is false when the
kernel did not take over the new partition table of the spare, so that the copies
go elsewhere. Runs and clones do not overlap; a clone and a change of the
passphrase do.

### SnapshotUkis

Three processes run the same `Refresh(p)`: check the ESP, set or clear the
pending marker, remove all snapshot UKIs, list the snapshots, then take up the newest one
after the other: skip it if it is gone (`SkipSnapshot`), fail for it (`BuildFails`), or
clear `ro`, read the kernel and open the file (`OpenUki`), which is `Torn` until it is
written and signed (`WriteUki`). Opening and writing are two steps, so another refresh may
remove the file, or open it too, in between. `path` is wrapped in
the settle, fingerprint and compare loop of `refresh-settled`.

The environment: snapper makes the directory of a snapshot and finishes it later, whenever it
likes; it deletes snapshots. pacman brings the modules of a kernel (`BeginUpdate`) and replaces
`/boot` and runs the hook some time after that (`FinishUpdate`). systemd starts the path service
when `/.snapshots` itself changes and the service is not running. The drive is pulled and
plugged in at any moment. A shutdown (`Restart`) ends every refresh where it is; at the next
boot only the units start that systemd would start, which is the catch-up if its marker is set.
Pulls, shutdowns and failing commands are faults, bounded together by `MaxFaults`; what fails because
the drive is out costs no fault of its own. The kernel a UKI was built from (`ukis`) and the kernel
whose modules a snapshot holds (`modules`) are kept apart.

Three history variables hold the excuses of the properties, each as narrow as the code allows and each
cleared by the next listing, except the last, which goes with the snapshot:
* `abandoned`: a change was left to the next refresh. The script gave up after `MAX_REFRESH_ROUNDS`; a shutdown
  ended a refresh; a snapshot was half made when the last fingerprint was taken, or changed
  while the service ended; the drive was pulled between the check and the removal, or plugged in before
  the marker was set or while the catch-up ran.
* `spoiled`: snapshots a command failed for, or whose file two refreshers had open.
* `midway`: snapshots taken between the two halves of a kernel update.

`AnyDelete` allows deletions other than snapper's own, of the oldest. The settle time itself is not
modelled. The steps of one build between reading the kernel and opening the file are one, and so are writing and
signing: a refresh that dies in between leaves the same `Torn` file.

### DotfilesSync

A branch is a sequence of commits, a commit is its author and its whole tree, a
content is a number. `fetch` refuses, fast-forwards or starts a rebase, which
replays the local commits one by one; a replay may drop a commit that is already
there or stop in conflict, leaving the clone `"unmerged"`, which a later
`git add -A` turns into `"detached"`. `push` copies file by file, counts the version
up, stages, commits and sends; `pull` backs up and restores file by file. Each may be
interrupted: an interrupted copy leaves `Garbage` in the clone or `Torn` in the home. A
`git commit` that fails (`CommitFails`) ends the push with the index `staged`, nothing sent, and
the report `"pushed"`, as `dotfiles-sync.sh:698-712` does.

Assumptions: the lock of `dotfiles-sync.sh:265` works; backups are never made in the same
second; the backup and the copy of one file are not interleaved with an editor;
different changes of one file conflict; an unreadable file is a missing one;
the remote has a commit at first; git has its default configuration and one
branch; conflicts are not resolved by hand; the version file is written at once (line 691 truncates it
first, and a kill in between leaves it empty); no mapping lies inside another (two of the default
mappings do, lines 114 and 115: copying the directory removes the file that was copied into it, line 667);
`repo_path` is not overridden (lines 446-449 do not move `VERSION_FILE` of line 40). The version's roll-over
(1.0.99 to 1.1.0) is abstracted to its place in the order. `status`, `diff` and `--dry-run`
change nothing.

### Credentials

`encrypt-secrets` goes through check (`refuse_mixed_keys`), edit (the text with the
new lines, verified by `verify_stored`), truncate and write; it can die in
between, leaving a prefix of the file or something that is no YAML. The
operator pastes and swaps entries by hand and restores the file. An installation
assembles the passwords (environment before file), asks for or lets the operator
replace them, and validates. A ciphertext is the record of key, name and
password it was made from; AES-GCM is taken as ideal. Two encrypt-secrets never
run at once. `Styles` says how the file writes its secrets.
`source_luks_password` is part of `Installation`.

## Runs

All passing runs are exhaustive. `CHECK_DEADLOCK FALSE` is set everywhere because every
model may stop: an installer that completed is done, and the bounds on faults,
snapshots, edits and runs end the environment.

| Run | Checks | Bounds | Shows |
|---|---|---|---|
| `install_silent` | `TypeOK`, `CompleteUnlocks`, `CompleteLayout`, `OldDataSafe`, `MigrationPreserves` | all configurations and starting disks, 3 faults of either kind, 1 reboot | what completes is unlocked by its header and is wholly mounted; each item the inspection found is on the disk or in staging, and `Installation` implements `PreservedData` |
| `install_raise` | `OldDataSafe`, `OpenVolumeKeepsHeader`, `MigrationPreserves` | as above, 2 raising faults, configuration changes between runs | no step destroys the header of the open volume; the promise about old data holds with changing configurations too |
| `resume_reboot` | `EventuallyComplete` | blank disk, configurations whose wipe erases an old header (secure, discard), 2 faults, reboot after each failure | such an operator always completes |
| `resume_in_place` | `EventuallyComplete` | blank disk, wiping configurations, 1 fault, no reboot | **violated**, finding 1 |
| `converge` | `CompleteConverged` | blank disk, 1 fault | **violated**, finding 2 |
| `ukis_quiet` | `TypeOK`, `RefreshersCover`, `QuietCovered`, `UkiNotOlder`, `EventuallyCovered` | 2 snapshots, 1 UKI, 2 kernels, 1 fault (pull, shutdown or failing command), 2 rounds | no refresher undoes another; when nothing runs the newest snapshot boots, and in the end for good; no UKI has too old a kernel; each with the exceptions above |
| `ukis_modules` | `PreviousStateBoots` | as above, no fault | **violated**, finding 3 |
| `dotfiles` | `TypeOK`, `EditsKept`, `PushPublishes`, `VersionsGrow` | 2 machines, 2 files (one sensitive), 2 edits, 3 commits, 1 fault | no edit lost, pushes that commit published, versions grow |
| `dotfiles_in_sync` | `InSync` | as above, no fault | **violated**, finding 4 |
| `boot_drive` | `TypeOK`, `RecoveryBoots`, `SignedForFirmware`, `SigningKeyGone`, `SpareUnlocks` | all four configurations that enrol, firmware in Setup Mode or not, 3 faults of either kind, 1 reboot, 2 clones, 1 change of the passphrase | what completes starts and is signed with its own keys, no key is left lying, a reported spare equals the drive |
| `secure_boot` | `FirmwareAccepts` | default wipe, Setup Mode, 1 raising fault, 1 reboot | **violated**, finding 5 |
| `credentials` | `TypeOK`, `StoredTogether`, `InstallAsMeant` | 5 runs, 2 keys, 2 passwords, 1 crash | passwords stay together and keep their names |

Why these bounds are enough to meet the hard cases:

* Two faults are one to leave a half-made state and one to fail the run that
  repairs it; the third of `install_silent` is a silent one beside them. `MaxVolumes` is never
  reached: a run makes at most one volume, and runs are bounded by faults.
* Two subvolumes are the root and one other, so that a layout can be partly
  mounted.
* In `ukis_quiet` two snapshots with a count of one have one that falls out; two
  rounds make the loop continue and give up, and the fault can fall on any step of
  a refresh. `RefreshersCover` and `UkiNotOlder` are proved for any bounds and any environment,
  `QuietCovered` for any bounds without `AnyDelete`.
* In `boot_drive` three faults are a run that fails, a repetition that fails elsewhere and a silent failure,
  or a clone that dies; two clones make a spare with the remains of the first.
  `MaxIds` is never reached: a run makes at most four numbers.
* In `dotfiles` three commits are one of each machine and one more, so that a commit
  is replayed, dropped or in conflict, and one is stranded.
* In `credentials` two keys and two passwords are what it takes to mix them; five runs
  store, store again with another key, die, repair and install. Keys and passwords are
  interchangeable, and so are the machines of `dotfiles`; the symmetry sets use only that.

Fairness. `Installation`: weak fairness of the run's own steps, of starting it again
and, with `RebootFirst`, of the reboot: the process runs when it can, and the
property is about an operator who tries again, which is what "can be resumed" promises.
Faults are bounded and not fair. `SnapshotUkis`: weak fairness of the scripts
together: as long as one runs, one goes on, which is all that a scheduler gives processes that
never block. Nothing is asked of snapper, pacman or the drive: the property speaks of what they leave. `DotfilesSync`, `BootDrive` and `Credentials` have
none; nothing there promises to happen.

## Findings

1. `resume_in_place`: a run that dies with the btrfs top level, or only some
   subvolumes, mounted leaves a `/mnt` that `storage.py:26` takes for finished
   storage in every later run. Nothing mounts the rest and `bootctl install` fails
   each time. README.md:91 says "Failed installs can be resumed."; it needs a reboot or
   an unmount by hand first, as `resume_reboot` shows.
2. `converge`: a failure in the commands that make the swapfile (`storage.py:330`) leaves the
   target mounted; the next run keeps it, completes, and there is no swap.
   README.md:87: "The same file gives you the same system on every run."
3. `ukis_modules`: the pacman hook rebuilds the UKI of a snapshot taken before a kernel
   update with the new kernel (`manage_snapshot_entries.sh:388` reads `/boot` of the running
   system), whose modules are not in that snapshot. README.md:93: "boot into any previous system
   state"; docs/bootable-snapshots.md:28: "fully functional".
4. `dotfiles_in_sync`: after a rejected or interrupted push the next one rebases, finds no
   file to copy and prints "Everything is in sync." (`dotfiles-sync.sh:679`) with
   the commit still only in the clone.
5. `secure_boot`: a run enrols its keys and fails later; after a reboot the next run
   wipes the disk with the only copy of those keys, creates others
   (`boot.py:248`), finds the firmware out of Setup Mode, enrols nothing and completes. Once
   Secure Boot is enabled, as docs/secure-boot.md:13 says, the firmware rejects the UKIs.
   Clearing the firmware's keys before the second run avoids it.

Limits that the passing runs leave out and that a change of constants shows:

* What the inspection of the old system overlooks is wiped with the disk, though `migration.py:4` and README.md:178
  promise to keep it: a `/home` that is a directory of `@` is neither staged nor refused, and a
  `btrfs subvolume list` that fails counts as one without `@home` (`migration.py:105`). `OldDataSafe` without
  `\ overlooked` is violated, the first case without any fault.
* `CompleteConverged` fails for the swapfile even with a reboot after each failure: a quick wipe can leave
  the old volume to be found again, with its half-made swapfile.
* `install_silent.cfg` with `Reconfigure = TRUE` violates `CompleteUnlocks`: a second
  configuration with a USB drive that holds a foreign header keeps the target of
  the first.
* `install_raise.cfg` with `SilentFaults = TRUE` violates `OpenVolumeKeepsHeader`: an unmount or
  `cryptsetup close` that fails leaves the volume open whose header the wipe takes.
* `resume_reboot.cfg` with `WipingConfigs` violates `EventuallyComplete`: a quick wipe leaves the header where the new
  partition starts, so that a `luksFormat` cut short is never repeated and its header never opens, and a tree that
  `pacstrap` left without pacman is found again and taken for installed. Run again in place, that tree
  fails at the services step every time, whatever the wipe method.
* `ukis_quiet.cfg` with `AnyDelete = TRUE` violates `QuietCovered`: a snapshot that is finished after the
  first fingerprint, takes the place of an older one in the listing and is deleted before the second fingerprint
  leaves the two fingerprints equal and the older one without a UKI.
* What `abandoned`, `spoiled` and `midway` excuse in `SnapshotUkis` are states the code really leaves: the newest snapshot
  without a UKI that boots it until something starts the next refresh.
* A push whose `git commit` fails reports "Pushed version" (`dotfiles-sync.sh:698-712`); `PushPublishes` without
  `~staged` is violated by it. The next push finds its files copied and says that all is in sync.
* A `wipefs` that fails silently and an extraction cut short, followed by a run with `wipe_method: skip` that keeps
  the drive, complete with a truncated live system (`recovery.py:65` reads only its version): `RecoveryBoots`
  without `silent = 0` is violated.
* `credentials.cfg` with `"flow"` among the styles violates `StoredTogether`: the
  section appended for the new value hides the one-line section with the other.
* `CompleteConverged` fails in other ways too: the fstab of an earlier run is kept
  (`packages.py:113`), pacman (`packages.py:100`) and the random fill (`storage.py:119`) do not raise.
* `EventuallyComplete` fails for `wipe_method: skip` on a disk without partitions, and for a migration repeated
  after its disk was wiped: staging begins with opening the old volume.
* A quick wipe of a disk whose old header is where the new partition starts
  skips `luksFormat`; if the passphrase differs, no run opens it.
* Concurrent refreshes may leave more UKIs than the count; a snapshot taken and
  deleted during one refresh may leave its UKI behind; and a path refresh that read the old
  kernel may write its UKI over the one the hook just built (`manage_snapshot_entries.sh:564`),
  until the next refresh.
* `cleanup` counts with `((count++))` under `set -e` (`manage_snapshot_entries.sh:660`): the
  first increment returns 1 and ends the script after one UKI, where
  docs/bootable-snapshots.md promises all. Not modelled; the line shows it.
* `SpareUnlocks` needs its condition that nothing failed silently: if `partprobe` does
  (`usb_boot.py:398`), `dd` and `cmp` both use the spare's old partitions and the
  comparison succeeds. Writes to the ESP while `dd` copies it are not modelled.
* `sbctl create-keys` that dies after the platform key leaves a target that every
  later run takes for one with keys (`boot.py:248`); it completes unsigned.
* A recovery partition that could not be unmounted makes the recovery step of every run
  in place raise until a reboot, and so does switching the recovery system on for a
  drive that is kept. A run without recovery that completes on such a drive leaves the entry of the earlier one.
* USB backup: if the last `umount` failed silently, the next backup goes to the partition still
  mounted (`usb_backup.py`), whichever was chosen; an interrupted `rsync --delete`
  is left under the manifest of the backup before.

## Proofs

The theorems hold for all values of the constants under the assumptions named
in the modules; they do not depend on the bounds.

`InstallationProofs`
* `TypeCorrect`.
* `LayoutCorrect`, any constants. `CompleteLayout` speaks of the last state only;
  `LayoutInv` adds why: no step after storage changes the mounts, a
  storage step that does not keep `/mnt` begins with an empty one, and the ESP is mounted last, so a mounted ESP means a whole
  layout. The boot loader is what refuses a missing ESP.
* `UnlocksCorrect`, for `Reconfigure = FALSE`. `HeaderInv` and `UnlockInv`: while something is open
  or mounted, the header of the configured device is that of the open volume with
  the new password, or is not there; the kernel images step, which needs the UUID, excludes
  the second case. The assumption is needed, see above.

`MigrationProofs`, any constants except where said
* `HeaderKept`, for `SilentFaults = FALSE`, which is needed, see the limits above: `OpenVolumeKeepsHeader`. Only wiping,
  partitioning the drive and formatting write headers; `ReleasedInv` says that the first two come after the release of
  the volume.
* `DataSafe`: `OldDataSafe` by `MigrationInv`, which says at each point where the only copy is:
  a closed disk with a filesystem still has all that is owed and was found, staging has it from the end
  of staging to the end of restoring, and what is restored lies in a filesystem with its
  header, so that the next run finds it there, or overlooks it while it is still there.
* `MigrationRefines`: `Installation` implements `PreservedData` under the mapping
  `Copies`. `CopiesSurvive` shows for each action that every item keeps a copy where it was
  (a step), that it was an inspection of a disk that holds everything, that the data was given up, or a reboot.

`BootDriveProofs`, any constants, silent faults included unless the property says otherwise
* `TypeCorrect`. `TypeOK` is not inductive: the number of changes recorded in the header has
  to be bounded by the changes made (`ChangesInv`).
* `KeyGone`: `KeyInv`, the one-time key exists only between its making and the signature.
* `RecoveryCorrect`: `RecoveryInv` follows UUID, certificate and signature from the step that
  makes them to the end of the run. Nothing about earlier runs is needed for that, because each run makes
  all of them anew once the live system is there. That the live system is whole does need them: `WholeInv` says
  that while nothing failed silently a drive with a header has no half-extracted live system, because the header is
  made after the extraction and removed before it, so that a drive left by a cut-short extraction is never kept.
* `SignedCorrect`: `SignedInv`. Numbers are given in the order things are made, so keys older than
  a volume were not made on it; the volume of the drive's header is the target's, or newer than the
  firmware's keys because its filesystem was never made.
* `SpareCorrect`: `SpareUnlocks` by `CloneInv`, how far the spare is a copy while only the passphrase
  can change on the drive; the header that was copied is remembered, and the comparison at the end
  finds a change.

`SnapshotUkisProofs`
* `TypeCorrect`: with it, a refresh never builds more than `Count`.
* `RefreshersAgree`: `RefreshersCover` for any number of snapshots, kernels, UKIs and faults, and any
  environment. `NumbersInv` (snapper counts upwards, what a refresher knows was complete) and `Served`, which says
  of each snapshot listed a little more than the property: one that is having its UKI written is
  writable already and its file is there, so that the writer makes it bootable when it succeeds. That a refresher
  takes up all it owes rests on lemmas about the newest elements of a set.
  The argument is that every refresh removes before it lists: whoever removes
  last also lists last.
* `KernelsNotOlder`: `UkiNotOlder` for the same generality. `ModulesInv` adds that the kernel in `/boot`, and the image a
  refresh holds, are at least as new as the modules of a snapshot not taken midway: snapshots are listed
  once they are complete, the kernel is read after that, and it only grows.

`QuietProofs`
* `QuietCorrect`: `QuietCovered` for any number of snapshots, kernels, UKIs, faults and restarts,
  for `AnyDelete = FALSE`, which is needed, see the limits. `QuietInv` has two parts. `WatchInv`: while a snapshot is
  half made the service runs or something is abandoned, and no fingerprint has it. `ListInv`: if nothing is
  abandoned and no listing is due (`Due`: a refresh before its listing, a marker with the drive out), there is a set
  of snapshots, those of the last listing, of which only the oldest were deleted since, to
  which only snapshots missing from the path service's fingerprint were added, and whose newest are `Served`. The set is
  quantified, not a variable: a restart forgets who listed what but not the UKIs.

`DotfilesSyncProofs`
* `TypeCorrect`, with `CloneInv`: a clone that exists has a commit.
* `EditsCorrect`: `EditsKept` is inductive together with the types.
* `PushCorrect`: `TravelInv` follows what was read from the working tree to the commit to the
  remote; it survives the other machines because the remote only grows, and a failed commit because it leaves
  the index staged until a later push commits.

`VersionProofs`
* `VersionsCorrect`: `VersionsGrow`, any constants. `VersionInv` says that versions never fall along the remote
  or along a clone's branch, that a clone's version file is not behind its HEAD, is ahead of it
  when about to commit, and that the commit about to be sent is ahead of all before it;
  during a rebase also that the commits to replay are no older than their parents
  (`ReplaySound`). Of a clone left on a detached HEAD nothing is said, and nothing is needed:
  it cannot push. That a fast-forward never leaves the file behind rests on what git refuses
  (`ForwardVersion`), that a replay does not on the three-way merge of the version file.

`CredentialsProofs`
* `TypeCorrect`.
* `InstallCorrect`: `InstallInv` says that every ciphertext in the file or in the text to be
  written holds a password meant for its name (`FileInv`, `TextInv`) and that values keep
  their source (`ValuesInv`); swapped entries do not open, because the name is
  bound into the ciphertext.
* `StoredCorrect`, for `"flow" \notin Styles`: `StoredInv` says that one key opens all that is stored
  while the file is whole (`TogetherInv`), which the check establishes before the text
  is edited (`CheckedInv`, `EditedInv`).

Every invariant and action property of the passing runs, and the refinement, is
thereby proved. The inductive invariants were checked with TLC, on the constants of the
run in question, before they were proved.

Only model-checked: the liveness properties `EventuallyComplete` and `EventuallyCovered`,
since the prover does not handle fairness and `ENABLED`, and the five violations, which are
counterexamples. TLC still has its part in the proved ones: the mutants of `PROJECT.json` show that
a plausible bug would break each.

## Not modelled

USB backup, one sequential copy of files whose hazards are listed above; the configuration steps, which are lists of commands and
appear only as steps that can fail; the contents of kernel images; the
conversion of settings other than passwords; `list`, `cleanup` and `space` of the snapshot
script; two dotfiles-sync started in the same moment, which both get the lock; `verify_install.sh`, which reads only; the TUI's drawing and logging.

## Plan

1. Done: `Installation`, then `SnapshotUkis`, `DotfilesSync`, `Credentials`, with the
   theorems above.
2. Done: restarts, giving up and the modules of snapshots in `SnapshotUkis`; `PreservedData`
   and its refinement; `BootDrive`.
3. Done: `MigrationProofs`, `BootDriveProofs`, `QuietProofs`, `VersionProofs`.
4. The test-then-write lock of `dotfiles-sync.sh:265` as a race of two runs on one clone.

## Running

    tlc -config install_silent.cfg MCInstallation     # likewise the other runs
    tlapm InstallationProofs.tla                      # likewise the other proofs
