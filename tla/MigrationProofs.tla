-------------------------- MODULE MigrationProofs ---------------------------
(***************************************************************************)
(* Proofs about Installation, for every set of subvolumes, configurations  *)
(* and starting disks, any number of faults and reboots, and an operator   *)
(* who may change the configuration between runs: migration implements     *)
(* PreservedData, whatever fails, loudly or silently; and, when no command *)
(* fails silently, the open volume keeps its header.                       *)
(***************************************************************************)
EXTENDS InstallationProofs

UntilOpened ==
    {"usb", "usb_partition", "usb_format", "storage", "wipe", "partition", "luks", "open"}
OnTheNewSystem == {"mount_root", "mount", "swap", "packages", "fstab", "services", "restore"}
OnTheNewFs == {"mount_top", "subvolumes"} \union OnTheNewSystem
OnTheNewVolume == {"btrfs"} \union OnTheNewFs

(* Where the data to be preserved is at each point of a migration: a closed disk with a
   filesystem on it still holds all of it (old data is only ever replaced under an open
   volume), from the end of staging to the end of restoring all that was found is staged,
   and it is restored into a filesystem whose header is in place. *)
MigrationInv ==
    /\ OldDataSafe
    /\ ~cfg.migration /\ pc # "idle" => owed = {}
    /\ mapper.vol = 0 /\ fs.vol # 0 => owed \subseteq fs.items
    /\ mnt # {} => mapper.vol # 0
    /\ pc \in {"btrfs", "mount_top", "subvolumes", "mount_root", "mount"} => mapper.vol # 0
    /\ pc = "open" => header[luks_header_device(cfg)].vol # 0
    /\ cfg.migration =>
        /\ pc \in UntilOpened \union {"stage_copy"} => mapper.vol = 0
        /\ pc = "stage_copy" => fs.vol # 0 /\ header[table].vol = fs.vol
        /\ pc \in UntilOpened \union OnTheNewVolume => owed \ overlooked \subseteq staged
        /\ pc \in OnTheNewVolume => /\ mapper.vol # 0
                                    /\ header[luks_header_device(cfg)].vol = mapper.vol
        /\ pc \in OnTheNewFs => fs.vol = mapper.vol

(* The volume a previous attempt left open is closed before the disk is wiped, and before
   the drive is partitioned unless the drive has no header. *)
ReleasedInv ==
    /\ pc = "usb_partition" => mapper.vol = 0 \/ header["stick"].vol = 0
    /\ pc = "wipe" => mapper.vol = 0

(* What a step of the installer does to the data: each item found keeps a copy where it had
   one. *)
Survives ==
    /\ owed' = owed /\ overlooked' = overlooked
    /\ \A i \in owed \ overlooked :
          (OnDisk(i) /\ OnDisk(i)') \/ (i \in staged /\ i \in staged')

(* The step that inspects the old system finds all that is owed on the disk. *)
Inspects ==
    /\ owed' = owed
    /\ \A i \in owed : OnDisk(i) /\ OnDisk(i)'

USE ConstantsAssumption

(* Preservation of the released invariant, one case per action. *)
LEMMA ReleasedStep == ASSUME ~SilentFaults, ReleasedInv, [Next]_vars PROVE ReleasedInv'
<1> USE DEF ReleasedInv, Goto, disk, live, promise, bounds
<1>1. CASE StartRun
  BY <1>1 DEF StartRun
<1>2. CASE Reboot
  BY <1>2 DEF Reboot
<1>3. CASE StagingRefuses
  BY <1>3 DEF StagingRefuses
<1>4. CASE StagingStarts
  BY <1>4 DEF StagingStarts
<1>5. CASE StageItem
  BY <1>5 DEF StageItem
<1>6. CASE StagingEnds
  BY <1>6 DEF StagingEnds, AfterStaging
<1>7. CASE UsbKeep
  BY <1>7 DEF UsbKeep
<1>8. CASE UsbRelease
  BY <1>8 DEF UsbRelease, SilentFault, keeps_existing_drive, NoMapper
<1>9. CASE UsbPartition
  BY <1>9 DEF UsbPartition
<1>10. CASE UsbFormat
  BY <1>10 DEF UsbFormat
<1>11. CASE StorageKeep
  BY <1>11 DEF StorageKeep
<1>12. CASE StorageStart
  BY <1>12 DEF StorageStart, SilentFault, NoMapper
<1>13. CASE Wipe
  BY <1>13 DEF Wipe
<1>14. CASE Partition
  BY <1>14 DEF Partition
<1>15. CASE LuksAlreadyOpen
  BY <1>15 DEF LuksAlreadyOpen
<1>16. CASE LuksFormat
  BY <1>16 DEF LuksFormat
<1>17. CASE LuksKeep
  BY <1>17 DEF LuksKeep
<1>18. CASE LuksOpen
  BY <1>18 DEF LuksOpen
<1>19. CASE Btrfs
  BY <1>19 DEF Btrfs
<1>20. CASE MountTopLevel
  BY <1>20 DEF MountTopLevel
<1>21. CASE CreateSubvolume
  BY <1>21 DEF CreateSubvolume
<1>22. CASE UnmountTopLevel
  BY <1>22 DEF UnmountTopLevel
<1>23. CASE MountRoot
  BY <1>23 DEF MountRoot
<1>24. CASE MountSubvolume
  BY <1>24 DEF MountSubvolume
<1>25. CASE MountEfi
  BY <1>25 DEF MountEfi
<1>26. CASE Swapfile
  BY <1>26 DEF Swapfile
<1>27. CASE InstallPackages
  BY <1>27 DEF InstallPackages
<1>28. CASE GenerateFstab
  BY <1>28 DEF GenerateFstab
<1>29. CASE EnableServices
  BY <1>29 DEF EnableServices, AfterPackages
<1>30. CASE RestoreItem
  BY <1>30 DEF RestoreItem
<1>31. CASE RestoreEnds
  BY <1>31 DEF RestoreEnds
<1>32. CASE Configure
  BY <1>32 DEF Configure
<1>33. CASE KernelImages
  BY <1>33 DEF KernelImages
<1>34. CASE Bootloader
  BY <1>34 DEF Bootloader
<1>35. CASE Snapshots
  BY <1>35 DEF Snapshots, AfterSnapshots
<1>36. CASE Safeguards
  BY <1>36 DEF Safeguards
<1>37. CASE Finish
  BY <1>37 DEF Finish
<1>38. CASE WipeFails
  BY <1>38 DEF WipeFails
<1>39. CASE PartitionFails
  BY <1>39 DEF PartitionFails
<1>40. CASE BtrfsFails
  BY <1>40 DEF BtrfsFails
<1>41. CASE SwapfileFails
  BY <1>41 DEF SwapfileFails
<1>42. CASE PacstrapFails
  BY <1>42 DEF PacstrapFails
<1>43. CASE UsbPartitionFails
  BY <1>43 DEF UsbPartitionFails
<1>44. CASE Fault
  BY <1>44 DEF Fault
<1>45. CASE UNCHANGED vars
  BY <1>45 DEF vars
<1>46. CASE LuksFormatFails
  BY <1>46 DEF LuksFormatFails
<1> QED
  BY <1>1, <1>2, <1>3, <1>4, <1>5, <1>6, <1>7, <1>8, <1>9, <1>10, <1>11, <1>12,
     <1>13, <1>14, <1>15, <1>16, <1>17, <1>18, <1>19, <1>20, <1>21, <1>22,
     <1>23, <1>24, <1>25, <1>26, <1>27, <1>28, <1>29, <1>30, <1>31, <1>32,
     <1>33, <1>34, <1>35, <1>36, <1>37, <1>38, <1>39, <1>40, <1>41, <1>42,
     <1>43, <1>44, <1>45, <1>46
  DEF Next, Step, Operator, StagingStep, UsbStep, StorageStep, PackagesStep, RestoreStep,
     BootStep, StepFails

\* No step destroys the header of the volume that is open as cryptroot
\* (OpenVolumeKeepsHeader): only wiping, partitioning the drive and formatting a place
\* without a header write headers, and the first two release the volume before.
THEOREM HeaderKept == ASSUME ~SilentFaults PROVE Spec => OpenVolumeKeepsHeader
<1> DEFINE Keeps == \A p \in Places : header[p].vol # 0 /\ header[p].vol = mapper.vol
                                         => header'[p] = header[p]
<1>1. Init => ReleasedInv
  BY DEF Init, ReleasedInv
<1>2. ASSUME TypeOK, ReleasedInv, [Next]_vars PROVE Keeps
  <2> USE <1>2 DEF disk, Places, TypeOK
  <2>1. CASE UNCHANGED header
    BY <2>1
  <2>2. CASE UsbPartition \/ UsbPartitionFails
    BY <2>2 DEF UsbPartition, UsbPartitionFails, ReleasedInv
  <2>3. CASE Wipe \/ WipeFails
    BY <2>3 DEF Wipe, WipeFails, ReleasedInv
  <2>4. CASE LuksFormat \/ LuksFormatFails
    BY <2>4 DEF LuksFormat, LuksFormatFails, luks_header_device
  <2> QED
    BY <2>1, <2>2, <2>3, <2>4
    DEF vars, Next, Step, Operator, StagingStep, UsbStep, StorageStep, PackagesStep,
       RestoreStep, BootStep, StepFails, StartRun, Reboot, StagingRefuses, StagingStarts,
       StageItem, StagingEnds, UsbKeep, UsbRelease, UsbFormat, StorageKeep, StorageStart,
       Partition, LuksAlreadyOpen, LuksKeep, LuksOpen, Btrfs, MountTopLevel, CreateSubvolume,
       UnmountTopLevel, MountRoot, MountSubvolume, MountEfi, Swapfile, InstallPackages,
       GenerateFstab, EnableServices, RestoreItem, RestoreEnds, Configure, KernelImages,
       Bootloader, Snapshots, Safeguards, Finish, PartitionFails, BtrfsFails, SwapfileFails,
       PacstrapFails, Fault
<1>3. TypeOK /\ ReleasedInv /\ [Next]_vars => ReleasedInv' /\ [Keeps]_vars
  BY <1>2, ReleasedStep
<1> QED
  BY <1>1, <1>3, TypeCorrect, PTL DEF Spec, OpenVolumeKeepsHeader

(* Every step keeps a copy of every item found, unless the operator gives the data up or
   reboots. *)
LEMMA CopiesSurvive ==
    ASSUME TypeOK, MigrationInv, [Next]_vars
    PROVE  Survives \/ Inspects \/ owed' = {} \/ Reboot
<1> USE DEF MigrationInv, OldDataSafe, Survives, Inspects, OnDisk, UntilOpened, OnTheNewSystem,
            OnTheNewFs, OnTheNewVolume, Goto, disk, live, promise, bounds
<1>1. CASE StartRun
  BY <1>1 DEF StartRun
<1>2. CASE Reboot
  BY <1>2 DEF Reboot
<1>3. CASE StagingRefuses
  BY <1>3 DEF StagingRefuses
<1>4. CASE StagingStarts
  BY <1>4 DEF StagingStarts, OldSystemOpens
<1>5. CASE StageItem
  BY <1>5 DEF StageItem
<1>6. CASE StagingEnds
  BY <1>6 DEF StagingEnds
<1>7. CASE UsbKeep
  BY <1>7 DEF UsbKeep
<1>8. CASE UsbRelease
  BY <1>8 DEF UsbRelease
<1>9. CASE UsbPartition
  BY <1>9 DEF UsbPartition
<1>10. CASE UsbFormat
  BY <1>10 DEF UsbFormat
<1>11. CASE StorageKeep
  BY <1>11 DEF StorageKeep
<1>12. CASE StorageStart
  BY <1>12 DEF StorageStart
<1>13. CASE Wipe
  BY <1>13 DEF Wipe
<1>14. CASE Partition
  BY <1>14 DEF Partition
<1>15. CASE LuksAlreadyOpen
  BY <1>15 DEF LuksAlreadyOpen
<1>16. CASE LuksFormat
  BY <1>16 DEF LuksFormat
<1>17. CASE LuksKeep
  BY <1>17 DEF LuksKeep
<1>18. CASE LuksOpen
  BY <1>18 DEF LuksOpen
<1>19. CASE Btrfs
  BY <1>19 DEF Btrfs
<1>20. CASE MountTopLevel
  BY <1>20 DEF MountTopLevel
<1>21. CASE CreateSubvolume
  BY <1>21 DEF CreateSubvolume, TypeOK, FsType
<1>22. CASE UnmountTopLevel
  BY <1>22 DEF UnmountTopLevel
<1>23. CASE MountRoot
  BY <1>23 DEF MountRoot
<1>24. CASE MountSubvolume
  BY <1>24 DEF MountSubvolume
<1>25. CASE MountEfi
  BY <1>25 DEF MountEfi
<1>26. CASE Swapfile
  BY <1>26 DEF Swapfile, TypeOK, FsType
<1>27. CASE InstallPackages
  BY <1>27 DEF InstallPackages, TypeOK, FsType
<1>28. CASE GenerateFstab
  BY <1>28 DEF GenerateFstab, TypeOK, FsType
<1>29. CASE EnableServices
  BY <1>29 DEF EnableServices
<1>30. CASE RestoreItem
  BY <1>30 DEF RestoreItem, TypeOK, FsType
<1>31. CASE RestoreEnds
  BY <1>31 DEF RestoreEnds, luks_header_device
<1>32. CASE Configure
  BY <1>32 DEF Configure
<1>33. CASE KernelImages
  BY <1>33 DEF KernelImages
<1>34. CASE Bootloader
  BY <1>34 DEF Bootloader
<1>35. CASE Snapshots
  BY <1>35 DEF Snapshots
<1>36. CASE Safeguards
  BY <1>36 DEF Safeguards, TypeOK, FsType
<1>37. CASE Finish
  BY <1>37 DEF Finish
<1>38. CASE WipeFails
  BY <1>38 DEF WipeFails
<1>39. CASE PartitionFails
  BY <1>39 DEF PartitionFails
<1>40. CASE BtrfsFails
  BY <1>40 DEF BtrfsFails
<1>41. CASE SwapfileFails
  BY <1>41 DEF SwapfileFails, TypeOK, FsType
<1>42. CASE PacstrapFails
  BY <1>42 DEF PacstrapFails, TypeOK, FsType
<1>43. CASE UsbPartitionFails
  BY <1>43 DEF UsbPartitionFails
<1>44. CASE Fault
  BY <1>44 DEF Fault
<1>45. CASE UNCHANGED vars
  BY <1>45 DEF vars
<1>46. CASE LuksFormatFails
  BY <1>46 DEF LuksFormatFails
<1> QED
  BY <1>1, <1>2, <1>3, <1>4, <1>5, <1>6, <1>7, <1>8, <1>9, <1>10, <1>11, <1>12,
     <1>13, <1>14, <1>15, <1>16, <1>17, <1>18, <1>19, <1>20, <1>21, <1>22,
     <1>23, <1>24, <1>25, <1>26, <1>27, <1>28, <1>29, <1>30, <1>31, <1>32,
     <1>33, <1>34, <1>35, <1>36, <1>37, <1>38, <1>39, <1>40, <1>41, <1>42,
     <1>43, <1>44, <1>45, <1>46
  DEF Next, Step, Operator, StagingStep, UsbStep, StorageStep, PackagesStep, RestoreStep,
     BootStep, StepFails

(* Preservation of the migration invariant, one case per action. *)
LEMMA MigrationStep ==
    ASSUME TypeOK, MigrationInv, [Next]_vars
    PROVE  MigrationInv'
<1>0. OldDataSafe'
  BY CopiesSurvive DEF OldDataSafe, Survives, Inspects, OnDisk, Reboot, disk
<1> USE <1>0 DEF MigrationInv, UntilOpened, OnTheNewSystem, OnTheNewFs, OnTheNewVolume,
            luks_header_device, Goto, disk, live, promise, bounds
<1>1. CASE StartRun
  BY <1>1 DEF StartRun
<1>2. CASE Reboot
  BY <1>2 DEF Reboot, OnDisk, NoMapper
<1>3. CASE StagingRefuses
  BY <1>3 DEF StagingRefuses
<1>4. CASE StagingStarts
  BY <1>4 DEF StagingStarts, OldSystemOpens
<1>5. CASE StageItem
  BY <1>5 DEF StageItem
<1>6. CASE StagingEnds
  BY <1>6 DEF StagingEnds, AfterStaging, TypeOK, Items
<1>7. CASE UsbKeep
  BY <1>7 DEF UsbKeep, keeps_existing_drive, TargetMounted
<1>8. CASE UsbRelease
  BY <1>8 DEF UsbRelease, NoMapper, SilentFault, TargetMounted
<1>9. CASE UsbPartition
  BY <1>9 DEF UsbPartition, NoHeader, SilentFault, TypeOK, Places, Layouts
<1>10. CASE UsbFormat
  BY <1>10 DEF UsbFormat
<1>11. CASE StorageKeep
  BY <1>11 DEF StorageKeep, TargetMounted
<1>12. CASE StorageStart
  BY <1>12 DEF StorageStart, NoMapper, SilentFault, luks_is_usable, TargetMounted
<1>13. CASE Wipe
  BY <1>13 DEF Wipe, WipeEffect, NoHeader, NoFs, NewFs, SilentFault, TypeOK, Places, Layouts
<1>14. CASE Partition
  BY <1>14 DEF Partition
<1>15. CASE LuksAlreadyOpen
  BY <1>15 DEF LuksAlreadyOpen
<1>16. CASE LuksFormat
  BY <1>16 DEF LuksFormat, TypeOK, Places, Layouts
<1>17. CASE LuksKeep
  BY <1>17 DEF LuksKeep
<1>18. CASE LuksOpen
  BY <1>18 DEF LuksOpen, TypeOK, Places, Layouts
<1>19. CASE Btrfs
  BY <1>19 DEF Btrfs, NewFs
<1>20. CASE MountTopLevel
  BY <1>20 DEF MountTopLevel
<1>21. CASE CreateSubvolume
  BY <1>21 DEF CreateSubvolume, TypeOK, FsType
<1>22. CASE UnmountTopLevel
  BY <1>22 DEF UnmountTopLevel
<1>23. CASE MountRoot
  BY <1>23 DEF MountRoot
<1>24. CASE MountSubvolume
  BY <1>24 DEF MountSubvolume
<1>25. CASE MountEfi
  BY <1>25 DEF MountEfi
<1>26. CASE Swapfile
  BY <1>26 DEF Swapfile, TypeOK, FsType
<1>27. CASE InstallPackages
  BY <1>27 DEF InstallPackages, TypeOK, FsType
<1>28. CASE GenerateFstab
  BY <1>28 DEF GenerateFstab, TypeOK, FsType
<1>29. CASE EnableServices
  BY <1>29 DEF EnableServices, AfterPackages
<1>30. CASE RestoreItem
  BY <1>30 DEF RestoreItem, TypeOK, FsType
<1>31. CASE RestoreEnds
  BY <1>31 DEF RestoreEnds
<1>32. CASE Configure
  BY <1>32 DEF Configure
<1>33. CASE KernelImages
  BY <1>33 DEF KernelImages
<1>34. CASE Bootloader
  BY <1>34 DEF Bootloader
<1>35. CASE Snapshots
  BY <1>35 DEF Snapshots, AfterSnapshots
<1>36. CASE Safeguards
  BY <1>36 DEF Safeguards, TypeOK, FsType
<1>37. CASE Finish
  BY <1>37 DEF Finish
<1>38. CASE WipeFails
  BY <1>38 DEF WipeFails, WipeEffect, NoHeader, NoFs, NewFs, TypeOK, Places, Layouts
<1>39. CASE PartitionFails
  BY <1>39 DEF PartitionFails
<1>40. CASE BtrfsFails
  BY <1>40 DEF BtrfsFails, NoFs, NewFs
<1>41. CASE SwapfileFails
  BY <1>41 DEF SwapfileFails, TypeOK, FsType
<1>42. CASE PacstrapFails
  BY <1>42 DEF PacstrapFails, TypeOK, FsType
<1>43. CASE UsbPartitionFails
  BY <1>43 DEF UsbPartitionFails, NoHeader, TypeOK, Places, Layouts
<1>44. CASE Fault
  BY <1>44 DEF Fault, PlainFaultSteps
<1>45. CASE UNCHANGED vars
  BY <1>45 DEF vars
<1>46. CASE LuksFormatFails
  BY <1>46 DEF LuksFormatFails, TypeOK, Places, Layouts
<1> QED
  BY <1>1, <1>2, <1>3, <1>4, <1>5, <1>6, <1>7, <1>8, <1>9, <1>10, <1>11, <1>12,
     <1>13, <1>14, <1>15, <1>16, <1>17, <1>18, <1>19, <1>20, <1>21, <1>22,
     <1>23, <1>24, <1>25, <1>26, <1>27, <1>28, <1>29, <1>30, <1>31, <1>32,
     <1>33, <1>34, <1>35, <1>36, <1>37, <1>38, <1>39, <1>40, <1>41, <1>42,
     <1>43, <1>44, <1>45, <1>46
  DEF Next, Step, Operator, StagingStep, UsbStep, StorageStep, PackagesStep, RestoreStep,
     BootStep, StepFails

(* At the start nothing was staged and the disk holds what is owed. *)
LEMMA MigrationInit == Init => MigrationInv
<1> SUFFICES ASSUME Init PROVE MigrationInv
  OBVIOUS
<1> PICK c \in Configs, s \in Starts : Init!(c, s)
  BY DEF Init
<1>1. s \in StartType
  OBVIOUS
<1>2. fs.items = IF s.disk = "none" THEN {} ELSE Items
  BY DEF NoFs, OldFs, NewFs
<1>3. fs.vol = IF s.disk = "none" THEN 0 ELSE 1
  BY DEF NoFs, OldFs, NewFs
<1>4. OldDataSafe
  BY <1>1, <1>2, <1>3 DEF OldDataSafe, OnDisk, StartType, Places, Layouts, Items
<1> QED
  BY <1>1, <1>2, <1>3, <1>4
  DEF MigrationInv, UntilOpened, OnTheNewSystem, OnTheNewFs, OnTheNewVolume, NoMapper, Items

(* The two lemmas above, as an invariant of the specification. *)
LEMMA MigrationInvariant == Spec => []MigrationInv
<1>1. TypeOK /\ MigrationInv /\ [Next]_vars => MigrationInv'
  BY MigrationStep
<1> QED
  BY <1>1, MigrationInit, TypeCorrect, PTL DEF Spec

\* Each item the inspection of the old system found is readable on the disk or complete in
\* the staging directory, in every state of every run and between them, whichever commands
\* failed, loudly or silently (OldDataSafe).
THEOREM DataSafe == Spec => []OldDataSafe
<1>1. MigrationInv => OldDataSafe
  BY DEF MigrationInv
<1> QED
  BY <1>1, MigrationInvariant, PTL

\* The installer implements the promise of PreservedData (MigrationPreserves): staging,
\* wiping, formatting, restoring and failing at any of them map to steps that keep a copy
\* of each item found where it was, an inspection to one that finds everything on the disk;
\* running without migration gives the data up.
THEOREM MigrationRefines == Spec => MigrationPreserves
<1>1. Init => Promise!Init
  <2> SUFFICES ASSUME Init PROVE Promise!Init
    OBVIOUS
  <2>1. OldDataSafe /\ staged = {} /\ overlooked = {}
    BY MigrationInit DEF MigrationInv, Init
  <2>2. owed \in SUBSET Items
    BY DEF Init
  <2>3. Copies = [i \in owed |-> {"disk"}]
    BY <2>1 DEF Copies, OldDataSafe
  <2> QED
    BY <2>1, <2>2, <2>3 DEF Promise!Init
<1>2. ASSUME TypeOK, TypeOK', MigrationInv, [Next]_vars
      PROVE  [Promise!Inspect \/ Promise!Copy \/ Promise!Reboot
                  \/ Promise!GiveUp]_<<Copies, overlooked>>
  <2>1. CASE Survives
    <3>1. Promise!Copy
      BY <2>1 DEF Survives, Promise!Copy, Copies
    <3> QED
      BY <3>1
  <2>2. CASE Inspects
    <3>1. overlooked' \in SUBSET Items
      BY <1>2 DEF TypeOK
    <3>2. Promise!Inspect
      BY <2>2, <3>1 DEF Inspects, Promise!Inspect, Copies
    <3> QED
      BY <3>2
  <2>3. CASE owed' = {}
    <3>1. Promise!GiveUp
      BY <2>3 DEF Promise!GiveUp, Copies
    <3> QED
      BY <3>1
  <2>4. CASE Reboot
    <3>1. {j \in DOMAIN Copies : "disk" \in Copies[j]} = {i \in owed : OnDisk(i)}
      BY DEF Copies
    <3>2. owed' = {i \in owed : OnDisk(i)} /\ staged' = {} /\ overlooked' = overlooked
      BY <2>4 DEF Reboot
    <3>3. \A i \in owed' : OnDisk(i)'
      BY <2>4, <3>2 DEF Reboot, OnDisk, disk
    <3>4. Promise!Reboot
      BY <3>1, <3>2, <3>3 DEF Promise!Reboot, Copies
    <3> QED
      BY <3>4
  <2> QED
    BY <1>2, <2>1, <2>2, <2>3, <2>4, CopiesSurvive
<1> QED
  BY <1>1, <1>2, TypeCorrect, MigrationInvariant, PTL
  DEF Spec, MigrationPreserves, Promise!Spec
=============================================================================
