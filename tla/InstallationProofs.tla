------------------------- MODULE InstallationProofs -------------------------
(***************************************************************************)
(* Proofs about Installation, for every set of subvolumes, configurations  *)
(* and starting disks, any number of faults, silent faults and reboots:    *)
(* types, the layout of a completed installation, and that its header      *)
(* unlocks it.                                                             *)
(***************************************************************************)
EXTENDS Installation, TLAPS

InstallSteps ==
    {"packages", "fstab", "services", "restore", "configure", "kernels", "bootloader",
     "snapshots", "safeguards", "finish", "complete"}

EspSteps == {"swap", "snapshots", "safeguards", "finish", "complete"}
UnmountedSteps == {"wipe", "partition", "luks", "open", "btrfs", "mount_top", "mount_root"}

(* What is mounted at each point of a run, and that an ESP at /mnt/efi means the whole
   layout is in place: the ESP is the last thing the storage step mounts, and nothing
   later removes a mount or a subvolume. *)
LayoutInv ==
    /\ "efi" \in mnt => mnt = Subvolumes \union {"efi"} /\ Subvolumes \subseteq fs.subvols
    /\ pc \in EspSteps => "efi" \in mnt
    /\ pc \in UnmountedSteps => mnt = {}
    /\ pc = "subvolumes" => mnt = {"top"}
    /\ pc \in {"mount_root", "mount"} => Subvolumes \subseteq fs.subvols
    /\ pc = "mount" => mnt \subseteq Subvolumes

Fits(h) == h.vol = 0 \/ (h.vol = mapper.vol /\ h.pwd = "new")

(* Where the header of the open volume is: on the drive; or, when this configuration
   wipes, at our partition; or, when it keeps partitions, at the partition of the table
   found.  It may have been erased meanwhile, never replaced by another one. *)
HeaderInv ==
    mapper.vol # 0 =>
        IF cfg.usb THEN Fits(header["stick"])
        ELSE IF wipe_method(cfg) # "skip"
             THEN table \in {"none", "ours"} /\ Fits(header["ours"])
             ELSE /\ table \in Layouts
                  /\ header[table].vol = mapper.vol /\ header[table].pwd = "new"

UnlockInv ==
    /\ header["none"].vol = 0
    /\ HeaderInv
    /\ mnt # {} => mapper.vol # 0 /\ fs.vol = mapper.vol
    /\ pc \in {"mount_top", "mount_root"} => fs.vol = mapper.vol
    /\ pc \in {"btrfs", "mount_top", "mount_root"} => mapper.vol # 0
    /\ pc = "open" => mapper.vol = 0 /\ header[luks_header_device(cfg)].vol # 0
    /\ pc \in InstallSteps \union {"mount"} => mnt # {}
    /\ pc \in {"bootloader", "snapshots", "safeguards", "finish", "complete"} =>
          header[luks_header_device(cfg)].vol # 0
    /\ ~cfg.usb /\ pc \in {"luks", "open"} =>
          table \in (IF wipe_method(cfg) # "skip" THEN {"ours"} ELSE Layouts)
    /\ ~cfg.usb /\ wipe_method(cfg) = "skip" /\ pc \in {"wipe", "partition"} =>
          mapper.vol = 0

USE ConstantsAssumption

(* Releasing the drive unmounts everything or something, the ESP before all else. *)
LEMMA ReleaseUnmounts == UsbRelease => mnt' \subseteq mnt /\ ("efi" \in mnt' => mnt' = mnt)
BY DEF UsbRelease, PartlyUnmounted

(* The values the model makes have their types. *)
LEMMA NoHeaderType == NoHeader \in HeaderType
BY DEF NoHeader, HeaderType, Keyslots, Passwords

LEMMA NoMapperType == NoMapper \in [vol: Nat, dev: Devices]
BY DEF NoMapper, Devices

LEMMA NewFsType == \A v \in Nat : NewFs(v) \in FsType
BY DEF NewFs, FsType, Trees, OsStates

LEMMA NoFsType == NoFs \in FsType
BY NewFsType DEF NoFs

LEMMA OldFsType == \A home \in BOOLEAN : OldFs(home) \in FsType
<1> TAKE home \in BOOLEAN
<1> DEFINE subvols == IF home THEN {Root, Home} ELSE {Root}
<1>1. subvols \in SUBSET Subvolumes
  OBVIOUS
<1>2. [t \in Trees |-> IF t = "root" THEN "full" ELSE "none"] \in [Trees -> OsStates]
  BY DEF OsStates
<1>3. [t \in Trees |-> IF t = "root" THEN subvols \union {"efi"} ELSE {}]
         \in [Trees -> SUBSET Entries]
  BY <1>1 DEF Entries, Mounts
<1> QED
  BY <1>1, <1>2, <1>3 DEF OldFs, NewFs, FsType

\* Type correctness of every variable, in every reachable state (TypeOK).
THEOREM TypeCorrect == Spec => []TypeOK
<1> USE DEF TypeOK, Running, PlainFaultSteps, Passwords, Keyslots, WipeMethods, Layouts, Places,
            Devices, Items, Trees, OsStates, Mounts, Entries, HeaderType, FsType
<1>1. Init => TypeOK
  <2> SUFFICES ASSUME Init PROVE TypeOK
    OBVIOUS
  <2> PICK c \in Configs, s \in Starts : Init!(c, s)
    BY DEF Init
  <2>1. s \in StartType
    OBVIOUS
  <2>2. header \in [Places -> HeaderType]
    BY <2>1, NoHeaderType DEF StartType
  <2>3. fs \in FsType
    BY <2>1, NoFsType, OldFsType DEF StartType
  <2> QED
    BY <2>1, <2>2, <2>3, NoMapperType DEF StartType
<1>2. TypeOK /\ [Next]_vars => TypeOK'
  <2> SUFFICES ASSUME TypeOK, [Next]_vars PROVE TypeOK'
    OBVIOUS
  <2> USE DEF Goto, disk, live, promise, bounds
  <2>1. CASE StartRun
    BY <2>1 DEF StartRun
  <2>2. CASE Reboot
    <3>1. swapOn' \in BOOLEAN
      BY <2>2 DEF Reboot
    <3>2. owed' \in SUBSET Items
      <4>1. owed' \subseteq owed
        BY <2>2 DEF Reboot
      <4> QED
        BY <4>1
    <3> QED
      BY <2>2, <3>1, <3>2, NoMapperType DEF Reboot
  <2>3. CASE StagingRefuses
    BY <2>3 DEF StagingRefuses
  <2>4. CASE StagingStarts
    <3>1. overlooked' \subseteq fs.items
      BY <2>4 DEF StagingStarts
    <3> QED
      BY <2>4, <3>1 DEF StagingStarts, SilentFault
  <2>5. CASE StageItem
    BY <2>5 DEF StageItem
  <2>6. CASE StagingEnds
    BY <2>6 DEF StagingEnds, AfterStaging
  <2>7. CASE UsbKeep
    BY <2>7 DEF UsbKeep
  <2>8. CASE UsbRelease
    <3>1. swapOn' \in BOOLEAN
      BY <2>8 DEF UsbRelease
    <3>2. mapper' \in [vol: Nat, dev: Devices]
      BY <2>8, NoMapperType DEF UsbRelease
    <3> QED
      BY <2>8, <3>1, <3>2, ReleaseUnmounts DEF UsbRelease, SilentFault
  <2>9. CASE UsbPartition
    BY <2>9 DEF UsbPartition, SilentFault, NoHeader
  <2>10. CASE UsbFormat
    BY <2>10 DEF UsbFormat
  <2>11. CASE StorageKeep
    BY <2>11 DEF StorageKeep
  <2>12. CASE StorageStart
    <3>1. swapOn' \in BOOLEAN
      BY <2>12 DEF StorageStart
    <3>2. mapper' \in [vol: Nat, dev: Devices]
      BY <2>12, NoMapperType DEF StorageStart
    <3> QED
      BY <2>12, <3>1, <3>2 DEF StorageStart, SilentFault
  <2>13. CASE Wipe
    <3>1. filled' \in BOOLEAN
      BY <2>13 DEF Wipe
    <3>2. header' \in [Places -> HeaderType] /\ fs' \in FsType
      BY <2>13, NoHeaderType, NoFsType DEF Wipe, WipeEffect
    <3> QED
      BY <2>13, <3>1, <3>2 DEF Wipe, WipeEffect, SilentFault
  <2>14. CASE Partition
    BY <2>14 DEF Partition
  <2>15. CASE LuksAlreadyOpen
    BY <2>15 DEF LuksAlreadyOpen
  <2>16. CASE LuksFormat
    BY <2>16 DEF LuksFormat, luks_header_device
  <2>17. CASE LuksKeep
    BY <2>17 DEF LuksKeep
  <2>18. CASE LuksOpen
    <3>1. header[luks_header_device(cfg)] \in HeaderType
      BY DEF luks_header_device
    <3>2. mapper' \in [vol: Nat, dev: Devices]
      BY <2>18, <3>1 DEF LuksOpen, encrypted_device
    <3> QED
      BY <2>18, <3>2 DEF LuksOpen
  <2>19. CASE Btrfs
    BY <2>19 DEF Btrfs, NewFs
  <2>20. CASE MountTopLevel
    BY <2>20 DEF MountTopLevel
  <2>21. CASE CreateSubvolume
    BY <2>21 DEF CreateSubvolume
  <2>22. CASE UnmountTopLevel
    BY <2>22 DEF UnmountTopLevel
  <2>23. CASE MountRoot
    BY <2>23 DEF MountRoot
  <2>24. CASE MountSubvolume
    BY <2>24 DEF MountSubvolume
  <2>25. CASE MountEfi
    BY <2>25 DEF MountEfi
  <2>26. CASE Swapfile
    <3>1. swapOn' \in BOOLEAN
      BY <2>26 DEF Swapfile
    <3>2. fs' \in FsType
      BY <2>26 DEF Swapfile
    <3> QED
      BY <2>26, <3>1, <3>2 DEF Swapfile
  <2>27. CASE InstallPackages
    BY <2>27 DEF InstallPackages, SilentFault, Tree
  <2>28. CASE GenerateFstab
    BY <2>28 DEF GenerateFstab, Tree
  <2>29. CASE EnableServices
    BY <2>29 DEF EnableServices, AfterPackages
  <2>30. CASE RestoreItem
    BY <2>30 DEF RestoreItem
  <2>31. CASE RestoreEnds
    BY <2>31 DEF RestoreEnds
  <2>32. CASE Configure
    BY <2>32 DEF Configure
  <2>33. CASE KernelImages
    BY <2>33 DEF KernelImages
  <2>34. CASE Bootloader
    BY <2>34 DEF Bootloader
  <2>35. CASE Snapshots
    BY <2>35 DEF Snapshots, AfterSnapshots
  <2>36. CASE Safeguards
    BY <2>36 DEF Safeguards, Tree
  <2>37. CASE Finish
    BY <2>37 DEF Finish
  <2>38. CASE WipeFails
    <3>1. filled' \in BOOLEAN
      BY <2>38 DEF WipeFails
    <3>2. header' \in [Places -> HeaderType] /\ fs' \in FsType
      BY <2>38, NoHeaderType, NoFsType DEF WipeFails, WipeEffect
    <3> QED
      BY <2>38, <3>1, <3>2 DEF WipeFails, WipeEffect, SilentFault
  <2>39. CASE PartitionFails
    BY <2>39 DEF PartitionFails
  <2>40. CASE BtrfsFails
    BY <2>40 DEF BtrfsFails, NewFs, NoFs
  <2>41. CASE SwapfileFails
    BY <2>41 DEF SwapfileFails
  <2>42. CASE PacstrapFails
    BY <2>42 DEF PacstrapFails, Tree
  <2>43. CASE UsbPartitionFails
    BY <2>43 DEF UsbPartitionFails, NoHeader
  <2>44. CASE Fault
    BY <2>44 DEF Fault
  <2>45. CASE UNCHANGED vars
    BY <2>45 DEF vars
  <2>46. CASE LuksFormatFails
    BY <2>46 DEF LuksFormatFails, luks_header_device
  <2> QED
    BY <2>1, <2>2, <2>3, <2>4, <2>5, <2>6, <2>7, <2>8, <2>9, <2>10, <2>11, <2>12, <2>13,
       <2>14, <2>15, <2>16, <2>17, <2>18, <2>19, <2>20, <2>21, <2>22, <2>23, <2>24, <2>25,
       <2>26, <2>27, <2>28, <2>29, <2>30, <2>31, <2>32, <2>33, <2>34, <2>35, <2>36, <2>37,
       <2>38, <2>39, <2>40, <2>41, <2>42, <2>43, <2>44, <2>45, <2>46
    DEF Next, Step, Operator, StagingStep, UsbStep, StorageStep, PackagesStep,
       RestoreStep, BootStep, StepFails
<1> QED
  BY <1>1, <1>2, PTL DEF Spec

(* Preservation of the layout invariant, one case per action. *)
LEMMA LayoutStep == TypeOK /\ LayoutInv /\ [Next]_vars => LayoutInv'
<1> SUFFICES ASSUME TypeOK, LayoutInv, [Next]_vars PROVE LayoutInv'
  OBVIOUS
<1> USE DEF LayoutInv, EspSteps, UnmountedSteps, Goto, disk, live, promise, bounds
<1>1. CASE StartRun
  BY <1>1 DEF StartRun
<1>2. CASE Reboot
  BY <1>2 DEF Reboot
<1>3. CASE StagingRefuses
  BY <1>3 DEF StagingRefuses
<1>4. CASE StagingStarts
  BY <1>4 DEF StagingStarts
<1>5. CASE StageItem
  BY <1>5 DEF StageItem
<1>6. CASE StagingEnds
  BY <1>6 DEF StagingEnds, AfterStaging
<1>7. CASE UsbKeep
  BY <1>7 DEF UsbKeep
<1>8. CASE UsbRelease
  BY <1>8, ReleaseUnmounts DEF UsbRelease
<1>9. CASE UsbPartition
  BY <1>9 DEF UsbPartition
<1>10. CASE UsbFormat
  BY <1>10 DEF UsbFormat
<1>11. CASE StorageKeep
  BY <1>11 DEF StorageKeep
<1>12. CASE StorageStart
  BY <1>12 DEF StorageStart, TargetMounted
<1>13. CASE Wipe
  BY <1>13 DEF Wipe, WipeEffect
<1>14. CASE Partition
  BY <1>14 DEF Partition
<1>15. CASE LuksAlreadyOpen
  BY <1>15 DEF LuksAlreadyOpen
<1>16. CASE LuksFormat
  BY <1>16 DEF LuksFormat
<1>17. CASE LuksKeep
  BY <1>17 DEF LuksKeep
<1>18. CASE LuksOpen
  BY <1>18 DEF LuksOpen
<1>19. CASE Btrfs
  BY <1>19 DEF Btrfs
<1>20. CASE MountTopLevel
  BY <1>20 DEF MountTopLevel
<1>21. CASE CreateSubvolume
  BY <1>21 DEF CreateSubvolume, TypeOK, FsType
<1>22. CASE UnmountTopLevel
  BY <1>22 DEF UnmountTopLevel
<1>23. CASE MountRoot
  BY <1>23 DEF MountRoot
<1>24. CASE MountSubvolume
  BY <1>24 DEF MountSubvolume
<1>25. CASE MountEfi
  BY <1>25 DEF MountEfi
<1>26. CASE Swapfile
  BY <1>26 DEF Swapfile, TypeOK, FsType
<1>27. CASE InstallPackages
  BY <1>27 DEF InstallPackages, TypeOK, FsType
<1>28. CASE GenerateFstab
  BY <1>28 DEF GenerateFstab, TypeOK, FsType
<1>29. CASE EnableServices
  BY <1>29 DEF EnableServices, AfterPackages
<1>30. CASE RestoreItem
  BY <1>30 DEF RestoreItem, TypeOK, FsType
<1>31. CASE RestoreEnds
  BY <1>31 DEF RestoreEnds
<1>32. CASE Configure
  BY <1>32 DEF Configure
<1>33. CASE KernelImages
  BY <1>33 DEF KernelImages
<1>34. CASE Bootloader
  BY <1>34 DEF Bootloader
<1>35. CASE Snapshots
  BY <1>35 DEF Snapshots, AfterSnapshots
<1>36. CASE Safeguards
  BY <1>36 DEF Safeguards, TypeOK, FsType
<1>37. CASE Finish
  BY <1>37 DEF Finish
<1>38. CASE WipeFails
  BY <1>38 DEF WipeFails, WipeEffect
<1>39. CASE PartitionFails
  BY <1>39 DEF PartitionFails
<1>40. CASE BtrfsFails
  BY <1>40 DEF BtrfsFails
<1>41. CASE SwapfileFails
  BY <1>41 DEF SwapfileFails, TypeOK, FsType
<1>42. CASE PacstrapFails
  BY <1>42 DEF PacstrapFails, TypeOK, FsType
<1>43. CASE UsbPartitionFails
  BY <1>43 DEF UsbPartitionFails
<1>44. CASE Fault
  BY <1>44 DEF Fault, PlainFaultSteps
<1>45. CASE UNCHANGED vars
  BY <1>45 DEF vars
<1>46. CASE LuksFormatFails
  BY <1>46 DEF LuksFormatFails
<1> QED
  BY <1>1, <1>2, <1>3, <1>4, <1>5, <1>6, <1>7, <1>8, <1>9, <1>10, <1>11,
     <1>12, <1>13, <1>14, <1>15, <1>16, <1>17, <1>18, <1>19, <1>20, <1>21, <1>22,
     <1>23, <1>24, <1>25, <1>26, <1>27, <1>28, <1>29, <1>30, <1>31, <1>32, <1>33,
     <1>34, <1>35, <1>36, <1>37, <1>38, <1>39, <1>40, <1>41, <1>42, <1>43, <1>44,
     <1>45, <1>46
  DEF Next, Step, Operator, StagingStep, UsbStep, StorageStep, PackagesStep, RestoreStep,
     BootStep, StepFails

\* Every completed installation has the declared layout mounted (CompleteLayout), however
\* many runs were interrupted before and wherever: bootctl install raises without an ESP,
\* and the ESP is mounted last.
THEOREM LayoutCorrect == Spec => []CompleteLayout
<1>1. Init => LayoutInv
  BY DEF Init, LayoutInv, EspSteps, UnmountedSteps
<1>2. LayoutInv => CompleteLayout
  BY DEF LayoutInv, CompleteLayout, EspSteps
<1> QED
  BY <1>1, <1>2, LayoutStep, TypeCorrect, PTL DEF Spec

(* Preservation of the unlock invariant when every run has the same configuration. *)
LEMMA UnlockStep ==
    ASSUME ~Reconfigure, TypeOK, LayoutInv, UnlockInv, [Next]_vars
    PROVE  UnlockInv'
<1> USE DEF LayoutInv, UnmountedSteps, EspSteps, UnlockInv, HeaderInv, Fits, InstallSteps,
            luks_header_device, wipe_method, Goto, disk, live, promise, bounds
<1>1. CASE StartRun
  BY <1>1 DEF StartRun
<1>2. CASE Reboot
  BY <1>2 DEF Reboot, NoMapper
<1>3. CASE StagingRefuses
  BY <1>3 DEF StagingRefuses
<1>4. CASE StagingStarts
  BY <1>4 DEF StagingStarts
<1>5. CASE StageItem
  BY <1>5 DEF StageItem
<1>6. CASE StagingEnds
  BY <1>6 DEF StagingEnds, AfterStaging
<1>7. CASE UsbKeep
  BY <1>7 DEF UsbKeep
<1>8. CASE UsbRelease
  BY <1>8, ReleaseUnmounts DEF UsbRelease, NoMapper
<1>9. CASE UsbPartition
  BY <1>9 DEF UsbPartition, NoHeader, TypeOK, Places, Layouts
<1>10. CASE UsbFormat
  BY <1>10 DEF UsbFormat
<1>11. CASE StorageKeep
  BY <1>11 DEF StorageKeep, TargetMounted
<1>12. CASE StorageStart
  BY <1>12 DEF StorageStart, TargetMounted, NoMapper, luks_is_usable, TypeOK, Layouts
<1>13. CASE Wipe
  BY <1>13 DEF Wipe, WipeEffect, NoHeader, NoFs, NewFs, TypeOK, Places, Layouts
<1>14. CASE Partition
  BY <1>14 DEF Partition, Layouts
<1>15. CASE LuksAlreadyOpen
  BY <1>15 DEF LuksAlreadyOpen
<1>16. CASE LuksFormat
  BY <1>16 DEF LuksFormat, TypeOK, Places, Layouts
<1>17. CASE LuksKeep
  BY <1>17 DEF LuksKeep, Layouts
<1>18. CASE LuksOpen
  BY <1>18 DEF LuksOpen, TypeOK, Places, Layouts
<1>19. CASE Btrfs
  BY <1>19 DEF Btrfs, NewFs, TypeOK, FsType
<1>20. CASE MountTopLevel
  BY <1>20 DEF MountTopLevel
<1>21. CASE CreateSubvolume
  BY <1>21 DEF CreateSubvolume, TypeOK, FsType
<1>22. CASE UnmountTopLevel
  BY <1>22 DEF UnmountTopLevel
<1>23. CASE MountRoot
  BY <1>23 DEF MountRoot
<1>24. CASE MountSubvolume
  BY <1>24 DEF MountSubvolume
<1>25. CASE MountEfi
  BY <1>25 DEF MountEfi
<1>26. CASE Swapfile
  BY <1>26 DEF Swapfile, TypeOK, FsType
<1>27. CASE InstallPackages
  BY <1>27 DEF InstallPackages, TypeOK, FsType
<1>28. CASE GenerateFstab
  BY <1>28 DEF GenerateFstab, TypeOK, FsType
<1>29. CASE EnableServices
  BY <1>29 DEF EnableServices, AfterPackages
<1>30. CASE RestoreItem
  BY <1>30 DEF RestoreItem, TypeOK, FsType
<1>31. CASE RestoreEnds
  BY <1>31 DEF RestoreEnds
<1>32. CASE Configure
  BY <1>32 DEF Configure
<1>33. CASE KernelImages
  BY <1>33 DEF KernelImages
<1>34. CASE Bootloader
  BY <1>34 DEF Bootloader
<1>35. CASE Snapshots
  BY <1>35 DEF Snapshots, AfterSnapshots
<1>36. CASE Safeguards
  BY <1>36 DEF Safeguards, TypeOK, FsType
<1>37. CASE Finish
  BY <1>37 DEF Finish
<1>38. CASE WipeFails
  BY <1>38 DEF WipeFails, WipeEffect, NoHeader, NoFs, NewFs, TypeOK, Places, Layouts
<1>39. CASE PartitionFails
  BY <1>39 DEF PartitionFails, Layouts
<1>40. CASE BtrfsFails
  BY <1>40 DEF BtrfsFails, NewFs, NoFs, TypeOK, FsType
<1>41. CASE SwapfileFails
  BY <1>41 DEF SwapfileFails, TypeOK, FsType
<1>42. CASE PacstrapFails
  BY <1>42 DEF PacstrapFails, TypeOK, FsType
<1>43. CASE UsbPartitionFails
  BY <1>43 DEF UsbPartitionFails, NoHeader, TypeOK, Places, Layouts
<1>44. CASE Fault
  BY <1>44 DEF Fault, PlainFaultSteps
<1>45. CASE UNCHANGED vars
  BY <1>45 DEF vars
<1>46. CASE LuksFormatFails
  BY <1>46 DEF LuksFormatFails, TypeOK, Places, Layouts
<1> QED
  BY <1>1, <1>2, <1>3, <1>4, <1>5, <1>6, <1>7, <1>8, <1>9, <1>10, <1>11,
     <1>12, <1>13, <1>14, <1>15, <1>16, <1>17, <1>18, <1>19, <1>20, <1>21, <1>22,
     <1>23, <1>24, <1>25, <1>26, <1>27, <1>28, <1>29, <1>30, <1>31, <1>32, <1>33,
     <1>34, <1>35, <1>36, <1>37, <1>38, <1>39, <1>40, <1>41, <1>42, <1>43, <1>44,
     <1>45, <1>46
  DEF Next, Step, Operator, StagingStep, UsbStep, StorageStep, PackagesStep, RestoreStep,
     BootStep, StepFails

\* With one configuration for all runs, a completed installation is inside the volume its
\* header unlocks with the configured password (CompleteUnlocks), whatever failed, loudly
\* or silently, in the runs before and however often the live system was rebooted.
THEOREM UnlocksCorrect ==
    ASSUME ~Reconfigure
    PROVE  Spec => []CompleteUnlocks
<1>1. Init => LayoutInv /\ UnlockInv
  BY DEF Init, LayoutInv, EspSteps, UnmountedSteps, UnlockInv, HeaderInv, InstallSteps,
         NoMapper, NoHeader, Places, Layouts, StartType
<1>2. TypeOK /\ LayoutInv /\ UnlockInv /\ [Next]_vars => LayoutInv' /\ UnlockInv'
  BY LayoutStep, UnlockStep
<1>3. TypeOK /\ UnlockInv => CompleteUnlocks
  BY DEF TypeOK, UnlockInv, HeaderInv, Fits, CompleteUnlocks, InstallSteps,
         luks_header_device, Layouts
<1> QED
  BY <1>1, <1>2, <1>3, TypeCorrect, PTL DEF Spec
=============================================================================
