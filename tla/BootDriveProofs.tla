--------------------------- MODULE BootDriveProofs --------------------------
(***************************************************************************)
(* Proofs about BootDrive, for every set of configurations and every bound *)
(* on faults, silent faults, reboots, keys, clones and passphrase changes: *)
(* types, the one-time signing key, the recovery system, the keys of the   *)
(* firmware, and the spare drive.                                          *)
(***************************************************************************)
EXTENDS BootDrive, TLAPS

(* The one-time key exists between its making and the signature only. *)
KeyInv == silent = 0 /\ key # 0 => pc = "rec_sign"

AtRecovery == {"rec_key", "rec_sign", "rec_build"}
RecoveryBuilt == {"rec_entry", "rec_sign_uki", "finish", "complete"}

(* What the recovery steps have made so far, and what the run remembers of it.  It holds
   with silent faults too: the commands that matter here raise. *)
RecoveryInv ==
    /\ pc \in AtRecovery => drive.third.live # "none" /\ local.uuid = drive.third.uuid
    /\ pc = "rec_sign" => key # 0
    /\ pc = "rec_build" => local.cert = drive.third.sig /\ drive.third.sig # 0
    /\ pc \in AtRecovery \union {"rec_mount", "rec_entry", "rec_sign_uki"} => cfg.recovery
    /\ pc \in RecoveryBuilt /\ cfg.recovery =>
          /\ drive.third.live # "none" /\ drive.third.sig # 0
          /\ drive.esp.recovery.cert = drive.third.sig
          /\ drive.esp.recovery.uuid = drive.third.uuid
    /\ pc \in {"rec_sign_uki", "finish", "complete"} /\ cfg.recovery => drive.esp.entry
    /\ pc \in {"finish", "complete"} /\ cfg.recovery =>
          drive.esp.recovery.signed = target.db

LoaderSigned == AtRecovery \union RecoveryBuilt \union {"rec_mount"}
OnTarget == LoaderSigned \union {"setup", "create", "enroll", "ukis", "sign", "loader"}

(* Keys the firmware got from this root filesystem are the ones it still has. *)
Enrolled == firmware > target.vol => firmware = target.db

(* What is numbered is numbered in the order it is made; the volume of the drive's header
   is the target's, or a later one than the firmware's keys (its filesystem was never
   made); and it is only opened without being mounted already when wipe method skip keeps
   its keys. *)
SignedInv ==
    /\ firmware <= ids /\ target.db <= ids
    /\ target.pk = 0 => target.db = 0
    /\ silent = 0 =>
        /\ mounted => target.vol = drive.header.vol /\ Enrolled
        /\ drive.header # NoHeader =>
              IF target.vol = drive.header.vol THEN Enrolled
              ELSE firmware <= drive.header.vol
        /\ pc \in {"format", "store", "extract"} => drive.header = NoHeader
        /\ pc = "storage" => mounted \/ drive.header = NoHeader \/ cfg.wipe = "skip"
        /\ pc \in OnTarget => mounted
        /\ pc \in LoaderSigned \union {"loader"} => drive.esp.uki = target.db
        /\ pc \in LoaderSigned => drive.esp.loader = target.db

(* A live system that was extracted in part is on a drive without a header, and before the
   storage step: the next run makes that drive anew. *)
WholeInv ==
    silent = 0 /\ drive.third.live = "half" =>
        /\ drive.header = NoHeader
        /\ pc \in {"idle", "failed", "drive", "format", "store", "extract"}
        /\ pc = "format" => cfg.recovery

(* How far the spare is a copy, while clone-usb-boot runs: nothing but the passphrase of
   the drive changes meanwhile, and the header copied is remembered. *)
CloneInv ==
    silent = 0 /\ cpc # "idle" =>
        /\ pc \in {"failed", "complete"}
        /\ clone.seen
        /\ clone.third = (drive.third # NoThird)
        /\ ~clone.third => spare.third = NoThird
        /\ cpc \in {"header", "third", "compare"} => spare.esp = drive.esp
        /\ cpc \in {"third", "compare"} => spare.header = clone.header
        /\ cpc = "compare" => spare.third = drive.third

USE BootDriveAssumption DEF Foreign, SetupMode

(* The values the model starts with have their types. *)
LEMMA EmptyTypes ==
    /\ NoHeader \in HeaderType /\ NoUki \in UkiType /\ EmptyEsp \in EspType
    /\ NoThird \in ThirdType /\ BlankDrive \in DriveType /\ NoTarget \in TargetType
    /\ NothingRead \in LocalType /\ NoClone \in CloneType
<1>1. NoHeader \in HeaderType /\ NoUki \in UkiType /\ NoTarget \in TargetType
  BY DEF NoHeader, HeaderType, NoUki, UkiType, NoTarget, TargetType, Ids
<1>2. EmptyEsp \in EspType
  BY <1>1 DEF EmptyEsp, EspType, Ids
<1>3. NoThird \in ThirdType /\ NothingRead \in LocalType
  BY DEF NoThird, ThirdType, NothingRead, LocalType, Ids
<1>4. NoClone \in CloneType /\ BlankDrive \in DriveType
  BY <1>1, <1>2, <1>3 DEF NoClone, CloneType, BlankDrive, DriveType
<1> QED
  BY <1>1, <1>2, <1>3, <1>4

(* The numbers the model uses: none, the vendor's, and the next one. *)
LEMMA KnownIds == 0 \in Ids /\ Foreign \in Ids
BY DEF Ids

(* A number that is free is one of the numbers. *)
LEMMA FreshId == ids \in Ids /\ TakeFresh => Fresh \in Ids /\ ids' \in Ids
BY DEF Ids, TakeFresh, Fresh

(* A drive with one of its three partitions replaced is a drive. *)
LEMMA DriveParts ==
    \A d \in DriveType :
        /\ d.esp \in EspType /\ d.header \in HeaderType /\ d.third \in ThirdType
        /\ \A e \in EspType : [d EXCEPT !.esp = e] \in DriveType
        /\ \A h \in HeaderType : [d EXCEPT !.header = h] \in DriveType
        /\ \A t \in ThirdType : [d EXCEPT !.third = t] \in DriveType
        /\ \A h \in HeaderType, t \in ThirdType :
              [d EXCEPT !.header = h, !.third = t] \in DriveType
BY DEF DriveType

(* A drive with one field of a partition replaced is a drive. *)
LEMMA DriveFieldUpdates ==
    \A d \in DriveType :
        /\ \A k \in Ids : /\ [d EXCEPT !.esp.uki = k] \in DriveType
                          /\ [d EXCEPT !.esp.loader = k] \in DriveType
                          /\ [d EXCEPT !.esp.recovery.signed = k] \in DriveType
                          /\ [d EXCEPT !.third.sig = k] \in DriveType
        /\ \A u \in UkiType : [d EXCEPT !.esp.recovery = u] \in DriveType
        /\ [d EXCEPT !.esp.entry = TRUE] \in DriveType
        /\ \A l \in {"none", "half", "whole"} : [d EXCEPT !.third.live = l] \in DriveType
BY DEF DriveType, EspType, UkiType, ThirdType

(* What a command that dies leaves of a drive is a drive. *)
LEMMA HalfDoneType == TypeOK => HalfDone \subseteq DriveType
<1> SUFFICES ASSUME TypeOK PROVE HalfDone \subseteq DriveType
  OBVIOUS
<1> USE DEF TypeOK
<1>1. [drive EXCEPT !.header = NoHeader, !.third = NoThird] \in DriveType
  BY EmptyTypes, DriveParts
<1>2. /\ [drive EXCEPT !.esp = EmptyEsp] \in DriveType
      /\ [drive EXCEPT !.third = NoThird] \in DriveType
  BY EmptyTypes, DriveParts
<1>3. /\ [drive EXCEPT !.esp.uki = 0] \in DriveType
      /\ [drive EXCEPT !.esp.loader = 0] \in DriveType
      /\ [drive EXCEPT !.third.sig = 0] \in DriveType
  BY KnownIds, DriveFieldUpdates
<1>4. [drive EXCEPT !.esp.recovery = NoUki] \in DriveType
  BY EmptyTypes, DriveFieldUpdates
<1>5. [drive EXCEPT !.third.live = "half"] \in DriveType
  BY DriveFieldUpdates
<1> QED
  BY <1>1, <1>2, <1>3, <1>4, <1>5 DEF HalfDone

(* A command that dies leaves the drive's header, or removes it. *)
LEMMA HalfDoneHeader == TypeOK => \A d \in HalfDone : d.header \in {drive.header, NoHeader}
<1> SUFFICES ASSUME TypeOK, NEW d \in HalfDone PROVE d.header \in {drive.header, NoHeader}
  OBVIOUS
<1>1. drive = [esp |-> drive.esp, header |-> drive.header, third |-> drive.third]
  BY DEF TypeOK, DriveType
<1>2. CASE pc = "drive"
  BY <1>1, <1>2 DEF HalfDone
<1>3. CASE pc \in {"format", "store", "extract"}
  BY <1>1, <1>3 DEF HalfDone
<1>4. CASE pc \notin {"drive", "format", "store", "extract"}
  BY <1>1, <1>4 DEF HalfDone
<1> QED
  BY <1>2, <1>3, <1>4

(* Only a bsdtar that dies leaves a live system in part. *)
LEMMA HalfDoneLive ==
    TypeOK => \A d \in HalfDone :
        d.third.live = "half" => drive.third.live = "half" \/ pc = "extract"
<1> SUFFICES ASSUME TypeOK, NEW d \in HalfDone, pc # "extract", d.third.live = "half"
             PROVE  drive.third.live = "half"
  OBVIOUS
<1>1. /\ drive = [esp |-> drive.esp, header |-> drive.header, third |-> drive.third]
      /\ drive.third = [uuid |-> drive.third.uuid, live |-> drive.third.live,
                        sig |-> drive.third.sig]
  BY DEF TypeOK, DriveType, ThirdType
<1>2. CASE pc \in {"drive", "store"}
  <2>1. d.third \in {drive.third, NoThird}
    BY <1>1, <1>2 DEF HalfDone
  <2>2. NoThird.live = "none"
    BY DEF NoThird
  <2> QED
    BY <2>1, <2>2
<1>3. CASE pc = "rec_sign"
  BY <1>1, <1>3 DEF HalfDone
<1>4. CASE pc \notin {"drive", "store", "rec_sign"}
  <2>1. d.third = drive.third
    BY <1>1, <1>4 DEF HalfDone
  <2> QED
    BY <2>1
<1> QED
  BY <1>2, <1>3, <1>4

(* The passphrase of the drive's header was changed as often as at all, or less. *)
ChangesInv == drive.header.change <= changes

(* Only a new header and a change of the passphrase touch the number of changes. *)
LEMMA ChangesStep == ASSUME TypeOK, ChangesInv, [Next]_vars PROVE ChangesInv'
<1> USE DEF ChangesInv, Goto, medium, live, cloning, bounds
<1>1. CASE StartRun
  BY <1>1 DEF StartRun
<1>2. CASE Reboot
  BY <1>2 DEF Reboot
<1>3. CASE DriveKeep
  BY <1>3 DEF DriveKeep
<1>4. CASE Partition
  BY <1>4 DEF Partition, TypeOK, DriveType, HeaderType, NoHeader
<1>5. CASE Format
  BY <1>5 DEF Format, TypeOK, DriveType
<1>6. CASE StoreFormat
  BY <1>6 DEF StoreFormat, TakeFresh, Fresh, TypeOK, DriveType
<1>7. CASE Extract
  BY <1>7 DEF Extract, TypeOK, DriveType
<1>8. CASE StorageKeep
  BY <1>8 DEF StorageKeep
<1>9. CASE StorageOpen
  BY <1>9 DEF StorageOpen
<1>10. CASE StorageNew
  BY <1>10 DEF StorageNew, TakeFresh, Fresh, TypeOK, DriveType, HeaderType, NoHeader
<1>11. CASE ReadSetupMode
  BY <1>11 DEF ReadSetupMode
<1>12. CASE CreateKeys
  BY <1>12 DEF CreateKeys, TakeFresh, Fresh
<1>13. CASE EnrollKeys
  BY <1>13 DEF EnrollKeys
<1>14. CASE BuildUkis
  BY <1>14 DEF BuildUkis, TypeOK, DriveType
<1>15. CASE SignUkis
  BY <1>15 DEF SignUkis, TypeOK, DriveType
<1>16. CASE Bootloader
  BY <1>16 DEF Bootloader, TypeOK, DriveType
<1>17. CASE RecoveryMount
  BY <1>17 DEF RecoveryMount
<1>18. CASE RecoveryKey
  BY <1>18 DEF RecoveryKey, TakeFresh, Fresh
<1>19. CASE SignRootImage
  BY <1>19 DEF SignRootImage, TypeOK, DriveType
<1>20. CASE BuildRecoveryUki
  BY <1>20 DEF BuildRecoveryUki, TypeOK, DriveType
<1>21. CASE RecoveryEntry
  BY <1>21 DEF RecoveryEntry, TypeOK, DriveType
<1>22. CASE SignRecoveryUki
  BY <1>22 DEF SignRecoveryUki, TypeOK, DriveType
<1>23. CASE Finish
  BY <1>23 DEF Finish
<1>24. CASE Fault
  BY <1>24, HalfDoneHeader DEF Fault, TypeOK, DriveType, HeaderType, NoHeader
<1>25. CASE StorageFails
  BY <1>25 DEF StorageFails, TakeFresh, Fresh, TypeOK, DriveType, HeaderType, NoHeader
<1>26. CASE CloneStart
  BY <1>26 DEF CloneStart
<1>27. CASE CloneEsp
  BY <1>27 DEF CloneEsp, CopyTo
<1>28. CASE CloneHeader
  BY <1>28 DEF CloneHeader, CopyTo
<1>29. CASE CloneThird
  BY <1>29 DEF CloneThird, CopyTo
<1>30. CASE CloneCompare
  BY <1>30 DEF CloneCompare
<1>31. CASE CloneFails
  BY <1>31 DEF CloneFails
<1>32. CASE ChangePassphrase
  BY <1>32 DEF ChangePassphrase, TypeOK, DriveType, HeaderType
<1>33. CASE UNCHANGED vars
  BY <1>33 DEF vars
<1> QED
  BY <1>1, <1>2, <1>3, <1>4, <1>5, <1>6, <1>7, <1>8, <1>9, <1>10, <1>11, <1>12,
     <1>13, <1>14, <1>15, <1>16, <1>17, <1>18, <1>19, <1>20, <1>21, <1>22,
     <1>23, <1>24, <1>25, <1>26, <1>27, <1>28, <1>29, <1>30, <1>31, <1>32, <1>33
  DEF Next, Step, Clone

\* Type correctness: a partition holds what its kind of filesystem can hold, and no counter
\* passes its bound, in every reachable state (TypeOK).
THEOREM TypeCorrect == Spec => []TypeOK
<1> USE DEF TypeOK, Running, RecoverySteps
<1>1. Init => TypeOK
  <2> SUFFICES ASSUME Init PROVE TypeOK
    OBVIOUS
  <2>1. mounted \in BOOLEAN /\ recMount \in BOOLEAN /\ reported \in BOOLEAN
    BY DEF Init
  <2>2. ids \in Ids /\ firmware \in Ids /\ key \in Ids
    BY KnownIds DEF Init
  <2> QED
    BY <2>1, <2>2, EmptyTypes DEF Init
<1>2. TypeOK /\ ChangesInv /\ [Next]_vars => TypeOK'
  <2> SUFFICES ASSUME TypeOK, ChangesInv, [Next]_vars PROVE TypeOK'
    OBVIOUS
  <2> USE DEF Goto, medium, live, cloning, bounds
  <2>1. CASE StartRun
    <3>1. local' \in LocalType
      BY <2>1, EmptyTypes DEF StartRun
    <3> QED
      BY <2>1, <3>1 DEF StartRun
  <2>2. CASE Reboot
    <3>1. mounted' \in BOOLEAN /\ recMount' \in BOOLEAN
      BY <2>2 DEF Reboot
    <3>2. local' \in LocalType /\ key' \in Ids
      BY <2>2, EmptyTypes, KnownIds DEF Reboot
    <3> QED
      BY <2>2, <3>1, <3>2 DEF Reboot
  <2>3. CASE DriveKeep
    BY <2>3 DEF DriveKeep
  <2>4. CASE Partition
    <3> DEFINE third == IF cfg.recovery THEN drive.third ELSE NoThird
    <3>1. PICK h \in {NoHeader, drive.header} :
             drive' = [drive EXCEPT !.header = h, !.third = third]
      BY <2>4 DEF Partition
    <3>2. h \in HeaderType /\ third \in ThirdType
      BY <3>1, EmptyTypes, DriveParts
    <3> HIDE DEF third
    <3>3. drive' \in DriveType
      BY <3>1, <3>2, DriveParts
    <3>4. mounted' \in BOOLEAN /\ recMount' \in BOOLEAN
      BY <2>4 DEF Partition
    <3> QED
      BY <2>4, <3>3, <3>4 DEF Partition, SilentFault
  <2>5. CASE Format
    <3>1. drive' \in DriveType
      BY <2>5, EmptyTypes, DriveParts DEF Format
    <3> QED
      BY <2>5, <3>1 DEF Format
  <2>6. CASE StoreFormat
    <3>1. TakeFresh => [NoThird EXCEPT !.uuid = Fresh] \in ThirdType /\ ids' \in Ids
      BY EmptyTypes, FreshId DEF ThirdType
    <3>2. drive' \in DriveType
      BY <2>6, <3>1, DriveParts DEF StoreFormat
    <3>3. recMount' \in BOOLEAN
      BY <2>6 DEF StoreFormat
    <3>4. ids' \in Ids
      BY <2>6, <3>1 DEF StoreFormat
    <3> QED
      BY <2>6, <3>1, <3>2, <3>3, <3>4 DEF StoreFormat
  <2>7. CASE Extract
    <3>1. drive' \in DriveType
      BY <2>7, DriveFieldUpdates DEF Extract
    <3>2. recMount' \in BOOLEAN
      BY <2>7 DEF Extract, Unmount
    <3> QED
      BY <2>7, <3>1, <3>2 DEF Extract, Unmount, SilentFault
  <2>8. CASE StorageKeep
    BY <2>8 DEF StorageKeep
  <2>9. CASE StorageOpen
    <3>1. mounted' \in BOOLEAN
      BY <2>9 DEF StorageOpen
    <3>2. target' \in TargetType
      BY <2>9 DEF StorageOpen, NoTarget, TargetType, DriveType, HeaderType, Ids
    <3> QED
      BY <2>9, <3>1, <3>2 DEF StorageOpen
  <2>10. CASE StorageNew
    <3>1. Fresh \in Ids /\ ids' \in Ids
      BY <2>10, FreshId DEF StorageNew
    <3>2. [NoHeader EXCEPT !.vol = Fresh] \in HeaderType
      BY <3>1, EmptyTypes DEF HeaderType
    <3>3. drive' \in DriveType
      BY <2>10, <3>2, DriveParts DEF StorageNew
    <3>4. mounted' \in BOOLEAN
      BY <2>10 DEF StorageNew
    <3>5. target' \in TargetType
      BY <2>10, <3>1, EmptyTypes DEF StorageNew, TargetType
    <3> QED
      BY <2>10, <3>1, <3>2, <3>3, <3>4, <3>5 DEF StorageNew
  <2>11. CASE ReadSetupMode
    <3>1. local' \in LocalType
      BY <2>11 DEF ReadSetupMode, LocalType
    <3> QED
      BY <2>11, <3>1 DEF ReadSetupMode, SilentFault
  <2>12. CASE CreateKeys
    <3>1. TakeFresh => Fresh \in Ids /\ ids' \in Ids
      BY FreshId
    <3>2. target' \in TargetType /\ ids' \in Ids
      BY <2>12, <3>1 DEF CreateKeys, TargetType
    <3> QED
      BY <2>12, <3>1, <3>2 DEF CreateKeys, SilentFault
  <2>13. CASE EnrollKeys
    <3>1. firmware' \in Ids
      BY <2>13 DEF EnrollKeys, TargetType
    <3> QED
      BY <2>13, <3>1 DEF EnrollKeys, SilentFault
  <2>14. CASE BuildUkis
    <3>1. drive' \in DriveType
      BY <2>14, DriveFieldUpdates, KnownIds DEF BuildUkis
    <3> QED
      BY <2>14, <3>1 DEF BuildUkis
  <2>15. CASE SignUkis
    <3>1. target.db \in Ids
      BY DEF TargetType
    <3>2. drive' \in DriveType
      BY <2>15, <3>1, DriveFieldUpdates DEF SignUkis
    <3> QED
      BY <2>15, <3>1, <3>2 DEF SignUkis, SilentFault
  <2>16. CASE Bootloader
    <3>1. target.db \in Ids
      BY DEF TargetType
    <3>2. [drive EXCEPT !.esp.loader = target.db] \in DriveType
      BY <3>1, DriveFieldUpdates
    <3>3. [drive EXCEPT !.esp.loader = 0] \in DriveType
      BY KnownIds, DriveFieldUpdates
    <3>4. drive' \in DriveType
      BY <2>16, <3>2, <3>3 DEF Bootloader
    <3> QED
      BY <2>16, <3>1, <3>2, <3>3, <3>4 DEF Bootloader, SilentFault
  <2>17. CASE RecoveryMount
    <3>1. local' \in LocalType
      BY <2>17 DEF RecoveryMount, LocalType, DriveType, ThirdType
    <3>2. recMount' \in BOOLEAN
      BY <2>17 DEF RecoveryMount
    <3> QED
      BY <2>17, <3>1, <3>2 DEF RecoveryMount
  <2>18. CASE RecoveryKey
    <3>1. key' \in Ids /\ ids' \in Ids
      BY <2>18, FreshId DEF RecoveryKey
    <3> QED
      BY <2>18, <3>1 DEF RecoveryKey
  <2>19. CASE SignRootImage
    <3>1. drive' \in DriveType
      BY <2>19, DriveFieldUpdates DEF SignRootImage
    <3>2. local' \in LocalType /\ key' \in Ids
      BY <2>19, KnownIds DEF SignRootImage, LocalType
    <3> QED
      BY <2>19, <3>1, <3>2 DEF SignRootImage, SilentFault
  <2>20. CASE BuildRecoveryUki
    <3>1. [cert |-> local.cert, uuid |-> local.uuid, signed |-> 0] \in UkiType
      BY KnownIds DEF LocalType, UkiType
    <3>2. drive' \in DriveType
      BY <2>20, <3>1, DriveFieldUpdates DEF BuildRecoveryUki
    <3>3. recMount' \in BOOLEAN
      BY <2>20 DEF BuildRecoveryUki, Unmount
    <3> QED
      BY <2>20, <3>1, <3>2, <3>3 DEF BuildRecoveryUki, Unmount, SilentFault
  <2>21. CASE RecoveryEntry
    <3>1. drive' \in DriveType
      BY <2>21, DriveFieldUpdates DEF RecoveryEntry
    <3> QED
      BY <2>21, <3>1 DEF RecoveryEntry
  <2>22. CASE SignRecoveryUki
    <3>1. drive' \in DriveType
      BY <2>22, DriveFieldUpdates DEF SignRecoveryUki, TargetType
    <3> QED
      BY <2>22, <3>1 DEF SignRecoveryUki
  <2>23. CASE Finish
    BY <2>23 DEF Finish
  <2>24. CASE Fault
    <3>1. drive' \in DriveType
      BY <2>24, HalfDoneType DEF Fault
    <3>2. mounted' \in BOOLEAN /\ recMount' \in BOOLEAN
      BY <2>24 DEF Fault
    <3>3. target' \in TargetType /\ ids' \in Ids
      BY <2>24, FreshId DEF Fault, TakeFresh, TargetType
    <3>4. key' \in Ids
      BY <2>24, KnownIds DEF Fault
    <3> QED
      BY <2>24, <3>1, <3>2, <3>3, <3>4 DEF Fault
  <2>25. CASE StorageFails
    <3>1. Fresh \in Ids /\ ids' \in Ids
      BY <2>25, FreshId DEF StorageFails
    <3>2. [NoHeader EXCEPT !.vol = Fresh] \in HeaderType
      BY <3>1, EmptyTypes DEF HeaderType
    <3>3. drive' \in DriveType
      BY <2>25, <3>2, DriveParts DEF StorageFails
    <3>4. target' \in TargetType
      BY <2>25, EmptyTypes DEF StorageFails
    <3> QED
      BY <2>25, <3>1, <3>2, <3>3, <3>4 DEF StorageFails
  <2>26. CASE CloneStart
    <3>1. spare' \in DriveType
      BY <2>26, EmptyTypes, DriveParts DEF CloneStart
    <3>2. clone' \in CloneType
      BY <2>26, EmptyTypes DEF CloneStart, NoClone, CloneType
    <3>3. reported' \in BOOLEAN
      BY <2>26 DEF CloneStart
    <3> QED
      BY <2>26, <3>1, <3>2, <3>3 DEF CloneStart, SilentFault
  <2>27. CASE CloneEsp
    <3>1. spare' \in DriveType
      BY <2>27 DEF CloneEsp, CopyTo, Copied, DriveType
    <3> QED
      BY <2>27, <3>1 DEF CloneEsp, CopyTo
  <2>28. CASE CloneHeader
    <3>1. spare' \in DriveType
      BY <2>28 DEF CloneHeader, CopyTo, Copied, DriveType
    <3>2. clone' \in CloneType
      BY <2>28 DEF CloneHeader, CloneType, DriveType
    <3> QED
      BY <2>28, <3>1, <3>2 DEF CloneHeader, CopyTo
  <2>29. CASE CloneThird
    <3>1. spare' \in DriveType
      BY <2>29 DEF CloneThird, CopyTo, Copied, DriveType
    <3> QED
      BY <2>29, <3>1 DEF CloneThird, CopyTo
  <2>30. CASE CloneCompare
    <3>1. clone' \in CloneType
      BY <2>30, EmptyTypes DEF CloneCompare
    <3>2. reported' \in BOOLEAN
      BY <2>30 DEF CloneCompare
    <3> QED
      BY <2>30, <3>1, <3>2 DEF CloneCompare
  <2>31. CASE CloneFails
    <3>1. spare' \in DriveType
      BY <2>31, EmptyTypes, DriveParts DEF CloneFails, Torn
    <3>2. clone' \in CloneType
      BY <2>31, EmptyTypes DEF CloneFails
    <3> QED
      BY <2>31, <3>1, <3>2 DEF CloneFails
  <2>32. CASE ChangePassphrase
    <3>1. changes + 1 \in 0..MaxChanges /\ drive.header.change + 1 \in 0..MaxChanges
      BY <2>32 DEF ChangePassphrase, ChangesInv, DriveType, HeaderType
    <3>2. drive' \in DriveType
      BY <2>32, <3>1 DEF ChangePassphrase, DriveType, HeaderType
    <3> QED
      BY <2>32, <3>1, <3>2 DEF ChangePassphrase, DriveType, HeaderType
  <2>33. CASE UNCHANGED vars
    BY <2>33 DEF vars
  <2> QED
    BY <2>1, <2>2, <2>3, <2>4, <2>5, <2>6, <2>7, <2>8, <2>9, <2>10, <2>11,
       <2>12, <2>13, <2>14, <2>15, <2>16, <2>17, <2>18, <2>19, <2>20, <2>21,
       <2>22, <2>23, <2>24, <2>25, <2>26, <2>27, <2>28, <2>29, <2>30, <2>31,
       <2>32, <2>33
    DEF Next, Step, Clone
<1>3. Init => ChangesInv
  BY DEF Init, ChangesInv, BlankDrive, NoHeader
<1>4. TypeOK /\ ChangesInv /\ [Next]_vars => ChangesInv'
  BY ChangesStep
<1> QED
  BY <1>1, <1>2, <1>3, <1>4, PTL DEF Spec

(* Preservation of the key invariant, one case per action. *)
LEMMA KeyStep == ASSUME TypeOK, KeyInv, [Next]_vars PROVE KeyInv'
<1> USE DEF KeyInv, Goto, medium, live, cloning, bounds
<1>1. CASE StartRun
  BY <1>1 DEF StartRun
<1>2. CASE Reboot
  BY <1>2 DEF Reboot
<1>3. CASE DriveKeep
  BY <1>3 DEF DriveKeep
<1>4. CASE Partition
  BY <1>4 DEF Partition, SilentFault, TypeOK
<1>5. CASE Format
  BY <1>5 DEF Format
<1>6. CASE StoreFormat
  BY <1>6 DEF StoreFormat, Fresh
<1>7. CASE Extract
  BY <1>7 DEF Extract, Unmount, SilentFault, TypeOK
<1>8. CASE StorageKeep
  BY <1>8 DEF StorageKeep
<1>9. CASE StorageOpen
  BY <1>9 DEF StorageOpen
<1>10. CASE StorageNew
  BY <1>10 DEF StorageNew, Fresh
<1>11. CASE ReadSetupMode
  BY <1>11 DEF ReadSetupMode, SilentFault, TypeOK
<1>12. CASE CreateKeys
  BY <1>12 DEF CreateKeys, Fresh, SilentFault, TypeOK
<1>13. CASE EnrollKeys
  BY <1>13 DEF EnrollKeys, SilentFault, TypeOK
<1>14. CASE BuildUkis
  BY <1>14 DEF BuildUkis
<1>15. CASE SignUkis
  BY <1>15 DEF SignUkis, SilentFault, TypeOK
<1>16. CASE Bootloader
  BY <1>16 DEF Bootloader, SilentFault, TypeOK
<1>17. CASE RecoveryMount
  BY <1>17 DEF RecoveryMount
<1>18. CASE RecoveryKey
  BY <1>18 DEF RecoveryKey, Fresh
<1>19. CASE SignRootImage
  BY <1>19 DEF SignRootImage, SilentFault, TypeOK
<1>20. CASE BuildRecoveryUki
  BY <1>20 DEF BuildRecoveryUki, Unmount, SilentFault, TypeOK
<1>21. CASE RecoveryEntry
  BY <1>21 DEF RecoveryEntry
<1>22. CASE SignRecoveryUki
  BY <1>22 DEF SignRecoveryUki
<1>23. CASE Finish
  BY <1>23 DEF Finish
<1>24. CASE Fault
  BY <1>24 DEF Fault, RecoverySteps
<1>25. CASE StorageFails
  BY <1>25 DEF StorageFails, Fresh
<1>26. CASE CloneStart
  BY <1>26 DEF CloneStart, SilentFault, TypeOK
<1>27. CASE CloneEsp
  BY <1>27 DEF CloneEsp, CopyTo
<1>28. CASE CloneHeader
  BY <1>28 DEF CloneHeader, CopyTo
<1>29. CASE CloneThird
  BY <1>29 DEF CloneThird, CopyTo
<1>30. CASE CloneCompare
  BY <1>30 DEF CloneCompare
<1>31. CASE CloneFails
  BY <1>31 DEF CloneFails
<1>32. CASE ChangePassphrase
  BY <1>32 DEF ChangePassphrase
<1>33. CASE UNCHANGED vars
  BY <1>33 DEF vars
<1> QED
  BY <1>1, <1>2, <1>3, <1>4, <1>5, <1>6, <1>7, <1>8, <1>9, <1>10, <1>11, <1>12,
     <1>13, <1>14, <1>15, <1>16, <1>17, <1>18, <1>19, <1>20, <1>21, <1>22,
     <1>23, <1>24, <1>25, <1>26, <1>27, <1>28, <1>29, <1>30, <1>31, <1>32, <1>33
  DEF Next, Step, Clone

\* No one-time signing key outlives its run (SigningKeyGone): _sign_root_image removes it in
\* a finally, so also when the signing fails.
THEOREM KeyGone == Spec => []SigningKeyGone
<1>1. Init => KeyInv
  BY DEF Init, KeyInv
<1>2. TypeOK /\ KeyInv /\ [Next]_vars => KeyInv'
  BY KeyStep
<1>3. KeyInv => SigningKeyGone
  BY DEF KeyInv, SigningKeyGone
<1> QED
  BY <1>1, <1>2, <1>3, TypeCorrect, PTL DEF Spec

(* Preservation of the recovery invariant, one case per action. *)
LEMMA RecoveryStep == ASSUME TypeOK, RecoveryInv, [Next]_vars PROVE RecoveryInv'
<1> USE DEF RecoveryInv, AtRecovery, RecoveryBuilt, Goto, medium, live, cloning, bounds
<1>1. CASE StartRun
  BY <1>1 DEF StartRun
<1>2. CASE Reboot
  BY <1>2 DEF Reboot
<1>3. CASE DriveKeep
  BY <1>3 DEF DriveKeep
<1>4. CASE Partition
  BY <1>4 DEF Partition
<1>5. CASE Format
  BY <1>5 DEF Format
<1>6. CASE StoreFormat
  BY <1>6 DEF StoreFormat, TakeFresh, Fresh
<1>7. CASE Extract
  BY <1>7 DEF Extract
<1>8. CASE StorageKeep
  BY <1>8 DEF StorageKeep
<1>9. CASE StorageOpen
  BY <1>9 DEF StorageOpen
<1>10. CASE StorageNew
  BY <1>10 DEF StorageNew, TakeFresh, Fresh
<1>11. CASE ReadSetupMode
  BY <1>11 DEF ReadSetupMode
<1>12. CASE CreateKeys
  BY <1>12 DEF CreateKeys, TakeFresh, Fresh
<1>13. CASE EnrollKeys
  BY <1>13 DEF EnrollKeys
<1>14. CASE BuildUkis
  BY <1>14 DEF BuildUkis
<1>15. CASE SignUkis
  BY <1>15 DEF SignUkis
<1>16. CASE Bootloader
  BY <1>16 DEF Bootloader, TypeOK, DriveType, EspType, UkiType, ThirdType
<1>17. CASE RecoveryMount
  BY <1>17 DEF RecoveryMount, TypeOK, LocalType
<1>18. CASE RecoveryKey
  BY <1>18 DEF RecoveryKey, TakeFresh, Fresh, TypeOK, Ids
<1>19. CASE SignRootImage
  BY <1>19 DEF SignRootImage, TypeOK, DriveType, EspType, UkiType, ThirdType
<1>20. CASE BuildRecoveryUki
  BY <1>20 DEF BuildRecoveryUki, TypeOK, DriveType, EspType, UkiType, ThirdType
<1>21. CASE RecoveryEntry
  BY <1>21 DEF RecoveryEntry, TypeOK, DriveType, EspType, UkiType, ThirdType
<1>22. CASE SignRecoveryUki
  BY <1>22 DEF SignRecoveryUki, TypeOK, DriveType, EspType, UkiType, ThirdType
<1>23. CASE Finish
  BY <1>23 DEF Finish
<1>24. CASE Fault
  BY <1>24 DEF Fault
<1>25. CASE StorageFails
  BY <1>25 DEF StorageFails, TakeFresh, Fresh
<1>26. CASE CloneStart
  BY <1>26 DEF CloneStart
<1>27. CASE CloneEsp
  BY <1>27 DEF CloneEsp, CopyTo
<1>28. CASE CloneHeader
  BY <1>28 DEF CloneHeader, CopyTo
<1>29. CASE CloneThird
  BY <1>29 DEF CloneThird, CopyTo
<1>30. CASE CloneCompare
  BY <1>30 DEF CloneCompare
<1>31. CASE CloneFails
  BY <1>31 DEF CloneFails
<1>32. CASE ChangePassphrase
  BY <1>32 DEF ChangePassphrase, TypeOK, DriveType, EspType, UkiType, ThirdType
<1>33. CASE UNCHANGED vars
  BY <1>33 DEF vars
<1> QED
  BY <1>1, <1>2, <1>3, <1>4, <1>5, <1>6, <1>7, <1>8, <1>9, <1>10, <1>11, <1>12,
     <1>13, <1>14, <1>15, <1>16, <1>17, <1>18, <1>19, <1>20, <1>21, <1>22,
     <1>23, <1>24, <1>25, <1>26, <1>27, <1>28, <1>29, <1>30, <1>31, <1>32, <1>33
  DEF Next, Step, Clone

(* Preservation of the signature invariant, one case per action. *)
LEMMA SignedStep == ASSUME TypeOK, SignedInv, [Next]_vars PROVE SignedInv'
<1> USE DEF SignedInv, Enrolled, OnTarget, LoaderSigned, AtRecovery, RecoveryBuilt, Goto,
            medium, live, cloning, bounds
<1>1. CASE StartRun
  BY <1>1 DEF StartRun
<1>2. CASE Reboot
  BY <1>2 DEF Reboot
<1>3. CASE DriveKeep
  BY <1>3 DEF DriveKeep, keeps_existing_drive
<1>4. CASE Partition
  BY <1>4 DEF Partition, SilentFault, TypeOK, DriveType, TargetType, HeaderType, Ids
<1>5. CASE Format
  BY <1>5 DEF Format, TypeOK, DriveType, TargetType, HeaderType, Ids
<1>6. CASE StoreFormat
  BY <1>6 DEF StoreFormat, TakeFresh, Fresh, TypeOK, DriveType, TargetType, HeaderType, Ids
<1>7. CASE Extract
  BY <1>7 DEF Extract, Unmount, SilentFault, TypeOK, DriveType, TargetType, HeaderType, Ids
<1>8. CASE StorageKeep
  BY <1>8 DEF StorageKeep
<1>9. CASE StorageOpen
  BY <1>9 DEF StorageOpen, TypeOK, DriveType, TargetType, HeaderType, Ids, NoTarget
<1>10. CASE StorageNew
  BY <1>10 DEF StorageNew, TakeFresh, Fresh, TypeOK, DriveType, TargetType, HeaderType, Ids,
     NoTarget, NoHeader
<1>11. CASE ReadSetupMode
  BY <1>11 DEF ReadSetupMode, SilentFault, TypeOK, DriveType, TargetType, HeaderType, Ids
<1>12. CASE CreateKeys
  <2>1. target' = target \/ /\ target.pk = 0 /\ target'.vol = target.vol
                            /\ target'.db \in {0, ids + 1}
                            /\ target'.pk = 0 => target'.db = 0
    BY <1>12 DEF CreateKeys, Fresh, TypeOK, TargetType
  <2>2. ids' \in {ids, ids + 1} /\ (target' # target => ids' = ids + 1)
    BY <1>12 DEF CreateKeys, TakeFresh, Fresh
  <2>3. UNCHANGED <<drive, firmware, mounted, cfg>> /\ pc = "create" /\ pc' = "enroll"
    BY <1>12 DEF CreateKeys
  <2>4. silent' = 0 => silent = 0
    BY <1>12 DEF CreateKeys, SilentFault, TypeOK
  <2>5. CASE target' = target
    BY <2>2, <2>3, <2>4, <2>5 DEF TypeOK, TargetType, Ids
  <2>6. CASE target' # target
    <3>1. silent = 0 => firmware <= target.vol
      BY <2>1, <2>3, <2>6 DEF TypeOK, TargetType, Ids
    <3> QED
      BY <2>1, <2>2, <2>3, <2>4, <2>6, <3>1 DEF TypeOK, TargetType, DriveType, HeaderType, Ids
  <2> QED
    BY <2>5, <2>6
<1>13. CASE EnrollKeys
  BY <1>13 DEF EnrollKeys, SilentFault, TypeOK, DriveType, TargetType, HeaderType, Ids
<1>14. CASE BuildUkis
  BY <1>14 DEF BuildUkis, TypeOK, DriveType, TargetType, HeaderType, Ids, EspType
<1>15. CASE SignUkis
  BY <1>15 DEF SignUkis, SilentFault, TypeOK, DriveType, TargetType, HeaderType, Ids,
     EspType
<1>16. CASE Bootloader
  BY <1>16 DEF Bootloader, SilentFault, TypeOK, DriveType, TargetType, HeaderType, Ids,
     EspType
<1>17. CASE RecoveryMount
  BY <1>17 DEF RecoveryMount
<1>18. CASE RecoveryKey
  BY <1>18 DEF RecoveryKey, TakeFresh, Fresh, TypeOK, DriveType, TargetType, HeaderType, Ids
<1>19. CASE SignRootImage
  BY <1>19 DEF SignRootImage, SilentFault, TypeOK, DriveType, TargetType, HeaderType, Ids
<1>20. CASE BuildRecoveryUki
  BY <1>20 DEF BuildRecoveryUki, Unmount, SilentFault, TypeOK, DriveType, TargetType,
     HeaderType, Ids, EspType
<1>21. CASE RecoveryEntry
  BY <1>21 DEF RecoveryEntry, TypeOK, DriveType, TargetType, HeaderType, Ids, EspType
<1>22. CASE SignRecoveryUki
  BY <1>22 DEF SignRecoveryUki, TypeOK, DriveType, TargetType, HeaderType, Ids, EspType
<1>23. CASE Finish
  BY <1>23 DEF Finish
<1>24. CASE Fault
  <2>1. drive'.header \in {drive.header, NoHeader}
    BY <1>24, HalfDoneHeader DEF Fault
  <2>2. target'.vol = target.vol /\ target'.db = target.db /\ (target'.pk = 0 => target.pk = 0)
    BY <1>24 DEF Fault, Fresh, TypeOK, TargetType, Ids
  <2>3. ids' \in Nat /\ ids' >= ids
    BY <1>24 DEF Fault, Fresh, TypeOK, Ids
  <2>4. mounted' => mounted /\ drive'.header = drive.header
    BY <1>24, <2>1 DEF Fault, HalfDone, TypeOK, DriveType
  <2>5. UNCHANGED <<firmware, cfg, silent>> /\ pc' = "failed"
    BY <1>24 DEF Fault
  <2> QED
    BY <2>1, <2>2, <2>3, <2>4, <2>5 DEF TypeOK, TargetType, DriveType, HeaderType, Ids
<1>25. CASE StorageFails
  BY <1>25 DEF StorageFails, TakeFresh, Fresh, TypeOK, DriveType, TargetType, HeaderType,
     Ids, NoTarget, NoHeader
<1>26. CASE CloneStart
  BY <1>26 DEF CloneStart, SilentFault, TypeOK
<1>27. CASE CloneEsp
  BY <1>27 DEF CloneEsp, CopyTo, Copied
<1>28. CASE CloneHeader
  BY <1>28 DEF CloneHeader, CopyTo, Copied
<1>29. CASE CloneThird
  BY <1>29 DEF CloneThird, CopyTo, Copied
<1>30. CASE CloneCompare
  BY <1>30 DEF CloneCompare
<1>31. CASE CloneFails
  BY <1>31 DEF CloneFails
<1>32. CASE ChangePassphrase
  BY <1>32 DEF ChangePassphrase, TypeOK, DriveType, TargetType, HeaderType, Ids
<1>33. CASE UNCHANGED vars
  BY <1>33 DEF vars
<1> QED
  BY <1>1, <1>2, <1>3, <1>4, <1>5, <1>6, <1>7, <1>8, <1>9, <1>10, <1>11, <1>12,
     <1>13, <1>14, <1>15, <1>16, <1>17, <1>18, <1>19, <1>20, <1>21, <1>22,
     <1>23, <1>24, <1>25, <1>26, <1>27, <1>28, <1>29, <1>30, <1>31, <1>32, <1>33
  DEF Next, Step, Clone

(* The signature invariant holds in every reachable state. *)
LEMMA SignedAlways == Spec => []SignedInv
<1>1. Init => SignedInv
  BY DEF Init, SignedInv, OnTarget, LoaderSigned, AtRecovery, RecoveryBuilt, BlankDrive,
         NoTarget
<1>2. TypeOK /\ SignedInv /\ [Next]_vars => SignedInv'
  BY SignedStep
<1> QED
  BY <1>1, <1>2, TypeCorrect, PTL DEF Spec

\* The UKIs and the boot loader of a completed installation are signed with the keys on its
\* root filesystem, which are the firmware's if the firmware has keys of it
\* (SignedForFirmware), however often the installation was resumed.
THEOREM SignedCorrect == Spec => []SignedForFirmware
<1>1. SignedInv => SignedForFirmware
  BY DEF SignedInv, Enrolled, OnTarget, LoaderSigned, RecoveryBuilt, SignedForFirmware
<1> QED
  BY <1>1, SignedAlways, PTL

(* Preservation of the invariant on half-extracted live systems, one case per action: a run
   extracts only onto a drive whose header is gone (SignedInv). *)
LEMMA WholeStep == ASSUME TypeOK, SignedInv, WholeInv, [Next]_vars PROVE WholeInv'
<1> USE DEF WholeInv, Goto, medium, live, cloning, bounds
<1>0. silent = 0 /\ pc \in {"format", "store", "extract"} => drive.header = NoHeader
  BY DEF SignedInv
<1>1. CASE StartRun
  BY <1>1 DEF StartRun
<1>2. CASE Reboot
  BY <1>2 DEF Reboot
<1>3. CASE DriveKeep
  BY <1>3 DEF DriveKeep, keeps_existing_drive
<1>4. CASE Partition
  BY <1>4 DEF Partition, SilentFault, TypeOK, DriveType, ThirdType, NoThird
<1>5. CASE Format
  BY <1>5, <1>0 DEF Format, TypeOK, DriveType, ThirdType, NoThird
<1>6. CASE StoreFormat
  BY <1>6, <1>0 DEF StoreFormat, TakeFresh, Fresh, TypeOK, DriveType, ThirdType, NoThird
<1>7. CASE Extract
  BY <1>7, <1>0 DEF Extract, Unmount, SilentFault, TypeOK, DriveType, ThirdType, NoThird
<1>8. CASE StorageKeep
  BY <1>8 DEF StorageKeep
<1>9. CASE StorageOpen
  BY <1>9 DEF StorageOpen
<1>10. CASE StorageNew
  BY <1>10 DEF StorageNew, TakeFresh, Fresh, TypeOK, DriveType
<1>11. CASE ReadSetupMode
  BY <1>11 DEF ReadSetupMode, SilentFault, TypeOK
<1>12. CASE CreateKeys
  BY <1>12 DEF CreateKeys, TakeFresh, Fresh, SilentFault, TypeOK
<1>13. CASE EnrollKeys
  BY <1>13 DEF EnrollKeys, SilentFault, TypeOK
<1>14. CASE BuildUkis
  BY <1>14 DEF BuildUkis, TypeOK, DriveType
<1>15. CASE SignUkis
  BY <1>15 DEF SignUkis, SilentFault, TypeOK, DriveType
<1>16. CASE Bootloader
  BY <1>16 DEF Bootloader, SilentFault, TypeOK, DriveType
<1>17. CASE RecoveryMount
  BY <1>17 DEF RecoveryMount
<1>18. CASE RecoveryKey
  BY <1>18 DEF RecoveryKey, TakeFresh, Fresh
<1>19. CASE SignRootImage
  BY <1>19 DEF SignRootImage, SilentFault, TypeOK, DriveType, ThirdType, NoThird
<1>20. CASE BuildRecoveryUki
  BY <1>20 DEF BuildRecoveryUki, Unmount, SilentFault, TypeOK, DriveType
<1>21. CASE RecoveryEntry
  BY <1>21 DEF RecoveryEntry, TypeOK, DriveType
<1>22. CASE SignRecoveryUki
  BY <1>22 DEF SignRecoveryUki, TypeOK, DriveType
<1>23. CASE Finish
  BY <1>23 DEF Finish
<1>24. CASE Fault
  <2>1. drive'.header \in {drive.header, NoHeader}
    BY <1>24, HalfDoneHeader DEF Fault
  <2>2. drive'.third.live = "half" => drive.third.live = "half" \/ pc = "extract"
    BY <1>24, HalfDoneLive DEF Fault
  <2>3. UNCHANGED silent /\ pc' = "failed"
    BY <1>24 DEF Fault
  <2> QED
    BY <2>1, <2>2, <2>3, <1>0
<1>25. CASE StorageFails
  BY <1>25 DEF StorageFails, TakeFresh, Fresh, TypeOK, DriveType
<1>26. CASE CloneStart
  BY <1>26 DEF CloneStart, SilentFault, TypeOK
<1>27. CASE CloneEsp
  BY <1>27 DEF CloneEsp, CopyTo
<1>28. CASE CloneHeader
  BY <1>28 DEF CloneHeader, CopyTo
<1>29. CASE CloneThird
  BY <1>29 DEF CloneThird, CopyTo
<1>30. CASE CloneCompare
  BY <1>30 DEF CloneCompare
<1>31. CASE CloneFails
  BY <1>31 DEF CloneFails
<1>32. CASE ChangePassphrase
  BY <1>32 DEF ChangePassphrase, TypeOK, DriveType
<1>33. CASE UNCHANGED vars
  BY <1>33 DEF vars
<1> QED
  BY <1>1, <1>2, <1>3, <1>4, <1>5, <1>6, <1>7, <1>8, <1>9, <1>10, <1>11, <1>12,
     <1>13, <1>14, <1>15, <1>16, <1>17, <1>18, <1>19, <1>20, <1>21, <1>22,
     <1>23, <1>24, <1>25, <1>26, <1>27, <1>28, <1>29, <1>30, <1>31, <1>32, <1>33
  DEF Next, Step, Clone

\* Every completed installation with a recovery system has one that starts (RecoveryBoots):
\* certificate, filesystem and signature belong together, silent faults or not, and without
\* them the live system is whole.
THEOREM RecoveryCorrect == Spec => []RecoveryBoots
<1>1. Init => RecoveryInv /\ WholeInv
  BY DEF Init, RecoveryInv, AtRecovery, RecoveryBuilt, WholeInv, BlankDrive, NoThird
<1>2. TypeOK /\ RecoveryInv /\ [Next]_vars => RecoveryInv'
  BY RecoveryStep
<1>3. TypeOK /\ SignedInv /\ WholeInv /\ [Next]_vars => WholeInv'
  BY WholeStep
<1>4. TypeOK /\ RecoveryInv /\ WholeInv => RecoveryBoots
  <2> SUFFICES ASSUME TypeOK, RecoveryInv, WholeInv, pc = "complete", cfg.recovery
               PROVE  RecoveryBoots
    BY DEF RecoveryBoots
  <2>1. silent = 0 => drive.third.live = "whole"
    BY DEF TypeOK, DriveType, ThirdType, RecoveryInv, RecoveryBuilt, WholeInv
  <2> QED
    BY <2>1 DEF TypeOK, DriveType, EspType, UkiType, RecoveryInv, RecoveryBuilt, RecoveryBoots
<1> QED
  BY <1>1, <1>2, <1>3, <1>4, TypeCorrect, SignedAlways, PTL DEF Spec

(* Preservation of the clone invariant, one case per action. *)
LEMMA CloneStep == ASSUME TypeOK, CloneInv, [Next]_vars PROVE CloneInv'
<1> USE DEF CloneInv, Goto, medium, live, cloning, bounds
<1>1. CASE StartRun
  BY <1>1 DEF StartRun
<1>2. CASE Reboot
  BY <1>2 DEF Reboot
<1>3. CASE DriveKeep
  BY <1>3 DEF DriveKeep
<1>4. CASE Partition
  BY <1>4 DEF Partition, SilentFault, TypeOK, DriveType
<1>5. CASE Format
  BY <1>5 DEF Format, TypeOK, DriveType
<1>6. CASE StoreFormat
  BY <1>6 DEF StoreFormat, TakeFresh, Fresh, TypeOK, DriveType
<1>7. CASE Extract
  BY <1>7 DEF Extract, Unmount, SilentFault, TypeOK, DriveType
<1>8. CASE StorageKeep
  BY <1>8 DEF StorageKeep
<1>9. CASE StorageOpen
  BY <1>9 DEF StorageOpen
<1>10. CASE StorageNew
  BY <1>10 DEF StorageNew, TakeFresh, Fresh, TypeOK, DriveType
<1>11. CASE ReadSetupMode
  BY <1>11 DEF ReadSetupMode, SilentFault, TypeOK
<1>12. CASE CreateKeys
  BY <1>12 DEF CreateKeys, TakeFresh, Fresh, SilentFault, TypeOK
<1>13. CASE EnrollKeys
  BY <1>13 DEF EnrollKeys, SilentFault, TypeOK
<1>14. CASE BuildUkis
  BY <1>14 DEF BuildUkis, TypeOK, DriveType
<1>15. CASE SignUkis
  BY <1>15 DEF SignUkis, SilentFault, TypeOK, DriveType
<1>16. CASE Bootloader
  BY <1>16 DEF Bootloader, SilentFault, TypeOK, DriveType
<1>17. CASE RecoveryMount
  BY <1>17 DEF RecoveryMount
<1>18. CASE RecoveryKey
  BY <1>18 DEF RecoveryKey, TakeFresh, Fresh
<1>19. CASE SignRootImage
  BY <1>19 DEF SignRootImage, SilentFault, TypeOK, DriveType
<1>20. CASE BuildRecoveryUki
  BY <1>20 DEF BuildRecoveryUki, Unmount, SilentFault, TypeOK, DriveType
<1>21. CASE RecoveryEntry
  BY <1>21 DEF RecoveryEntry, TypeOK, DriveType
<1>22. CASE SignRecoveryUki
  BY <1>22 DEF SignRecoveryUki, TypeOK, DriveType
<1>23. CASE Finish
  BY <1>23 DEF Finish
<1>24. CASE Fault
  BY <1>24 DEF Fault, Running, RecoverySteps
<1>25. CASE StorageFails
  BY <1>25 DEF StorageFails, TakeFresh, Fresh
<1>26. CASE CloneStart
  <2>1. CASE silent' = 0
    <3>1. clone' = [NoClone EXCEPT !.third = (drive.third # NoThird), !.seen = TRUE]
      BY <1>26, <2>1 DEF CloneStart, SilentFault, TypeOK
    <3>2. clone'.seen /\ clone'.third = (drive.third # NoThird)
      BY <3>1 DEF NoClone
    <3>3. drive.third = NoThird => spare'.third = NoThird
      BY <1>26 DEF CloneStart, TypeOK, DriveType
    <3> QED
      BY <1>26, <3>2, <3>3 DEF CloneStart
  <2>2. CASE silent' # 0
    BY <2>2
  <2> QED
    BY <2>1, <2>2
<1>27. CASE CloneEsp
  BY <1>27 DEF CloneEsp, CopyTo, Copied, TypeOK, DriveType
<1>28. CASE CloneHeader
  BY <1>28 DEF CloneHeader, CopyTo, Copied, TypeOK, DriveType, CloneType
<1>29. CASE CloneThird
  BY <1>29 DEF CloneThird, CopyTo, Copied, TypeOK, DriveType
<1>30. CASE CloneCompare
  BY <1>30 DEF CloneCompare
<1>31. CASE CloneFails
  BY <1>31 DEF CloneFails
<1>32. CASE ChangePassphrase
  BY <1>32 DEF ChangePassphrase, TypeOK, DriveType
<1>33. CASE UNCHANGED vars
  BY <1>33 DEF vars
<1> QED
  BY <1>1, <1>2, <1>3, <1>4, <1>5, <1>6, <1>7, <1>8, <1>9, <1>10, <1>11, <1>12,
     <1>13, <1>14, <1>15, <1>16, <1>17, <1>18, <1>19, <1>20, <1>21, <1>22,
     <1>23, <1>24, <1>25, <1>26, <1>27, <1>28, <1>29, <1>30, <1>31, <1>32, <1>33
  DEF Next, Step, Clone

\* A drive clone-usb-boot reports as a spare is the drive it was copied from (SpareUnlocks):
\* a passphrase changed between the copies shows in the comparison of the headers.
THEOREM SpareCorrect == Spec => SpareUnlocks
<1> DEFINE Equal == ~reported /\ reported' /\ silent = 0 => spare' = drive
<1>1. Init => CloneInv
  BY DEF Init, CloneInv
<1>2. ASSUME TypeOK, CloneInv, [Next]_vars PROVE Equal
  <2>1. CASE CloneCompare
    <3> SUFFICES ASSUME reported', silent = 0 PROVE spare' = drive
      OBVIOUS
    <3>1. spare.esp = drive.esp /\ spare.header = drive.header /\ spare.third = drive.third
      BY <1>2, <2>1 DEF CloneCompare, CloneInv
    <3> QED
      BY <1>2, <2>1, <3>1 DEF CloneCompare, TypeOK, DriveType
  <2>2. CASE ~CloneCompare
    <3>1. UNCHANGED reported \/ ~reported'
      BY <1>2, <2>2
      DEF Next, Step, Clone, Goto, cloning, vars, StartRun, Reboot, DriveKeep, Partition,
          Format, StoreFormat, Extract, StorageKeep, StorageOpen, StorageNew, ReadSetupMode,
          CreateKeys, EnrollKeys, BuildUkis, SignUkis, Bootloader, RecoveryMount, RecoveryKey,
          SignRootImage, BuildRecoveryUki, RecoveryEntry, SignRecoveryUki, Finish, Fault,
          StorageFails, CloneStart, CloneEsp, CloneHeader, CloneThird, CopyTo, CloneFails,
          ChangePassphrase
    <3> QED
      BY <3>1
  <2> QED
    BY <2>1, <2>2
<1>3. TypeOK /\ CloneInv /\ [Next]_vars => CloneInv' /\ [Equal]_vars
  BY <1>2, CloneStep
<1> QED
  BY <1>1, <1>3, TypeCorrect, PTL DEF Spec, SpareUnlocks
=============================================================================
