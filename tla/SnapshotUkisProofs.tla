------------------------- MODULE SnapshotUkisProofs -------------------------
(***************************************************************************)
(* Proofs about SnapshotUkis, for any number of snapshots, kernels, faults *)
(* and UKIs, and for every timing of snapper, pacman and the drive: types, *)
(* that the refreshers, which share no lock, do not undo each other's      *)
(* work, and that no UKI is older than its snapshot.                       *)
(***************************************************************************)
EXTENDS SnapshotUkis, FiniteSetTheorems, TLAPS

(* The type invariant by the parts a step changes together. *)
SnapperOK ==
    /\ taken \in 0..MaxSnapshots
    /\ begun \in SUBSET Snaps /\ complete \in SUBSET Snaps /\ midway \in SUBSET Snaps
    /\ modules \in [Snaps -> Kernels] /\ installed \in Kernels /\ kernel \in Kernels
DriveOK == plugged \in BOOLEAN /\ marker \in BOOLEAN
FaultsOK == faults \in 0..MaxFaults
EspOK == ukis \in [Snaps -> Kernels \union {NoUki, Torn}] /\ writable \in SUBSET Snaps
PcOK == pc \in [Procs -> Labels]
WorkOK ==
    /\ todo \in [Procs -> SUBSET Snaps] /\ left \in [Procs -> 0..Count]
    /\ cur \in [Procs -> Snaps \union {0}] /\ image \in [Procs -> Kernels]
    /\ \A p \in Procs : pc[p] = "write" => cur[p] \in Snaps
LoopOK == seen \in SUBSET Snaps /\ round \in 0..MaxRounds
HistoryOK == listed \in SUBSET Snaps /\ spoiled \in SUBSET Snaps /\ abandoned \in BOOLEAN

TypeInv ==
    SnapperOK /\ DriveOK /\ FaultsOK /\ EspOK /\ PcOK /\ WorkOK /\ LoopOK /\ HistoryOK

(* A snapshot a refresher has built a UKI for, or is building one for: it was complete then,
   so it is complete now or deleted for good, since snapper never reuses a number. *)
Known(n) == HasUki(n) \/ \E p \in Procs : cur[p] = n

NumbersInv ==
    /\ complete \subseteq begun /\ listed \subseteq complete
    /\ \A n \in Snaps : n \in begun \/ Known(n) => n <= taken
    /\ \A n \in Snaps : Known(n) /\ n \in begun => n \in complete

(* What RefreshersCover says of a snapshot, strengthened: a refresher that has its UKI open
   and succeeds makes the snapshot bootable, unless the file was removed meanwhile. *)
Served(n) ==
    \/ n \in spoiled
    \/ \E p \in Procs : Owes(p, n)
    \/ /\ n \in writable /\ ukis[n] # NoUki
       /\ HasUki(n) \/ Writers(n) # {}

RefreshInv == NumbersInv /\ \A n \in listed : Served(n)

USE CountAssumption, BoundsAssumption

-----------------------------------------------------------------------------
(* Types *)

(* The names of the refreshers and the places they go to. *)
LEMMA Names ==
    /\ "path" \in Procs /\ "hook" \in Procs /\ "catchup" \in Procs
    /\ {"idle", "settle", "check", "mark", "unmark", "remove", "list",
        "build", "write", "compare", "exit"} = Labels
    /\ \A p \in Procs : AfterRefresh(p) \in {"compare", "idle"}
BY DEF Procs, Labels, AfterRefresh

LEMMA TypeStep == TypeInv /\ [Next]_vars => TypeInv'
<1> SUFFICES ASSUME TypeInv, [Next]_vars PROVE TypeInv'
    OBVIOUS
<1> USE Names DEF TypeInv, vars, env, snapper, esp, work, loop, history
<1>G. \A p \in Procs, l \in Labels : Goto(p, l) => PcOK'
    BY DEF PcOK, Goto
<1>1. CASE TakeSnapshot
    <2>1. SnapperOK'  BY <1>1 DEF TakeSnapshot, SnapperOK, Snaps, Kernels
    <2>2. DriveOK'  BY <1>1 DEF TakeSnapshot, DriveOK
    <2>3. FaultsOK'  BY <1>1 DEF TakeSnapshot, FaultsOK
    <2>4. EspOK'  BY <1>1 DEF TakeSnapshot, EspOK
    <2>5. PcOK'  BY <1>1, <1>G DEF TakeSnapshot, PcOK, NotifyPathUnit
    <2>6. WorkOK'  BY <1>1 DEF TakeSnapshot, WorkOK, PcOK, Goto, NotifyPathUnit
    <2>7. LoopOK'  BY <1>1 DEF TakeSnapshot, LoopOK, NotifyPathUnit
    <2>8. HistoryOK'  BY <1>1 DEF TakeSnapshot, HistoryOK, NotifyPathUnit
    <2> QED  BY <2>1, <2>2, <2>3, <2>4, <2>5, <2>6, <2>7, <2>8
<1>2. CASE CompleteSnapshot
    <2>1. SnapperOK'  BY <1>2 DEF CompleteSnapshot, SnapperOK
    <2>2. DriveOK'  BY <1>2 DEF CompleteSnapshot, DriveOK
    <2>3. FaultsOK'  BY <1>2 DEF CompleteSnapshot, FaultsOK
    <2>4. EspOK'  BY <1>2 DEF CompleteSnapshot, EspOK
    <2>5. PcOK'  BY <1>2 DEF CompleteSnapshot, PcOK
    <2>6. WorkOK'  BY <1>2 DEF CompleteSnapshot, WorkOK
    <2>7. LoopOK'  BY <1>2 DEF CompleteSnapshot, LoopOK
    <2>8. HistoryOK'  BY <1>2 DEF CompleteSnapshot, HistoryOK
    <2> QED  BY <2>1, <2>2, <2>3, <2>4, <2>5, <2>6, <2>7, <2>8
<1>3. CASE DeleteSnapshot
    <2>1. SnapperOK'  BY <1>3 DEF DeleteSnapshot, SnapperOK, Kernels
    <2>2. DriveOK'  BY <1>3 DEF DeleteSnapshot, DriveOK
    <2>3. FaultsOK'  BY <1>3 DEF DeleteSnapshot, FaultsOK
    <2>4. EspOK'  BY <1>3 DEF DeleteSnapshot, EspOK
    <2>5. PcOK'  BY <1>3, <1>G DEF DeleteSnapshot, PcOK, NotifyPathUnit
    <2>6. WorkOK'  BY <1>3 DEF DeleteSnapshot, WorkOK, PcOK, Goto, NotifyPathUnit
    <2>7. LoopOK'  BY <1>3 DEF DeleteSnapshot, LoopOK, NotifyPathUnit
    <2>8. HistoryOK'  BY <1>3 DEF DeleteSnapshot, HistoryOK, NotifyPathUnit
    <2> QED  BY <2>1, <2>2, <2>3, <2>4, <2>5, <2>6, <2>7, <2>8
<1>4. CASE BeginUpdate
    <2>1. SnapperOK'  BY <1>4 DEF BeginUpdate, SnapperOK, Kernels
    <2>2. DriveOK'  BY <1>4 DEF BeginUpdate, DriveOK
    <2>3. FaultsOK'  BY <1>4 DEF BeginUpdate, FaultsOK
    <2>4. EspOK'  BY <1>4 DEF BeginUpdate, EspOK
    <2>5. PcOK'  BY <1>4 DEF BeginUpdate, PcOK
    <2>6. WorkOK'  BY <1>4 DEF BeginUpdate, WorkOK
    <2>7. LoopOK'  BY <1>4 DEF BeginUpdate, LoopOK
    <2>8. HistoryOK'  BY <1>4 DEF BeginUpdate, HistoryOK
    <2> QED  BY <2>1, <2>2, <2>3, <2>4, <2>5, <2>6, <2>7, <2>8
<1>5. CASE FinishUpdate
    <2>1. SnapperOK'  BY <1>5 DEF FinishUpdate, SnapperOK, Kernels
    <2>2. DriveOK'  BY <1>5 DEF FinishUpdate, DriveOK
    <2>3. FaultsOK'  BY <1>5 DEF FinishUpdate, FaultsOK
    <2>4. EspOK'  BY <1>5 DEF FinishUpdate, EspOK
    <2>5. PcOK'  BY <1>5, <1>G DEF FinishUpdate, PcOK
    <2>6. WorkOK'  BY <1>5 DEF FinishUpdate, WorkOK, PcOK, Goto
    <2>7. LoopOK'  BY <1>5 DEF FinishUpdate, LoopOK
    <2>8. HistoryOK'  BY <1>5 DEF FinishUpdate, HistoryOK
    <2> QED  BY <2>1, <2>2, <2>3, <2>4, <2>5, <2>6, <2>7, <2>8
<1>6. CASE PullDrive
    <2>1. SnapperOK'  BY <1>6 DEF PullDrive, SnapperOK
    <2>2. DriveOK'  BY <1>6, Zenon DEF PullDrive, DriveOK
    <2>3. FaultsOK'  BY <1>6 DEF PullDrive, FaultsOK, Fault
    <2>4. EspOK'  BY <1>6 DEF PullDrive, EspOK
    <2>5. PcOK'  BY <1>6 DEF PullDrive, PcOK
    <2>6. WorkOK'  BY <1>6 DEF PullDrive, WorkOK
    <2>7. LoopOK'  BY <1>6 DEF PullDrive, LoopOK
    <2>8. HistoryOK'  BY <1>6 DEF PullDrive, HistoryOK
    <2> QED  BY <2>1, <2>2, <2>3, <2>4, <2>5, <2>6, <2>7, <2>8
<1>7. CASE PlugIn
    <2>1. SnapperOK'  BY <1>7 DEF PlugIn, SnapperOK
    <2>2. DriveOK'  BY <1>7 DEF PlugIn, DriveOK
    <2>3. FaultsOK'  BY <1>7 DEF PlugIn, FaultsOK
    <2>4. EspOK'  BY <1>7 DEF PlugIn, EspOK
    <2>5. PcOK'  BY <1>7, <1>G DEF PlugIn, PcOK
    <2>6. WorkOK'  BY <1>7 DEF PlugIn, WorkOK, PcOK, Goto
    <2>7. LoopOK'  BY <1>7 DEF PlugIn, LoopOK
    <2>8. HistoryOK'  BY <1>7 DEF PlugIn, HistoryOK
    <2> QED  BY <2>1, <2>2, <2>3, <2>4, <2>5, <2>6, <2>7, <2>8
<1>8. CASE Restart
    <2>1. SnapperOK'  BY <1>8 DEF Restart, SnapperOK
    <2>2. DriveOK'  BY <1>8, Zenon DEF Restart, DriveOK
    <2>3. FaultsOK'  BY <1>8 DEF Restart, FaultsOK, Fault
    <2>4. EspOK'  BY <1>8 DEF Restart, EspOK
    <2>5. PcOK'  BY <1>8 DEF Restart, PcOK, Labels
    <2>6. WorkOK'  BY <1>8 DEF Restart, WorkOK, Kernels
    <2>7. LoopOK'  BY <1>8 DEF Restart, LoopOK
    <2>8. HistoryOK'  BY <1>8 DEF Restart, HistoryOK
    <2> QED  BY <2>1, <2>2, <2>3, <2>4, <2>5, <2>6, <2>7, <2>8
<1>9. CASE Settle
    <2>1. SnapperOK'  BY <1>9 DEF Settle, SnapperOK
    <2>2. DriveOK'  BY <1>9 DEF Settle, DriveOK
    <2>3. FaultsOK'  BY <1>9 DEF Settle, FaultsOK
    <2>4. EspOK'  BY <1>9 DEF Settle, EspOK
    <2>5. PcOK'  BY <1>9, <1>G DEF Settle, PcOK
    <2>6. WorkOK'  BY <1>9 DEF Settle, WorkOK, PcOK, Goto
    <2>7. LoopOK'  BY <1>9 DEF Settle, LoopOK, SnapperOK
    <2>8. HistoryOK'  BY <1>9 DEF Settle, HistoryOK
    <2> QED  BY <2>1, <2>2, <2>3, <2>4, <2>5, <2>6, <2>7, <2>8
<1>10. CASE Compare
    <2>1. SnapperOK'  BY <1>10 DEF Compare, SnapperOK
    <2>2. DriveOK'  BY <1>10 DEF Compare, DriveOK
    <2>3. FaultsOK'  BY <1>10 DEF Compare, FaultsOK
    <2>4. EspOK'  BY <1>10 DEF Compare, EspOK
    <2>5. PcOK'  BY <1>10, <1>G DEF Compare, PcOK
    <2>6. WorkOK'  BY <1>10 DEF Compare, WorkOK, PcOK, Goto
    <2>7. LoopOK'  BY <1>10 DEF Compare, LoopOK, Goto
    <2>8. HistoryOK'  BY <1>10 DEF Compare, HistoryOK
    <2> QED  BY <2>1, <2>2, <2>3, <2>4, <2>5, <2>6, <2>7, <2>8
<1>11. CASE ServiceEnds
    <2>1. SnapperOK'  BY <1>11 DEF ServiceEnds, SnapperOK
    <2>2. DriveOK'  BY <1>11 DEF ServiceEnds, DriveOK
    <2>3. FaultsOK'  BY <1>11 DEF ServiceEnds, FaultsOK
    <2>4. EspOK'  BY <1>11 DEF ServiceEnds, EspOK
    <2>5. PcOK'  BY <1>11, <1>G DEF ServiceEnds, PcOK
    <2>6. WorkOK'  BY <1>11 DEF ServiceEnds, WorkOK, PcOK, Goto
    <2>7. LoopOK'  BY <1>11 DEF ServiceEnds, LoopOK
    <2>8. HistoryOK'  BY <1>11 DEF ServiceEnds, HistoryOK
    <2> QED  BY <2>1, <2>2, <2>3, <2>4, <2>5, <2>6, <2>7, <2>8
<1>12. ASSUME NEW p \in Procs, CheckEfi(p) PROVE TypeInv'
    <2>1. SnapperOK'  BY <1>12 DEF CheckEfi, SnapperOK
    <2>2. DriveOK'  BY <1>12 DEF CheckEfi, DriveOK
    <2>3. FaultsOK'  BY <1>12 DEF CheckEfi, FaultsOK
    <2>4. EspOK'  BY <1>12 DEF CheckEfi, EspOK
    <2>5. PcOK'  BY <1>12, <1>G DEF CheckEfi, PcOK
    <2>6. WorkOK'  BY <1>12 DEF CheckEfi, WorkOK, PcOK, Goto
    <2>7. LoopOK'  BY <1>12 DEF CheckEfi, LoopOK
    <2>8. HistoryOK'  BY <1>12 DEF CheckEfi, HistoryOK
    <2> QED  BY <2>1, <2>2, <2>3, <2>4, <2>5, <2>6, <2>7, <2>8
<1>13. ASSUME NEW p \in Procs, MarkPending(p) PROVE TypeInv'
    <2>1. SnapperOK'  BY <1>13 DEF MarkPending, SnapperOK
    <2>2. DriveOK'  BY <1>13 DEF MarkPending, DriveOK
    <2>3. FaultsOK'  BY <1>13 DEF MarkPending, FaultsOK
    <2>4. EspOK'  BY <1>13 DEF MarkPending, EspOK
    <2>5. PcOK'  BY <1>13, <1>G DEF MarkPending, PcOK
    <2>6. WorkOK'  BY <1>13 DEF MarkPending, WorkOK, PcOK, Goto
    <2>7. LoopOK'  BY <1>13 DEF MarkPending, LoopOK
    <2>8. HistoryOK'  BY <1>13 DEF MarkPending, HistoryOK
    <2> QED  BY <2>1, <2>2, <2>3, <2>4, <2>5, <2>6, <2>7, <2>8
<1>14. ASSUME NEW p \in Procs, ClearPending(p) PROVE TypeInv'
    <2>1. SnapperOK'  BY <1>14 DEF ClearPending, SnapperOK
    <2>2. DriveOK'  BY <1>14 DEF ClearPending, DriveOK
    <2>3. FaultsOK'  BY <1>14 DEF ClearPending, FaultsOK
    <2>4. EspOK'  BY <1>14 DEF ClearPending, EspOK
    <2>5. PcOK'  BY <1>14, <1>G DEF ClearPending, PcOK
    <2>6. WorkOK'  BY <1>14 DEF ClearPending, WorkOK, PcOK, Goto
    <2>7. LoopOK'  BY <1>14 DEF ClearPending, LoopOK
    <2>8. HistoryOK'  BY <1>14 DEF ClearPending, HistoryOK
    <2> QED  BY <2>1, <2>2, <2>3, <2>4, <2>5, <2>6, <2>7, <2>8
<1>15. ASSUME NEW p \in Procs, RemoveUkis(p) PROVE TypeInv'
    <2>1. SnapperOK'  BY <1>15 DEF RemoveUkis, SnapperOK
    <2>2. DriveOK'  BY <1>15 DEF RemoveUkis, DriveOK
    <2>3. FaultsOK'  BY <1>15 DEF RemoveUkis, FaultsOK
    <2>4. EspOK'  BY <1>15 DEF RemoveUkis, EspOK, NoUki
    <2>5. PcOK'  BY <1>15, <1>G DEF RemoveUkis, PcOK
    <2>6. WorkOK'  BY <1>15 DEF RemoveUkis, WorkOK, PcOK, Goto
    <2>7. LoopOK'  BY <1>15 DEF RemoveUkis, LoopOK
    <2>8. HistoryOK'  BY <1>15 DEF RemoveUkis, HistoryOK
    <2> QED  BY <2>1, <2>2, <2>3, <2>4, <2>5, <2>6, <2>7, <2>8
<1>16. ASSUME NEW p \in Procs, ListSnapshots(p) PROVE TypeInv'
    <2>1. SnapperOK'  BY <1>16 DEF ListSnapshots, SnapperOK
    <2>2. DriveOK'  BY <1>16 DEF ListSnapshots, DriveOK
    <2>3. FaultsOK'  BY <1>16 DEF ListSnapshots, FaultsOK
    <2>4. EspOK'  BY <1>16 DEF ListSnapshots, EspOK
    <2>5. PcOK'  BY <1>16, <1>G DEF ListSnapshots, PcOK
    <2>6. WorkOK'  BY <1>16 DEF ListSnapshots, WorkOK, SnapperOK, PcOK, Goto
    <2>7. LoopOK'  BY <1>16 DEF ListSnapshots, LoopOK
    <2>8. HistoryOK'  BY <1>16 DEF ListSnapshots, HistoryOK, SnapperOK, Newest
    <2> QED  BY <2>1, <2>2, <2>3, <2>4, <2>5, <2>6, <2>7, <2>8
<1>17. ASSUME NEW p \in Procs, SkipSnapshot(p) PROVE TypeInv'
    <2>1. SnapperOK'  BY <1>17 DEF SkipSnapshot, SnapperOK
    <2>2. DriveOK'  BY <1>17 DEF SkipSnapshot, DriveOK
    <2>3. FaultsOK'  BY <1>17 DEF SkipSnapshot, FaultsOK
    <2>4. EspOK'  BY <1>17 DEF SkipSnapshot, EspOK
    <2>5. PcOK'  BY <1>17 DEF SkipSnapshot, PcOK
    <2>6. WorkOK'  BY <1>17 DEF SkipSnapshot, WorkOK, TakeUp
    <2>7. LoopOK'  BY <1>17 DEF SkipSnapshot, LoopOK
    <2>8. HistoryOK'  BY <1>17 DEF SkipSnapshot, HistoryOK
    <2> QED  BY <2>1, <2>2, <2>3, <2>4, <2>5, <2>6, <2>7, <2>8
<1>18. ASSUME NEW p \in Procs, BuildFails(p) PROVE TypeInv'
    <2>1. SnapperOK'  BY <1>18 DEF BuildFails, SnapperOK
    <2>2. DriveOK'  BY <1>18 DEF BuildFails, DriveOK
    <2>3. FaultsOK'  BY <1>18 DEF BuildFails, FaultsOK, Spoil, Fault
    <2>4. EspOK'  BY <1>18 DEF BuildFails, EspOK, SnapperOK
    <2>5. PcOK'  BY <1>18 DEF BuildFails, PcOK
    <2>6. WorkOK'  BY <1>18 DEF BuildFails, WorkOK, TakeUp, CountDown
    <2>7. LoopOK'  BY <1>18 DEF BuildFails, LoopOK
    <2>8. HistoryOK'  BY <1>18 DEF BuildFails, HistoryOK, Spoil, SnapperOK
    <2> QED  BY <2>1, <2>2, <2>3, <2>4, <2>5, <2>6, <2>7, <2>8
<1>19. ASSUME NEW p \in Procs, OpenUki(p) PROVE TypeInv'
    <2>1. SnapperOK'  BY <1>19 DEF OpenUki, SnapperOK
    <2>2. DriveOK'  BY <1>19 DEF OpenUki, DriveOK
    <2>3. FaultsOK'  BY <1>19 DEF OpenUki, FaultsOK, Spoil, Fault
    <2>4. EspOK'  BY <1>19 DEF OpenUki, EspOK, SnapperOK
    <2>5. PcOK'  BY <1>19, <1>G DEF OpenUki, PcOK
    <2>6. WorkOK'  BY <1>19 DEF OpenUki, WorkOK, TakeUp, CountDown, SnapperOK, PcOK, Goto
    <2>7. LoopOK'  BY <1>19 DEF OpenUki, LoopOK
    <2>8. HistoryOK'  BY <1>19 DEF OpenUki, HistoryOK, Spoil, SnapperOK
    <2> QED  BY <2>1, <2>2, <2>3, <2>4, <2>5, <2>6, <2>7, <2>8
<1>20. ASSUME NEW p \in Procs, WriteUki(p) PROVE TypeInv'
    <2>1. SnapperOK'  BY <1>20 DEF WriteUki, SnapperOK
    <2>2. DriveOK'  BY <1>20 DEF WriteUki, DriveOK
    <2>3. FaultsOK'  BY <1>20 DEF WriteUki, FaultsOK, Spoil, Fault
    <2>4. EspOK'  BY <1>20 DEF WriteUki, EspOK, WorkOK
    <2>5. PcOK'  BY <1>20, <1>G DEF WriteUki, PcOK
    <2>6. WorkOK'  BY <1>20 DEF WriteUki, WorkOK, Kernels, PcOK, Goto
    <2>7. LoopOK'  BY <1>20 DEF WriteUki, LoopOK
    <2>8. HistoryOK'  BY <1>20 DEF WriteUki, HistoryOK, Spoil, WorkOK, PcOK
    <2> QED  BY <2>1, <2>2, <2>3, <2>4, <2>5, <2>6, <2>7, <2>8
<1>21. ASSUME NEW p \in Procs, RefreshEnds(p) PROVE TypeInv'
    <2>1. SnapperOK'  BY <1>21 DEF RefreshEnds, SnapperOK
    <2>2. DriveOK'  BY <1>21 DEF RefreshEnds, DriveOK
    <2>3. FaultsOK'  BY <1>21 DEF RefreshEnds, FaultsOK
    <2>4. EspOK'  BY <1>21 DEF RefreshEnds, EspOK
    <2>5. PcOK'  BY <1>21, <1>G DEF RefreshEnds, PcOK
    <2>6. WorkOK'  BY <1>21 DEF RefreshEnds, WorkOK, PcOK, Goto
    <2>7. LoopOK'  BY <1>21 DEF RefreshEnds, LoopOK
    <2>8. HistoryOK'  BY <1>21 DEF RefreshEnds, HistoryOK
    <2> QED  BY <2>1, <2>2, <2>3, <2>4, <2>5, <2>6, <2>7, <2>8
<1>22. CASE UNCHANGED vars
    BY <1>22 DEF SnapperOK, DriveOK, FaultsOK, EspOK, PcOK, WorkOK, LoopOK, HistoryOK
<1> HIDE DEF TypeInv
<1> QED
    BY <1>1, <1>2, <1>3, <1>4, <1>5, <1>6, <1>7, <1>8, <1>9, <1>10, <1>11, <1>12, <1>13,
       <1>14, <1>15, <1>16, <1>17, <1>18, <1>19, <1>20, <1>21, <1>22
       DEF Next, Environment, Script, Loop, Refresh

LEMMA TypeInit == Init => TypeInv
<1> SUFFICES ASSUME Init PROVE TypeInv
    OBVIOUS
<1>1. SnapperOK /\ FaultsOK /\ EspOK  BY DEF Init, SnapperOK, FaultsOK, EspOK, Kernels
<1>2. DriveOK  BY Zenon DEF Init, DriveOK
<1>3. PcOK /\ WorkOK  BY Names DEF Init, PcOK, WorkOK, Kernels
<1>4. abandoned \in BOOLEAN  BY Zenon DEF Init
<1>5. LoopOK /\ HistoryOK  BY <1>4 DEF Init, LoopOK, HistoryOK
<1> QED  BY <1>1, <1>2, <1>3, <1>5 DEF TypeInv

\* Every step of snapper, pacman, the USB drive and the three refreshers keeps the types:
\* in particular no refresh ever takes up more than SNAPSHOT_COUNT snapshots.
THEOREM TypeCorrect == Spec => []TypeOK
<1>1. TypeInv => TypeOK
    BY DEF TypeInv, TypeOK, SnapperOK, DriveOK, FaultsOK, EspOK, PcOK, WorkOK, LoopOK,
           HistoryOK
<1> QED
    BY <1>1, TypeInit, TypeStep, PTL DEF Spec

-----------------------------------------------------------------------------
(* Refreshers *)

(* Sets of snapshot numbers are finite. *)
LEMMA SnapsFinite ==
    ASSUME NEW S \in SUBSET Snaps
    PROVE  IsFiniteSet(S) /\ Cardinality(S) \in Nat
<1>1. IsFiniteSet(Snaps)  BY FS_Interval DEF Snaps
<1>2. IsFiniteSet(S)  BY <1>1, FS_Subset
<1> QED  BY <1>2, FS_CardinalityType

(* Taking up the newest snapshot leaves a refresh enough of its count for the others. *)
LEMMA TakeUpOwes ==
    ASSUME TypeInv, NEW p \in Procs, NEW q \in Procs, NEW n \in Snaps, NEW x \in Snaps,
           TakeUp(p, x), Owes(q, n), p # q \/ x # n,
           left' = left \/ CountDown(p),
           pc' = pc \/ pc' = [pc EXCEPT ![p] = "write"]
    PROVE  Owes(q, n)'
<1>T. /\ todo \in [Procs -> SUBSET Snaps] /\ left \in [Procs -> 0..Count]
      /\ pc \in [Procs -> Labels] /\ Snaps \subseteq Nat
    BY DEF TypeInv, WorkOK, PcOK, Snaps
<1>1. CASE p # q
    BY <1>1, <1>T DEF Owes, TakeUp, CountDown
<1>2. CASE p = q
    <2> DEFINE A == {m \in todo[p] : m > n}
               B == {m \in todo[p] \ {x} : m > n}
    <2>1. n \in todo[p] /\ x \in todo[p] /\ x \in A /\ n # x
        BY <1>2, <1>T DEF TakeUp, Owes
    <2>2. IsFiniteSet(A) /\ Cardinality(A) \in Nat /\ B = A \ {x}
        BY <1>T, SnapsFinite
    <2>3. Cardinality(A) < left[p] /\ left[p] \in Nat
        BY <1>2, <1>T DEF Owes
    <2>4. todo'[p] = todo[p] \ {x} /\ (left'[p] = left[p] \/ left'[p] = left[p] - 1)
        BY <1>T DEF TakeUp, CountDown
    <2>5. pc'[p] \in {"build", "write"}
        BY <1>T DEF TakeUp
    <2> HIDE DEF A, B
    <2>6. Cardinality(B) = Cardinality(A) - 1
        BY <2>1, <2>2, FS_RemoveElement
    <2>7. Cardinality(B) < left'[p]
        BY <2>2, <2>3, <2>4, <2>6
    <2> QED
        BY <1>2, <2>1, <2>4, <2>5, <2>7 DEF Owes, B
<1> QED
    BY <1>1, <1>2

(* What a step leaves alone that neither builds UKIs nor removes nor lists anything. *)
Aside ==
    /\ UNCHANGED <<ukis, writable, todo, left, cur, spoiled>>
    /\ \A q \in Procs : pc'[q] = pc[q] \/ {pc[q], pc'[q]} \cap {"build", "write"} = {}

LEMMA AsideServed ==
    ASSUME Aside, NEW n, Served(n)
    PROVE  Served(n)'
<1>1. \A q \in Procs : Owes(q, n) => Owes(q, n)'
    BY DEF Aside, Owes
<1>2. Writers(n) \subseteq Writers(n)'
    BY DEF Aside, Writers
<1> QED
    BY <1>1, <1>2 DEF Aside, Served, HasUki

(* Until the UKIs are removed or the snapshots listed again, and without a restart, every
   step of every refresher keeps a snapshot served. *)
LEMMA ServedStep ==
    ASSUME TypeInv, [Next]_vars, ~Restart,
           \A p \in Procs : ~ListSnapshots(p) /\ (RemoveUkis(p) => ~plugged),
           NEW n \in complete, n \in complete', Served(n)
    PROVE  Served(n)'
<1> USE Names DEF vars, env, snapper, esp, work, loop, history
<1>T. /\ complete \in SUBSET Snaps /\ spoiled \in SUBSET Snaps
      /\ ukis \in [Snaps -> Kernels \union {NoUki, Torn}] /\ writable \in SUBSET Snaps
      /\ pc \in [Procs -> Labels] /\ todo \in [Procs -> SUBSET Snaps]
      /\ left \in [Procs -> 0..Count]
      /\ cur \in [Procs -> Snaps \union {0}] /\ image \in [Procs -> Kernels]
      /\ \A p \in Procs : pc[p] = "write" => cur[p] \in Snaps
    BY DEF TypeInv, SnapperOK, EspOK, PcOK, WorkOK, HistoryOK
<1>K. \A k \in Kernels : k # NoUki /\ k # Torn
    BY DEF Kernels, NoUki, Torn
<1>S. Torn # NoUki
    BY DEF NoUki, Torn
<1>1. CASE TakeSnapshot
    <2>1. Aside  BY <1>1, <1>T DEF TakeSnapshot, NotifyPathUnit, Goto, Aside
    <2> QED  BY <2>1, AsideServed
<1>2. CASE DeleteSnapshot
    <2>1. PICK x \in complete :
              /\ complete' = complete \ {x} /\ writable' = writable \ {x}
              /\ spoiled' = spoiled \ {x}
        BY <1>2 DEF DeleteSnapshot
    <2>2. UNCHANGED <<ukis, todo, left, cur>>
        BY <1>2 DEF DeleteSnapshot
    <2>3. \A q \in Procs : pc'[q] = pc[q] \/ {pc[q], pc'[q]} \cap {"build", "write"} = {}
        BY <1>2, <1>T DEF DeleteSnapshot, NotifyPathUnit, Goto
    <2>4. \A q \in Procs : Owes(q, n) => Owes(q, n)'
        BY <2>2, <2>3 DEF Owes
    <2>5. Writers(n) \subseteq Writers(n)'
        BY <2>2, <2>3 DEF Writers
    <2> QED
        BY <2>1, <2>2, <2>4, <2>5 DEF Served, HasUki
<1>3. CASE CompleteSnapshot \/ BeginUpdate \/ FinishUpdate
    <2>1. Aside
        BY <1>3, <1>T DEF CompleteSnapshot, BeginUpdate, FinishUpdate, Goto, Aside
    <2> QED  BY <2>1, AsideServed
<1>4. CASE PullDrive \/ PlugIn
    <2>1. Aside  BY <1>4, <1>T DEF PullDrive, PlugIn, Goto, Aside
    <2> QED  BY <2>1, AsideServed
<1>5. CASE Loop
    <2>1. Aside  BY <1>5, <1>T DEF Loop, Settle, Compare, ServiceEnds, Goto, Aside
    <2> QED  BY <2>1, AsideServed
<1>6. ASSUME NEW p \in Procs, CheckEfi(p) \/ MarkPending(p) \/ ClearPending(p) \/ RemoveUkis(p)
      PROVE  Served(n)'
    <2>1. Aside
        BY <1>6, <1>T DEF CheckEfi, MarkPending, ClearPending, RemoveUkis, Goto, Aside
    <2> QED  BY <2>1, AsideServed
<1>7. ASSUME NEW p \in Procs, SkipSnapshot(p) PROVE Served(n)'
    <2>1. PICK x \in todo[p] \ complete : TakeUp(p, x)
        BY <1>7 DEF SkipSnapshot
    <2>2. UNCHANGED <<ukis, writable, pc, left, cur, spoiled>>
        BY <1>7 DEF SkipSnapshot
    <2>3. \A q \in Procs : Owes(q, n) => Owes(q, n)'
        BY <1>T, <2>1, <2>2, TakeUpOwes
    <2> QED
        BY <2>2, <2>3 DEF Served, HasUki, Writers
<1>8. ASSUME NEW p \in Procs, BuildFails(p) PROVE Served(n)'
    <2>1. PICK x \in todo[p] \cap complete :
              /\ TakeUp(p, x) /\ CountDown(p) /\ Spoil(x)
              /\ writable \subseteq writable'
        BY <1>8 DEF BuildFails
    <2>2. UNCHANGED <<ukis, pc, cur>> /\ spoiled' = spoiled \union {x}
        BY <1>8, <2>1 DEF BuildFails, Spoil
    <2>3. CASE n = x
        BY <2>2, <2>3 DEF Served
    <2>4. CASE n # x
        <3>1. \A q \in Procs : Owes(q, n) => Owes(q, n)'
            BY <1>T, <2>1, <2>2, <2>4, TakeUpOwes
        <3> QED
            BY <2>1, <2>2, <3>1 DEF Served, HasUki, Writers
    <2> QED
        BY <2>3, <2>4
<1>9. ASSUME NEW p \in Procs, OpenUki(p) PROVE Served(n)'
    <2>1. PICK x \in todo[p] \cap complete :
              /\ TakeUp(p, x) /\ CountDown(p)
              /\ writable \subseteq writable' /\ spoiled \subseteq spoiled'
              /\ x \in writable' \/ x \in spoiled'
              /\ ukis' = [ukis EXCEPT ![x] = Torn]
              /\ cur' = [cur EXCEPT ![p] = x]
        BY <1>9 DEF OpenUki, Spoil
    <2>2. pc' = [pc EXCEPT ![p] = "write"] /\ pc[p] = "build"
        BY <1>9, <2>1 DEF OpenUki, Goto, TakeUp
    <2>3. CASE n = x
        <3>1. p \in Writers(n)' /\ ukis'[n] = Torn
            BY <1>T, <2>1, <2>2, <2>3 DEF Writers
        <3> QED
            BY <1>S, <2>1, <2>3, <3>1 DEF Served
    <2>4. CASE n # x
        <3>1. \A q \in Procs : Owes(q, n) => Owes(q, n)'
            BY <1>T, <2>1, <2>2, <2>4, TakeUpOwes
        <3>2. ukis'[n] = ukis[n] /\ Writers(n) \subseteq Writers(n)'
            BY <1>T, <2>1, <2>2, <2>4 DEF Writers
        <3> QED
            BY <2>1, <3>1, <3>2 DEF Served, HasUki
    <2> QED
        BY <2>3, <2>4
<1>10. ASSUME NEW p \in Procs, WriteUki(p) PROVE Served(n)'
    <2>1. /\ pc[p] = "write" /\ pc' = [pc EXCEPT ![p] = "build"]
          /\ cur' = [cur EXCEPT ![p] = 0]
          /\ UNCHANGED <<writable, todo, left>> /\ spoiled \subseteq spoiled'
        BY <1>10 DEF WriteUki, Goto, Spoil
    <2>2. \A q \in Procs : Owes(q, n) => Owes(q, n)'
        BY <1>T, <2>1 DEF Owes
    <2>3. CASE n # cur[p]
        <3>1. ukis'[n] = ukis[n] /\ Writers(n) \subseteq Writers(n)'
            BY <1>10, <1>T, <2>1, <2>3 DEF WriteUki, Writers
        <3> QED
            BY <2>1, <2>2, <3>1 DEF Served, HasUki
    <2>4. CASE n = cur[p] /\ ukis' = [ukis EXCEPT ![cur[p]] = image[p]]
        <3>1. HasUki(n)' /\ ukis'[n] # NoUki
            BY <1>T, <1>K, <2>4 DEF HasUki
        <3> QED
            BY <2>1, <2>2, <3>1 DEF Served
    <2>5. CASE n = cur[p] /\ ukis[n] = NoUki
        BY <2>1, <2>2, <2>5 DEF Served
    <2>6. CASE n = cur[p] /\ Spoil(n)
        BY <2>6 DEF Served, Spoil
    <2> QED
        BY <1>10, <2>3, <2>4, <2>5, <2>6 DEF WriteUki
<1>11. ASSUME NEW p \in Procs, RefreshEnds(p) PROVE Served(n)'
    <2>1. /\ pc[p] = "build" /\ pc' = [pc EXCEPT ![p] = AfterRefresh(p)]
          /\ left[p] = 0 \/ todo[p] = {}
          /\ todo' = [todo EXCEPT ![p] = {}] /\ left' = [left EXCEPT ![p] = 0]
          /\ UNCHANGED <<ukis, writable, cur, spoiled>>
        BY <1>11 DEF RefreshEnds, Goto
    <2>2. ~Owes(p, n)
        <3> DEFINE A == {m \in todo[p] : m > n}
        <3>1. Cardinality(A) \in Nat  BY <1>T, SnapsFinite
        <3> HIDE DEF A
        <3>2. ~(Cardinality(A) < 0)  BY <3>1
        <3> QED  BY <2>1, <3>2 DEF Owes, A
    <2>3. \A q \in Procs : Owes(q, n) => Owes(q, n)'
        BY <1>T, <2>1, <2>2 DEF Owes
    <2>4. Writers(n) \subseteq Writers(n)'
        BY <1>T, <2>1 DEF Writers
    <2> QED
        BY <2>1, <2>3, <2>4 DEF Served, HasUki
<1>12. CASE UNCHANGED vars
    <2>1. Aside  BY <1>12 DEF Aside
    <2> QED  BY <2>1, AsideServed
<1> QED
    BY <1>1, <1>2, <1>3, <1>4, <1>5, <1>6, <1>7, <1>8, <1>9, <1>10, <1>11, <1>12
       DEF Next, Environment, Script, Refresh

(* A refresh that lists the snapshots has enough of its count for the newest. *)
LEMMA ListServes ==
    ASSUME TypeInv, NEW p \in Procs, ListSnapshots(p), NEW n \in Newest(complete)
    PROVE  Served(n)'
<1>T. /\ todo \in [Procs -> SUBSET Snaps] /\ left \in [Procs -> 0..Count]
      /\ pc \in [Procs -> Labels]
    BY DEF TypeInv, WorkOK, PcOK
<1>1. pc'[p] = "build" /\ todo'[p] = complete /\ left'[p] = Count
    BY <1>T DEF ListSnapshots, Goto
<1>2. Owes(p, n)'
    BY <1>1 DEF Owes, Newest
<1> QED
    BY <1>2 DEF Served

(* Snapper's numbers only grow, and no refresher knows an unfinished snapshot. *)
LEMMA NumbersStep == TypeInv /\ NumbersInv /\ [Next]_vars => NumbersInv'
<1> SUFFICES ASSUME TypeInv, NumbersInv, [Next]_vars PROVE NumbersInv'
    OBVIOUS
<1> USE Names DEF vars, env, snapper, esp, work, loop, history
<1>T. /\ taken \in 0..MaxSnapshots /\ begun \in SUBSET Snaps /\ complete \in SUBSET Snaps
      /\ ukis \in [Snaps -> Kernels \union {NoUki, Torn}]
      /\ todo \in [Procs -> SUBSET Snaps]
      /\ cur \in [Procs -> Snaps \union {0}] /\ 0 \notin Snaps
    BY DEF TypeInv, SnapperOK, EspOK, WorkOK, Snaps
<1>Q. ASSUME UNCHANGED <<taken, begun, complete>>, listed' \subseteq complete,
             \A n \in Snaps : Known(n)' => Known(n) \/ n \in complete
      PROVE  NumbersInv'
    <2>1. \A n \in complete : n <= taken  BY <1>T DEF NumbersInv
    <2> QED  BY <1>Q, <2>1 DEF NumbersInv
<1>1. CASE TakeSnapshot
    <2>1. /\ taken' = taken + 1 /\ begun' = begun \union {taken + 1}
          /\ UNCHANGED <<complete, listed, ukis, cur>>
        BY <1>1 DEF TakeSnapshot
    <2>2. \A n \in Snaps : Known(n)' = Known(n)
        BY <2>1 DEF Known, HasUki
    <2>3. \A n \in Snaps : n \in begun' \/ Known(n)' => n <= taken'
        BY <1>T, <2>1, <2>2 DEF NumbersInv, Snaps
    <2>4. \A n \in Snaps : Known(n)' /\ n \in begun' => n \in complete
        BY <1>T, <2>1, <2>2 DEF NumbersInv, Snaps
    <2> QED
        BY <2>1, <2>3, <2>4 DEF NumbersInv
<1>2. CASE CompleteSnapshot
    BY <1>2, <1>T DEF CompleteSnapshot, NumbersInv, Known, HasUki
<1>3. CASE DeleteSnapshot
    <2>1. PICK x \in complete : /\ complete' = complete \ {x} /\ begun' = begun \ {x}
                                /\ listed' = listed \ {x}
        BY <1>3 DEF DeleteSnapshot
    <2>2. UNCHANGED <<taken, ukis, cur>>
        BY <1>3 DEF DeleteSnapshot
    <2> QED
        BY <1>T, <2>1, <2>2 DEF NumbersInv, Known, HasUki
<1>4. CASE BeginUpdate \/ FinishUpdate \/ PullDrive \/ PlugIn
    BY <1>4 DEF BeginUpdate, FinishUpdate, PullDrive, PlugIn, NumbersInv, Known, HasUki
<1>5. CASE Restart
    BY <1>5, <1>T DEF Restart, NumbersInv, Known, HasUki
<1>6. CASE Loop
    BY <1>6 DEF Loop, Settle, Compare, ServiceEnds, NumbersInv, Known, HasUki
<1>7. ASSUME NEW p \in Procs, CheckEfi(p) \/ MarkPending(p) \/ ClearPending(p) \/ RefreshEnds(p)
      PROVE  NumbersInv'
    BY <1>7 DEF CheckEfi, MarkPending, ClearPending, RefreshEnds, NumbersInv, Known, HasUki
<1>8. ASSUME NEW p \in Procs, RemoveUkis(p) PROVE NumbersInv'
    BY <1>8, <1>T, <1>Q DEF RemoveUkis, NumbersInv, Known, HasUki
<1>9. ASSUME NEW p \in Procs, ListSnapshots(p) PROVE NumbersInv'
    BY <1>9, <1>Q DEF ListSnapshots, Newest, Known, HasUki
<1>10. ASSUME NEW p \in Procs, SkipSnapshot(p) PROVE NumbersInv'
    BY <1>10 DEF SkipSnapshot, NumbersInv, Known, HasUki
<1>11. ASSUME NEW p \in Procs, BuildFails(p) PROVE NumbersInv'
    BY <1>11 DEF BuildFails, NumbersInv, Known, HasUki
<1>12. ASSUME NEW p \in Procs, OpenUki(p) PROVE NumbersInv'
    <2>1. PICK x \in todo[p] \cap complete : /\ ukis' = [ukis EXCEPT ![x] = Torn]
                                            /\ cur' = [cur EXCEPT ![p] = x]
        BY <1>12 DEF OpenUki
    <2>2. UNCHANGED <<taken, begun, complete, listed>>
        BY <1>12 DEF OpenUki
    <2>3. \A n \in Snaps : Known(n)' => Known(n) \/ n \in complete
        BY <1>T, <2>1 DEF Known, HasUki
    <2> QED
        BY <1>Q, <2>2, <2>3 DEF NumbersInv
<1>13. ASSUME NEW p \in Procs, WriteUki(p) PROVE NumbersInv'
    <2>1. UNCHANGED <<taken, begun, complete, listed>> /\ cur' = [cur EXCEPT ![p] = 0]
        BY <1>13 DEF WriteUki
    <2>2. \A n \in Snaps : HasUki(n)' => HasUki(n) \/ cur[p] = n
        BY <1>13, <1>T DEF WriteUki, HasUki
    <2>3. \A n \in Snaps : Known(n)' => Known(n)
        BY <1>T, <2>1, <2>2 DEF Known
    <2> QED
        BY <1>Q, <2>1, <2>3 DEF NumbersInv
<1>14. CASE UNCHANGED vars
    BY <1>14 DEF NumbersInv, Known, HasUki
<1> QED
    BY <1>1, <1>2, <1>3, <1>4, <1>5, <1>6, <1>7, <1>8, <1>9, <1>10, <1>11, <1>12, <1>13,
       <1>14
       DEF Next, Environment, Script, Refresh

LEMMA RefreshStep == TypeInv /\ RefreshInv /\ [Next]_vars => RefreshInv'
<1> SUFFICES ASSUME TypeInv, RefreshInv, [Next]_vars PROVE RefreshInv'
    OBVIOUS
<1>1. NumbersInv'
    BY NumbersStep DEF RefreshInv
<1>2. \A n \in listed' : Served(n)'
    <2>1. CASE Restart
        BY <2>1 DEF Restart
    <2>2. ASSUME NEW p \in Procs, ListSnapshots(p) PROVE \A n \in listed' : Served(n)'
        BY <2>2, ListServes DEF ListSnapshots
    <2>3. ASSUME NEW p \in Procs, RemoveUkis(p), plugged PROVE \A n \in listed' : Served(n)'
        BY <2>3 DEF RemoveUkis
    <2>4. CASE /\ ~Restart
               /\ \A p \in Procs : ~ListSnapshots(p) /\ (RemoveUkis(p) => ~plugged)
        <3>1. listed' \subseteq listed
            BY <2>4 DEF vars, env, snapper, esp, work, loop, history, Next, Environment, Script,
               Loop, Refresh, TakeSnapshot, CompleteSnapshot, DeleteSnapshot, BeginUpdate,
               FinishUpdate, PullDrive, PlugIn, Settle, Compare, ServiceEnds, CheckEfi,
               MarkPending, ClearPending, RemoveUkis, SkipSnapshot, BuildFails, OpenUki,
               WriteUki, RefreshEnds
        <3>2. listed' \subseteq complete'
            BY <1>1 DEF NumbersInv
        <3>3. listed \subseteq complete /\ \A n \in listed : Served(n)
            BY DEF RefreshInv, NumbersInv
        <3> QED
            BY <2>4, <3>1, <3>2, <3>3, ServedStep
    <2> QED
        BY <2>1, <2>2, <2>3, <2>4
<1> QED
    BY <1>1, <1>2 DEF RefreshInv

LEMMA RefreshInit == Init => RefreshInv
BY DEF Init, RefreshInv, NumbersInv, Known, HasUki, Snaps, Procs

\* The refreshes of the path unit, of the pacman hook and of the catch-up service run
\* without a lock, in any interleaving, with snapshots coming and going, commands failing
\* and the drive pulled and plugged in at any moment: what the last of them listed as the
\* newest is bootable or on its way, unless a command failed for it or two had its file open.
THEOREM RefreshersAgree == Spec => []RefreshersCover
<1>1. Init => TypeInv /\ RefreshInv
    BY TypeInit, RefreshInit
<1>2. RefreshInv => RefreshersCover
    BY DEF RefreshInv, RefreshersCover, Served, Bootable
<1> QED
    BY <1>1, <1>2, TypeStep, RefreshStep, PTL DEF Spec

-----------------------------------------------------------------------------
(* Kernels *)

(* The kernel in /boot, a UKI and one on its way are no older than the modules of a snapshot
   that was not taken in the middle of a transaction: versions only grow, and no refresher
   knows a snapshot that is not complete yet. *)
ModulesInv ==
    /\ kernel <= installed
    /\ \A n \in complete \ midway : modules[n] <= kernel
    /\ \A n \in complete \ midway, p \in Procs : cur[p] = n => modules[n] <= image[p]
    /\ UkiNotOlder

LEMMA ModulesStep == TypeInv /\ NumbersInv /\ ModulesInv /\ [Next]_vars => ModulesInv'
<1> SUFFICES ASSUME TypeInv, NumbersInv, ModulesInv, [Next]_vars PROVE ModulesInv'
    OBVIOUS
<1> USE DEF ModulesInv, UkiNotOlder, HasUki, vars, env, snapper, esp, work, loop, history
<1>T. /\ complete \in SUBSET Snaps /\ Kernels \subseteq Nat /\ 0 \notin Snaps
      /\ kernel \in Kernels /\ installed \in Kernels /\ modules \in [Snaps -> Kernels]
      /\ ukis \in [Snaps -> Kernels \union {NoUki, Torn}]
      /\ cur \in [Procs -> Snaps \union {0}] /\ image \in [Procs -> Kernels]
      /\ todo \in [Procs -> SUBSET Snaps]
    BY DEF TypeInv, SnapperOK, EspOK, WorkOK, Kernels, Snaps
<1>1. CASE CompleteSnapshot
    <2>1. PICK n \in begun \ complete :
              /\ complete' = complete \union {n}
              /\ modules' = [modules EXCEPT ![n] = installed]
              /\ midway' = IF installed # kernel THEN midway \union {n} ELSE midway
        BY <1>1 DEF CompleteSnapshot
    <2>2. n \in Snaps  BY DEF TypeInv, SnapperOK
    <2>3. ~Known(n)  BY <2>2 DEF NumbersInv
    <2>4. UNCHANGED <<installed, kernel, ukis, cur, image>>  BY <1>1 DEF CompleteSnapshot
    <2>5. \A m \in complete' \ midway' : (m \in complete \ midway /\ m # n) \/ m = n
        BY <2>1
    <2>6. n \notin midway' => modules'[n] = kernel
        BY <1>T, <2>1, <2>2
    <2> QED  BY <1>T, <2>1, <2>2, <2>3, <2>4, <2>5, <2>6 DEF Known
<1>2. CASE BeginUpdate
    <2>1. /\ installed' = kernel + 1
          /\ UNCHANGED <<kernel, midway, complete, modules, ukis, cur, image>>
        BY <1>2 DEF BeginUpdate
    <2>2. kernel <= installed'
        BY <1>T, <2>1
    <2> QED  BY <2>1, <2>2
<1>3. CASE FinishUpdate
    <2>1. /\ kernel' = installed
          /\ UNCHANGED <<installed, midway, complete, modules, ukis, cur, image>>
        BY <1>3 DEF FinishUpdate
    <2>2. ASSUME NEW n \in complete \ midway PROVE modules[n] <= kernel'
        <3>1. modules[n] \in Nat /\ kernel \in Nat /\ installed \in Nat /\ modules[n] <= kernel
            BY <1>T
        <3> QED  BY <2>1, <3>1
    <2>3. kernel' <= installed'
        BY <1>T, <2>1
    <2> QED  BY <2>1, <2>2, <2>3
<1>4. CASE Restart
    BY <1>T, <1>4 DEF Restart
<1>5. CASE TakeSnapshot
    BY <1>5 DEF TakeSnapshot
<1>6. CASE DeleteSnapshot
    <2>1. PICK x \in complete :
              /\ complete' = complete \ {x} /\ midway' = midway \ {x}
              /\ modules' = [modules EXCEPT ![x] = 1]
        BY <1>6 DEF DeleteSnapshot
    <2>2. UNCHANGED <<installed, kernel, ukis, cur, image>>  BY <1>6 DEF DeleteSnapshot
    <2>3. \A n \in complete' \ midway' : n \in complete \ midway /\ modules'[n] = modules[n]
        BY <1>T, <2>1
    <2> QED  BY <2>2, <2>3
<1>7. CASE PullDrive \/ PlugIn
    BY <1>7 DEF PullDrive, PlugIn
<1>8. CASE Loop
    BY <1>8 DEF Loop, Settle, Compare, ServiceEnds
<1>9. ASSUME NEW p \in Procs, CheckEfi(p) \/ MarkPending(p) \/ ClearPending(p) PROVE ModulesInv'
    BY <1>9 DEF CheckEfi, MarkPending, ClearPending
<1>10. ASSUME NEW p \in Procs, RemoveUkis(p) PROVE ModulesInv'
    BY <1>T, <1>10 DEF RemoveUkis
<1>11. ASSUME NEW p \in Procs, ListSnapshots(p) \/ RefreshEnds(p) PROVE ModulesInv'
    BY <1>11 DEF ListSnapshots, RefreshEnds
<1>12. ASSUME NEW p \in Procs, SkipSnapshot(p) \/ BuildFails(p) PROVE ModulesInv'
    BY <1>12 DEF SkipSnapshot, BuildFails
<1>13. ASSUME NEW p \in Procs, OpenUki(p) PROVE ModulesInv'
    <2>1. PICK x \in todo[p] \cap complete : /\ ukis' = [ukis EXCEPT ![x] = Torn]
                                            /\ cur' = [cur EXCEPT ![p] = x]
        BY <1>13 DEF OpenUki
    <2>2. UNCHANGED <<complete, midway, modules, installed, kernel>>
          /\ image' = [image EXCEPT ![p] = kernel]
        BY <1>13 DEF OpenUki
    <2>3. ASSUME NEW n \in complete \ midway, NEW q \in Procs, cur'[q] = n
          PROVE  modules[n] <= image'[q]
        BY <1>T, <2>1, <2>2, <2>3
    <2>4. ASSUME NEW n \in complete \ midway, HasUki(n)' PROVE ukis'[n] >= modules[n]
        BY <1>T, <2>1, <2>4
    <2> QED  BY <2>2, <2>3, <2>4
<1>14. ASSUME NEW p \in Procs, WriteUki(p) PROVE ModulesInv'
    <2>1. /\ UNCHANGED <<complete, midway, modules, installed, kernel>>
          /\ cur' = [cur EXCEPT ![p] = 0] /\ image' = [image EXCEPT ![p] = 1]
          /\ ukis' = ukis \/ ukis' = [ukis EXCEPT ![cur[p]] = image[p]]
        BY <1>14 DEF WriteUki
    <2>2. ASSUME NEW n \in complete \ midway, NEW q \in Procs, cur'[q] = n
          PROVE  modules[n] <= image'[q]
        BY <1>T, <2>1, <2>2
    <2>3. ASSUME NEW n \in complete \ midway, HasUki(n)' PROVE ukis'[n] >= modules[n]
        BY <1>T, <2>1, <2>3
    <2> QED  BY <2>1, <2>2, <2>3
<1>15. CASE UNCHANGED vars
    BY <1>15
<1> HIDE DEF ModulesInv
<1> QED
    BY <1>1, <1>2, <1>3, <1>4, <1>5, <1>6, <1>7, <1>8, <1>9, <1>10, <1>11, <1>12, <1>13,
       <1>14, <1>15
       DEF Next, Environment, Script, Refresh

\* No snapshot taken outside of a pacman transaction ever gets a UKI of an older kernel than
\* its own modules are for, for any number of snapshots, kernel updates, faults and restarts
\* and any interleaving of the refreshers with the two halves of a transaction.
THEOREM KernelsNotOlder == Spec => []UkiNotOlder
<1>1. Init => TypeInv /\ NumbersInv
    BY TypeInit, RefreshInit DEF RefreshInv
<1>2. Init => ModulesInv
    BY DEF Init, ModulesInv, UkiNotOlder
<1>3. ModulesInv => UkiNotOlder
    BY DEF ModulesInv
<1> QED
    BY <1>1, <1>2, <1>3, TypeStep, NumbersStep, ModulesStep, PTL DEF Spec
=============================================================================
