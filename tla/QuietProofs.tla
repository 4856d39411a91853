---------------------------- MODULE QuietProofs -----------------------------
(***************************************************************************)
(* Proofs about SnapshotUkis at rest, for any number of snapshots, kernels,*)
(* UKIs and faults and every timing of snapper and the drive: whenever     *)
(* nothing runs, the newest snapshots can be booted.                       *)
(***************************************************************************)
EXTENDS SnapshotUkisProofs

(* While a snapshot is not complete yet the service runs, unless something was left to the
   next refresh, and no fingerprint holds it. *)
WatchInv ==
    /\ begun # complete => abandoned \/ pc["path"] \notin {"idle", "exit"}
    /\ \A n \in seen : n <= taken /\ (n \in begun => n \in complete)

(* Somebody is going to list the snapshots again, or to mark that it has to be done. *)
Due ==
    \/ marker /\ ~plugged
    \/ \E p \in Procs : pc[p] \in {"check", "mark", "unmark", "remove", "list"}
    \/ pc["path"] = "settle"

(* L are the snapshots there were at the last listing.  Since then only the oldest of them
   were deleted, and what came later the path service has still to notice: it is not in its
   fingerprint.  The newest of L that are left are served. *)
Since(L) ==
    /\ \A n \in L : n <= taken /\ (n \in begun => n \in complete)
    /\ \A n \in L \ complete, m \in L \cap complete : n < m
    /\ pc["path"] \in {"idle", "exit"} => complete \subseteq L
    /\ pc["path"] \in {"build", "write", "compare"} => complete \cap seen \subseteq L
    /\ \A n \in Newest(L) \cap complete : Served(n)

ListInv == ~abandoned /\ ~Due => \E L \in SUBSET Snaps : Since(L)

QuietInv == WatchInv /\ ListInv

-----------------------------------------------------------------------------
(* The fingerprint *)

\* The service does not end with a snapshot half made, unless that is noted as abandoned.
LEMMA WatchStep == TypeInv /\ RefreshInv /\ WatchInv /\ [Next]_vars => WatchInv'
<1> SUFFICES ASSUME TypeInv, RefreshInv, WatchInv, [Next]_vars PROVE WatchInv'
    OBVIOUS
<1> USE Names DEF WatchInv, vars, env, snapper, esp, work, loop, history
<1>T. /\ pc \in [Procs -> Labels] /\ abandoned \in BOOLEAN
      /\ taken \in Nat /\ begun \in SUBSET Snaps /\ complete \in SUBSET Snaps
      /\ seen \in SUBSET Snaps /\ Snaps \subseteq Nat
    BY DEF TypeInv, PcOK, HistoryOK, SnapperOK, LoopOK, Snaps
<1>N. complete \subseteq begun /\ \A n \in begun : n <= taken
    BY <1>T DEF RefreshInv, NumbersInv
<1>1. CASE TakeSnapshot
    <2>1. taken' = taken + 1 /\ begun' = begun \union {taken + 1} /\ UNCHANGED complete
        BY <1>1 DEF TakeSnapshot
    <2>2. seen' = seen /\ (abandoned' \/ pc'["path"] \notin {"idle", "exit"})
        BY <1>1, <1>T DEF TakeSnapshot, NotifyPathUnit, Goto
    <2>3. \A n \in seen : n <= taken' /\ (n \in begun' => n \in complete)
        BY <1>T, <2>1
    <2> QED
        BY <2>1, <2>2, <2>3
<1>2. CASE DeleteSnapshot
    BY <1>2, <1>T DEF DeleteSnapshot, NotifyPathUnit, Goto
<1>3. CASE CompleteSnapshot
    BY <1>3, <1>T DEF CompleteSnapshot
<1>4. CASE BeginUpdate \/ FinishUpdate
    BY <1>4, <1>T DEF BeginUpdate, FinishUpdate, Goto
<1>5. CASE PullDrive
    BY <1>5 DEF PullDrive
<1>6. CASE PlugIn
    BY <1>6, <1>T DEF PlugIn, Goto
<1>7. CASE Restart
    BY <1>7, <1>T DEF Restart
<1>8. CASE ServiceEnds
    BY <1>8, <1>T DEF ServiceEnds, Goto
<1>9. CASE Settle
    BY <1>9, <1>T, <1>N DEF Settle, Goto
<1>10. CASE Compare
    BY <1>10, <1>T DEF Compare, Goto
<1>11. ASSUME NEW p \in Procs, CheckEfi(p) \/ MarkPending(p) \/ ClearPending(p)
       PROVE  WatchInv'
    BY <1>11, <1>T DEF CheckEfi, MarkPending, ClearPending, AfterRefresh, Goto
<1>12. ASSUME NEW p \in Procs, RemoveUkis(p) PROVE WatchInv'
    BY <1>12, <1>T DEF RemoveUkis, Goto
<1>13. ASSUME NEW p \in Procs, ListSnapshots(p) PROVE WatchInv'
    BY <1>13, <1>T DEF ListSnapshots, Goto
<1>14. ASSUME NEW p \in Procs, SkipSnapshot(p) \/ BuildFails(p) PROVE WatchInv'
    BY <1>14, <1>T DEF SkipSnapshot, BuildFails
<1>15. ASSUME NEW p \in Procs, OpenUki(p) \/ WriteUki(p) PROVE WatchInv'
    BY <1>15, <1>T DEF OpenUki, WriteUki, Goto
<1>16. ASSUME NEW p \in Procs, RefreshEnds(p) PROVE WatchInv'
    BY <1>16, <1>T DEF RefreshEnds, AfterRefresh, Goto
<1>17. CASE UNCHANGED vars
    BY <1>17
<1> HIDE DEF WatchInv
<1> QED
    BY <1>1, <1>2, <1>3, <1>4, <1>5, <1>6, <1>7, <1>8, <1>9, <1>10, <1>11, <1>12, <1>13,
       <1>14, <1>15, <1>16, <1>17
       DEF Next, Environment, Script, Loop, Refresh

-----------------------------------------------------------------------------
(* The last listing *)

\* Deleting the oldest snapshots makes no other one of the newest.
LEMMA NewestShrinks ==
    ASSUME NEW L \in SUBSET Snaps, NEW C \in SUBSET L, \A n \in L \ C, m \in C : n < m
    PROVE  Newest(C) \subseteq Newest(L)
<1> SUFFICES ASSUME NEW n \in Newest(C) PROVE n \in Newest(L)
    OBVIOUS
<1>1. n \in C /\ n \in L /\ Cardinality({m \in C : m > n}) < Count
    BY DEF Newest
<1>2. \A m \in L : m > n => m \in C
    <2> SUFFICES ASSUME NEW m \in L, m > n, m \notin C PROVE FALSE
        OBVIOUS
    <2>1. m < n /\ m \in Nat /\ n \in Nat
        BY <1>1 DEF Snaps
    <2> QED
        BY <2>1
<1>3. {m \in L : m > n} = {m \in C : m > n}
    BY <1>2
<1> QED
    BY <1>1, <1>3 DEF Newest

\* Only listing the snapshots does what was due: whatever else ends a refresh leaves the
\* marker for the next plug-in, or is noted as abandoned.
LEMMA DueStep ==
    ASSUME TypeInv, [Next]_vars, ~abandoned', ~Due', \A p \in Procs : ~ListSnapshots(p)
    PROVE  ~abandoned /\ ~Due
<1> USE Names DEF Due, vars, env, snapper, esp, work, loop, history
<1>T. /\ pc \in [Procs -> Labels] /\ marker \in BOOLEAN /\ abandoned \in BOOLEAN
      /\ plugged \in BOOLEAN
    BY DEF TypeInv, PcOK, DriveOK, HistoryOK
<1>1. CASE TakeSnapshot
    BY <1>1, <1>T DEF TakeSnapshot, NotifyPathUnit, Goto
<1>2. CASE DeleteSnapshot
    BY <1>2, <1>T DEF DeleteSnapshot, NotifyPathUnit, Goto
<1>3. CASE CompleteSnapshot
    BY <1>3 DEF CompleteSnapshot
<1>4. CASE BeginUpdate \/ FinishUpdate
    BY <1>4, <1>T DEF BeginUpdate, FinishUpdate, Goto
<1>5. CASE PullDrive
    BY <1>5 DEF PullDrive
<1>6. CASE PlugIn
    BY <1>6, <1>T DEF PlugIn, Goto
<1>7. CASE Restart
    BY <1>7, <1>T DEF Restart
<1>8. CASE Settle
    BY <1>8, <1>T DEF Settle, Goto
<1>9. CASE Compare
    BY <1>9, <1>T DEF Compare, Goto
<1>10. CASE ServiceEnds
    BY <1>10, <1>T DEF ServiceEnds, Goto
<1>11. ASSUME NEW p \in Procs, CheckEfi(p) \/ MarkPending(p) \/ ClearPending(p)
       PROVE  FALSE
    BY <1>11, <1>T DEF CheckEfi, MarkPending, ClearPending, Goto
<1>12. ASSUME NEW p \in Procs, RemoveUkis(p) PROVE FALSE
    BY <1>12, <1>T DEF RemoveUkis, Goto
<1>13. ASSUME NEW p \in Procs, SkipSnapshot(p) \/ BuildFails(p) PROVE ~abandoned /\ ~Due
    BY <1>13 DEF SkipSnapshot, BuildFails
<1>14. ASSUME NEW p \in Procs, OpenUki(p) PROVE ~abandoned /\ ~Due
    <2>1. pc[p] = "build" /\ pc' = [pc EXCEPT ![p] = "write"]
        BY <1>14 DEF OpenUki, TakeUp, Goto
    <2>2. UNCHANGED <<marker, plugged, abandoned>>
        BY <1>14 DEF OpenUki
    <2> QED  BY <1>T, <2>1, <2>2
<1>15. ASSUME NEW p \in Procs, WriteUki(p) \/ RefreshEnds(p) PROVE ~abandoned /\ ~Due
    BY <1>15, <1>T DEF WriteUki, RefreshEnds, Goto
<1>16. CASE UNCHANGED vars
    BY <1>16
<1> HIDE DEF Due
<1> QED
    BY <1>1, <1>2, <1>3, <1>4, <1>5, <1>6, <1>7, <1>8, <1>9, <1>10, <1>11, <1>12, <1>13,
       <1>14, <1>15, <1>16
       DEF Next, Environment, Script, Loop, Refresh

\* As long as no other listing is due, every step keeps what is known of the last one.
LEMMA SinceStep ==
    ASSUME ~AnyDelete, TypeInv, RefreshInv, WatchInv, [Next]_vars,
           ~abandoned', ~Due, ~Due', ~abandoned,
           NEW L \in SUBSET Snaps, Since(L)
    PROVE  Since(L)'
<1> USE Names DEF vars, env, snapper, esp, work, loop, history
<1>T. /\ pc \in [Procs -> Labels]
      /\ taken \in Nat /\ begun \in SUBSET Snaps /\ complete \in SUBSET Snaps
      /\ Snaps \subseteq Nat
    BY DEF TypeInv, PcOK, SnapperOK, Snaps
<1>D. /\ pc["path"] # "settle"
      /\ \A p \in Procs : pc[p] \notin {"check", "mark", "unmark", "remove", "list"}
    BY DEF Due
<1>E. /\ pc'["path"] # "settle"
      /\ \A p \in Procs : pc'[p] \notin {"check", "mark", "unmark", "remove", "list"}
    BY DEF Due
<1>F. \A p \in Procs : /\ ~CheckEfi(p) /\ ~MarkPending(p) /\ ~ClearPending(p)
                       /\ ~RemoveUkis(p) /\ ~ListSnapshots(p)
    BY <1>D DEF CheckEfi, MarkPending, ClearPending, RemoveUkis, ListSnapshots
<1>S. ASSUME ~Restart, NEW n \in Newest(L) \cap complete, n \in complete' PROVE Served(n)'
    BY <1>F, <1>S, ServedStep DEF Since
<1>N. Newest(L) \subseteq L
    BY DEF Newest
<1>1. CASE TakeSnapshot
    <2>1. UNCHANGED <<pc, complete, seen>>
        BY <1>1, <1>E, <1>T DEF TakeSnapshot, NotifyPathUnit, Goto
    <2>2. taken' = taken + 1 /\ begun' = begun \union {taken + 1}
        BY <1>1 DEF TakeSnapshot
    <2>3. \A n \in L : n <= taken' /\ (n \in begun' => n \in complete)
        BY <1>T, <2>2 DEF Since
    <2>4. ~Restart
        BY <1>T, <2>2 DEF Restart
    <2> QED
        BY <1>S, <2>1, <2>3, <2>4 DEF Since
<1>2. CASE DeleteSnapshot
    <2>1. UNCHANGED <<pc, taken, seen>> /\ pc["path"] \notin {"idle", "exit"}
        BY <1>2, <1>E, <1>T DEF DeleteSnapshot, NotifyPathUnit, Goto
    <2>2. PICK x \in complete : /\ \A m \in complete : x <= m
                                /\ complete' = complete \ {x} /\ begun' = begun \ {x}
        BY <1>2 DEF DeleteSnapshot
    <2>3. \A n \in L \ complete', m \in L \cap complete' : n < m
        BY <1>T, <2>2 DEF Since
    <2>4. ~Restart
        BY <2>2 DEF Restart
    <2> QED
        BY <1>S, <2>1, <2>2, <2>3, <2>4 DEF Since
<1>3. CASE CompleteSnapshot
    <2>1. UNCHANGED <<pc, taken, begun, seen>>
        BY <1>3 DEF CompleteSnapshot
    <2>2. PICK x \in begun \ complete : complete' = complete \union {x}
        BY <1>3 DEF CompleteSnapshot
    <2>3. x \notin L /\ x \notin seen /\ pc["path"] \notin {"idle", "exit"}
        BY <2>2 DEF Since, WatchInv
    <2>4. ~Restart
        BY <2>2 DEF Restart
    <2>5. \A n \in Newest(L) \cap complete' : Served(n)'
        BY <1>N, <1>S, <2>2, <2>3, <2>4
    <2> QED
        BY <2>1, <2>2, <2>3, <2>5 DEF Since
<1>4. CASE Restart
    <2>1. /\ \A p \in Procs : pc[p] \in {"idle", "exit"} /\ pc'[p] = "idle"
          /\ begun' = complete
          /\ UNCHANGED <<taken, complete, ukis, writable, spoiled>>
        BY <1>4, <1>D, <1>E, <1>T DEF Restart
    <2>2. ASSUME NEW n \in Newest(L) \cap complete PROVE Served(n)'
        <3>1. n \in spoiled \/ (n \in writable /\ ukis[n] # NoUki /\ HasUki(n))
            BY <2>1 DEF Since, Served, Owes, Writers
        <3> QED
            BY <2>1, <3>1 DEF Served, HasUki
    <2>3. \A n \in L : n <= taken'
        BY <2>1 DEF Since
    <2>4. complete \subseteq L /\ \A n \in L \ complete, m \in L \cap complete : n < m
        BY <2>1 DEF Since
    <2> QED
        BY <2>1, <2>2, <2>3, <2>4 DEF Since
<1>5. CASE ~Restart /\ Compare
    <2>1. /\ pc["path"] = "compare" /\ pc' = [pc EXCEPT !["path"] = "exit"] /\ seen = complete
          /\ UNCHANGED <<taken, begun, complete>>
        BY <1>5, <1>E, <1>T DEF Compare, Goto
    <2> QED
        BY <1>S, <1>T, <1>5, <2>1 DEF Since
<1>6. CASE ~Restart /\ ServiceEnds
    <2>1. /\ pc["path"] = "exit" /\ pc' = [pc EXCEPT !["path"] = "idle"]
          /\ UNCHANGED <<taken, begun, complete, seen>>
        BY <1>6 DEF ServiceEnds, Goto
    <2> QED
        BY <1>S, <1>T, <1>6, <2>1 DEF Since
<1>7. ASSUME ~Restart, UNCHANGED <<taken, begun, complete, seen>>,
             \/ pc'["path"] = pc["path"]
             \/ pc["path"] \in {"build", "write"} /\ pc'["path"] \in {"build", "write", "compare"}
      PROVE  Since(L)'
    BY <1>S, <1>7 DEF Since
<1>8. CASE ~Restart /\ (BeginUpdate \/ FinishUpdate \/ PullDrive \/ PlugIn)
    <2>1. UNCHANGED <<taken, begun, complete, seen>> /\ pc'["path"] = pc["path"]
        BY <1>8, <1>T DEF BeginUpdate, FinishUpdate, PullDrive, PlugIn, Goto
    <2> QED
        BY <1>7, <1>8, <2>1
<1>9. ASSUME ~Restart, NEW p \in Procs, SkipSnapshot(p) \/ BuildFails(p) PROVE Since(L)'
    <2>1. UNCHANGED <<taken, begun, complete, seen, pc>>
        BY <1>9 DEF SkipSnapshot, BuildFails
    <2> QED
        BY <1>7, <1>9, <2>1
<1>10. ASSUME ~Restart, NEW p \in Procs, OpenUki(p) PROVE Since(L)'
    <2>1. /\ UNCHANGED <<taken, begun, complete, seen>>
          /\ pc[p] = "build" /\ pc' = [pc EXCEPT ![p] = "write"]
        BY <1>10 DEF OpenUki, TakeUp, Goto
    <2> QED
        BY <1>7, <1>10, <1>T, <2>1
<1>11. ASSUME ~Restart, NEW p \in Procs, WriteUki(p) \/ RefreshEnds(p) PROVE Since(L)'
    <2>1. /\ UNCHANGED <<taken, begun, complete, seen>>
          /\ pc[p] \in {"build", "write"}
          /\ pc' = [pc EXCEPT ![p] = "build"] \/ pc' = [pc EXCEPT ![p] = AfterRefresh(p)]
        BY <1>11 DEF WriteUki, RefreshEnds, Goto
    <2>2. \/ pc'["path"] = pc["path"]
          \/ pc["path"] \in {"build", "write"} /\ pc'["path"] \in {"build", "write", "compare"}
        BY <1>T, <2>1 DEF AfterRefresh
    <2> QED
        BY <1>7, <1>11, <2>1, <2>2
<1>12. CASE ~Restart /\ UNCHANGED vars
    BY <1>7, <1>12
<1>13. ~Settle
    BY <1>D DEF Settle
<1> QED
    BY <1>F, <1>1, <1>2, <1>3, <1>4, <1>5, <1>6, <1>8, <1>9, <1>10, <1>11, <1>12, <1>13
       DEF Next, Environment, Script, Loop, Refresh

\* A refresh that lists the snapshots is going to write the UKIs of the newest.
LEMMA ListedStep ==
    ASSUME TypeInv, RefreshInv, NEW p \in Procs, ListSnapshots(p)
    PROVE  \E L \in SUBSET Snaps : Since(L)'
<1>1. UNCHANGED <<taken, begun, complete, seen>>
    BY DEF ListSnapshots, env, snapper, loop
<1>2. complete \in SUBSET Snaps /\ \A n \in complete : n <= taken
    BY DEF TypeInv, SnapperOK, RefreshInv, NumbersInv
<1>3. PICK L \in SUBSET Snaps : L = complete
    BY <1>2
<1>4. \A n \in Newest(L) : Served(n)'
    BY <1>3, ListServes
<1>5. Since(L)'
    BY <1>1, <1>2, <1>3, <1>4 DEF Since
<1> QED
    BY <1>5

\* ListInv is kept: by the refresh that lists, or by the steps after it.
LEMMA ListStep ==
    ASSUME ~AnyDelete
    PROVE  TypeInv /\ RefreshInv /\ QuietInv /\ [Next]_vars => ListInv'
<1> SUFFICES ASSUME TypeInv, RefreshInv, QuietInv, [Next]_vars, ~abandoned', ~Due'
             PROVE  \E L \in SUBSET Snaps : Since(L)'
    BY DEF ListInv
<1>0. WatchInv /\ ListInv
    BY DEF QuietInv
<1>1. ASSUME NEW p \in Procs, ListSnapshots(p) PROVE \E L \in SUBSET Snaps : Since(L)'
    BY <1>1, ListedStep
<1>2. CASE \A p \in Procs : ~ListSnapshots(p)
    <2>1. ~abandoned /\ ~Due
        BY <1>2, DueStep
    <2>2. PICK L \in SUBSET Snaps : Since(L)
        BY <1>0, <2>1 DEF ListInv
    <2>3. Since(L)'
        BY <1>0, <2>1, <2>2, SinceStep
    <2> QED
        BY <2>3
<1> QED
    BY <1>1, <1>2

\* QuietInv holds at the start, when there is no snapshot.
LEMMA QuietInit == Init => QuietInv
<1> SUFFICES ASSUME Init PROVE QuietInv
    OBVIOUS
<1>1. WatchInv
    BY DEF Init, WatchInv
<1>2. Since({})
    BY DEF Init, Since, Newest, Procs
<1> QED
    BY <1>1, <1>2 DEF QuietInv, ListInv

\* Whenever nothing runs and the drive is in, the newest snapshots can be booted, except for
\* a command that failed, for any number of snapshots, kernels, faults and restarts and
\* whenever snapper finishes a snapshot or the drive is moved, unless one of the races listed
\* at QuietCovered left a change to the next refresh.  Snapshots have to be cleaned up oldest
\* first.
THEOREM QuietCorrect ==
    ASSUME ~AnyDelete
    PROVE  Spec => []QuietCovered
<1>1. Init => TypeInv /\ RefreshInv /\ QuietInv
    BY TypeInit, RefreshInit, QuietInit
<1>2. TypeInv /\ RefreshInv /\ QuietInv /\ [Next]_vars => QuietInv'
    BY WatchStep, ListStep DEF QuietInv
<1>3. TypeInv /\ QuietInv => QuietCovered
    <2> SUFFICES ASSUME TypeInv, QuietInv, AllIdle, plugged, ~abandoned,
                        NEW n \in Newest(complete)
                 PROVE  Bootable(n) \/ n \in spoiled
        BY DEF QuietCovered, Covered
    <2>1. \A p \in Procs : pc[p] = "idle"
        BY DEF AllIdle
    <2>2. ~Due
        BY <2>1, Names DEF Due
    <2>3. PICK L \in SUBSET Snaps : Since(L)
        BY <2>2 DEF QuietInv, ListInv
    <2>4. complete \subseteq L /\ \A m \in L \ complete, k \in complete : m < k
        BY <2>1, <2>3, Names DEF Since
    <2>5. n \in Newest(L) /\ n \in complete
        BY <2>4, NewestShrinks DEF Newest
    <2> QED
        BY <2>1, <2>3, <2>5 DEF Since, Served, Owes, Writers, Bootable
<1> QED
    BY <1>1, <1>2, <1>3, TypeStep, RefreshStep, PTL DEF Spec
=============================================================================
