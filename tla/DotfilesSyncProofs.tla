------------------------- MODULE DotfilesSyncProofs -------------------------
(* Proofs about DotfilesSync, for any machines, files and bounds. *)
EXTENDS DotfilesSync, SequenceTheorems, TLAPS

HomeOK ==
    /\ home \in [Machines -> [Files -> Nat]] /\ mine \in [Machines -> [Files -> Nat]]
    /\ backups \in [Machines -> [Files -> SUBSET Nat]]
CloneOK ==
    /\ mode \in [Machines -> Modes] /\ work \in [Machines -> Tree]
    /\ local \in [Machines -> Seq(Commit)] /\ remote \in Seq(Commit)
    /\ staged \in [Machines -> BOOLEAN]
RunOK ==
    /\ pc \in [Machines -> Labels] /\ todo \in [Machines -> SUBSET Files]
    /\ changed \in [Machines -> BOOLEAN] /\ force \in [Machines -> BOOLEAN]
    /\ queue \in [Machines -> Seq(Commit)] /\ base \in [Machines -> Tree]
HistoryOK ==
    /\ read \in [Machines -> [Files -> Nat]] /\ report \in [Machines -> Reports]
BoundsOK == edits \in Nat /\ commits \in Nat /\ faults \in Nat

\* The remote holds a commit, and so does every clone that is there; a run needs a clone.
CloneInv ==
    /\ remote # <<>>
    /\ \A m \in Machines : mode[m] # "none" => local[m] # <<>>
    /\ \A m \in Machines : pc[m] # "idle" => mode[m] # "none"

TypeInv == HomeOK /\ CloneOK /\ RunOK /\ HistoryOK /\ BoundsOK /\ CloneInv

\* The last commit of a branch has a tree.
LEMMA LastTree ==
    ASSUME NEW s \in Seq(Commit), s # <<>>
    PROVE  Last(s) \in Commit /\ Last(s).tree \in Tree
  <1>1. Len(s) \in Nat /\ Len(s) # 0
    OBVIOUS
  <1>2. s[Len(s)] \in Commit
    BY <1>1
  <1> QED
    BY <1>2 DEF Last, Commit

\* A branch with a commit added is a branch, and not an empty one.
LEMMA AppendCommit ==
    ASSUME NEW s \in Seq(Commit), NEW c \in Commit
    PROVE  Append(s, c) \in Seq(Commit) /\ Append(s, c) # <<>>
  BY AppendProperties

LEMMA NoTreeType == NoTree \in Tree
  BY DEF NoTree, Tree, NoFile

LEMMA TypeInit == Init => TypeInv
  <1> SUFFICES ASSUME Init PROVE TypeInv
    OBVIOUS
  <1>1. HomeOK
    BY DEF Init, HomeOK, NoFile
  <1>2. CloneOK /\ CloneInv
    BY NoTreeType DEF Init, CloneOK, CloneInv, Modes, Commit
  <1>3. RunOK
    BY NoTreeType DEF Init, RunOK, Labels
  <1>4. HistoryOK /\ BoundsOK
    BY DEF Init, HistoryOK, BoundsOK, Reports, NoFile
  <1> QED
    BY <1>1, <1>2, <1>3, <1>4 DEF TypeInv

\* The end of a run keeps the types of everything it resets.
LEMMA FinishType ==
    ASSUME RunOK, HistoryOK, NEW m \in Machines, NEW how \in Reports, Finish(m, how)
    PROVE  RunOK' /\ HistoryOK' /\ pc' = [pc EXCEPT ![m] = "idle"]
  BY NoTreeType DEF RunOK, HistoryOK, Finish, Set, Labels

\* Staging keeps the types, and a clone stays a clone.
LEMMA AddType ==
    ASSUME CloneOK, NEW m \in Machines, Add(m)
    PROVE  /\ mode' \in [Machines -> Modes] /\ staged' \in [Machines -> BOOLEAN]
           /\ \A n \in Machines : mode'[n] # "none" <=> mode[n] # "none"
  BY DEF CloneOK, Add, Set, Modes

\* A clone that is there has a tree at its HEAD, and so has the remote.
LEMMA Trees ==
    ASSUME TypeInv
    PROVE  /\ Upstream \in Tree
           /\ \A m \in Machines : mode[m] # "none" => HeadTree(m) \in Tree
  BY LastTree DEF TypeInv, CloneOK, CloneInv, Upstream, HeadTree

\* Checking the upstream out yields a tree.
LEMMA CheckedOutType ==
    ASSUME TypeInv, NEW m \in Machines
    PROVE  CheckedOut(m) \in Tree
  BY Trees DEF CheckedOut, TypeInv, CloneOK, Tree

\* One path of one clone gets another content.
LEMMA UpdateTree ==
    ASSUME NEW w \in [Machines -> Tree], NEW m \in Machines, NEW p \in Paths, NEW v \in Nat
    PROVE  [w EXCEPT ![m][p] = v] \in [Machines -> Tree]
  <1>1. [w[m] EXCEPT ![p] = v] \in Tree
    BY DEF Tree
  <1> QED
    BY <1>1

\* One file of one machine gets another value.
LEMMA UpdateFile ==
    ASSUME NEW S, NEW h \in [Machines -> [Files -> S]], NEW m \in Machines, NEW f \in Files,
           NEW v \in S
    PROVE  [h EXCEPT ![m][f] = v] \in [Machines -> [Files -> S]]
  <1>1. [h[m] EXCEPT ![f] = v] \in [Files -> S]
    OBVIOUS
  <1> QED
    BY <1>1

\* A backup is a set of contents.
LEMMA BackupType ==
    ASSUME HomeOK, NEW m \in Machines, NEW f \in Files, Backup(m, f)
    PROVE  backups' \in [Machines -> [Files -> SUBSET Nat]]
  <1>1. backups[m][f] \union {home[m][f]} \in SUBSET Nat
    BY DEF HomeOK
  <1>2. [backups EXCEPT ![m][f] = backups[m][f] \union {home[m][f]}]
          \in [Machines -> [Files -> SUBSET Nat]]
    BY <1>1, UpdateFile DEF HomeOK
  <1> QED
    BY <1>2 DEF Backup, HomeOK

LEMMA TypeStep == TypeInv /\ [Next]_vars => TypeInv'
  <1> SUFFICES ASSUME TypeInv, [Next]_vars PROVE TypeInv'
    OBVIOUS
  <1> USE DEF TypeInv
  <1>1. CASE UNCHANGED vars
    BY <1>1 DEF vars, files, clone, run, history, bounds, HomeOK, CloneOK, RunOK, HistoryOK,
                BoundsOK, CloneInv
  <1>2. ASSUME NEW m \in Machines, Edit(m) PROVE TypeInv'
    <2>1. HomeOK'
      BY <1>2 DEF Edit, HomeOK, BoundsOK, NoFile, First
    <2> QED
      BY <1>2, <2>1 DEF Edit, clone, run, history, CloneOK, RunOK, HistoryOK, BoundsOK, CloneInv
  <1>3. ASSUME NEW m \in Machines, Interrupt(m) PROVE TypeInv'
    <2>1. RunOK' /\ HistoryOK' /\ pc' = [pc EXCEPT ![m] = "idle"]
      BY <1>3, FinishType DEF Interrupt, Reports
    <2>2. /\ mode' \in [Machines -> Modes] /\ staged' \in [Machines -> BOOLEAN]
          /\ \A n \in Machines : mode'[n] # "none" <=> mode[n] # "none"
      BY <1>3, AddType DEF Interrupt, CloneOK
    <2>3. UNCHANGED <<local, work, remote>>
      BY <1>3 DEF Interrupt
    <2>4. \A n \in Machines : pc'[n] # "idle" => pc[n] # "idle"
      BY <2>1 DEF RunOK
    <2>5. CloneOK' /\ CloneInv'
      BY <2>2, <2>3, <2>4 DEF CloneOK, CloneInv
    <2> QED
      BY <1>3, <2>1, <2>5 DEF Interrupt, FaultHappens, files, HomeOK, BoundsOK
  <1>4. ASSUME NEW m \in Machines, init_repository(m) PROVE TypeInv'
    <2>1. [Upstream EXCEPT !["version"] = IF @ = NoFile THEN First ELSE @] \in Tree
      BY Trees DEF Tree, Paths, First
    <2>2. CloneOK' /\ CloneInv'
      BY <1>4, <2>1 DEF init_repository, CloneOK, CloneInv, Set, Modes, run
    <2> QED
      BY <1>4, <2>2 DEF init_repository, files, run, bounds, HomeOK, RunOK, HistoryOK, BoundsOK,
                        Set, Reports
  <1>5. ASSUME NEW m \in Machines, CloneFails(m) PROVE TypeInv'
    <2>1. CloneOK' /\ CloneInv'
      BY <1>5, NoTreeType DEF CloneFails, CloneOK, CloneInv, Set, Modes, run
    <2> QED
      BY <1>5, <2>1 DEF CloneFails, FaultHappens, files, run, HomeOK, RunOK, HistoryOK, BoundsOK,
                        Set, Reports
  <1>6. ASSUME NEW m \in Machines, StartPush(m) PROVE TypeInv'
    BY <1>6 DEF StartPush, Goto, Set, files, clone, bounds, HomeOK, CloneOK, RunOK, HistoryOK,
                BoundsOK, CloneInv, Labels, Reports, NoFile
  <1>7. ASSUME NEW m \in Machines, FetchFails(m) PROVE TypeInv'
    BY <1>7 DEF FetchFails, FaultHappens, Goto, Set, files, clone, history, HomeOK, CloneOK,
                RunOK, HistoryOK, BoundsOK, CloneInv, Labels
  <1>8. ASSUME NEW m \in Machines, FetchNothingNew(m) PROVE TypeInv'
    BY <1>8 DEF FetchNothingNew, Goto, Set, files, clone, history, bounds, HomeOK, CloneOK,
                RunOK, HistoryOK, BoundsOK, CloneInv, Labels
  <1>9. ASSUME NEW m \in Machines, FetchForward(m) PROVE TypeInv'
    <2>1. CloneOK' /\ CloneInv' /\ RunOK'
      BY <1>9, CheckedOutType DEF FetchForward, Goto, Set, CloneOK, CloneInv, RunOK, Labels
    <2> QED
      BY <1>9, <2>1 DEF FetchForward, files, history, bounds, HomeOK, HistoryOK, BoundsOK
  <1>10. ASSUME NEW m \in Machines, FetchRebase(m) PROVE TypeInv'
    <2>1. CloneOK' /\ CloneInv'
      BY <1>10, CheckedOutType DEF FetchRebase, Goto, Set, CloneOK, CloneInv, Modes
    <2>2. PICK k \in 1..(Len(local[m]) - 1) :
            /\ queue' = Set(queue, m, SubSeq(local[m], k + 1, Len(local[m])))
            /\ base' = Set(base, m, local[m][k].tree)
      BY <1>10 DEF FetchRebase
    <2>3. local[m] \in Seq(Commit) /\ local[m][k] \in Commit
      BY <2>2 DEF CloneOK
    <2>4. local[m][k].tree \in Tree
      BY <2>3 DEF Commit
    <2>6. \A i \in (k + 1)..Len(local[m]) : local[m][i] \in Commit
      BY <2>2, <2>3, ElementOfSeq
    <2>7. SubSeq(local[m], k + 1, Len(local[m])) \in Seq(Commit)
      BY <2>2, <2>3, <2>6, LenProperties, SubSeqProperties
    <2>5. RunOK'
      BY <1>10, <2>2, <2>4, <2>7 DEF FetchRebase, Goto, Set, RunOK, Labels
    <2> QED
      BY <1>10, <2>1, <2>5 DEF FetchRebase, files, history, bounds, HomeOK, HistoryOK, BoundsOK
  <1>11. ASSUME NEW m \in Machines, Replay(m) PROVE TypeInv'
    <2> DEFINE theirs == Head(queue[m]).tree
               ours == HeadTree(m)
               merged == [p \in Paths |-> Merged(base[m][p], ours[p], theirs[p])]
    <2>1. queue[m] \in Seq(Commit) /\ queue[m] # <<>> /\ mode[m] # "none"
      BY <1>11 DEF Replay, RunOK, CloneInv
    <2>2. Head(queue[m]) \in Commit /\ Tail(queue[m]) \in Seq(Commit)
      BY <2>1, HeadTailProperties
    <2>11. theirs \in Tree
      BY <2>2 DEF Commit
    <2>3. ours \in Tree
      BY <2>1, Trees
    <2>4. merged \in Tree
      BY <2>3, <2>11 DEF Merged, Garbage, Tree, RunOK
    <2>5. [by |-> Head(queue[m]).by, tree |-> merged] \in Commit
      BY <2>2, <2>4 DEF Commit
    <2>6. [p \in Paths |-> IF Dirty(m, p) THEN work[m][p] ELSE merged[p]] \in Tree
      BY <2>4 DEF Tree, CloneOK
    <2>7. /\ work' = Set(work, m, [p \in Paths |->
                                     IF Dirty(m, p) THEN work[m][p] ELSE merged[p]])
          /\ \/ /\ mode' = Set(mode, m, "unmerged")
                /\ queue' = Set(queue, m, <<>>) /\ base' = Set(base, m, NoTree)
                /\ pc' = Set(pc, m, "copy")
                /\ local' = local
             \/ /\ local' = local \/ local' = Set(local, m, Append(local[m],
                                        [by |-> Head(queue[m]).by, tree |-> merged]))
                /\ queue' = Set(queue, m, Tail(queue[m])) /\ base' = Set(base, m, theirs)
                /\ mode' = mode /\ pc' = pc
      BY <1>11 DEF Replay, Goto
    <2>8. UNCHANGED <<remote, staged, todo, changed, force>>
      BY <1>11 DEF Replay
    <2> HIDE DEF theirs, ours, merged
    <2> DEFINE longer == Append(local[m], [by |-> Head(queue[m]).by, tree |-> merged])
    <2>12. longer \in Seq(Commit) /\ longer # <<>>
      <3>1. local[m] \in Seq(Commit)
        BY DEF CloneOK
      <3> QED
        BY <2>5, <3>1, AppendCommit
    <2> HIDE DEF longer
    <2>13. local' \in [Machines -> Seq(Commit)]
             /\ \A n \in Machines : local[n] # <<>> => local'[n] # <<>>
      BY <2>7, <2>12 DEF CloneOK, Set, longer
    <2>14. mode' \in [Machines -> Modes] /\ work' \in [Machines -> Tree]
             /\ \A n \in Machines : mode'[n] # "none" <=> mode[n] # "none"
      BY <2>1, <2>6, <2>7 DEF CloneOK, Set, Modes
    <2>15. \A n \in Machines : pc'[n] # "idle" <=> pc[n] # "idle"
      BY <1>11, <2>7 DEF RunOK, Set, Replay
    <2>9. CloneOK' /\ CloneInv'
      BY <2>8, <2>13, <2>14, <2>15 DEF CloneOK, CloneInv
    <2>17. base' \in [Machines -> Tree]
      BY <2>7, <2>11, NoTreeType DEF RunOK, Set
    <2>18. <<>> \in Seq(Commit)
      BY EmptySeq
    <2>19. queue' = [queue EXCEPT ![m] = <<>>] \/ queue' = [queue EXCEPT ![m] = Tail(queue[m])]
      BY <2>7 DEF Set
    <2>16. queue' \in [Machines -> Seq(Commit)]
      BY <2>2, <2>18, <2>19 DEF RunOK
    <2>10. RunOK'
      BY <2>7, <2>8, <2>16, <2>17 DEF RunOK, Set, Labels
    <2> QED
      BY <1>11, <2>9, <2>10 DEF Replay, files, history, bounds, HomeOK, HistoryOK, BoundsOK
  <1>12. ASSUME NEW m \in Machines, RebaseEnds(m) PROVE TypeInv'
    BY <1>12, NoTreeType DEF RebaseEnds, Goto, Set, files, history, bounds, HomeOK, CloneOK,
                RunOK, HistoryOK, BoundsOK, CloneInv, Labels, Modes
  <1>13. ASSUME NEW m \in Machines, PushCopy(m) PROVE TypeInv'
    <2>1. PICK f \in Files :
            /\ todo' = Set(todo, m, todo[m] \ {f})
            /\ read' = [read EXCEPT ![m][f] = home[m][f]]
            /\ work' = work \/ work' = [work EXCEPT ![m][f] = home[m][f]]
            /\ changed'[m] \in BOOLEAN /\ changed' = Set(changed, m, changed'[m])
      BY <1>13 DEF PushCopy, RunOK, Set
    <2>2. work' \in [Machines -> Tree]
      <3>1. home[m][f] \in Nat /\ f \in Paths /\ work \in [Machines -> Tree]
        BY DEF HomeOK, CloneOK, Paths
      <3>2. [work EXCEPT ![m][f] = home[m][f]] \in [Machines -> Tree]
        BY <3>1, UpdateTree
      <3> QED
        BY <2>1, <3>1, <3>2
    <2>3. RunOK' /\ HistoryOK'
      BY <1>13, <2>1 DEF PushCopy, Set, RunOK, HistoryOK, HomeOK
    <2> QED
      BY <1>13, <2>2, <2>3 DEF PushCopy, files, bounds, HomeOK, CloneOK, CloneInv, BoundsOK
  <1>14. ASSUME NEW m \in Machines, PushCopyInterrupted(m) PROVE TypeInv'
    <2>1. RunOK' /\ HistoryOK' /\ pc' = [pc EXCEPT ![m] = "idle"]
      BY <1>14, FinishType DEF PushCopyInterrupted, Reports
    <2>2. PICK f \in Files : work' = [work EXCEPT ![m][f] = Garbage]
      BY <1>14 DEF PushCopyInterrupted, RunOK
    <2>3. work' \in [Machines -> Tree]
      BY <2>2, UpdateTree DEF CloneOK, Garbage, Paths
    <2> QED
      BY <1>14, <2>1, <2>3 DEF PushCopyInterrupted, FaultHappens, files, HomeOK, CloneOK,
                               CloneInv, BoundsOK, RunOK
  <1>15. ASSUME NEW m \in Machines, PushNothing(m) PROVE TypeInv'
    <2>1. RunOK' /\ HistoryOK' /\ pc' = [pc EXCEPT ![m] = "idle"]
      BY <1>15, FinishType DEF PushNothing, Reports
    <2> QED
      BY <1>15, <2>1 DEF PushNothing, files, clone, bounds, HomeOK, CloneOK, CloneInv, BoundsOK,
                         RunOK
  <1>16. ASSUME NEW m \in Machines, PushVersion(m) PROVE TypeInv'
    <2>1. PICK v \in Nat : work' = [work EXCEPT ![m]["version"] = v]
      <3>1. work[m]["version"] \in Nat
        BY DEF CloneOK, Tree, Paths
      <3>2. increment_version(work[m]["version"]) \in Nat
        BY <3>1 DEF increment_version, Garbage
      <3> QED
        BY <1>16, <3>2 DEF PushVersion
    <2>2. work' \in [Machines -> Tree]
      BY <2>1, UpdateTree DEF CloneOK, Paths
    <2> QED
      BY <1>16, <2>2 DEF PushVersion, Goto, Set, files, history, bounds, HomeOK, CloneOK, RunOK,
                         HistoryOK, BoundsOK, CloneInv, Labels
  <1>17. ASSUME NEW m \in Machines, PushCommit(m) PROVE TypeInv'
    <2> DEFINE longer == Append(local[m], [by |-> m, tree |-> work[m]])
    <2>1. [by |-> m, tree |-> work[m]] \in Commit
      BY DEF Commit, CloneOK
    <2>2. longer \in Seq(Commit) /\ longer # <<>>
      <3>1. local[m] \in Seq(Commit)
        BY DEF CloneOK
      <3> QED
        BY <2>1, <3>1, AppendCommit
    <2>3. local' = Set(local, m, longer)
      BY <1>17 DEF PushCommit
    <2> HIDE DEF longer
    <2>4. CloneOK' /\ CloneInv'
      BY <1>17, <2>2, <2>3 DEF PushCommit, Goto, Set, CloneOK, CloneInv, RunOK, Modes
    <2> QED
      BY <1>17, <2>4 DEF PushCommit, Goto, Set, files, history, HomeOK, RunOK, HistoryOK,
                         BoundsOK, Labels
  <1>26. ASSUME NEW m \in Machines, CommitFails(m) PROVE TypeInv'
    <2>1. RunOK' /\ HistoryOK' /\ pc' = [pc EXCEPT ![m] = "idle"]
      BY <1>26, FinishType DEF CommitFails, Reports
    <2>2. /\ mode' \in [Machines -> Modes] /\ staged' \in [Machines -> BOOLEAN]
          /\ \A n \in Machines : mode'[n] # "none" <=> mode[n] # "none"
      BY <1>26, AddType DEF CommitFails
    <2>3. UNCHANGED <<local, work, remote>>
      BY <1>26 DEF CommitFails
    <2>4. \A n \in Machines : pc'[n] # "idle" => pc[n] # "idle"
      BY <2>1 DEF RunOK
    <2>5. CloneOK' /\ CloneInv'
      BY <2>2, <2>3, <2>4 DEF CloneOK, CloneInv
    <2> QED
      BY <1>26, <2>1, <2>5 DEF CommitFails, FaultHappens, files, HomeOK, BoundsOK
  <1>18. ASSUME NEW m \in Machines, PushSend(m) PROVE TypeInv'
    <2>1. RunOK' /\ HistoryOK' /\ pc' = [pc EXCEPT ![m] = "idle"]
      BY <1>18, FinishType DEF PushSend, Reports
    <2>2. local[m] # <<>> /\ remote' = local[m]
      BY <1>18 DEF PushSend, CloneInv
    <2> QED
      BY <1>18, <2>1, <2>2 DEF PushSend, files, clone, bounds, HomeOK, CloneOK, CloneInv,
                               BoundsOK, RunOK
  <1>19. ASSUME NEW m \in Machines, PushRejected(m) PROVE TypeInv'
    <2>1. RunOK' /\ HistoryOK' /\ pc' = [pc EXCEPT ![m] = "idle"]
      BY <1>19, FinishType DEF PushRejected, Reports
    <2> QED
      BY <1>19, <2>1 DEF PushRejected, files, clone, bounds, HomeOK, CloneOK, CloneInv, BoundsOK,
                         RunOK
  <1>20. ASSUME NEW m \in Machines, StartPull(m) PROVE TypeInv'
    BY <1>20 DEF StartPull, Goto, Set, files, clone, bounds, HomeOK, CloneOK, RunOK, HistoryOK,
                 BoundsOK, CloneInv, Labels, Reports
  <1>21. ASSUME NEW m \in Machines, PullFetch(m) PROVE TypeInv'
    <2>1. CloneOK' /\ CloneInv' /\ RunOK'
      BY <1>21, CheckedOutType DEF PullFetch, Goto, Set, CloneOK, CloneInv, RunOK, Labels
    <2> QED
      BY <1>21, <2>1 DEF PullFetch, files, history, bounds, HomeOK, HistoryOK, BoundsOK
  <1>22. ASSUME NEW m \in Machines, PullRefused(m) PROVE TypeInv'
    <2>1. RunOK' /\ HistoryOK' /\ pc' = [pc EXCEPT ![m] = "idle"]
      BY <1>22, FinishType DEF PullRefused, Reports
    <2> QED
      BY <1>22, <2>1 DEF PullRefused, files, clone, bounds, HomeOK, CloneOK, CloneInv, BoundsOK,
                         RunOK
  <1>23. ASSUME NEW m \in Machines, PullRestore(m) PROVE TypeInv'
    <2>1. PICK f \in Files :
            /\ todo' = Set(todo, m, todo[m] \ {f})
            /\ \/ Backup(m, f) /\ home' = [home EXCEPT ![m][f] = work[m][f]]
               \/ UNCHANGED <<backups, home>>
            /\ changed'[m] \in BOOLEAN /\ changed' = Set(changed, m, changed'[m])
      BY <1>23 DEF PullRestore, Restores, RunOK, Set
    <2>2. HomeOK'
      <3>1. backups' \in [Machines -> [Files -> SUBSET Nat]]
        BY <2>1, BackupType DEF HomeOK
      <3>2. work[m][f] \in Nat
        BY DEF CloneOK, Tree, Paths
      <3>3. [home EXCEPT ![m][f] = work[m][f]] \in [Machines -> [Files -> Nat]]
        BY <3>2, UpdateFile DEF HomeOK
      <3> QED
        BY <1>23, <2>1, <3>1, <3>3 DEF PullRestore, HomeOK
    <2>3. RunOK'
      BY <1>23, <2>1 DEF PullRestore, Set, RunOK
    <2> QED
      BY <1>23, <2>2, <2>3 DEF PullRestore, clone, history, bounds, CloneOK, CloneInv, HistoryOK,
                               BoundsOK
  <1>24. ASSUME NEW m \in Machines, PullRestoreInterrupted(m) PROVE TypeInv'
    <2>1. RunOK' /\ HistoryOK' /\ pc' = [pc EXCEPT ![m] = "idle"]
      BY <1>24, FinishType DEF PullRestoreInterrupted, Reports
    <2>2. PICK f \in Files, left \in Nat :
            Backup(m, f) /\ home' = [home EXCEPT ![m][f] = left]
      BY <1>24 DEF PullRestoreInterrupted, RunOK, NoFile, Torn
    <2>3. HomeOK'
      <3>1. home' \in [Machines -> [Files -> Nat]]
        BY <2>2, UpdateFile DEF HomeOK
      <3> QED
        BY <1>24, <2>2, <3>1, BackupType DEF PullRestoreInterrupted, HomeOK
    <2> QED
      BY <1>24, <2>1, <2>3 DEF PullRestoreInterrupted, FaultHappens, clone, CloneOK, CloneInv,
                               BoundsOK, RunOK
  <1>25. ASSUME NEW m \in Machines, PullEnds(m) PROVE TypeInv'
    <2>1. RunOK' /\ HistoryOK' /\ pc' = [pc EXCEPT ![m] = "idle"]
      BY <1>25, FinishType DEF PullEnds, Reports
    <2> QED
      BY <1>25, <2>1 DEF PullEnds, files, clone, bounds, HomeOK, CloneOK, CloneInv, BoundsOK,
                         RunOK
  <1> QED
    BY <1>1, <1>2, <1>3, <1>4, <1>5, <1>6, <1>7, <1>8, <1>9, <1>10, <1>11, <1>12, <1>13, <1>14,
       <1>15, <1>16, <1>17, <1>18, <1>19, <1>20, <1>21, <1>22, <1>23, <1>24, <1>25,
       <1>26
       DEF Next, Push, Fetch, Pull

\* The homes, the clones, the remote and the runs keep their types, for any number of
\* machines, files, edits and faults.
THEOREM TypeCorrect == Spec => []TypeOK
  <1>1. TypeInv => TypeOK
    BY DEF TypeInv, HomeOK, CloneOK, RunOK, HistoryOK, BoundsOK, TypeOK
  <1> QED
    BY <1>1, TypeInit, TypeStep, PTL DEF Spec

-----------------------------------------------------------------------------
(* What users wrote is kept: only an edit and a pull touch the homes. *)

LEMMA EditsStep == TypeInv /\ EditsKept /\ [Next]_vars => EditsKept'
  <1> SUFFICES ASSUME TypeInv, EditsKept, [Next]_vars PROVE EditsKept'
    OBVIOUS
  <1> USE DEF TypeInv
  <1>1. CASE UNCHANGED files
    BY <1>1 DEF files, EditsKept
  <1>2. ASSUME NEW m \in Machines, Edit(m) PROVE EditsKept'
    <2>1. PICK f \in Files, v \in {NoFile, First + edits'} :
            /\ home' = [home EXCEPT ![m][f] = v]
            /\ mine' = [mine EXCEPT ![m][f] = v]
            /\ backups' = backups
      BY <1>2 DEF Edit
    <2> QED
      BY <2>1 DEF EditsKept, HomeOK
  <1>3. ASSUME NEW m \in Machines, NEW f \in Files, NEW v,
               Backup(m, f), home' = [home EXCEPT ![m][f] = v], mine' = mine
        PROVE  EditsKept'
    <2> SUFFICES ASSUME NEW n \in Machines, NEW g \in Files
                 PROVE  mine[n][g] \in {NoFile, home'[n][g]} \union backups'[n][g]
      BY <1>3 DEF EditsKept
    <2>1. mine[n][g] \in {NoFile, home[n][g]} \union backups[n][g]
      BY DEF EditsKept
    <2>2. CASE n = m /\ g = f
      BY <1>3, <2>1, <2>2 DEF Backup, HomeOK
    <2>3. CASE ~(n = m /\ g = f)
      BY <1>3, <2>1, <2>3 DEF Backup, HomeOK
    <2> QED
      BY <2>2, <2>3
  <1>4. ASSUME NEW m \in Machines, PullRestore(m) PROVE EditsKept'
    <2>1. PICK f \in Files :
            \/ Backup(m, f) /\ home' = [home EXCEPT ![m][f] = work[m][f]]
            \/ UNCHANGED <<backups, home>>
      BY <1>4 DEF PullRestore, RunOK
    <2>2. mine' = mine
      BY <1>4 DEF PullRestore
    <2> QED
      BY <1>1, <1>3, <2>1, <2>2 DEF files
  <1>5. ASSUME NEW m \in Machines, PullRestoreInterrupted(m) PROVE EditsKept'
    <2>1. PICK f \in Files, left \in {NoFile, Torn} :
            Backup(m, f) /\ home' = [home EXCEPT ![m][f] = left]
      BY <1>5 DEF PullRestoreInterrupted, RunOK
    <2>2. mine' = mine
      BY <1>5 DEF PullRestoreInterrupted
    <2> QED
      BY <1>3, <2>1, <2>2
  <1>6. ASSUME NEW m \in Machines, Push(m) PROVE UNCHANGED files
    BY <1>6 DEF Push, StartPush, Fetch, FetchFails, FetchNothingNew, FetchForward, FetchRebase,
                Replay, RebaseEnds, PushCopy, PushCopyInterrupted, PushNothing, PushVersion,
                PushCommit, CommitFails, PushSend, PushRejected
  <1>7. ASSUME NEW m \in Machines,
               Interrupt(m) \/ init_repository(m) \/ CloneFails(m) \/ StartPull(m)
                 \/ PullFetch(m) \/ PullRefused(m) \/ PullEnds(m)
        PROVE  UNCHANGED files
    BY <1>7 DEF Interrupt, init_repository, CloneFails, StartPull, PullFetch, PullRefused,
                PullEnds
  <1> QED
    BY <1>1, <1>2, <1>4, <1>5, <1>6, <1>7 DEF Next, Pull, vars

\* Whatever is pulled, forced, interrupted or left with conflict markers, what a user wrote
\* last stays in the home directory or in a backup beside it.
THEOREM EditsCorrect == Spec => []EditsKept
  <1>1. Init => EditsKept
    BY DEF Init, EditsKept
  <1> QED
    BY <1>1, TypeInit, TypeStep, EditsStep, PTL DEF Spec

-----------------------------------------------------------------------------
(* A push publishes what it read. *)

ReadsNothing(m) == \A f \in Files : read[m][f] = NoFile
ReadsWork(m) == \A f \in Files : read[m][f] \in {NoFile, work[m][f]}
ReadsHead(m) == \A f \in Files : read[m][f] \in {NoFile, HeadTree(m)[f]}

\* What push read travels from home to the working tree, into its commit, to the remote; a
\* report of success after a commit outlives the run until the clone is used again.
Travels(m) ==
    /\ pc[m] \in {"fetch", "rebase"} => ReadsNothing(m)
    /\ pc[m] \in {"copy", "commit"} => ReadsWork(m)
    /\ pc[m] = "send" => ReadsHead(m)
    /\ report[m] = "pushed" => pc[m] = "idle"
    /\ report[m] = "pushed" /\ ~staged[m] => IsPrefix(local[m], remote) /\ ReadsHead(m)

TravelInv == \A m \in Machines : Travels(m)

\* Prefixes of prefixes are prefixes.
LEMMA PrefixTransitive ==
    ASSUME NEW s \in Seq(Commit), NEW t \in Seq(Commit), NEW u \in Seq(Commit),
           IsPrefix(s, t), IsPrefix(t, u)
    PROVE  IsPrefix(s, u)
  <1>1. /\ Len(s) \in Nat /\ Len(t) \in Nat /\ Len(u) \in Nat
        /\ Len(s) <= Len(t) /\ Len(t) <= Len(u)
        /\ SubSeq(s, 1, Len(s)) = SubSeq(t, 1, Len(s))
        /\ SubSeq(t, 1, Len(t)) = SubSeq(u, 1, Len(t))
    BY LenProperties DEF IsPrefix
  <1>2. ASSUME NEW v \in Seq(Commit), NEW n \in Nat, n <= Len(v)
        PROVE  /\ SubSeq(v, 1, n) \in Seq(Commit) /\ Len(SubSeq(v, 1, n)) = n
               /\ \A i \in 1..n : SubSeq(v, 1, n)[i] = v[i]
    <2>1. \A i \in 1..n : v[i] \in Commit
      BY <1>2, ElementOfSeq, LenProperties
    <2> QED
      BY <1>2, <2>1, SubSeqProperties
  <1>3. \A i \in 1..Len(t) : t[i] = u[i]
    BY <1>1, <1>2
  <1>4. SubSeq(t, 1, Len(s)) = SubSeq(u, 1, Len(s))
    <2>1. /\ SubSeq(t, 1, Len(s)) \in Seq(Commit) /\ SubSeq(u, 1, Len(s)) \in Seq(Commit)
          /\ Len(SubSeq(t, 1, Len(s))) = Len(s) /\ Len(SubSeq(u, 1, Len(s))) = Len(s)
          /\ \A i \in 1..Len(s) : SubSeq(t, 1, Len(s))[i] = SubSeq(u, 1, Len(s))[i]
      BY <1>1, <1>2, <1>3
    <2> QED
      BY <2>1, SeqEqual
  <1> QED
    BY <1>1, <1>4 DEF IsPrefix

LEMMA PrefixReflexive ==
    ASSUME NEW s \in Seq(Commit)
    PROVE  IsPrefix(s, s)
  BY LenProperties DEF IsPrefix

\* A machine whose run, clone and report stay as they are keeps what it has, since the
\* remote only grows.
LEMMA OthersTravel ==
    ASSUME TypeInv, TypeInv', NEW n \in Machines, Travels(n),
           pc'[n] = pc[n], read'[n] = read[n], work'[n] = work[n], local'[n] = local[n],
           staged'[n] = staged[n], report'[n] = report[n], IsPrefix(remote, remote')
    PROVE  Travels(n)'
  <1>1. report[n] = "pushed" /\ ~staged[n] => IsPrefix(local'[n], remote')
    BY PrefixTransitive DEF Travels, TypeInv, CloneOK
  <1> QED
    BY <1>1 DEF Travels, ReadsNothing, ReadsWork, ReadsHead, HeadTree

LEMMA TravelStep == TypeInv /\ TypeInv' /\ TravelInv /\ [Next]_vars => TravelInv'
  <1> SUFFICES ASSUME TypeInv, TypeInv', TravelInv, [Next]_vars, NEW n \in Machines
               PROVE  Travels(n)'
    BY DEF TravelInv
  <1>0. Travels(n)
    BY DEF TravelInv
  <1>1. /\ pc \in [Machines -> Labels] /\ work \in [Machines -> Tree]
        /\ todo \in [Machines -> SUBSET Files]
        /\ local \in [Machines -> Seq(Commit)] /\ remote \in Seq(Commit)
        /\ read \in [Machines -> [Files -> Nat]] /\ report \in [Machines -> Reports]
        /\ staged \in [Machines -> BOOLEAN]
    BY DEF TypeInv, CloneOK, RunOK, HistoryOK
  <1>2. remote' = remote => IsPrefix(remote, remote')
    BY <1>1, PrefixReflexive
  <1>3. CASE UNCHANGED <<pc, read, work, local, staged, report, remote>>
    BY <1>0, <1>2, <1>3, OthersTravel
  <1>4. ASSUME NEW m \in Machines, Finish(m, "failed") \/ Finish(m, "pulled")
                                     \/ Finish(m, "in_sync"),
               local' = local, remote' = remote,
               \A k \in Machines \ {m} : work'[k] = work[k] /\ staged'[k] = staged[k]
        PROVE  Travels(n)'
    <2>1. CASE n = m
      BY <1>1, <1>4, <2>1 DEF Finish, Set, Travels
    <2>2. CASE n # m
      BY <1>0, <1>1, <1>2, <1>4, <2>2, OthersTravel DEF Finish, Set
    <2> QED
      BY <2>1, <2>2
  <1>5. ASSUME NEW m \in Machines, PushCopyInterrupted(m) PROVE Travels(n)'
    BY <1>1, <1>4, <1>5 DEF PushCopyInterrupted
  <1>6. ASSUME NEW m \in Machines,
               PushNothing(m) \/ PushRejected(m) \/ PullRefused(m)
                 \/ PullRestoreInterrupted(m) \/ PullEnds(m)
        PROVE  Travels(n)'
    BY <1>4, <1>6 DEF PushNothing, PushRejected, PullRefused, PullRestoreInterrupted, PullEnds,
                      clone
  <1>19. ASSUME NEW m \in Machines, Interrupt(m) PROVE Travels(n)'
    BY <1>1, <1>4, <1>19 DEF Interrupt, Add, Set
  <1>20. ASSUME NEW m \in Machines, CommitFails(m) PROVE Travels(n)'
    <2>1. /\ pc' = [pc EXCEPT ![m] = "idle"] /\ staged' = [staged EXCEPT ![m] = TRUE]
          /\ UNCHANGED <<work, read, local, remote>>
          /\ report' = [report EXCEPT ![m] = "pushed"]
      BY <1>20 DEF CommitFails, Finish, Add, Set
    <2>2. CASE n = m
      BY <1>1, <2>1, <2>2 DEF Travels
    <2>3. CASE n # m
      BY <1>0, <1>1, <1>2, <2>1, <2>3, OthersTravel
    <2> QED
      BY <2>2, <2>3
  <1>7. ASSUME NEW m \in Machines, init_repository(m) \/ CloneFails(m) PROVE Travels(n)'
    <2>1. CASE n = m
      BY <1>1, <1>7, <2>1 DEF init_repository, CloneFails, Set, run, Travels
    <2>2. CASE n # m
      BY <1>0, <1>1, <1>2, <1>7, <2>2, OthersTravel DEF init_repository, CloneFails, Set, run
    <2> QED
      BY <2>1, <2>2
  <1>8. ASSUME NEW m \in Machines, StartPush(m) \/ StartPull(m) PROVE Travels(n)'
    <2>1. CASE n = m
      BY <1>1, <1>8, <2>1 DEF StartPush, StartPull, Goto, Set, Travels, ReadsNothing
    <2>2. CASE n # m
      BY <1>0, <1>1, <1>2, <1>8, <2>2, OthersTravel DEF StartPush, StartPull, Goto, Set, clone
    <2> QED
      BY <2>1, <2>2
  <1>9. ASSUME NEW m \in Machines, pc[m] \in {"fetch", "rebase"},
               pc'[m] \in {"rebase", "copy"}, UNCHANGED <<read, report, remote>>,
               \A k \in Machines \ {m} :
                  /\ pc'[k] = pc[k] /\ work'[k] = work[k] /\ local'[k] = local[k]
                  /\ staged'[k] = staged[k]
        PROVE  Travels(n)'
    <2>1. CASE n = m
      BY <1>0, <1>9, <2>1 DEF Travels, ReadsNothing, ReadsWork
    <2>2. CASE n # m
      BY <1>0, <1>2, <1>9, <2>2, OthersTravel
    <2> QED
      BY <2>1, <2>2
  <1>10. ASSUME NEW m \in Machines, FetchFails(m) \/ FetchNothingNew(m) \/ RebaseEnds(m)
         PROVE  Travels(n)'
    BY <1>1, <1>9, <1>10 DEF FetchFails, FetchNothingNew, RebaseEnds, Goto, Set, clone, history
  <1>11. ASSUME NEW m \in Machines, FetchForward(m) \/ FetchRebase(m) PROVE Travels(n)'
    BY <1>1, <1>9, <1>11 DEF FetchForward, FetchRebase, Goto, Set, history
  <1>12. ASSUME NEW m \in Machines, Replay(m) PROVE Travels(n)'
    <2>1. /\ pc[m] = "rebase" /\ UNCHANGED <<read, report, remote>>
          /\ pc' = pc \/ pc' = Set(pc, m, "copy")
      BY <1>12 DEF Replay, Goto, history
    <2>2. /\ \A k \in Machines \ {m} : work'[k] = work[k] /\ local'[k] = local[k]
          /\ UNCHANGED staged
      BY <1>1, <1>12 DEF Replay, Set
    <2> QED
      BY <1>1, <1>9, <2>1, <2>2 DEF Set
  <1>13. ASSUME NEW m \in Machines, PushCopy(m) PROVE Travels(n)'
    <2>1. /\ pc[m] = "copy" /\ UNCHANGED <<pc, local, staged, report, remote>>
      BY <1>13 DEF PushCopy
    <2>2. PICK f \in Files :
            /\ read' = [read EXCEPT ![m][f] = home[m][f]]
            /\ \/ home[m][f] = NoFile /\ work' = work
               \/ home[m][f] = work[m][f] /\ work' = work
               \/ work' = [work EXCEPT ![m][f] = home[m][f]]
      BY <1>1, <1>13 DEF PushCopy
    <2>3. CASE n = m
      <3>1. ASSUME NEW g \in Files PROVE read'[m][g] \in {NoFile, work'[m][g]}
        <4>1. read[m][g] \in {NoFile, work[m][g]} /\ g \in Paths /\ f \in Paths
          BY <1>0, <2>1, <2>3 DEF Travels, ReadsWork, Paths
        <4>2. work[m] \in [Paths -> Nat] /\ read[m] \in [Files -> Nat]
          BY <1>1 DEF Tree
        <4> QED
          BY <1>1, <2>2, <4>1, <4>2
      <3> QED
        BY <1>0, <2>1, <2>3, <3>1 DEF Travels, ReadsWork
    <2>4. CASE n # m
      BY <1>0, <1>1, <1>2, <2>1, <2>2, <2>4, OthersTravel
    <2> QED
      BY <2>3, <2>4
  <1>14. ASSUME NEW m \in Machines, PushVersion(m) PROVE Travels(n)'
    <2>1. /\ pc[m] = "copy" /\ pc' = [pc EXCEPT ![m] = "commit"]
          /\ UNCHANGED <<local, staged, read, report, remote>>
          /\ work' = [work EXCEPT ![m]["version"] = increment_version(work[m]["version"])]
      BY <1>14 DEF PushVersion, Goto, Set, history
    <2>2. CASE n = m
      <3>1. \A f \in Files : work'[m][f] = work[m][f]
        BY <1>1, <2>1, DotfilesAssumption DEF Tree
      <3> QED
        BY <1>0, <1>1, <2>1, <2>2, <3>1 DEF Travels, ReadsWork
    <2>3. CASE n # m
      BY <1>0, <1>1, <1>2, <2>1, <2>3, OthersTravel
    <2> QED
      BY <2>2, <2>3
  <1>15. ASSUME NEW m \in Machines, PushCommit(m) PROVE Travels(n)'
    <2>1. /\ pc[m] = "commit" /\ pc' = [pc EXCEPT ![m] = "send"]
          /\ UNCHANGED <<work, read, report, remote>>
          /\ staged' = [staged EXCEPT ![m] = FALSE]
          /\ local' = [local EXCEPT ![m] = Append(local[m], [by |-> m, tree |-> work[m]])]
      BY <1>15 DEF PushCommit, Goto, Set, history
    <2>2. CASE n = m
      <3>1. [by |-> m, tree |-> work[m]] \in Commit
        BY <1>1 DEF Commit
      <3>2. Last(local'[m]) = [by |-> m, tree |-> work[m]]
        BY <1>1, <2>1, <3>1, AppendProperties DEF Last
      <3>3. HeadTree(m)' = work[m]
        BY <3>2 DEF HeadTree
      <3> QED
        BY <1>0, <1>1, <2>1, <2>2, <3>3 DEF Travels, ReadsWork, ReadsHead
    <2>3. CASE n # m
      BY <1>0, <1>1, <1>2, <2>1, <2>3, OthersTravel
    <2> QED
      BY <2>2, <2>3
  <1>16. ASSUME NEW m \in Machines, PushSend(m) PROVE Travels(n)'
    <2>1. /\ pc[m] = "send" /\ pc' = [pc EXCEPT ![m] = "idle"]
          /\ UNCHANGED <<work, read, local, staged>>
          /\ remote' = local[m] /\ IsPrefix(remote, remote')
          /\ report' = [report EXCEPT ![m] = "pushed"]
      BY <1>16 DEF PushSend, Finish, Set, clone
    <2>2. CASE n = m
      BY <1>0, <1>1, <2>1, <2>2, PrefixReflexive DEF Travels, ReadsHead, HeadTree
    <2>3. CASE n # m
      BY <1>0, <1>1, <2>1, <2>3, OthersTravel
    <2> QED
      BY <2>2, <2>3
  <1>17. ASSUME NEW m \in Machines, PullFetch(m) PROVE Travels(n)'
    <2>1. /\ pc[m] = "pull" /\ pc' = [pc EXCEPT ![m] = "restore"]
          /\ UNCHANGED <<staged, read, report, remote>>
          /\ \A k \in Machines \ {m} : work'[k] = work[k] /\ local'[k] = local[k]
      BY <1>1, <1>17 DEF PullFetch, Goto, Set, history
    <2>2. CASE n = m
      BY <1>0, <1>1, <2>1, <2>2 DEF Travels
    <2>3. CASE n # m
      BY <1>0, <1>1, <1>2, <2>1, <2>3, OthersTravel
    <2> QED
      BY <2>2, <2>3
  <1>18. ASSUME NEW m \in Machines, Edit(m) \/ PullRestore(m) PROVE Travels(n)'
    BY <1>3, <1>18 DEF Edit, PullRestore, clone, run, history
  <1> QED
    BY <1>3, <1>5, <1>6, <1>7, <1>8, <1>10, <1>11, <1>12, <1>13, <1>14, <1>15, <1>16, <1>17,
       <1>18, <1>19, <1>20 DEF Next, Push, Fetch, Pull, vars, clone, run, history

\* A push that commits and reports success has published what it read, for good: no
\* interruption, failed or stranded commit, rebase or push of another machine takes it off
\* the remote.
THEOREM PushCorrect == Spec => []PushPublishes
  <1>1. Init => TravelInv
    BY DEF Init, TravelInv, Travels
  <1>2. TravelInv => PushPublishes
    BY DEF TravelInv, Travels, ReadsHead, PushPublishes
  <1> QED
    BY <1>1, <1>2, TypeInit, TypeStep, TravelStep, PTL DEF Spec
=============================================================================
