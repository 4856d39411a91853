--------------------------- MODULE VersionProofs ----------------------------
(***************************************************************************)
(* Proofs about the version numbers of DotfilesSync, for any machines,     *)
(* files and bounds: every push that reaches the remote publishes a higher *)
(* version than the last one there.                                        *)
(***************************************************************************)
EXTENDS DotfilesSyncProofs

V(c) == c.tree["version"]

(* Versions never go down along a sequence of commits. *)
Grows(s) == \A i, j \in 1..Len(s) : i <= j => V(s[i]) <= V(s[j])

(* Nor along a branch, whose commits all have one after the first, which may be empty. *)
Sound(s) == Grows(s) /\ \A i \in 2..Len(s) : First <= V(s[i])

(* The commits still to replay and the parent of the next one, which is theirs or older;
   the version file is the one of HEAD. *)
ReplaySound(m) ==
    /\ Grows(queue[m])
    /\ \A i \in 1..Len(queue[m]) : /\ First <= V(queue[m][i])
                                   /\ base[m]["version"] <= V(queue[m][i])
    /\ work[m]["version"] = HeadTree(m)["version"]

(* A clone on its branch, or in the rebase that leads back to it, counts up: the version
   file is ahead of HEAD once it was incremented, and the commit about to be sent is ahead
   of all before it.  A clone left on a detached HEAD never gets back by itself and cannot
   push, so nothing is said of it: its version file may hold conflict markers. *)
Counts(m) ==
    /\ mode[m] = "branch" \/ pc[m] = "rebase" =>
          /\ Sound(local[m])
          /\ First <= work[m]["version"] /\ HeadTree(m)["version"] <= work[m]["version"]
    /\ mode[m] = "branch" /\ pc[m] = "commit" =>
          HeadTree(m)["version"] < work[m]["version"]
    /\ mode[m] = "branch" /\ pc[m] = "send" =>
          \A i \in 1..(Len(local[m]) - 1) : V(local[m][i]) < HeadTree(m)["version"]
    /\ pc[m] = "rebase" => ReplaySound(m)

(* The remote starts with a commit that has no version file. *)
VersionInv ==
    /\ Sound(remote) /\ V(remote[1]) = NoFile
    /\ \A m \in Machines : Counts(m)

-----------------------------------------------------------------------------
(* Branches *)

\* A commit has a version.
LEMMA VersionType == \A c \in Commit : V(c) \in Nat
  BY DEF V, Commit, Tree, Paths

\* So has a tree.
LEMMA TreeVersion == \A t \in Tree : t["version"] \in Nat
  BY DEF Tree, Paths

\* The last commit of a branch is one of its commits.
LEMMA HeadVersion ==
    ASSUME NEW s \in Seq(Commit), s # <<>>
    PROVE  /\ Len(s) \in Nat \ {0} /\ Len(s) \in 1..Len(s)
           /\ Last(s).tree["version"] = V(s[Len(s)]) /\ V(s[Len(s)]) \in Nat
           /\ \A i \in 1..Len(s) : s[i] \in Commit /\ V(s[i]) \in Nat
  <1>1. Len(s) \in Nat /\ Len(s) # 0
    OBVIOUS
  <1>2. \A i \in 1..Len(s) : s[i] \in Commit
    BY <1>1, ElementOfSeq
  <1> QED
    BY <1>1, <1>2, VersionType DEF Last, V

\* A commit with no lower a version than the last keeps a branch sound.
LEMMA SoundAppend ==
    ASSUME NEW s \in Seq(Commit), s # <<>>, Sound(s), NEW c \in Commit,
           First <= V(c), V(s[Len(s)]) <= V(c)
    PROVE  Sound(Append(s, c))
  <1> DEFINE t == Append(s, c)
  <1>1. /\ Len(t) = Len(s) + 1 /\ t[Len(s) + 1] = c
        /\ \A i \in 1..Len(s) : t[i] = s[i]
    BY AppendProperties
  <1>2. Len(s) \in Nat /\ V(c) \in Nat
    BY HeadVersion, VersionType
  <1>3. \A i \in 1..Len(s) : V(s[i]) \in Nat /\ V(s[i]) <= V(c)
    BY <1>2, HeadVersion DEF Sound, Grows
  <1> HIDE DEF t
  <1>4. \A i \in 2..Len(t) : First <= V(t[i])
    <2> TAKE i \in 2..Len(t)
    <2>1. CASE i = Len(s) + 1
      BY <1>1, <2>1
    <2>2. CASE i # Len(s) + 1
      <3>1. i \in 1..Len(s) /\ i \in 2..Len(s)
        BY <1>1, <1>2, <2>2
      <3> QED
        BY <1>1, <3>1 DEF Sound
    <2> QED
      BY <2>1, <2>2
  <1>5. ASSUME NEW i \in 1..Len(t), NEW j \in 1..Len(t), i <= j PROVE V(t[i]) <= V(t[j])
    <2>1. CASE j \in 1..Len(s)
      <3>1. i \in 1..Len(s)
        BY <1>2, <1>5, <2>1
      <3> QED
        BY <1>1, <1>5, <2>1, <3>1 DEF Sound, Grows
    <2>2. CASE j = Len(s) + 1
      BY <1>1, <1>2, <1>3, <2>2
    <2> QED
      BY <1>1, <1>2, <2>1, <2>2
  <1> QED
    BY <1>4, <1>5 DEF Sound, Grows, t

\* What is left of a branch after its first k commits grows, from a version on and from the
\* k-th.
LEMMA SoundRest ==
    ASSUME NEW s \in Seq(Commit), Sound(s), NEW k \in 1..(Len(s) - 1),
           NEW q, q = SubSeq(s, k + 1, Len(s))
    PROVE  Grows(q) /\ \A i \in 1..Len(q) : First <= V(q[i]) /\ V(s[k]) <= V(q[i])
  <1>1. Len(s) \in Nat
    OBVIOUS
  <1>2. \A i \in (k + 1)..Len(s) : s[i] \in Commit
    BY <1>1, ElementOfSeq
  <1>3. Len(q) = Len(s) - k /\ \A i \in 1..Len(q) : q[i] = s[k + i]
    BY <1>1, <1>2, SubSeqProperties
  <1>4. \A i \in 1..Len(q) :
           k \in 1..Len(s) /\ k + i \in 1..Len(s) /\ k + i \in 2..Len(s) /\ k <= k + i
    BY <1>1, <1>3
  <1>5. \A i \in 1..Len(q) : First <= V(q[i]) /\ V(s[k]) <= V(q[i])
    BY <1>3, <1>4 DEF Sound, Grows
  <1>6. ASSUME NEW i \in 1..Len(q), NEW j \in 1..Len(q), i <= j PROVE V(q[i]) <= V(q[j])
    <2>1. k + i <= k + j
      BY <1>6
    <2> QED
      BY <1>3, <1>4, <2>1 DEF Sound, Grows
  <1> QED
    BY <1>5, <1>6 DEF Grows

\* Without its first commit a sequence still grows, from that commit's version on.
LEMMA GrowsTail ==
    ASSUME NEW q \in Seq(Commit), q # <<>>, Grows(q)
    PROVE  /\ Head(q) = q[1] /\ 1 \in 1..Len(q) /\ Head(q) \in Commit
           /\ Grows(Tail(q))
           /\ \A i \in 1..Len(Tail(q)) : /\ V(q[1]) <= V(Tail(q)[i])
                                         /\ i + 1 \in 1..Len(q) /\ Tail(q)[i] = q[i + 1]
  <1> DEFINE t == Tail(q)
  <1>1. Len(q) \in Nat \ {0} /\ 1 \in 1..Len(q)
    BY HeadVersion
  <1>2. /\ Len(t) = Len(q) - 1 /\ \A i \in 1..Len(t) : t[i] = q[i + 1]
        /\ Head(q) \in Commit /\ Head(q) = q[1]
    BY <1>1, HeadTailProperties
  <1> HIDE DEF t
  <1>3. \A i \in 1..Len(t) : i + 1 \in 1..Len(q) /\ 1 <= i + 1
    BY <1>1, <1>2
  <1>4. ASSUME NEW i \in 1..Len(t), NEW j \in 1..Len(t), i <= j PROVE V(t[i]) <= V(t[j])
    <2>1. i + 1 <= j + 1
      BY <1>4
    <2> QED
      BY <1>2, <1>3, <2>1 DEF Grows
  <1>5. \A i \in 1..Len(t) : V(q[1]) <= V(t[i])
    BY <1>1, <1>2, <1>3 DEF Grows
  <1> QED
    BY <1>1, <1>2, <1>3, <1>4, <1>5 DEF Grows, t

\* A prefix is no longer, and holds the same commits.
LEMMA PrefixCommits ==
    ASSUME NEW s \in Seq(Commit), NEW t \in Seq(Commit)
    PROVE  IsPrefix(s, t) <=> Len(s) <= Len(t) /\ \A i \in 1..Len(s) : s[i] = t[i]
  <1>1. Len(s) \in Nat /\ Len(t) \in Nat
    OBVIOUS
  <1>2. ASSUME NEW v \in Seq(Commit), Len(s) <= Len(v)
        PROVE  /\ SubSeq(v, 1, Len(s)) \in Seq(Commit) /\ Len(SubSeq(v, 1, Len(s))) = Len(s)
               /\ \A i \in 1..Len(s) : SubSeq(v, 1, Len(s))[i] = v[i]
    <2>1. \A i \in 1..Len(s) : v[i] \in Commit
      BY <1>1, <1>2, ElementOfSeq, LenProperties
    <2> QED
      BY <1>1, <2>1, SubSeqProperties
  <1>3. ASSUME IsPrefix(s, t) PROVE Len(s) <= Len(t) /\ \A i \in 1..Len(s) : s[i] = t[i]
    BY <1>1, <1>2, <1>3 DEF IsPrefix
  <1>4. ASSUME Len(s) <= Len(t), \A i \in 1..Len(s) : s[i] = t[i] PROVE IsPrefix(s, t)
    <2>1. /\ SubSeq(s, 1, Len(s)) \in Seq(Commit) /\ SubSeq(t, 1, Len(s)) \in Seq(Commit)
          /\ Len(SubSeq(s, 1, Len(s))) = Len(s) /\ Len(SubSeq(t, 1, Len(s))) = Len(s)
          /\ \A i \in 1..Len(s) : SubSeq(s, 1, Len(s))[i] = SubSeq(t, 1, Len(s))[i]
      BY <1>1, <1>2, <1>4
    <2>2. SubSeq(s, 1, Len(s)) = SubSeq(t, 1, Len(s))
      BY <2>1, SeqEqual
    <2> QED
      BY <1>4, <2>2 DEF IsPrefix
  <1> QED
    BY <1>3, <1>4

\* A length other than 0 and 1 is at least 2.
LEMMA TwoOrMore == \A a \in Nat : a # 0 /\ a # 1 => a \in 2..a
  OBVIOUS

\* Where two branches forked, both have a commit after the first.
LEMMA ForkedBranches ==
    ASSUME NEW s \in Seq(Commit), NEW r \in Seq(Commit), r # <<>>, ~IsPrefix(r, s),
           NEW k \in 1..(Len(s) - 1), IsPrefix(SubSeq(s, 1, k), r)
    PROVE  Len(r) \in 2..Len(r) /\ Len(s) \in 2..Len(s)
  <1>1. Len(s) \in Nat /\ Len(r) \in Nat \ {0}
    BY HeadVersion
  <1>2. \A i \in 1..k : s[i] \in Commit
    BY <1>1, ElementOfSeq
  <1>3. /\ SubSeq(s, 1, k) \in Seq(Commit) /\ Len(SubSeq(s, 1, k)) = k
        /\ \A i \in 1..k : SubSeq(s, 1, k)[i] = s[i]
    BY <1>1, <1>2, SubSeqProperties
  <1>4. k <= Len(r) /\ \A i \in 1..k : s[i] = r[i]
    BY <1>3, PrefixCommits
  <1>5. Len(r) # 1
    <2> SUFFICES ASSUME Len(r) = 1 PROVE FALSE
      OBVIOUS
    <2>1. Len(r) <= Len(s) /\ \A i \in 1..Len(r) : r[i] = s[i]
      BY <1>1, <1>4
    <2> QED
      BY <2>1, PrefixCommits
  <1>6. \A a \in Nat : k \in 1..(a - 1) => a # 0 /\ a # 1
    OBVIOUS
  <1> QED
    BY <1>1, <1>5, <1>6, TwoOrMore

-----------------------------------------------------------------------------
(* Steps *)

\* A machine whose run and clone stay as they are keeps counting.
LEMMA OthersCount ==
    ASSUME NEW n \in Machines, Counts(n),
           pc'[n] = pc[n], mode'[n] = mode[n], local'[n] = local[n], work'[n] = work[n],
           queue'[n] = queue[n], base'[n] = base[n]
    PROVE  Counts(n)'
  BY DEF Counts, ReplaySound, HeadTree, Dirty

\* So does one whose run goes to a step that neither commits, sends nor replays, with the
\* same branch and the same version file.
LEMMA QuietCounts ==
    ASSUME NEW m \in Machines, Counts(m), pc'[m] \notin {"commit", "send", "rebase"},
           mode'[m] = mode[m], local'[m] = local[m], work'[m]["version"] = work[m]["version"]
    PROVE  Counts(m)'
  BY DEF Counts, HeadTree

\* Fast-forwarding a clone leaves a version file that is not behind the upstream.
LEMMA ForwardVersion ==
    ASSUME TypeInv, Sound(remote), NEW m \in Machines, mode[m] # "none",
           IsPrefix(local[m], remote),
           First <= work[m]["version"], HeadTree(m)["version"] <= work[m]["version"],
           Dirty(m, "version") =>
               Upstream["version"] \in {NoFile, HeadTree(m)["version"]}
    PROVE  /\ First <= CheckedOut(m)["version"]
           /\ Upstream["version"] <= CheckedOut(m)["version"]
  <1>1. /\ remote \in Seq(Commit) /\ remote # <<>> /\ work[m] \in Tree
        /\ local[m] \in Seq(Commit) /\ local[m] # <<>>
    BY DEF TypeInv, CloneOK, CloneInv
  <1>2. /\ Upstream["version"] = V(remote[Len(remote)]) /\ Upstream["version"] \in Nat
        /\ HeadTree(m)["version"] = V(local[m][Len(local[m])])
        /\ HeadTree(m)["version"] \in Nat
        /\ Len(local[m]) \in 1..Len(local[m]) /\ Len(remote) \in 1..Len(remote)
    BY <1>1, HeadVersion DEF Upstream, HeadTree
  <1>3. HeadTree(m)["version"] <= Upstream["version"]
    <2>1. Len(local[m]) <= Len(remote) /\ local[m][Len(local[m])] = remote[Len(local[m])]
      BY <1>1, <1>2, PrefixCommits
    <2>2. Len(local[m]) \in 1..Len(remote)
      BY <1>1, <1>2, <2>1
    <2> QED
      BY <1>2, <2>1, <2>2 DEF Sound, Grows
  <1>4. work[m]["version"] \in Nat
    BY <1>1, TreeVersion
  <1>5. CheckedOut(m)["version"] = IF Dirty(m, "version") THEN work[m]["version"]
                                   ELSE Upstream["version"]
    BY DEF CheckedOut, Paths
  <1> QED
    BY <1>2, <1>3, <1>4, <1>5 DEF NoFile, First, Dirty

\* Every step of a run keeps every machine counting.
LEMMA CountStep == TypeInv /\ VersionInv /\ [Next]_vars => \A n \in Machines : Counts(n)'
  <1> SUFFICES ASSUME TypeInv, VersionInv, [Next]_vars, NEW n \in Machines
               PROVE  Counts(n)'
    OBVIOUS
  <1>0. Sound(remote) /\ V(remote[1]) = NoFile /\ \A m \in Machines : Counts(m)
    BY DEF VersionInv
  <1>1. /\ pc \in [Machines -> Labels] /\ work \in [Machines -> Tree]
        /\ mode \in [Machines -> Modes] /\ todo \in [Machines -> SUBSET Files]
        /\ local \in [Machines -> Seq(Commit)] /\ remote \in Seq(Commit)
        /\ queue \in [Machines -> Seq(Commit)] /\ base \in [Machines -> Tree]
        /\ home \in [Machines -> [Files -> Nat]]
    BY DEF TypeInv, CloneOK, RunOK, HomeOK
  <1>2. remote # <<>> /\ \A m \in Machines : mode[m] # "none" => local[m] # <<>>
    BY DEF TypeInv, CloneInv
  <1>3. \A m \in Machines : pc[m] # "idle" => mode[m] # "none"
    BY DEF TypeInv, CloneInv
  <1>4. CASE UNCHANGED <<pc, clone, queue, base>>
    BY <1>0, <1>4, OthersCount DEF clone
  <1>5. ASSUME NEW m \in Machines, UNCHANGED <<mode, local>>,
               Finish(m, "failed") \/ Finish(m, "pulled") \/ Finish(m, "in_sync")
                 \/ Finish(m, "pushed"),
               work'[m]["version"] = work[m]["version"],
               \A k \in Machines \ {m} : work'[k] = work[k]
        PROVE  Counts(n)'
    <2>1. CASE n = m
      BY <1>0, <1>1, <1>5, <2>1, QuietCounts DEF Finish, Set
    <2>2. CASE n # m
      BY <1>0, <1>1, <1>5, <2>2, OthersCount DEF Finish, Set
    <2> QED
      BY <2>1, <2>2
  <1>6. ASSUME NEW m \in Machines,
               PushNothing(m) \/ PushRejected(m) \/ PushSend(m)
                 \/ PullRefused(m) \/ PullRestoreInterrupted(m) \/ PullEnds(m)
        PROVE  Counts(n)'
    BY <1>5, <1>6 DEF PushNothing, PushRejected, PushSend, PullRefused,
                      PullRestoreInterrupted, PullEnds, clone
  <1>19. ASSUME NEW m \in Machines, Interrupt(m) \/ CommitFails(m) PROVE Counts(n)'
    <2>1. CASE UNCHANGED mode
      BY <1>5, <1>19, <2>1 DEF Interrupt, CommitFails
    <2>2. CASE mode[m] = "unmerged" /\ mode' = [mode EXCEPT ![m] = "detached"]
      <3>1. UNCHANGED <<local, work>> /\ pc' = [pc EXCEPT ![m] = "idle"]
            /\ queue' = [queue EXCEPT ![m] = <<>>] /\ base' = [base EXCEPT ![m] = NoTree]
        BY <1>19 DEF Interrupt, CommitFails, Finish, Set
      <3>2. CASE n = m
        BY <1>1, <2>2, <3>1, <3>2 DEF Counts
      <3>3. CASE n # m
        BY <1>0, <1>1, <2>2, <3>1, <3>3, OthersCount
      <3> QED
        BY <3>2, <3>3
    <2> QED
      BY <1>19, <2>1, <2>2 DEF Interrupt, CommitFails, Add, Set
  <1>7. ASSUME NEW m \in Machines, PushCopyInterrupted(m) PROVE Counts(n)'
    <2>1. PICK f \in Files : work' = [work EXCEPT ![m][f] = Garbage]
      BY <1>1, <1>7 DEF PushCopyInterrupted
    <2>2. work'[m]["version"] = work[m]["version"]
      BY <1>1, <2>1, DotfilesAssumption DEF Tree
    <2> QED
      BY <1>1, <1>5, <1>7, <2>1, <2>2 DEF PushCopyInterrupted
  <1>8. ASSUME NEW m \in Machines,
               StartPush(m) \/ StartPull(m) \/ FetchFails(m) \/ FetchNothingNew(m)
        PROVE  Counts(n)'
    <2>1. /\ UNCHANGED <<mode, local, work, queue, base>>
          /\ \E label \in {"fetch", "pull", "copy"} : pc' = [pc EXCEPT ![m] = label]
      BY <1>8 DEF StartPush, StartPull, FetchFails, FetchNothingNew, Goto, Set, clone
    <2>2. CASE n = m
      BY <1>0, <1>1, <2>1, <2>2, QuietCounts
    <2>3. CASE n # m
      BY <1>0, <1>1, <2>1, <2>3, OthersCount
    <2> QED
      BY <2>2, <2>3
  <1>9. ASSUME NEW m \in Machines, PushCopy(m) PROVE Counts(n)'
    <2>1. UNCHANGED <<pc, mode, local, queue, base>> /\ pc[m] = "copy"
      BY <1>9 DEF PushCopy
    <2>2. PICK f \in Files : work' = work \/ work' = [work EXCEPT ![m][f] = home[m][f]]
      BY <1>1, <1>9 DEF PushCopy
    <2>3. work'[m]["version"] = work[m]["version"]
      <3>1. CASE work' = work
        BY <3>1
      <3>2. CASE work' = [work EXCEPT ![m][f] = home[m][f]]
        BY <1>1, <3>2, DotfilesAssumption DEF Tree
      <3> QED
        BY <2>2, <3>1, <3>2
    <2>4. CASE n = m
      BY <1>0, <2>1, <2>3, <2>4, QuietCounts
    <2>5. CASE n # m
      BY <1>0, <1>1, <2>1, <2>2, <2>5, OthersCount
    <2> QED
      BY <2>4, <2>5
  <1>10. ASSUME NEW m \in Machines, init_repository(m) PROVE Counts(n)'
    <2> USE <1>10 DEF init_repository, Set
    <2>1. CASE n = m
      <3>1. /\ Upstream \in Tree /\ Upstream["version"] \in Nat
            /\ Upstream["version"] = NoFile \/ First <= Upstream["version"]
        <4>1. /\ Upstream \in Tree /\ Upstream["version"] = V(remote[Len(remote)])
              /\ Len(remote) \in Nat \ {0}
          BY <1>1, <1>2, Trees, HeadVersion DEF Upstream
        <4>2. Len(remote) = 1 \/ Len(remote) \in 2..Len(remote)
          BY <4>1, TwoOrMore
        <4> QED
          BY <1>0, <4>1, <4>2, TreeVersion DEF Sound
      <3>2. /\ HeadTree(m)' = Upstream /\ local'[m] = remote
        BY <1>1 DEF HeadTree, Upstream
      <3>3. work'[m]["version"] = IF Upstream["version"] = NoFile THEN First
                                  ELSE Upstream["version"]
        BY <1>1, <3>1 DEF Tree, Paths
      <3>4. pc'[m] = "idle"
        BY DEF run
      <3> QED
        BY <1>0, <2>1, <3>1, <3>2, <3>3, <3>4 DEF Counts, NoFile, First
    <2>2. CASE n # m
      BY <1>0, <1>1, <2>2, OthersCount DEF run
    <2> QED
      BY <2>1, <2>2
  <1>11. ASSUME NEW m \in Machines, CloneFails(m) PROVE Counts(n)'
    <2>1. CASE n = m
      BY <1>1, <1>11, <2>1 DEF CloneFails, Set, run, Counts
    <2>2. CASE n # m
      BY <1>0, <1>1, <1>11, <2>2, OthersCount DEF CloneFails, Set, run
    <2> QED
      BY <2>1, <2>2
  <1>12. ASSUME NEW m \in Machines, Edit(m) \/ PullRestore(m) PROVE Counts(n)'
    BY <1>4, <1>12 DEF Edit, PullRestore, run
  <1>13. ASSUME NEW m \in Machines, FetchForward(m) \/ PullFetch(m) PROVE Counts(n)'
    <2>1. /\ UNCHANGED <<mode, queue, base>> /\ pc[m] \in {"fetch", "pull"}
          /\ \E label \in {"copy", "restore"} : pc' = [pc EXCEPT ![m] = label]
          /\ \A k \in Machines \ {m} : work'[k] = work[k] /\ local'[k] = local[k]
      BY <1>1, <1>13 DEF FetchForward, PullFetch, Goto, Set
    <2>2. CASE n = m
      <3>1. CASE UNCHANGED <<local, work>>
        BY <1>0, <1>1, <2>1, <2>2, <3>1, QuietCounts
      <3>2. CASE /\ local' = [local EXCEPT ![m] = remote]
                 /\ work' = [work EXCEPT ![m] = CheckedOut(m)]
                 /\ FetchForward(m) \/ ~IsPrefix(remote, local[m])
        <4>1. /\ Dirty(m, "version") =>
                    Upstream["version"] \in {NoFile, HeadTree(m)["version"]}
              /\ IsPrefix(local[m], remote)
          <5>1. CASE FetchForward(m)
            BY <5>1 DEF FetchForward, IsStrictPrefix, RebaseRefused, Paths
          <5>2. CASE PullFetch(m) /\ ~IsPrefix(remote, local[m])
            BY <5>2 DEF PullFetch, PullPossible, Paths
          <5> QED
            BY <1>13, <3>2, <5>1, <5>2
        <4>2. mode[m] # "none"
          BY <1>3, <2>1
        <4>3. HeadTree(m)' = Upstream /\ local'[m] = remote /\ work'[m] = CheckedOut(m)
          BY <1>1, <3>2 DEF HeadTree, Upstream
        <4> QED
          BY <1>0, <1>1, <2>1, <2>2, <4>1, <4>2, <4>3, ForwardVersion DEF Counts
      <3> QED
        BY <1>13, <3>1, <3>2 DEF FetchForward, PullFetch, Set
    <2>3. CASE n # m
      BY <1>0, <1>1, <2>1, <2>3, OthersCount
    <2> QED
      BY <2>2, <2>3
  <1>14. ASSUME NEW m \in Machines, FetchRebase(m) PROVE Counts(n)'
    <2>1. PICK k \in 1..(Len(local[m]) - 1) :
             /\ IsPrefix(SubSeq(local[m], 1, k), remote)
             /\ queue' = Set(queue, m, SubSeq(local[m], k + 1, Len(local[m])))
             /\ base' = Set(base, m, local[m][k].tree)
      BY <1>14 DEF FetchRebase, ForksAfter
    <2>2. /\ pc[m] = "fetch" /\ pc' = [pc EXCEPT ![m] = "rebase"]
          /\ mode' = [mode EXCEPT ![m] = "detached"]
          /\ local' = [local EXCEPT ![m] = remote]
          /\ work' = [work EXCEPT ![m] = CheckedOut(m)]
          /\ queue'[m] = SubSeq(local[m], k + 1, Len(local[m]))
          /\ base'[m] = local[m][k].tree
      BY <1>1, <1>14, <2>1 DEF FetchRebase, Goto, Set
    <2>3. CASE n = m
      <3>1. mode[m] = "branch"
        BY <1>1, <1>3, <1>14, <2>2 DEF FetchRebase, RebaseRefused, Modes
      <3>2. Sound(local[m]) /\ local[m] # <<>>
        BY <1>0, <1>2, <3>1 DEF Counts
      <3>3. Len(remote) \in 2..Len(remote) /\ Len(local[m]) \in 2..Len(local[m])
        BY <1>1, <1>2, <1>14, <2>1, ForkedBranches DEF FetchRebase
      <3>4. First <= Upstream["version"] /\ First <= HeadTree(m)["version"]
        BY <1>0, <1>1, <1>2, <3>2, <3>3, HeadVersion DEF Sound, Upstream, HeadTree
      <3>5. ~Dirty(m, "version")
        BY <1>14, <3>4 DEF FetchRebase, RebaseRefused, Tracked, Paths, NoFile, First
      <3>6. CheckedOut(m)["version"] = Upstream["version"]
        BY <3>5 DEF CheckedOut, Paths
      <3>7. HeadTree(m)' = Upstream /\ local'[m] = remote /\ work'[m] = CheckedOut(m)
        BY <1>1, <2>2 DEF HeadTree, Upstream
      <3>8. /\ Grows(queue'[m])
            /\ \A i \in 1..Len(queue'[m]) : /\ First <= V(queue'[m][i])
                                            /\ V(local[m][k]) <= V(queue'[m][i])
        BY <1>1, <2>2, <3>2, SoundRest
      <3>9. base'[m]["version"] = V(local[m][k])
        BY <2>2 DEF V
      <3>10. ReplaySound(m)'
        BY <3>6, <3>7, <3>8, <3>9 DEF ReplaySound
      <3>11. Upstream["version"] \in Nat
        BY Trees, TreeVersion
      <3> QED
        BY <1>0, <1>1, <2>2, <2>3, <3>4, <3>6, <3>7, <3>10, <3>11 DEF Counts
    <2>4. CASE n # m
      BY <1>0, <1>1, <2>1, <2>2, <2>4, OthersCount DEF Set
    <2> QED
      BY <2>3, <2>4
  <1>15. ASSUME NEW m \in Machines, RebaseEnds(m) PROVE Counts(n)'
    <2>1. /\ pc[m] = "rebase" /\ pc' = [pc EXCEPT ![m] = "copy"]
          /\ mode' = [mode EXCEPT ![m] = "branch"] /\ base' = [base EXCEPT ![m] = NoTree]
          /\ UNCHANGED <<local, work, queue>>
      BY <1>15 DEF RebaseEnds, Goto, Set
    <2>2. CASE n = m
      BY <1>0, <1>1, <2>1, <2>2 DEF Counts, HeadTree
    <2>3. CASE n # m
      BY <1>0, <1>1, <2>1, <2>3, OthersCount
    <2> QED
      BY <2>2, <2>3
  <1>16. ASSUME NEW m \in Machines, PushVersion(m) PROVE Counts(n)'
    <2>1. /\ pc[m] = "copy" /\ pc' = [pc EXCEPT ![m] = "commit"]
          /\ UNCHANGED <<mode, local, queue, base>>
          /\ work' = [work EXCEPT ![m]["version"] = increment_version(work[m]["version"])]
      BY <1>16 DEF PushVersion, Goto, Set
    <2>2. CASE n = m
      <3>1. CASE mode[m] = "branch"
        <4>1. /\ Sound(local[m]) /\ First <= work[m]["version"]
              /\ HeadTree(m)["version"] <= work[m]["version"]
          BY <1>0, <3>1 DEF Counts
        <4>2. work[m]["version"] \in Nat /\ HeadTree(m)["version"] \in Nat
          BY <1>1, <1>2, <3>1, TreeVersion, HeadVersion DEF HeadTree
        <4>3. work'[m]["version"] = work[m]["version"] + 1
          BY <1>1, <2>1, <4>1, <4>2 DEF increment_version, Tree, Paths, First, Garbage
        <4>4. HeadTree(m)' = HeadTree(m) /\ local'[m] = local[m] /\ pc'[m] = "commit"
          BY <1>1, <2>1 DEF HeadTree
        <4> QED
          BY <2>2, <4>1, <4>2, <4>3, <4>4 DEF Counts, First
      <3>2. CASE mode[m] # "branch"
        BY <1>1, <2>1, <2>2, <3>2 DEF Counts
      <3> QED
        BY <3>1, <3>2
    <2>3. CASE n # m
      BY <1>0, <1>1, <2>1, <2>3, OthersCount
    <2> QED
      BY <2>2, <2>3
  <1>17. ASSUME NEW m \in Machines, PushCommit(m) PROVE Counts(n)'
    <2>1. /\ pc[m] = "commit" /\ pc' = [pc EXCEPT ![m] = "send"]
          /\ UNCHANGED <<work, queue, base>>
          /\ mode' \in {mode, [mode EXCEPT ![m] = "detached"]}
          /\ local' = [local EXCEPT ![m] = Append(local[m], [by |-> m, tree |-> work[m]])]
      BY <1>17 DEF PushCommit, Goto, Set
    <2>2. CASE n = m
      <3>1. CASE mode[m] = "branch"
        <4> DEFINE c == [by |-> m, tree |-> work[m]]
        <4>1. c \in Commit /\ V(c) = work[m]["version"]
          BY <1>1 DEF Commit, V
        <4>2. /\ Sound(local[m]) /\ First <= V(c) /\ HeadTree(m)["version"] < V(c)
          BY <1>0, <2>1, <3>1, <4>1 DEF Counts
        <4>3. /\ local[m] \in Seq(Commit) /\ local[m] # <<>>
              /\ local'[m] = Append(local[m], c)
          BY <1>1, <1>2, <2>1, <3>1
        <4>4. /\ Len(local[m]) \in Nat \ {0}
              /\ HeadTree(m)["version"] = V(local[m][Len(local[m])])
              /\ \A i \in 1..Len(local[m]) : V(local[m][i]) \in Nat
              /\ V(c) \in Nat
          BY <4>1, <4>3, HeadVersion, VersionType DEF HeadTree
        <4> HIDE DEF c
        <4>5. Sound(local'[m])
          BY <4>1, <4>2, <4>3, <4>4, SoundAppend
        <4>6. /\ Len(local'[m]) = Len(local[m]) + 1 /\ local'[m][Len(local[m]) + 1] = c
              /\ \A i \in 1..Len(local[m]) : local'[m][i] = local[m][i]
          BY <4>1, <4>3, AppendProperties
        <4>7. HeadTree(m)'["version"] = V(c)
          BY <4>6 DEF HeadTree, Last, V
        <4>8. \A i \in 1..Len(local[m]) : V(local[m][i]) < V(c)
          BY <4>2, <4>4 DEF Sound, Grows
        <4>9. \A i \in 1..(Len(local'[m]) - 1) : V(local'[m][i]) < HeadTree(m)'["version"]
          BY <4>4, <4>6, <4>7, <4>8
        <4>10. work'[m]["version"] = V(c) /\ pc'[m] = "send"
          BY <1>1, <2>1, <4>1
        <4> QED
          BY <2>2, <4>2, <4>4, <4>5, <4>7, <4>9, <4>10 DEF Counts
      <3>2. CASE mode[m] # "branch"
        BY <1>1, <2>1, <2>2, <3>2 DEF Counts
      <3> QED
        BY <3>1, <3>2
    <2>3. CASE n # m
      BY <1>0, <1>1, <2>1, <2>3, OthersCount
    <2> QED
      BY <2>2, <2>3
  <1>18. ASSUME NEW m \in Machines, Replay(m) PROVE Counts(n)'
    <2> DEFINE theirs == Head(queue[m]).tree
               ours == HeadTree(m)
               merged == [p \in Paths |-> Merged(base[m][p], ours[p], theirs[p])]
               commit == [by |-> Head(queue[m]).by, tree |-> merged]
               conflict == \E p \in Paths : Conflicts(base[m][p], ours[p], theirs[p])
    <2>1. /\ pc[m] = "rebase" /\ queue[m] # <<>>
          /\ work'[m] = [p \in Paths |-> IF Dirty(m, p) THEN work[m][p] ELSE merged[p]]
      BY <1>1, <1>18 DEF Replay, Set
    <2>2. CASE n = m /\ conflict
      BY <1>1, <1>18, <2>2 DEF Replay, Goto, Set, Counts
    <2>3. CASE n = m /\ ~conflict
      <3>1. /\ local' = IF merged = ours THEN local
                        ELSE Set(local, m, Append(local[m], commit))
            /\ queue'[m] = Tail(queue[m]) /\ base'[m] = theirs
            /\ UNCHANGED <<mode, pc>>
        BY <1>1, <1>18, <2>3 DEF Replay, Set
      <3>2. /\ Sound(local[m]) /\ First <= work[m]["version"] /\ ReplaySound(m)
        BY <1>0, <2>1 DEF Counts
      <3>3. /\ local[m] \in Seq(Commit) /\ local[m] # <<>> /\ ours \in Tree
            /\ ours["version"] = V(local[m][Len(local[m])])
        BY <1>1, <1>2, <1>3, <2>1, Trees, HeadVersion DEF HeadTree
      <3>4. /\ Head(queue[m]) = queue[m][1] /\ 1 \in 1..Len(queue[m])
            /\ Head(queue[m]) \in Commit /\ Grows(Tail(queue[m]))
            /\ \A i \in 1..Len(Tail(queue[m])) :
                  /\ V(queue[m][1]) <= V(Tail(queue[m])[i])
                  /\ i + 1 \in 1..Len(queue[m]) /\ Tail(queue[m])[i] = queue[m][i + 1]
        BY <1>1, <2>1, <3>2, GrowsTail DEF ReplaySound
      <3>5. theirs \in Tree /\ base[m] \in Tree /\ theirs["version"] = V(queue[m][1])
        BY <1>1, <3>4 DEF Commit, V
      <3>6. /\ ours["version"] \in Nat /\ theirs["version"] \in Nat
            /\ base[m]["version"] \in Nat
        BY <3>3, <3>5, TreeVersion
      <3>7. merged \in Tree /\ commit \in Commit
        <4>1. merged \in Tree
          BY <3>3, <3>5 DEF Merged, Garbage, Tree
        <4> HIDE DEF merged
        <4> QED
          BY <3>4, <4>1 DEF Commit
      <3>8. /\ merged["version"] =
                  Merged(base[m]["version"], ours["version"], theirs["version"])
            /\ ~Conflicts(base[m]["version"], ours["version"], theirs["version"])
        BY <2>3 DEF Paths
      <3>9. /\ base[m]["version"] <= theirs["version"] /\ First <= ours["version"]
            /\ ~Dirty(m, "version")
        BY <3>2, <3>4, <3>5 DEF ReplaySound, Dirty
      <3>10. ours["version"] <= merged["version"] /\ merged["version"] \in Nat
        BY <3>6, <3>8, <3>9 DEF Merged, Conflicts
      <3>11. work'[m]["version"] = merged["version"]
        BY <2>1, <3>9 DEF Paths
      <3> HIDE DEF merged, ours, theirs
      <3>12. Sound(local'[m]) /\ HeadTree(m)'["version"] = merged["version"]
        <4>1. CASE merged = ours
          BY <3>1, <3>2, <4>1 DEF HeadTree, ours
        <4>2. CASE merged # ours
          <5>1. local'[m] = Append(local[m], commit) /\ V(commit) = merged["version"]
            BY <1>1, <3>1, <4>2 DEF Set, V
          <5> HIDE DEF commit
          <5>2. Sound(local'[m])
            BY <3>2, <3>3, <3>6, <3>7, <3>9, <3>10, <5>1, SoundAppend DEF First
          <5>3. Last(local'[m]) = commit
            BY <3>3, <3>7, <5>1, AppendProperties DEF Last
          <5> QED
            BY <5>1, <5>2, <5>3 DEF HeadTree, V
        <4> QED
          BY <4>1, <4>2
      <3>13. ReplaySound(m)'
        <4>1. \A i \in 1..Len(queue'[m]) : /\ First <= V(queue'[m][i])
                                           /\ base'[m]["version"] <= V(queue'[m][i])
          BY <3>1, <3>2, <3>4, <3>5 DEF ReplaySound
        <4> QED
          BY <3>1, <3>4, <3>11, <3>12, <4>1 DEF ReplaySound
      <3> QED
        BY <2>1, <2>3, <3>1, <3>6, <3>9, <3>10, <3>11, <3>12, <3>13 DEF Counts, First
    <2>4. CASE n # m
      BY <1>0, <1>1, <1>18, <2>4, OthersCount DEF Replay, Set, Goto
    <2> QED
      BY <2>2, <2>3, <2>4
  <1> QED
    BY <1>4, <1>6, <1>7, <1>8, <1>9, <1>10, <1>11, <1>12, <1>13, <1>14, <1>15, <1>16, <1>17,
       <1>18, <1>19 DEF Next, Push, Fetch, Pull, vars, clone, run

\* The remote is only ever replaced by a branch that extends it and counts up at its end.
LEMMA RemoteStep ==
    ASSUME TypeInv, VersionInv, [Next]_vars, remote' # remote
    PROVE  /\ Sound(remote') /\ V(remote'[1]) = NoFile
           /\ Last(remote').tree["version"] > Upstream["version"]
  <1>1. PICK m \in Machines : PushSend(m)
    <2>1. ASSUME NEW m \in Machines,
                 Edit(m) \/ Interrupt(m) \/ init_repository(m) \/ CloneFails(m)
          PROVE  UNCHANGED remote
      BY <2>1 DEF Edit, Interrupt, init_repository, CloneFails
    <2>2. ASSUME NEW m \in Machines, StartPush(m) \/ Fetch(m)  PROVE UNCHANGED remote
      BY <2>2 DEF Fetch, StartPush, FetchFails, FetchNothingNew, FetchForward, FetchRebase,
                  Replay, RebaseEnds
    <2>3. ASSUME NEW m \in Machines,
                 \/ PushCopy(m) \/ PushCopyInterrupted(m) \/ PushNothing(m)
                 \/ PushVersion(m) \/ PushCommit(m) \/ CommitFails(m) \/ PushRejected(m)
          PROVE  UNCHANGED remote
      BY <2>3 DEF PushCopy, PushCopyInterrupted, PushNothing, PushVersion, PushCommit,
                  CommitFails, PushRejected
    <2>4. ASSUME NEW m \in Machines, Pull(m)  PROVE UNCHANGED remote
      BY <2>4 DEF Pull, StartPull, PullFetch, PullRefused, PullRestore,
                  PullRestoreInterrupted, PullEnds
    <2>5. Next
      BY DEF vars
    <2> QED
      BY <2>1, <2>2, <2>3, <2>4, <2>5 DEF Next, Push
  <1>2. /\ pc[m] = "send" /\ mode[m] = "branch" /\ IsPrefix(remote, local[m])
        /\ remote' = local[m]
    BY <1>1 DEF PushSend
  <1>3. /\ remote \in Seq(Commit) /\ remote # <<>>
        /\ local[m] \in Seq(Commit) /\ local[m] # <<>>
    BY <1>2 DEF TypeInv, CloneOK, CloneInv
  <1>4. /\ Sound(local[m]) /\ V(remote[1]) = NoFile
        /\ \A i \in 1..(Len(local[m]) - 1) : V(local[m][i]) < HeadTree(m)["version"]
    BY <1>2 DEF VersionInv, Counts
  <1>5. /\ Len(remote) \in Nat \ {0} /\ Len(local[m]) \in Nat \ {0}
        /\ Upstream["version"] = V(remote[Len(remote)]) /\ Upstream["version"] \in Nat
        /\ HeadTree(m)["version"] \in Nat
    BY <1>3, HeadVersion DEF Upstream, HeadTree
  <1>6. Len(remote) <= Len(local[m]) /\ \A i \in 1..Len(remote) : remote[i] = local[m][i]
    BY <1>2, <1>3, PrefixCommits
  <1>7. Len(remote) # Len(local[m])
    BY <1>2, <1>3, <1>6, SeqEqual
  <1>8. Len(remote) \in 1..(Len(local[m]) - 1) /\ 1 \in 1..Len(remote)
    BY <1>5, <1>6, <1>7
  <1>9. V(remote[Len(remote)]) < HeadTree(m)["version"] /\ remote[1] = local[m][1]
    BY <1>4, <1>5, <1>6, <1>8
  <1> QED
    BY <1>2, <1>4, <1>5, <1>9 DEF HeadTree

\* VersionInv holds at the start: the remote holds one commit, without a version, and
\* nobody has a clone.
LEMMA VersionInit == Init => VersionInv
  <1> SUFFICES ASSUME Init PROVE VersionInv
    OBVIOUS
  <1>1. Len(remote) = 1 /\ V(remote[1]) = NoFile
    BY DEF Init, V, NoTree, Paths
  <1>2. Sound(remote)
    BY <1>1 DEF Sound, Grows, NoFile
  <1>3. \A m \in Machines : Counts(m)
    BY DEF Init, Counts
  <1> QED
    BY <1>1, <1>2, <1>3 DEF VersionInv

\* Every push that reaches the remote publishes a higher version than the last one there,
\* for any number of machines: git accepts only a branch that extends the remote's, and
\* increment_version ran on a version file that is not behind any commit of that branch,
\* through fast-forwards, replayed commits and interrupted runs.
THEOREM VersionsCorrect == Spec => VersionsGrow
  <1> DEFINE Grow == remote' # remote =>
                        Last(remote').tree["version"] > Upstream["version"]
  <1>1. ASSUME TypeInv, VersionInv, [Next]_vars PROVE VersionInv'
    <2>1. Sound(remote)' /\ (V(remote[1]) = NoFile)'
      <3>1. CASE remote' = remote
        BY <1>1, <3>1 DEF VersionInv, Sound, Grows
      <3>2. CASE remote' # remote
        BY <1>1, <3>2, RemoteStep DEF Sound, Grows
      <3> QED
        BY <3>1, <3>2
    <2> QED
      BY <1>1, <2>1, CountStep DEF VersionInv
  <1>2. TypeInv /\ VersionInv /\ [Next]_vars => VersionInv' /\ [Grow]_vars
    BY <1>1, RemoteStep
  <1> QED
    BY <1>2, VersionInit, TypeInit, TypeStep, PTL DEF Spec, VersionsGrow
=============================================================================
