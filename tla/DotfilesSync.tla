---------------------------- MODULE DotfilesSync ----------------------------
(***************************************************************************)
(* dotfiles-sync: machines that share a git remote, each with a clone of   *)
(* it and with the tracked files in the user's home.  push copies home     *)
(* into the clone, commits and pushes; pull goes the other way and keeps a *)
(* backup of what it overwrites.  The network fails, runs are interrupted, *)
(* users edit meanwhile, and the machines interleave freely.               *)
(*                                                                         *)
(* A branch is a sequence of commits, a commit its whole tree.  Two        *)
(* different changes of one file conflict when git replays a commit.  Git  *)
(* itself is external; it is modelled as the script calls it, with its     *)
(* default configuration.  The lock keeps runs of one machine apart.       *)
(***************************************************************************)
EXTENDS Naturals, Sequences, SequencesExt

CONSTANTS
    Machines,
    Files,        \* tracked files and directories: the mappings
    Sensitive,    \* SENSITIVE_FILES: pull needs --force
    MaxEdits,     \* bound: edits of the users
    MaxCommits,   \* bound: commits ever made
    MaxFaults     \* bound: network failures and interrupted runs

ASSUME DotfilesAssumption ==
    /\ Sensitive \subseteq Files /\ "version" \notin Files
    /\ MaxEdits \in Nat /\ MaxCommits \in Nat /\ MaxFaults \in Nat

(* Contents of a file; what users write and version numbers count up from First. *)
NoFile == 0
Garbage == 1     \* conflict markers, or an interrupted copy, in the clone
Torn == 2        \* an interrupted copy in the home directory
First == 3       \* version 1.0.0

(* The mappings are disjoint, and the version file lies in the clone. *)
Paths == Files \union {"version"}
Tree == [Paths -> Nat]
Commit == [by: Machines \union {"init"}, tree: Tree]

VARIABLES
    home,      \* per machine: content of each tracked file
    backups,   \* per machine and file: contents of its .backup files
    mine,      \* history: what the user wrote last
    mode,      \* the clone: "none", "branch", "unmerged" or "detached" (amid a rebase)
    local,     \* the clone: HEAD with its ancestors
    work,      \* the clone: working tree
    staged,    \* the clone: git add -A without a commit since
    remote,    \* the remote branch
    pc,
    todo,      \* mappings still to look at
    changed,   \* changes_made
    force,     \* pull --force
    queue,     \* commits still to replay
    base,      \* tree of the parent of the next one
    read,      \* history: what push read from home
    report,    \* how the last run ended
    edits, commits, faults

files == <<home, backups, mine>>
clone == <<mode, local, work, staged>>
run == <<pc, todo, changed, force, queue, base>>
history == <<read, report>>
bounds == <<edits, commits, faults>>
vars == <<files, clone, remote, run, history, bounds>>

Set(f, m, v) == [f EXCEPT ![m] = v]

NoTree == [p \in Paths |-> NoFile]
HeadTree(m) == Last(local[m]).tree
Upstream == Last(remote).tree

Init ==
    /\ home = [m \in Machines |-> [f \in Files |-> NoFile]]
    /\ mine = home
    /\ backups = [m \in Machines |-> [f \in Files |-> {}]]
    /\ mode = [m \in Machines |-> "none"]
    /\ local = [m \in Machines |-> <<>>]
    /\ work = [m \in Machines |-> NoTree]
    /\ staged = [m \in Machines |-> FALSE]
    /\ remote = <<[by |-> "init", tree |-> NoTree]>>
    /\ pc = [m \in Machines |-> "idle"]
    /\ todo = [m \in Machines |-> {}]
    /\ changed = [m \in Machines |-> FALSE]
    /\ force = [m \in Machines |-> FALSE]
    /\ queue = [m \in Machines |-> <<>>]
    /\ base = [m \in Machines |-> NoTree]
    /\ read = [m \in Machines |-> [f \in Files |-> NoFile]]
    /\ report = [m \in Machines |-> "none"]
    /\ edits = 0 /\ commits = 0 /\ faults = 0

-----------------------------------------------------------------------------
(* The users, the network, interruptions *)

\* a user writes or removes a tracked file
Edit(m) ==
    /\ edits < MaxEdits
    /\ edits' = edits + 1
    /\ \E f \in Files, content \in {NoFile, First + edits'} :
          /\ home' = [home EXCEPT ![m][f] = content]
          /\ mine' = [mine EXCEPT ![m][f] = content]
    /\ UNCHANGED <<backups, clone, remote, run, history, commits, faults>>

FaultHappens == faults < MaxFaults /\ faults' = faults + 1

\* the run is over; its trap removes the lock
Finish(m, how) ==
    /\ pc' = Set(pc, m, "idle")
    /\ todo' = Set(todo, m, {}) /\ changed' = Set(changed, m, FALSE)
    /\ force' = Set(force, m, FALSE)
    /\ queue' = Set(queue, m, <<>>) /\ base' = Set(base, m, NoTree)
    /\ report' = Set(report, m, how)
    /\ UNCHANGED read

\* git add -A: a conflict counts as resolved
Add(m) ==
    /\ staged' = Set(staged, m, TRUE)
    /\ mode' = IF mode[m] = "unmerged" THEN Set(mode, m, "detached") ELSE mode

\* killed, refused by the SSH checks at its start, or a command fails under set -e; whatever
\* was done stays
Interrupt(m) ==
    /\ pc[m] # "idle" /\ FaultHappens
    /\ Finish(m, "failed")
    /\ UNCHANGED <<staged, mode>> \/ (pc[m] = "commit" /\ Add(m))
    /\ UNCHANGED <<files, local, work, remote, edits, commits>>

Goto(m, label) == pc' = Set(pc, m, label)

-----------------------------------------------------------------------------
(* init_repository: remove an existing clone, once confirmed, and clone again *)

init_repository(m) ==
    /\ pc[m] = "idle"
    /\ mode' = Set(mode, m, "branch")
    /\ local' = Set(local, m, remote)
    /\ work' = Set(work, m, [Upstream EXCEPT !["version"] = IF @ = NoFile THEN First ELSE @])
    /\ staged' = Set(staged, m, FALSE)
    /\ report' = Set(report, m, "none")
    /\ UNCHANGED <<files, remote, run, read, bounds>>

CloneFails(m) ==
    /\ pc[m] = "idle" /\ FaultHappens
    /\ mode' = Set(mode, m, "none")
    /\ local' = Set(local, m, <<>>) /\ work' = Set(work, m, NoTree)
    /\ staged' = Set(staged, m, FALSE)
    /\ report' = Set(report, m, "failed")
    /\ UNCHANGED <<files, remote, run, read, edits, commits>>

-----------------------------------------------------------------------------
(* git pull --rebase, the first part of push *)

StartPush(m) ==
    /\ pc[m] = "idle" /\ mode[m] # "none" /\ commits < MaxCommits
    /\ Goto(m, "fetch")
    /\ todo' = Set(todo, m, Files)
    /\ read' = Set(read, m, [f \in Files |-> NoFile])
    /\ report' = Set(report, m, "none")
    /\ UNCHANGED <<files, clone, remote, changed, force, queue, base, bounds>>

Tracked(m, p) == HeadTree(m)[p] # NoFile
Dirty(m, p) == work[m][p] # HeadTree(m)[p]

\* git touches nothing: unmerged files, a rebase begun before, changes of tracked files or
\* of the index, or an untracked file that the upstream holds too
RebaseRefused(m) ==
    \/ mode[m] = "unmerged"
    \/ mode[m] = "detached" /\ ~IsPrefix(local[m], remote)
    \/ \E p \in Paths : Dirty(m, p) /\ (staged[m] \/ Tracked(m, p) \/ Upstream[p] # NoFile)

\* the upstream's tree; untracked files of the clone stay
CheckedOut(m) == [p \in Paths |-> IF Dirty(m, p) THEN work[m][p] ELSE Upstream[p]]

\* refused or not reachable: a warning, and push goes on
FetchFails(m) ==
    /\ pc[m] = "fetch"
    /\ (RebaseRefused(m) /\ UNCHANGED faults) \/ FaultHappens
    /\ Goto(m, "copy")
    /\ UNCHANGED <<files, clone, remote, todo, changed, force, queue, base, history,
                   edits, commits>>

FetchNothingNew(m) ==
    /\ pc[m] = "fetch" /\ ~RebaseRefused(m) /\ IsPrefix(remote, local[m])
    /\ Goto(m, "copy")
    /\ UNCHANGED <<files, clone, remote, todo, changed, force, queue, base, history, bounds>>

FetchForward(m) ==
    /\ pc[m] = "fetch" /\ ~RebaseRefused(m) /\ IsStrictPrefix(local[m], remote)
    /\ local' = Set(local, m, remote)
    /\ work' = Set(work, m, CheckedOut(m))
    /\ Goto(m, "copy")
    /\ UNCHANGED <<files, mode, staged, remote, todo, changed, force, queue, base, history, bounds>>

\* the last commit the clone shares with the remote is its k-th
ForksAfter(m, k) ==
    /\ IsPrefix(SubSeq(local[m], 1, k), remote)
    /\ ~IsPrefix(SubSeq(local[m], 1, k + 1), remote)

\* the branches forked: the commits of this clone are replayed on the remote's
FetchRebase(m) ==
    /\ pc[m] = "fetch" /\ ~RebaseRefused(m)
    /\ ~IsPrefix(remote, local[m]) /\ ~IsPrefix(local[m], remote)
    /\ \E k \in 1..(Len(local[m]) - 1) :
          /\ ForksAfter(m, k)
          /\ queue' = Set(queue, m, SubSeq(local[m], k + 1, Len(local[m])))
          /\ base' = Set(base, m, local[m][k].tree)
    /\ local' = Set(local, m, remote)
    /\ work' = Set(work, m, CheckedOut(m))
    /\ mode' = Set(mode, m, "detached")
    /\ Goto(m, "rebase")
    /\ UNCHANGED <<files, staged, remote, todo, changed, force, history, bounds>>

\* three-way merge of one file: the parent's content, the one here, the commit's
Conflicts(b, ours, theirs) == theirs # b /\ ours # b /\ theirs # ours
Merged(b, ours, theirs) ==
    IF Conflicts(b, ours, theirs) THEN Garbage ELSE IF theirs = b THEN ours ELSE theirs

\* a commit that changes nothing any more is dropped; a conflict ends the rebase half way
Replay(m) ==
    /\ pc[m] = "rebase" /\ queue[m] # <<>>
    /\ LET theirs == Head(queue[m]).tree
           ours == HeadTree(m)
           merged == [p \in Paths |-> Merged(base[m][p], ours[p], theirs[p])]
       IN  /\ work' = Set(work, m, [p \in Paths |->
                                      IF Dirty(m, p) THEN work[m][p] ELSE merged[p]])
           /\ IF \E p \in Paths : Conflicts(base[m][p], ours[p], theirs[p])
              THEN /\ mode' = Set(mode, m, "unmerged")
                   /\ queue' = Set(queue, m, <<>>) /\ base' = Set(base, m, NoTree)
                   /\ Goto(m, "copy")
                   /\ UNCHANGED local
              ELSE /\ local' = IF merged = ours THEN local
                               ELSE Set(local, m, Append(local[m],
                                                  [by |-> Head(queue[m]).by, tree |-> merged]))
                   /\ queue' = Set(queue, m, Tail(queue[m])) /\ base' = Set(base, m, theirs)
                   /\ UNCHANGED <<mode, pc>>
    /\ UNCHANGED <<files, staged, remote, todo, changed, force, history, bounds>>

RebaseEnds(m) ==
    /\ pc[m] = "rebase" /\ queue[m] = <<>>
    /\ mode' = Set(mode, m, "branch")
    /\ base' = Set(base, m, NoTree)
    /\ Goto(m, "copy")
    /\ UNCHANGED <<files, local, work, staged, remote, todo, changed, force, queue, history, bounds>>

-----------------------------------------------------------------------------
(* push_changes: copy, commit, push *)

\* a file that is missing or unreadable is skipped
PushCopy(m) ==
    /\ pc[m] = "copy"
    /\ \E f \in todo[m] :
          LET differs == home[m][f] # NoFile /\ home[m][f] # work[m][f] IN
          /\ todo' = Set(todo, m, todo[m] \ {f})
          /\ read' = [read EXCEPT ![m][f] = home[m][f]]
          /\ work' = IF differs THEN [work EXCEPT ![m][f] = home[m][f]] ELSE work
          /\ changed' = Set(changed, m, changed[m] \/ differs)
    /\ UNCHANGED <<files, mode, local, staged, remote, pc, force, queue, base, report, bounds>>

PushCopyInterrupted(m) ==
    /\ pc[m] = "copy" /\ FaultHappens
    /\ \E f \in todo[m] :
          /\ home[m][f] # NoFile /\ home[m][f] # work[m][f]
          /\ work' = [work EXCEPT ![m][f] = Garbage]
    /\ Finish(m, "failed")
    /\ UNCHANGED <<files, mode, local, staged, remote, edits, commits>>

PushNothing(m) ==
    /\ pc[m] = "copy" /\ todo[m] = {} /\ ~changed[m]
    /\ Finish(m, "in_sync")
    /\ UNCHANGED <<files, clone, remote, bounds>>

\* mutant: the version file is written back as it was
VersionKept(v) == v

\* patch, minor and major roll over: the next version up; nothing sensible from markers
increment_version(v) == IF v = Garbage THEN Garbage ELSE v + 1

PushVersion(m) ==
    /\ pc[m] = "copy" /\ todo[m] = {} /\ changed[m]
    /\ work' = [work EXCEPT ![m]["version"] = increment_version(@)]
    /\ Goto(m, "commit")
    /\ UNCHANGED <<files, mode, local, staged, remote, todo, changed, force, queue, base, history,
                   bounds>>

\* git add -A and git commit, on the branch or on a detached HEAD
PushCommit(m) ==
    /\ pc[m] = "commit" /\ work[m] # HeadTree(m)
    /\ staged' = Set(staged, m, FALSE)
    /\ local' = Set(local, m, Append(local[m], [by |-> m, tree |-> work[m]]))
    /\ mode' = IF mode[m] = "unmerged" THEN Set(mode, m, "detached") ELSE mode
    /\ commits' = commits + 1
    /\ Goto(m, "send")
    /\ UNCHANGED <<files, work, remote, todo, changed, force, queue, base, history,
                   edits, faults>>

\* nothing to commit, or git commit fails (no identity, a hook, signing): nothing is pushed,
\* and the run still ends with "Pushed version"
CommitFails(m) ==
    /\ pc[m] = "commit"
    /\ (work[m] = HeadTree(m) /\ UNCHANGED faults) \/ FaultHappens
    /\ Add(m)
    /\ Finish(m, "pushed")
    /\ UNCHANGED <<files, local, work, remote, edits, commits>>

\* mutant: the exit status of git push is not looked at
SendAccepts(m) ==
    /\ pc[m] = "send"
    /\ remote' = IF mode[m] = "branch" /\ IsPrefix(remote, local[m]) THEN local[m] ELSE remote
    /\ Finish(m, "pushed")
    /\ UNCHANGED <<files, clone, bounds>>

\* git push origin HEAD: needs a branch, and only fast-forwards the remote
PushSend(m) ==
    /\ pc[m] = "send"
    /\ mode[m] = "branch" /\ IsPrefix(remote, local[m])
    /\ remote' = local[m]
    /\ Finish(m, "pushed")
    /\ UNCHANGED <<files, clone, bounds>>

\* mutant: a rejected push goes to a step nobody wrote
PushRejectedRetries(m) ==
    /\ pc[m] = "send"
    /\ mode[m] # "branch" \/ ~IsPrefix(remote, local[m])
    /\ Goto(m, "retry")
    /\ UNCHANGED <<files, clone, remote, todo, changed, force, queue, base, history, bounds>>

PushRejected(m) ==
    /\ pc[m] = "send"
    /\ mode[m] # "branch" \/ ~IsPrefix(remote, local[m])
    /\ Finish(m, "failed")
    /\ UNCHANGED <<files, clone, remote, bounds>>

-----------------------------------------------------------------------------
(* pull_changes *)

StartPull(m) ==
    /\ pc[m] = "idle" /\ mode[m] # "none"
    /\ \E b \in BOOLEAN : force' = Set(force, m, b)
    /\ Goto(m, "pull")
    /\ todo' = Set(todo, m, Files)
    /\ report' = Set(report, m, "none")
    /\ UNCHANGED <<files, clone, remote, changed, queue, base, read, bounds>>

\* git pull without rebase: fast-forwards, and only over files nobody changed
PullPossible(m) ==
    /\ mode[m] # "unmerged"
    /\ \/ IsPrefix(remote, local[m])
       \/ /\ IsPrefix(local[m], remote)
          /\ \A p \in Paths : Dirty(m, p) => Upstream[p] = HeadTree(m)[p]

PullFetch(m) ==
    /\ pc[m] = "pull" /\ PullPossible(m)
    /\ IF IsPrefix(remote, local[m]) THEN UNCHANGED <<local, work>>
       ELSE local' = Set(local, m, remote) /\ work' = Set(work, m, CheckedOut(m))
    /\ Goto(m, "restore")
    /\ UNCHANGED <<files, mode, staged, remote, todo, changed, force, queue, base, history, bounds>>

PullRefused(m) ==
    /\ pc[m] = "pull" /\ ~PullPossible(m)
    /\ Finish(m, "failed")
    /\ UNCHANGED <<files, clone, remote, bounds>>

\* pull replaces this file: it is in the clone, allowed, and different
Restores(m, f) ==
    /\ work[m][f] # NoFile /\ work[m][f] # home[m][f]
    /\ f \in Sensitive => force[m]

Backup(m, f) ==
    backups' = IF home[m][f] = NoFile THEN backups
               ELSE [backups EXCEPT ![m][f] = @ \union {home[m][f]}]

\* mutant: no backup of what is overwritten
PullRestoreBare(m) ==
    /\ pc[m] = "restore"
    /\ \E f \in todo[m] :
          /\ todo' = Set(todo, m, todo[m] \ {f})
          /\ home' = IF Restores(m, f) THEN [home EXCEPT ![m][f] = work[m][f]] ELSE home
          /\ changed' = Set(changed, m, changed[m] \/ Restores(m, f))
    /\ UNCHANGED <<backups, mine, clone, remote, pc, force, queue, base, history, bounds>>

PullRestore(m) ==
    /\ pc[m] = "restore"
    /\ \E f \in todo[m] :
          /\ todo' = Set(todo, m, todo[m] \ {f})
          /\ IF Restores(m, f)
             THEN Backup(m, f) /\ home' = [home EXCEPT ![m][f] = work[m][f]]
             ELSE UNCHANGED <<backups, home>>
          /\ changed' = Set(changed, m, changed[m] \/ Restores(m, f))
    /\ UNCHANGED <<mine, clone, remote, pc, force, queue, base, history, bounds>>

PullRestoreInterrupted(m) ==
    /\ pc[m] = "restore" /\ FaultHappens
    /\ \E f \in todo[m], left \in {NoFile, Torn} :
          /\ Restores(m, f)
          /\ Backup(m, f)
          /\ home' = [home EXCEPT ![m][f] = left]
    /\ Finish(m, "failed")
    /\ UNCHANGED <<mine, clone, remote, edits, commits>>

PullEnds(m) ==
    /\ pc[m] = "restore" /\ todo[m] = {}
    /\ Finish(m, "pulled")
    /\ UNCHANGED <<files, clone, remote, bounds>>

-----------------------------------------------------------------------------
Fetch(m) ==
    FetchFails(m) \/ FetchNothingNew(m) \/ FetchForward(m) \/ FetchRebase(m)
    \/ Replay(m) \/ RebaseEnds(m)

Push(m) ==
    \/ StartPush(m) \/ Fetch(m) \/ PushCopy(m) \/ PushCopyInterrupted(m) \/ PushNothing(m)
    \/ PushVersion(m) \/ PushCommit(m) \/ CommitFails(m) \/ PushSend(m) \/ PushRejected(m)

Pull(m) ==
    \/ StartPull(m) \/ PullFetch(m) \/ PullRefused(m) \/ PullRestore(m)
    \/ PullRestoreInterrupted(m) \/ PullEnds(m)

Next ==
    \E m \in Machines :
        \/ Edit(m) \/ Interrupt(m) \/ init_repository(m) \/ CloneFails(m)
        \/ Push(m) \/ Pull(m)

Spec == Init /\ [][Next]_vars

-----------------------------------------------------------------------------
(* Properties *)

Modes == {"none", "branch", "unmerged", "detached"}
Labels == {"idle", "fetch", "rebase", "copy", "commit", "send", "pull", "restore"}
Reports == {"none", "in_sync", "pushed", "pulled", "failed"}

\* Type invariant of the homes, the clones, the remote and the runs.
TypeOK ==
    /\ home \in [Machines -> [Files -> Nat]] /\ mine \in [Machines -> [Files -> Nat]]
    /\ backups \in [Machines -> [Files -> SUBSET Nat]]
    /\ mode \in [Machines -> Modes] /\ work \in [Machines -> Tree]
    /\ staged \in [Machines -> BOOLEAN]
    /\ local \in [Machines -> Seq(Commit)] /\ remote \in Seq(Commit)
    /\ pc \in [Machines -> Labels] /\ todo \in [Machines -> SUBSET Files]
    /\ changed \in [Machines -> BOOLEAN] /\ force \in [Machines -> BOOLEAN]
    /\ queue \in [Machines -> Seq(Commit)] /\ base \in [Machines -> Tree]
    /\ read \in [Machines -> [Files -> Nat]] /\ report \in [Machines -> Reports]
    /\ edits \in Nat /\ commits \in Nat /\ faults \in Nat

\* No sync loses what a user wrote last: it is in the home directory or in a backup beside
\* it, through pulls of conflict markers, forced pulls and interrupted copies.
EditsKept ==
    \A m \in Machines, f \in Files :
        mine[m][f] \in {NoFile, home[m][f]} \union backups[m][f]

\* A push that commits and reports success published what it read: its commit, with every
\* file as it was in the home directory, is on the remote for good, whatever was stranded,
\* rebased, staged or left uncommitted before and whoever pushes after it.  A run whose git
\* commit fails reports success as well and publishes nothing: it leaves the index staged,
\* until a later push commits.  The mappings are taken to be disjoint (the two of tmux in
\* DEFAULT_FILE_MAPPINGS are not: copying the directory removes the file copied before).
PushPublishes ==
    \A m \in Machines :
        report[m] = "pushed" /\ ~staged[m] =>
            /\ IsPrefix(local[m], remote)
            /\ \A f \in Files : read[m][f] # NoFile => HeadTree(m)[f] = read[m][f]

\* Each push that reaches the remote publishes a higher version than the last ("Incremental
\* versioning"), although versions are counted in each clone and commits are replayed.
VersionsGrow ==
    [][remote' # remote => Last(remote').tree["version"] > Upstream["version"]]_vars

\* A push that finds nothing to do has everything on the remote ("No changes to push.
\* Everything is in sync.").
InSync ==
    \A m \in Machines :
        report[m] = "in_sync" =>
            IsPrefix(local[m], remote) /\ \A f \in Files : ~Dirty(m, f)
=============================================================================
