---------------------------- MODULE SnapshotUkis ----------------------------
(***************************************************************************)
(* manage-snapshot-ukis on the installed system.  Up to three copies of    *)
(* its refresh run at once and no lock keeps them apart:                   *)
(*   path     refresh-settled of snapper-boot-entries.service, started by  *)
(*            the path unit when /.snapshots changes                       *)
(*   hook     refresh of the pacman hook after a kernel update             *)
(*   catchup  refresh of snapshot-ukis-catch-up.service, started when the  *)
(*            USB boot drive is plugged in and the pending marker exists   *)
(* Each removes every snapshot UKI, lists the snapshots, then builds the   *)
(* newest ones one after the other.  snapper, pacman, systemd, a shutdown  *)
(* and the hand on the USB drive are the environment.                      *)
(***************************************************************************)
EXTENDS Naturals, FiniteSets

CONSTANTS
    Count,         \* SNAPSHOT_COUNT: how many snapshots get a UKI
    MaxSnapshots,  \* bound: snapshots ever taken
    MaxKernels,    \* bound: kernel versions
    MaxFaults,     \* bound: faults, i.e. pulls of the drive, shutdowns and failed commands
    MaxRounds,     \* MAX_REFRESH_ROUNDS
    AnyDelete      \* may any snapshot be deleted, or only the oldest (snapper's cleanup)?

ASSUME CountAssumption == Count \in Nat \ {0}
ASSUME BoundsAssumption ==
    /\ MaxSnapshots \in Nat /\ MaxKernels \in Nat \ {0}
    /\ MaxFaults \in Nat /\ MaxRounds \in Nat \ {0}
    /\ AnyDelete \in BOOLEAN

Snaps == 1..MaxSnapshots
Kernels == 1..MaxKernels
NoUki == 0
Torn == MaxKernels + 1    \* a UKI file that is no image: cut short, or being written
Procs == {"path", "hook", "catchup"}

VARIABLES
    taken,      \* snapshots numbered so far: snapper counts upwards
    begun,      \* numbers with a directory /.snapshots/N
    complete,   \* numbers with N/snapshot and info.xml
    writable,   \* snapshots whose ro property was cleared
    modules,    \* per snapshot, the kernel whose modules it holds
    installed,  \* version of the modules on the running root
    kernel,     \* version of /boot/vmlinuz there
    plugged,    \* can the ESP be reached? (always, without a USB boot drive)
    faults,     \* faults so far
    ukis,       \* per snapshot, the kernel its UKI on the ESP was built from, NoUki or Torn
    marker,     \* refresh-pending
    pc,
    todo,       \* snapshot numbers a refresh has still to look at
    left,       \* how many it may still take up: max_snapshots minus its count
    cur,        \* the snapshot whose UKI is being built
    image,      \* the kernel read for it
    seen,       \* path: fingerprint_before_refresh
    round,      \* path: refreshes so far
    listed,     \* history: the newest when a refresh listed the snapshots last, until they are deleted
                \* or the UKIs are removed again
    abandoned,  \* history: a change was left to the next refresh, and none listed since
    spoiled,    \* history: snapshots that lost their UKI or write access to an error since
                \* the last listing, or whose UKI two refreshers wrote at the same time
    midway      \* history: snapshots taken between a kernel's modules and its /boot files

snapper == <<taken, begun, complete, modules>>
env == <<snapper, installed, kernel, plugged, midway>>
esp == <<ukis, marker, writable>>
work == <<todo, left, cur, image>>
loop == <<seen, round>>
history == <<listed, abandoned, spoiled>>
vars == <<env, esp, pc, work, loop, history, faults>>

Labels == {"idle", "settle", "check", "mark", "unmark", "remove", "list",
           "build", "write", "compare", "exit"}

Init ==
    /\ taken = 0 /\ begun = {} /\ complete = {}
    /\ modules = [n \in Snaps |-> 1]
    /\ writable = {} /\ installed = 1 /\ kernel = 1
    /\ plugged = TRUE /\ faults = 0
    /\ ukis = [n \in Snaps |-> NoUki] /\ marker = FALSE
    /\ pc = [p \in Procs |-> "idle"]
    /\ todo = [p \in Procs |-> {}] /\ left = [p \in Procs |-> 0]
    /\ cur = [p \in Procs |-> 0] /\ image = [p \in Procs |-> 1]
    /\ seen = {} /\ round = 0
    /\ listed = {} /\ abandoned = FALSE
    /\ spoiled = {} /\ midway = {}

AllIdle == \A p \in Procs : pc[p] = "idle"

\* the n newest of a set of snapshots
Newest(S) == {n \in S : Cardinality({m \in S : m > n}) < Count}

Goto(p, label) == pc' = [pc EXCEPT ![p] = label]

Fault == faults < MaxFaults /\ faults' = faults + 1

-----------------------------------------------------------------------------
(* The environment *)

\* a change of /.snapshots itself starts the service, if it is not running already:
\* the path unit does not watch the directory while the service runs, so nobody looks at
\* a change between the last look of the script and the end of the service
NotifyPathUnit ==
    /\ IF pc["path"] = "idle"
       THEN Goto("path", "settle") /\ round' = 1 /\ UNCHANGED seen
       ELSE UNCHANGED <<pc, loop>>
    /\ abandoned' = (abandoned \/ pc["path"] = "exit")

\* snapper makes /.snapshots/N, then the subvolume and info.xml in it
TakeSnapshot ==
    /\ taken < MaxSnapshots
    /\ taken' = taken + 1
    /\ begun' = begun \union {taken + 1}
    /\ NotifyPathUnit
    /\ UNCHANGED <<complete, modules, installed, kernel, plugged, midway,
                   esp, work, listed, spoiled, faults>>

\* changes nothing in /.snapshots itself, so the path unit sees nothing
CompleteSnapshot ==
    /\ \E n \in begun \ complete :
          /\ complete' = complete \union {n}
          /\ modules' = [modules EXCEPT ![n] = installed]
          /\ midway' = IF installed # kernel THEN midway \union {n} ELSE midway
    /\ UNCHANGED <<taken, begun, installed, kernel, plugged, esp, pc, work,
                   loop, history, faults>>

DeleteSnapshot ==
    /\ \E n \in complete :
          /\ AnyDelete \/ (complete # {n} /\ \A m \in complete : n <= m)
          /\ complete' = complete \ {n} /\ begun' = begun \ {n}
          /\ writable' = writable \ {n}
          /\ listed' = listed \ {n} /\ spoiled' = spoiled \ {n} /\ midway' = midway \ {n}
          /\ modules' = [modules EXCEPT ![n] = 1]
    /\ NotifyPathUnit
    /\ UNCHANGED <<taken, installed, kernel, plugged, ukis, marker,
                   work, faults>>

\* a pacman transaction with a new kernel: the guard hook refuses it without the drive, then
\* the package brings its modules
BeginUpdate ==
    /\ kernel < MaxKernels /\ plugged /\ pc["hook"] = "idle"
    /\ installed = kernel
    /\ installed' = kernel + 1
    /\ UNCHANGED <<snapper, kernel, plugged, midway, esp, pc, work, loop,
                   history, faults>>

\* its hooks: mkinitcpio's replaces the files in /boot (for a transaction cut short, the
\* next one does), and the last one runs the refresh if there are snapshots
FinishUpdate ==
    /\ installed # kernel /\ pc["hook"] = "idle"
    /\ kernel' = installed
    /\ IF begun # {} THEN Goto("hook", "check") ELSE UNCHANGED pc
    /\ UNCHANGED <<snapper, installed, plugged, midway, esp, work, loop,
                   history, faults>>

PullDrive ==
    /\ plugged /\ plugged' = FALSE
    /\ Fault
    /\ UNCHANGED <<snapper, installed, kernel, midway, esp, pc, work, loop, history>>

\* mutant: the udev rule starts the service only for a drive seen for the first time
PlugInIgnored ==
    /\ ~plugged
    /\ plugged' = TRUE
    /\ UNCHANGED <<snapper, installed, kernel, midway, esp, pc, work, loop,
                   history, faults>>

\* the udev rule starts the catch-up service, whose condition is the marker; starting a
\* service that is running already changes nothing
PlugIn ==
    /\ ~plugged
    /\ plugged' = TRUE
    /\ IF marker /\ pc["catchup"] = "idle" THEN Goto("catchup", "check") ELSE UNCHANGED pc
    /\ abandoned' = (abandoned \/ (marker /\ pc["catchup"] # "idle"))
    /\ UNCHANGED <<snapper, installed, kernel, midway, esp, work, loop,
                   listed, spoiled, faults>>

\* a shutdown at any moment, and a boot, for which the USB boot drive is in: udev starts
\* the catch-up service if the marker is there; the path unit starts nothing for what
\* changed before it watches; a snapshot snapper had not finished is none
Restart ==
    /\ Fault
    /\ plugged' = TRUE
    /\ begun' = complete
    /\ pc' = [p \in Procs |-> IF p = "catchup" /\ marker THEN "check" ELSE "idle"]
    /\ todo' = [p \in Procs |-> {}] /\ left' = [p \in Procs |-> 0]
    /\ cur' = [p \in Procs |-> 0] /\ image' = [p \in Procs |-> 1]
    /\ seen' = {} /\ round' = 0
    /\ listed' = {}
    /\ abandoned' = (abandoned \/ \E p \in Procs : pc[p] \notin {"idle", "exit"})
    /\ UNCHANGED <<taken, complete, modules, installed, kernel, midway, esp,
                   spoiled>>

-----------------------------------------------------------------------------
(* refresh_entries_until_settled *)

\* the snapshots stayed unchanged for 2 seconds, or it gave up waiting, and the fingerprint
\* is taken again; a snapshot snapper has only made the directory of is not in it
Settle ==
    /\ pc["path"] = "settle"
    /\ seen' = complete
    /\ Goto("path", "check")
    /\ UNCHANGED <<env, esp, work, round, history, faults>>

\* mutant: one refresh, whatever happened to the snapshots meanwhile
CompareNever ==
    /\ pc["path"] = "compare"
    /\ Goto("path", "exit")
    /\ UNCHANGED <<env, esp, work, loop, history, faults>>

\* the fingerprint is taken at once, so a snapshot snapper is still making is not in it and
\* nobody looks when it is done; after MaxRounds refreshes the script leaves changed
\* snapshots for the next change
Compare ==
    /\ pc["path"] = "compare"
    /\ IF seen = complete \/ round = MaxRounds
       THEN /\ Goto("path", "exit") /\ round' = 0
            /\ abandoned' = (abandoned \/ seen # complete \/ begun # complete)
       ELSE Goto("path", "settle") /\ round' = round + 1 /\ UNCHANGED abandoned
    /\ seen' = {}
    /\ UNCHANGED <<env, esp, work, listed, spoiled, faults>>

\* the script ended; systemd notices and watches the directory again
ServiceEnds ==
    /\ pc["path"] = "exit"
    /\ Goto("path", "idle")
    /\ UNCHANGED <<env, esp, work, loop, history, faults>>

-----------------------------------------------------------------------------
(* refresh_entries *)

AfterRefresh(p) == IF p = "path" THEN "compare" ELSE "idle"

\* listing the ESP mounts it when the drive is there
CheckEfi(p) ==
    /\ pc[p] = "check"
    /\ Goto(p, IF plugged THEN "unmark" ELSE "mark")
    /\ UNCHANGED <<env, esp, work, loop, history, faults>>

\* nobody looks at the marker if the drive is back by now
MarkPending(p) ==
    /\ pc[p] = "mark"
    /\ marker' = TRUE
    /\ abandoned' = (abandoned \/ plugged)
    /\ Goto(p, AfterRefresh(p))
    /\ UNCHANGED <<env, ukis, writable, work, loop, listed, spoiled, faults>>

ClearPending(p) ==
    /\ pc[p] = "unmark"
    /\ marker' = FALSE
    /\ Goto(p, "remove")
    /\ UNCHANGED <<env, ukis, writable, work, loop, history, faults>>

\* mkdir fails without the drive and ends the script, the marker gone
RemoveUkis(p) ==
    /\ pc[p] = "remove"
    /\ IF plugged
       THEN /\ ukis' = [n \in Snaps |-> NoUki] /\ listed' = {} /\ spoiled' = {}
            /\ Goto(p, "list") /\ UNCHANGED abandoned
       ELSE abandoned' = TRUE /\ Goto(p, "idle") /\ UNCHANGED <<ukis, listed, spoiled>>
    /\ UNCHANGED <<env, marker, writable, work, loop, faults>>

\* mutant: an off-by-one in the number of snapshots
ListOneMore(p) ==
    /\ pc[p] = "list"
    /\ todo' = [todo EXCEPT ![p] = complete]
    /\ left' = [left EXCEPT ![p] = Count + 1]
    /\ listed' = Newest(complete)
    /\ abandoned' = (abandoned /\ begun # complete)
    /\ spoiled' = {}
    /\ Goto(p, "build")
    /\ UNCHANGED <<env, esp, cur, image, loop, faults>>

ListSnapshots(p) ==
    /\ pc[p] = "list"
    /\ todo' = [todo EXCEPT ![p] = complete]
    /\ left' = [left EXCEPT ![p] = Count]
    /\ listed' = Newest(complete)
    /\ abandoned' = (abandoned /\ begun # complete)
    /\ spoiled' = {}
    /\ Goto(p, "build")
    /\ UNCHANGED <<env, esp, cur, image, loop, faults>>

\* n is the newest number refresh p has not looked at yet, and p looks at it
TakeUp(p, n) ==
    /\ pc[p] = "build" /\ left[p] > 0
    /\ n \in todo[p] /\ \A m \in todo[p] : m <= n
    /\ todo' = [todo EXCEPT ![p] = @ \ {n}]

\* n is counted, whether its UKI is going to be built or not
CountDown(p) == left' = [left EXCEPT ![p] = @ - 1]

\* a command for snapshot n fails; without the drive that takes no fault of its own
Spoil(n) ==
    /\ spoiled' = spoiled \union {n}
    /\ IF plugged THEN Fault ELSE UNCHANGED faults

\* the refreshers that have the file of snapshot n's UKI open
Writers(n) == {p \in Procs : pc[p] = "write" /\ cur[p] = n}

\* its directory is gone
SkipSnapshot(p) ==
    /\ \E n \in todo[p] \ complete : TakeUp(p, n)
    /\ UNCHANGED <<env, esp, pc, left, cur, image, loop, history, faults>>

\* no kernel or no initramfs in /boot, no ukify, or ukify fails before it opens the file
BuildFails(p) ==
    /\ \E n \in todo[p] \cap complete :
          /\ TakeUp(p, n) /\ CountDown(p)
          /\ \E w \in {writable, writable \union {n}} : writable' = w
          /\ Spoil(n)
    /\ UNCHANGED <<env, ukis, marker, pc, cur, image, loop, listed, abandoned>>

\* mutant: the UKI gets the kernel the machine booted, not the installed one
OpenUkiBooted(p) ==
    /\ plugged
    /\ \E n \in todo[p] \cap complete :
          /\ TakeUp(p, n) /\ CountDown(p)
          /\ writable' = writable \union {n}
          /\ ukis' = [ukis EXCEPT ![n] = Torn]
          /\ cur' = [cur EXCEPT ![p] = n]
    /\ Goto(p, "write")
    /\ UNCHANGED <<env, marker, image, loop, history, faults>>

\* the snapshot is made writable (a failure is only a warning), ukify reads the kernel and
\* opens the file, which truncates it; no lock keeps two refreshers off one file
OpenUki(p) ==
    /\ plugged
    /\ \E n \in todo[p] \cap complete :
          /\ TakeUp(p, n) /\ CountDown(p)
          /\ \/ /\ writable' = writable \union {n}
                /\ spoiled' = IF Writers(n) = {} THEN spoiled ELSE spoiled \union {n}
                /\ UNCHANGED faults
             \/ n \notin writable /\ UNCHANGED writable /\ Spoil(n)
          /\ ukis' = [ukis EXCEPT ![n] = Torn]
          /\ cur' = [cur EXCEPT ![p] = n]
    /\ image' = [image EXCEPT ![p] = kernel]
    /\ Goto(p, "write")
    /\ UNCHANGED <<env, marker, loop, listed, abandoned>>

\* ukify has written the file and sbctl rewritten it in place, signed; or the file stays as
\* it is: torn by an error or an unplugged drive, removed, or another refresher's
WriteUki(p) ==
    /\ pc[p] = "write"
    /\ \/ /\ plugged
          /\ ukis' = [ukis EXCEPT ![cur[p]] = image[p]] /\ UNCHANGED <<spoiled, faults>>
       \/ ukis[cur[p]] = NoUki /\ UNCHANGED <<ukis, spoiled, faults>>
       \/ ukis[cur[p]] # NoUki /\ Spoil(cur[p]) /\ UNCHANGED ukis
    /\ cur' = [cur EXCEPT ![p] = 0] /\ image' = [image EXCEPT ![p] = 1]
    /\ Goto(p, "build")
    /\ UNCHANGED <<env, marker, writable, todo, left, loop, listed, abandoned>>

\* mutant: an off-by-one in the count
RefreshEndsEarly(p) ==
    /\ pc[p] = "build"
    /\ left[p] <= 1 \/ todo[p] = {}
    /\ todo' = [todo EXCEPT ![p] = {}] /\ left' = [left EXCEPT ![p] = 0]
    /\ Goto(p, AfterRefresh(p))
    /\ UNCHANGED <<env, esp, cur, image, loop, history, faults>>

RefreshEnds(p) ==
    /\ pc[p] = "build"
    /\ left[p] = 0 \/ todo[p] = {}
    /\ todo' = [todo EXCEPT ![p] = {}] /\ left' = [left EXCEPT ![p] = 0]
    /\ Goto(p, AfterRefresh(p))
    /\ UNCHANGED <<env, esp, cur, image, loop, history, faults>>

Refresh(p) ==
    \/ CheckEfi(p) \/ MarkPending(p) \/ ClearPending(p) \/ RemoveUkis(p)
    \/ ListSnapshots(p) \/ SkipSnapshot(p) \/ BuildFails(p) \/ OpenUki(p)
    \/ WriteUki(p) \/ RefreshEnds(p)

Environment ==
    \/ TakeSnapshot \/ CompleteSnapshot \/ DeleteSnapshot \/ BeginUpdate \/ FinishUpdate
    \/ PullDrive \/ PlugIn \/ Restart

Loop == Settle \/ Compare \/ ServiceEnds

Script == Loop \/ \E p \in Procs : Refresh(p)

Next == Environment \/ Script

\* as long as a script runs, one of them goes on; nothing else has to happen
Fairness == WF_vars(Script)

Spec == Init /\ [][Next]_vars /\ Fairness

-----------------------------------------------------------------------------
(* Properties *)

\* Type invariant of the refreshers, the snapshots and the ESP.
TypeOK ==
    /\ taken \in 0..MaxSnapshots
    /\ begun \in SUBSET Snaps /\ complete \in SUBSET Snaps
    /\ modules \in [Snaps -> Kernels] /\ installed \in Kernels /\ kernel \in Kernels
    /\ writable \in SUBSET Snaps
    /\ plugged \in BOOLEAN /\ faults \in 0..MaxFaults
    /\ ukis \in [Snaps -> Kernels \union {NoUki, Torn}] /\ marker \in BOOLEAN
    /\ pc \in [Procs -> Labels]
    /\ todo \in [Procs -> SUBSET Snaps] /\ left \in [Procs -> 0..Count]
    /\ cur \in [Procs -> Snaps \union {0}] /\ image \in [Procs -> Kernels]
    /\ seen \in SUBSET Snaps /\ round \in 0..MaxRounds
    /\ listed \in SUBSET Snaps /\ abandoned \in BOOLEAN
    /\ spoiled \in SUBSET Snaps /\ midway \in SUBSET Snaps

HasUki(n) == ukis[n] \notin {NoUki, Torn}

Bootable(n) == HasUki(n) /\ n \in writable

\* refresh p is going to take up n: it has enough of its count left for it and all newer ones
Owes(p, n) ==
    /\ pc[p] \in {"build", "write"} /\ n \in todo[p]
    /\ Cardinality({m \in todo[p] : m > n}) < left[p]

\* Without any lock, no refresher undoes another for good: every snapshot the last refresh
\* listed as one of the newest, and that still exists, can be booted, is going to get its UKI
\* from that refresh, is having it written, or will be listed again by a refresh that has
\* just removed the UKIs.  It rests on each refresh removing before it lists.  The exceptions
\* (spoiled) are a step that failed for that very snapshot since the listing
\* (generate_snapshot_uki, `btrfs property set`, an unplugged drive), and two refreshers that
\* had its file open at the same time, which may leave a mixture.
RefreshersCover ==
    \A n \in listed :
        \/ Bootable(n) \/ n \in spoiled
        \/ Writers(n) # {} \/ \E p \in Procs : Owes(p, n)

Covered == \A n \in Newest(complete) : Bootable(n) \/ n \in spoiled

\* Whenever nothing is running and the ESP can be reached, the newest snapshots have their
\* UKIs, except those spoiled since they were listed last: changes during a refresh and
\* kernel updates are not forgotten, and a refresh skipped without the drive was made up for,
\* also across a restart.  What is left to the next refresh (abandoned) is exactly this: a
\* shutdown in the middle of a refresh, giving up after MAX_REFRESH_ROUNDS, a snapshot still
\* being made when the last fingerprint is taken, a change while the service ends, a drive
\* pulled between the check and the removal, and one plugged in before the marker is set or
\* while the catch-up runs.
QuietCovered ==
    AllIdle /\ plugged /\ begun = complete /\ ~abandoned => Covered

\* Once snapshots stop changing, the newest end up bootable for good, with the exceptions of
\* QuietCovered.
EventuallyCovered == <>[](plugged /\ ~abandoned => Covered)

\* The UKI of a snapshot that was not taken in the middle of a pacman transaction is never
\* built from an older kernel than the one whose modules the snapshot holds, though the kernel
\* changes while refreshes run: it is read from /boot (generate_snapshot_uki) after the
\* snapshot was seen.
UkiNotOlder == \A n \in complete \ midway : HasUki(n) => ukis[n] >= modules[n]

\* Whenever nothing is running, pacman included, each snapshot in the boot menu boots with the
\* kernel whose modules it holds ("Bootable and signed snapshots let you boot into any
\* previous system state", "System boots into that snapshot - fully functional, writable").
PreviousStateBoots ==
    AllIdle /\ plugged /\ installed = kernel =>
        \A n \in complete \ midway : HasUki(n) => ukis[n] = modules[n]
=============================================================================
