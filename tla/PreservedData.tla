--------------------------- MODULE PreservedData ----------------------------
(***************************************************************************)
(* What migration promises, whatever it copies in which order, fails at    *)
(* and is run again for: an item that was found is copied, never moved, so *)
(* some copy of it outlives every step.  Copies in memory go with a        *)
(* reboot, what is overlooked may be lost, and the operator may give the   *)
(* data up.                                                                *)
(***************************************************************************)
CONSTANT Items      \* what can be preserved

Places == {"disk", "memory"}

VARIABLES
    copies,     \* for each item still to be preserved, where it has a copy
    overlooked  \* the items that are not taken care of

Init == (\E P \in SUBSET Items : copies = [i \in P |-> {"disk"}]) /\ overlooked = {}

\* the old system is inspected, which may overlook items: all that is owed is still there
Inspect ==
    /\ DOMAIN copies' = DOMAIN copies
    /\ \A i \in DOMAIN copies : "disk" \in copies[i] \cap copies'[i]
    /\ overlooked' \in SUBSET Items

\* copies are made, and given up, as long as one of each item found stays where it was
Copy ==
    /\ DOMAIN copies' = DOMAIN copies
    /\ \A i \in DOMAIN copies \ overlooked : copies[i] \cap copies'[i] # {}
    /\ UNCHANGED overlooked

\* a reboot leaves what is on the disk
Reboot ==
    /\ copies' = [i \in {j \in DOMAIN copies : "disk" \in copies[j]} |-> {"disk"}]
    /\ UNCHANGED overlooked

GiveUp == DOMAIN copies' = {}

Spec == Init /\ [][Inspect \/ Copy \/ Reboot \/ GiveUp]_<<copies, overlooked>>
=============================================================================
