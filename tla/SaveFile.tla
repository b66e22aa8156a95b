------------------------------ MODULE SaveFile ------------------------------
(***************************************************************************)
(* What a save manager promises about a game's save file: it is what an    *)
(* earlier session left or a snapshot of the save memory taken at a frame  *)
(* boundary, it is only ever replaced by the latest snapshot, and it is    *)
(* unreadable only while it is being replaced.                             *)
(***************************************************************************)
EXTENDS Sequences

CONSTANTS
    Contents,   \* what save memory may hold
    Unreadable  \* a file that has been truncated and not yet written

VARIABLES
    snapshots,  \* of the save memory, in the order they were taken
    file

vars == <<snapshots, file>>

Init == snapshots = <<>> /\ file \in Contents

Snapshot ==
    /\ \E content \in Contents : snapshots' = Append(snapshots, content)
    /\ UNCHANGED file

Truncate ==
    /\ snapshots # <<>>
    /\ file' = Unreadable
    /\ UNCHANGED snapshots

Replace ==
    /\ file = Unreadable
    /\ file' = snapshots[Len(snapshots)]
    /\ UNCHANGED snapshots

Next == Snapshot \/ Truncate \/ Replace

Spec == Init /\ [][Next]_vars
=============================================================================
