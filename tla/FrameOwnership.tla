--------------------------- MODULE FrameOwnership ---------------------------
(***************************************************************************)
(* What the frame queue promises its two clients, with no queue in it:     *)
(* every frame has one owner, the renderer and the presenter work on one   *)
(* frame each, and a frame gets from the presenter to the renderer only by *)
(* being given up first.                                                   *)
(***************************************************************************)
CONSTANT Frames

VARIABLE owner      \* who a frame belongs to

vars == owner

Owners == {"free", "rendering", "queued", "pending", "shown"}
Owned(o) == {f \in Frames : owner[f] = o}

\* Give every frame of the set S to o, and leave the others as they are in own.
Give(own, S, o) == [f \in Frames |-> IF f \in S THEN o ELSE own[f]]

Init == owner = [f \in Frames |-> "free"]

\* The renderer takes a frame no presenter is looking at.
Acquire(f) ==
    /\ Owned("rendering") = {}
    /\ owner[f] \in {"free", "queued"}
    /\ owner' = Give(owner, {f}, "rendering")

\* The renderer hands its frame over, and older queued frames may be dropped.
Publish(f, dropped) ==
    /\ owner[f] = "rendering"
    /\ owner' = Give(Give(owner, dropped, "free"), {f}, "queued")

Abandon(f) ==
    /\ owner[f] = "rendering"
    /\ owner' = Give(owner, {f}, "free")

\* The presenter starts to work on a queued frame.
Choose(f, dropped) ==
    /\ owner[f] = "queued"
    /\ f \notin dropped
    /\ Owned("pending") = {}
    /\ owner' = Give(Give(owner, dropped, "free"), {f}, "pending")

\* A frame is shown in place of the one shown before.
Show(f, dropped) ==
    /\ owner[f] \in {"queued", "pending"}
    /\ f \notin dropped
    /\ owner' = Give(Give(owner, dropped \cup Owned("shown"), "free"), {f}, "shown")

\* The presenter gives its candidate back.
GiveBack(f) ==
    /\ owner[f] = "pending"
    /\ \E o \in {"queued", "free"} : owner' = Give(owner, {f}, o)

\* Everything queued or being presented is given up, and perhaps the frame
\* shown; the renderer keeps its frame.
GiveUp ==
    \E S \in {{"queued", "pending"}, {"queued", "pending", "shown"}} :
        owner' = [f \in Frames |-> IF owner[f] \in S THEN "free" ELSE owner[f]]

Next ==
    \/ \E f \in Frames :
          \/ Acquire(f) \/ Abandon(f) \/ GiveBack(f)
          \/ \E dropped \in SUBSET Owned("queued") :
                Publish(f, dropped) \/ Choose(f, dropped) \/ Show(f, dropped)
    \/ GiveUp

Spec == Init /\ [][Next]_vars
=============================================================================
