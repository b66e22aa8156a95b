----------------------------- MODULE FrameQueue -----------------------------
(***************************************************************************)
(* The pool of frames shared by the emulator thread, which renders into    *)
(* them, and the presentation thread, which shows them                     *)
(* (app/src/main/cpp/renderer/FrameQueue.cpp).                             *)
(*                                                                         *)
(* Every method takes frameLock for its whole body, so a call is one       *)
(* atomic step.  The two waits on presentFrameReadyCondition release the   *)
(* lock and re-test the queue when they return, so a waiting call is the   *)
(* step it takes once the wait is over.                                    *)
(*                                                                         *)
(* Callers are left open: any call the two threads could make may come     *)
(* next, with any policy of Policies.  What the two threads really do with *)
(* the Vulkan renderer is in VulkanPresentation.  Left out: statistics,    *)
(* the GL texture and fence bookkeeping, and PreferOldestFrame, which      *)
(* every policy of MelonInstance.cpp sets to false.                        *)
(***************************************************************************)
EXTENDS Naturals, Sequences, SequencesExt, Functions

CONSTANTS
    FRAME_QUEUE_SIZE,   \* frames in the pool (9 in FrameQueue.h)
    Policies,           \* the FrameQueuePolicy values callers pass
    MaxFrameId          \* bound of the model: frames handed out to the renderer

ASSUME SizeAssumption == FRAME_QUEUE_SIZE \in Nat /\ FRAME_QUEUE_SIZE >= 3

NoFrame == 0
Frames == 1 .. FRAME_QUEUE_SIZE

\* A FrameQueuePolicy: MaxBacklogDepth, AllowStealPending,
\* AllowPreviousFrameReuse, AllowDropForDeadline, PreserveBacklogOnPresent and
\* UseLegacyOpenGlQueue.
Policy == [depth : Nat, steal : BOOLEAN, reuse : BOOLEAN, drop : BOOLEAN,
           preserve : BOOLEAN, legacy : BOOLEAN]

ASSUME PolicyAssumption == Policies \subseteq Policy
ASSUME BoundAssumption == MaxFrameId \in Nat

VARIABLES
    freeQueue,              \* frames nobody needs, oldest release first
    presentQueue,           \* rendered frames, the newest in front
    previousFrame,          \* the frame last shown, kept to be shown again
    pendingPresentFrame,    \* the candidate the presenter is working on
    suppressPreviousFrameReuse,
    renderFrame,            \* the frame the emulator thread holds
    nextFrameId,
    acquiredAt              \* nextFrameId when the frame was last handed out

vars == <<freeQueue, presentQueue, previousFrame, pendingPresentFrame,
          suppressPreviousFrameReuse, renderFrame, nextFrameId, acquiredAt>>

-----------------------------------------------------------------------------
(* Helpers.                                                                *)

\* The depth after sanitizePolicy.
SanitizedDepth(p) ==
    CASE p.depth < 1 -> 1
      [] p.depth > FRAME_QUEUE_SIZE - 1 -> FRAME_QUEUE_SIZE - 1
      [] OTHER -> p.depth

\* A frame pointer as the sequence of the frames it stands for.
Slot(f) == IF f = NoFrame THEN <<>> ELSE <<f>>

\* dropPendingFramesToBacklogLocked(depth): what stays and, in the order it is
\* released, what goes.
Kept(queue, depth) ==
    IF Len(queue) <= depth THEN queue ELSE SubSeq(queue, 1, depth)
Trimmed(queue, depth) ==
    IF Len(queue) <= depth THEN <<>>
    ELSE Reverse(SubSeq(queue, depth + 1, Len(queue)))

\* The frame a presenter gets when nothing new is queued.
Reusable(p) ==
    IF suppressPreviousFrameReuse \/ ~p.reuse THEN NoFrame ELSE previousFrame

-----------------------------------------------------------------------------
(* The emulator thread.  It holds one frame at a time: it recycles the one *)
(* it cannot use before it asks for another.                               *)

\* getRenderFrame returns f.
GetRenderFrame(p, f) ==
    /\ renderFrame = NoFrame
    /\ nextFrameId <= MaxFrameId
    /\ \/ /\ freeQueue # <<>>
          /\ f = Head(freeQueue)
          /\ freeQueue' = Tail(freeQueue)
          /\ UNCHANGED presentQueue
       \/ /\ freeQueue = <<>>
          /\ p.legacy \/ p.steal
          /\ presentQueue # <<>>
          /\ f = Last(presentQueue)
          /\ presentQueue' = Front(presentQueue)
          /\ UNCHANGED freeQueue
    /\ renderFrame' = f
    /\ acquiredAt' = [acquiredAt EXCEPT ![f] = nextFrameId]
    /\ nextFrameId' = nextFrameId + 1
    /\ UNCHANGED <<previousFrame, pendingPresentFrame,
                   suppressPreviousFrameReuse>>

\* getRenderFrame returns nullptr.
RenderFrameUnavailable(p) ==
    /\ freeQueue = <<>>
    /\ presentQueue = <<>> \/ ~(p.legacy \/ p.steal)

RecycleRenderFrame(f) ==
    /\ f = renderFrame
    /\ f # NoFrame
    /\ renderFrame' = NoFrame
    /\ freeQueue' = Append(freeQueue, f)
    /\ UNCHANGED <<presentQueue, previousFrame, pendingPresentFrame,
                   suppressPreviousFrameReuse, nextFrameId, acquiredAt>>

\* discardRenderedFrame differs from recycleRenderFrame in its counter only.
DiscardRenderedFrame(f) == RecycleRenderFrame(f)

\* Faulty variant: no trim before the push.
PushUntrimmed(p, f) ==
    /\ f = renderFrame
    /\ f # NoFrame
    /\ renderFrame' = NoFrame
    /\ presentQueue' = <<f>> \o presentQueue
    /\ UNCHANGED <<freeQueue, previousFrame, pendingPresentFrame,
                   suppressPreviousFrameReuse, nextFrameId, acquiredAt>>

PushRenderedFrame(p, f) ==
    /\ f = renderFrame
    /\ f # NoFrame
    /\ renderFrame' = NoFrame
    /\ IF p.legacy
       THEN /\ presentQueue' = <<f>> \o presentQueue
            /\ UNCHANGED freeQueue
       ELSE LET depth == SanitizedDepth(p) - 1 IN
            /\ presentQueue' = <<f>> \o Kept(presentQueue, depth)
            /\ freeQueue' = freeQueue \o Trimmed(presentQueue, depth)
    /\ UNCHANGED <<previousFrame, pendingPresentFrame,
                   suppressPreviousFrameReuse, nextFrameId, acquiredAt>>

-----------------------------------------------------------------------------
(* The presentation thread.                                                *)

\* Faulty variant: the frame shown before is not released.
GetPresentFrameLeaking(p, f) ==
    /\ presentQueue # <<>>
    /\ f = Head(presentQueue)
    /\ freeQueue' = freeQueue \o Tail(presentQueue)
    /\ presentQueue' = <<>>
    /\ previousFrame' = f
    /\ UNCHANGED <<suppressPreviousFrameReuse, pendingPresentFrame,
                   renderFrame, nextFrameId, acquiredAt>>

\* getPresentFrame returns f: a new frame, or the previous one (or nothing).
GetPresentFrame(p, f) ==
    \/ /\ presentQueue # <<>>
       /\ f = Head(presentQueue)
       /\ freeQueue' = freeQueue \o Slot(previousFrame) \o Tail(presentQueue)
       /\ presentQueue' = <<>>
       /\ previousFrame' = f
       /\ suppressPreviousFrameReuse' = (p.legacy /\ suppressPreviousFrameReuse)
       /\ UNCHANGED <<pendingPresentFrame, renderFrame, nextFrameId, acquiredAt>>
    \/ /\ presentQueue = <<>>
       /\ f = IF p.legacy THEN previousFrame ELSE Reusable(p)
       /\ UNCHANGED vars

\* Faulty variant: a candidate that was not settled is forgotten.
GetPresentCandidateAnew(p, f) ==
    /\ presentQueue # <<>>
    /\ f = Head(presentQueue)
    /\ pendingPresentFrame' = f
    /\ presentQueue' = Tail(presentQueue)
    /\ UNCHANGED <<freeQueue, previousFrame, suppressPreviousFrameReuse,
                   renderFrame, nextFrameId, acquiredAt>>

\* getPresentCandidate returns f.
GetPresentCandidate(p, f) ==
    \/ /\ pendingPresentFrame # NoFrame
       /\ f = pendingPresentFrame
       /\ UNCHANGED vars
    \/ /\ pendingPresentFrame = NoFrame
       /\ presentQueue = <<>>
       /\ f = Reusable(p)
       /\ UNCHANGED vars
    \/ /\ pendingPresentFrame = NoFrame
       /\ presentQueue # <<>>
       /\ f = Head(presentQueue)
       /\ pendingPresentFrame' = f
       /\ suppressPreviousFrameReuse' = FALSE
       /\ IF p.drop \/ p.preserve
          THEN /\ presentQueue' = Tail(presentQueue)
               /\ UNCHANGED freeQueue
          ELSE /\ presentQueue' = <<>>
               /\ freeQueue' = freeQueue \o Tail(presentQueue)
       /\ UNCHANGED <<previousFrame, renderFrame, nextFrameId, acquiredAt>>

\* Faulty variant: the frame shown before is not released.
CommitLeaking(p, f) ==
    /\ f # NoFrame
    /\ f = pendingPresentFrame
    /\ previousFrame' = f
    /\ pendingPresentFrame' = NoFrame
    /\ presentQueue' = <<>>
    /\ freeQueue' = freeQueue \o presentQueue
    /\ UNCHANGED <<suppressPreviousFrameReuse, renderFrame, nextFrameId, acquiredAt>>

\* commitPresentedFrame(f): f was the candidate, or was the previous frame
\* shown again, or has been taken away meanwhile.
CommitPresentedFrame(p, f) ==
    /\ f # NoFrame
    /\ IF f = pendingPresentFrame
       THEN /\ previousFrame' = f
            /\ pendingPresentFrame' = NoFrame
            /\ suppressPreviousFrameReuse' = FALSE
            /\ LET depth == IF p.preserve THEN SanitizedDepth(p) ELSE 0
                   dropped == IF p.preserve THEN Trimmed(presentQueue, depth)
                              ELSE presentQueue
               IN /\ presentQueue' = Kept(presentQueue, depth)
                  /\ freeQueue' =
                        freeQueue \o Slot(IF previousFrame = f THEN NoFrame
                                          ELSE previousFrame) \o dropped
       ELSE /\ suppressPreviousFrameReuse' =
                    (suppressPreviousFrameReuse /\ f # previousFrame)
            /\ UNCHANGED <<freeQueue, presentQueue, previousFrame,
                           pendingPresentFrame>>
    /\ UNCHANGED <<renderFrame, nextFrameId, acquiredAt>>

\* Faulty variant: the candidate goes nowhere.
DeferForgetting(p, f) ==
    /\ f # NoFrame
    /\ pendingPresentFrame' = IF f = pendingPresentFrame THEN NoFrame
                              ELSE pendingPresentFrame
    /\ UNCHANGED <<freeQueue, presentQueue, previousFrame, suppressPreviousFrameReuse,
                   renderFrame, nextFrameId, acquiredAt>>

\* deferPresentedFrame(f): the candidate could not be shown.
DeferPresentedFrame(p, f) ==
    /\ f # NoFrame
    /\ IF f = pendingPresentFrame
       THEN /\ pendingPresentFrame' = NoFrame
            /\ IF p.drop
               THEN /\ freeQueue' = Append(freeQueue, f)
                    /\ UNCHANGED presentQueue
               ELSE /\ presentQueue' = Append(presentQueue, f)
                    /\ UNCHANGED freeQueue
       ELSE UNCHANGED <<freeQueue, presentQueue, pendingPresentFrame>>
    /\ UNCHANGED <<previousFrame, suppressPreviousFrameReuse, renderFrame,
                   nextFrameId, acquiredAt>>

-----------------------------------------------------------------------------
(* Calls that any thread may make.                                         *)

\* Faulty variant: the candidate is released and kept.
ResyncKeepingPending ==
    /\ freeQueue' = freeQueue \o presentQueue \o Slot(pendingPresentFrame)
    /\ presentQueue' = <<>>
    /\ suppressPreviousFrameReuse' = TRUE
    /\ UNCHANGED <<previousFrame, pendingPresentFrame, renderFrame,
                   nextFrameId, acquiredAt>>

\* A surface, scale or backend change: nothing queued or shown is kept.
RequestPresentationResync ==
    /\ freeQueue' = freeQueue \o presentQueue \o Slot(pendingPresentFrame)
                              \o Slot(previousFrame)
    /\ presentQueue' = <<>>
    /\ pendingPresentFrame' = NoFrame
    /\ previousFrame' = NoFrame
    /\ suppressPreviousFrameReuse' = TRUE
    /\ UNCHANGED <<renderFrame, nextFrameId, acquiredAt>>

\* Fast-forward was switched: the previous frame stays showable.
RequestFastForwardPresentationTransition ==
    /\ freeQueue' = freeQueue \o presentQueue \o Slot(pendingPresentFrame)
    /\ presentQueue' = <<>>
    /\ pendingPresentFrame' = NoFrame
    /\ suppressPreviousFrameReuse' = FALSE
    /\ UNCHANGED <<previousFrame, renderFrame, nextFrameId, acquiredAt>>

\* clear(), called by the emulator thread when it stops, with no frame held.
Clear ==
    /\ renderFrame = NoFrame
    /\ freeQueue' = [i \in Frames |-> i]
    /\ presentQueue' = <<>>
    /\ previousFrame' = NoFrame
    /\ pendingPresentFrame' = NoFrame
    /\ suppressPreviousFrameReuse' = FALSE
    /\ acquiredAt' = [f \in Frames |-> 0]
    /\ UNCHANGED <<renderFrame, nextFrameId>>

-----------------------------------------------------------------------------
Init ==
    /\ freeQueue = [i \in Frames |-> i]
    /\ presentQueue = <<>>
    /\ previousFrame = NoFrame
    /\ pendingPresentFrame = NoFrame
    /\ suppressPreviousFrameReuse = FALSE
    /\ renderFrame = NoFrame
    /\ nextFrameId = 1
    /\ acquiredAt = [f \in Frames |-> 0]

RendererCall(p, f) ==
    \/ GetRenderFrame(p, f)
    \/ RecycleRenderFrame(f)
    \/ DiscardRenderedFrame(f)
    \/ PushRenderedFrame(p, f)

PresenterCall(p, f) ==
    \/ GetPresentFrame(p, f)
    \/ GetPresentCandidate(p, f)
    \/ CommitPresentedFrame(p, f)
    \/ DeferPresentedFrame(p, f)

Next ==
    \/ \E p \in Policies, f \in Frames : RendererCall(p, f) \/ PresenterCall(p, f)
    \/ RequestPresentationResync
    \/ RequestFastForwardPresentationTransition
    \/ Clear

Spec == Init /\ [][Next]_vars

-----------------------------------------------------------------------------
(* Properties.                                                             *)

Pointers == {previousFrame, pendingPresentFrame, renderFrame} \ {NoFrame}

\* Type invariant: the queues hold frames, and the three pointers a frame or
\* nullptr (the members declared in FrameQueue.h).
TypeOK ==
    /\ freeQueue \in Seq(Frames)
    /\ presentQueue \in Seq(Frames)
    /\ previousFrame \in Frames \cup {NoFrame}
    /\ pendingPresentFrame \in Frames \cup {NoFrame}
    /\ suppressPreviousFrameReuse \in BOOLEAN
    /\ renderFrame \in Frames \cup {NoFrame}
    /\ nextFrameId \in Nat
    /\ acquiredAt \in [Frames -> Nat]

\* No frame has two owners: it is once in one of the queues or behind one of
\* the pointers, so the thread that got it works on it alone.  A frame
\* released twice by commit, defer, resync and trim together would break it.
NoFrameShared ==
    /\ IsInjective(freeQueue)
    /\ IsInjective(presentQueue)
    /\ Range(freeQueue) \cap Range(presentQueue) = {}
    /\ Pointers \cap (Range(freeQueue) \cup Range(presentQueue)) = {}
    /\ previousFrame # NoFrame =>
          previousFrame \notin {pendingPresentFrame, renderFrame}
    /\ pendingPresentFrame # NoFrame => pendingPresentFrame # renderFrame

\* No frame is lost: every one is free, queued, shown, a candidate or being
\* rendered, whatever was committed, deferred, trimmed or resynced.
NoFrameLost ==
    Frames = Range(freeQueue) \cup Range(presentQueue) \cup Pointers

\* A renderer that may steal is never refused a frame.  The software and OpenGL
\* paths of runFrame rely on it: they use renderFrame without a null test
\* (MelonInstance.cpp:2136).
StealingRendererNeverStarves ==
    \A p \in Policies : renderFrame = NoFrame /\ (p.legacy \/ p.steal)
                           => ~RenderFrameUnavailable(p)

\* While every caller is a Vulkan one asking for a backlog of at most depth, the
\* queue with its candidate never holds more than one frame beyond it: a
\* deferred candidate goes back over the limit, and the next push trims it.
AllWithin(depth) ==
    \A p \in Policies : ~p.legacy /\ SanitizedDepth(p) <= depth

BacklogBounded ==
    \A depth \in 1 .. FRAME_QUEUE_SIZE - 1 :
        AllWithin(depth) =>
            Len(presentQueue) + Len(Slot(pendingPresentFrame)) <= depth + 1

\* While that bound leaves a frame over, the Vulkan renderer always finds a free
\* frame: getRenderFrame never returns nullptr and never has to steal.
VulkanRendererNeverStarves ==
    \A depth \in 1 .. FRAME_QUEUE_SIZE - 3 :
        AllWithin(depth) /\ renderFrame = NoFrame => freeQueue # <<>>

\* After a resync no Vulkan caller is given the frame shown before it: until a
\* new frame is chosen there is none to reuse.
NoReuseAfterResync ==
    (\A p \in Policies : ~p.legacy) =>
        (suppressPreviousFrameReuse => previousFrame = NoFrame)

\* What FrameOwnership sees of the queue.
OwnerOf(f) ==
    CASE f = renderFrame -> "rendering"
      [] f = pendingPresentFrame -> "pending"
      [] f = previousFrame -> "shown"
      [] f \in Range(presentQueue) -> "queued"
      [] OTHER -> "free"

Ownership == INSTANCE FrameOwnership WITH owner <- [f \in Frames |-> OwnerOf(f)]

\* The queue implements the ownership discipline of FrameOwnership.
ImplementsOwnership == Ownership!Spec
=============================================================================
