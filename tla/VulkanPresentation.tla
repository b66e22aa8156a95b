------------------------- MODULE VulkanPresentation -------------------------
(***************************************************************************)
(* The two threads around FrameQueue when the renderer is Vulkan: the      *)
(* emulator thread's runFrame, and presentVulkanFrame on the presentation  *)
(* thread (MelonInstance.cpp), with the GPU that finishes frames behind    *)
(* them, fast-forward toggles from the UI thread, and resyncs.             *)
(*                                                                         *)
(* Scale is GetScaleFactor() and TemporalDevice says the device profile is *)
(* Adreno or Mali; graphicsHardwareActive is TRUE, the only backend mode   *)
(* the code configures (getConfiguredVulkanBackendMode).  Whether a game   *)
(* needs temporal 3D history is read at every call and may change.  The    *)
(* GPU has one queue and finishes submissions in their order.              *)
(*                                                                         *)
(* isFastForwardActive() is a plain global that the UI thread writes; a    *)
(* step reads it once, at the place of its first use in that step.         *)
(***************************************************************************)
EXTENDS Naturals, Sequences, FrameQueuePolicies

CONSTANTS
    FRAME_QUEUE_SIZE, MaxFrameId,
    Scale,
    TemporalDevice,
    FastForwardToggles,     \* when the user switches fast-forward
    ResyncThreads,          \* who calls requestVulkanPresentationResync
    MayLackSurface          \* whether frames are presented with no surface attached

ASSUME PresentationAssumption ==
    /\ Scale \in Nat \ {0}
    /\ TemporalDevice \in BOOLEAN /\ MayLackSurface \in BOOLEAN
    /\ FastForwardToggles \in {"never", "between frames", "any time"}
    /\ ResyncThreads \subseteq {"presenter", "other"}

ASSUME QueueAssumption ==
    FRAME_QUEUE_SIZE \in Nat /\ FRAME_QUEUE_SIZE >= 3 /\ MaxFrameId \in Nat

VARIABLES
    freeQueue, presentQueue, previousFrame, pendingPresentFrame,
    suppressPreviousFrameReuse, renderFrame, nextFrameId, acquiredAt,
    submitted,          \* frames the GPU works on, the next to finish first
    ready,              \* frames it has finished: isFrameReady
    fastForwardActive,
    transitionDue,      \* setFastForwardEnabled(false) has yet to clear the queue
    lastFastForward,    \* lastVulkanFastForwardPresentationState
    fallbackFrames,     \* vulkanFastForwardPreviousFrameFallbackFrames
    renderPolicy,       \* the policy runFrame chose when it began
    rendering,          \* runFrame is under way
    pc,                 \* where presentVulkanFrame is
    call,               \* its locals
    shown,              \* history: acquisition number of the frame on screen
    staleBefore         \* history: the last resync let go of all frames acquired earlier

queueVars == <<freeQueue, presentQueue, previousFrame, pendingPresentFrame,
               suppressPreviousFrameReuse, renderFrame, nextFrameId, acquiredAt>>
gpuVars == <<submitted, ready>>
fastForwardVars == <<fastForwardActive, transitionDue, lastFastForward,
                     fallbackFrames>>
rendererVars == <<renderPolicy, rendering>>
callVars == <<pc, call>>
historyVars == <<shown, staleBefore>>
vars == <<queueVars, gpuVars, fastForwardVars, rendererVars, callVars,
          historyVars>>

\* Every policy the two threads can pass.
PresentPolicies(temporal) ==
    {ConstrainGraphicsHardware(policy, TRUE, FALSE, temporal) :
        policy \in {VulkanRealtimeFrameQueuePolicy(Scale),
                    VulkanLateRealtimeFrameQueuePolicy(Scale)}}
    \cup {VulkanFastForwardFrameQueuePolicy(Scale)}
Preserving(policies) == {[p EXCEPT !.preserve = TRUE] : p \in policies}

BasePolicies == PresentPolicies(TRUE) \cup PresentPolicies(FALSE)

Queue == INSTANCE FrameQueue WITH Policies <- BasePolicies \cup Preserving(BasePolicies)

NoFrame == Queue!NoFrame
Frames == Queue!Frames
FallbackFrames == 2     \* kVulkanFastForwardPreviousFrameFallbackFrames

\* A local that holds no policy yet.
NoPolicy == VulkanRealtimeFrameQueuePolicy(Scale)

Temporal == IF TemporalDevice THEN BOOLEAN ELSE {FALSE}

-----------------------------------------------------------------------------
(* The emulator thread and the GPU.                                        *)

\* runFrame chooses its policy and then asks for a frame; the policy is used
\* again when the frame is pushed, even if fast-forward was switched meanwhile.
BeginFrame ==
    /\ ~rendering
    /\ \E temporal \in Temporal :
          renderPolicy' = ConstrainGraphicsHardware(
                              VulkanFrameQueuePolicy(fastForwardActive, Scale),
                              TRUE, fastForwardActive, temporal)
    /\ rendering' = TRUE
    /\ UNCHANGED <<queueVars, gpuVars, fastForwardVars, callVars, historyVars>>

\* The submissions without that of f, which has one at most (TypeOK).
Withdrawn(f) ==
    LET at == {i \in 1 .. Len(submitted) : submitted[i] = f}
        first == CHOOSE i \in at : TRUE
    IN IF at = {} THEN submitted
       ELSE SubSeq(submitted, 1, first - 1) \o Tail(SubSeq(submitted, first, Len(submitted)))

\* The frame is taken and its renderTimelineValue reset, so that no earlier
\* submission makes it ready.
AcquireRenderFrame ==
    /\ rendering
    /\ \E f \in Frames :
          /\ Queue!GetRenderFrame(renderPolicy, f)
          /\ submitted' = Withdrawn(f)
          /\ ready' = ready \ {f}
    /\ UNCHANGED <<fastForwardVars, rendererVars, callVars, historyVars>>

\* The frame is still a source of a later frame's composition
\* (isFrameReferencedAsPendingPreviousSource): it goes back to the pool.
RecycleCandidate ==
    /\ rendering
    /\ \E f \in Frames : Queue!RecycleRenderFrame(f)
    /\ UNCHANGED <<gpuVars, fastForwardVars, rendererVars, callVars, historyVars>>

\* The end of runFrame: the frame is submitted to the GPU and queued, or
\* discarded because it is not valid or the console sleeps, or there was none.
EndFrame ==
    /\ rendering
    /\ rendering' = FALSE
    /\ renderPolicy' = NoPolicy
    /\ \/ \E f \in Frames : /\ Queue!PushRenderedFrame(renderPolicy, f)
                            /\ submitted' = Append(submitted, f)
       \/ \E f \in Frames : /\ Queue!DiscardRenderedFrame(f)
                            /\ UNCHANGED submitted
       \/ /\ renderFrame = NoFrame
          /\ Queue!RenderFrameUnavailable(renderPolicy)
          /\ UNCHANGED <<queueVars, submitted>>
    /\ UNCHANGED <<ready, fastForwardVars, callVars, historyVars>>

GpuFinishes ==
    /\ submitted # <<>>
    /\ submitted' = Tail(submitted)
    /\ ready' = ready \cup {Head(submitted)}
    /\ UNCHANGED <<queueVars, fastForwardVars, rendererVars, callVars, historyVars>>

-----------------------------------------------------------------------------
(* presentVulkanFrame.                                                     *)

Idle == [fastForward |-> FALSE, late |-> FALSE, temporal |-> FALSE,
         policy |-> NoPolicy, attempt |-> 0,
         frame |-> NoFrame]

\* shouldProbeRealtimeBacklog, candidateQueuePolicy, deferFrameQueuePolicy and
\* maxPresentAttempts of the call under way.  Backlogs are probed at a scale
\* above 1 only, where shouldPreserveRealtimeBacklog is
\* shouldUseAdaptiveTemporalBlocking.
Probes == ~call.policy.drop /\ call.policy.depth > 1
PreservingPolicy == [call.policy EXCEPT !.preserve = Probes]    \* faulty variant
CandidatePolicy ==
    [call.policy EXCEPT
        !.preserve = Probes /\ ~call.fastForward /\ call.temporal]
DroppingPolicy == [call.policy EXCEPT !.drop = TRUE]            \* faulty variant
DeferPolicy ==
    [call.policy EXCEPT !.drop = call.policy.drop /\ ~call.fastForward]
MaxAttempts ==
    IF Probes THEN call.policy.depth
    ELSE IF call.policy.drop THEN call.policy.depth + 1 ELSE 1
LastAttempt == call.attempt + 1 >= MaxAttempts

Return == pc' = "idle" /\ call' = Idle
NextAttempt ==
    IF LastAttempt THEN Return
    ELSE /\ pc' = "choose"
         /\ call' = [call EXCEPT !.attempt = @ + 1, !.frame = NoFrame]

\* The call begins: it looks at fast-forward, and clears the queue if it changed.
BeginPresent ==
    /\ pc = "idle"
    /\ IF lastFastForward # fastForwardActive
       THEN /\ lastFastForward' = fastForwardActive
            /\ fallbackFrames' = FallbackFrames
            /\ Queue!RequestFastForwardPresentationTransition
       ELSE UNCHANGED <<queueVars, lastFastForward, fallbackFrames>>
    /\ \E late \in BOOLEAN :
          call' = [Idle EXCEPT !.fastForward = fastForwardActive,
                               !.late = late /\ ~fastForwardActive]
    /\ pc' = "plan"
    /\ UNCHANGED <<gpuVars, fastForwardActive, transitionDue, rendererVars,
                   historyVars>>

\* It builds its policy, reading fast-forward again.
PlanPresent ==
    /\ pc = "plan"
    /\ \E temporal \in Temporal :
          LET policy == IF call.late THEN VulkanLateRealtimeFrameQueuePolicy(Scale)
                        ELSE VulkanFrameQueuePolicy(fastForwardActive, Scale)
          IN call' = [call EXCEPT
                        !.temporal = temporal,
                        !.policy = ConstrainGraphicsHardware(
                                      policy, TRUE, fastForwardActive, temporal)]
    /\ pc' = "choose"
    /\ UNCHANGED <<queueVars, gpuVars, fastForwardVars, rendererVars, historyVars>>

\* Faulty variant: the count is not tested.
MayFallBackUncounted == call.fastForward /\ Scale > 1

\* getFastForwardTransitionPreviousFrame may stand in for a missing frame.
MayFallBack == call.fastForward /\ Scale > 1 /\ fallbackFrames > 0

\* An attempt begins with a candidate, or with nothing to show.
ChooseCandidate ==
    /\ pc = "choose"
    /\ \E f \in Frames \cup {NoFrame} :
          /\ Queue!GetPresentCandidate(CandidatePolicy, f)
          /\ \/ f # NoFrame /\ pc' = "examine" /\ call' = [call EXCEPT !.frame = f]
             \/ f = NoFrame /\ MayFallBack /\ pc' = "fallback" /\ UNCHANGED call
             \/ f = NoFrame /\ ~MayFallBack /\ Return
    /\ UNCHANGED <<gpuVars, fastForwardVars, rendererVars, historyVars>>

\* The previous frame is shown again while fast-forward settles.
FallBack ==
    /\ pc = "fallback"
    /\ LET previous == Queue!Reusable([CandidatePolicy EXCEPT !.reuse = TRUE])
           usable == previous # NoFrame /\ previous \in ready
       IN /\ fallbackFrames' = fallbackFrames - (IF usable THEN 1 ELSE 0)
          /\ IF usable /\ previous # call.frame
             THEN /\ pc' = IF call.frame = NoFrame THEN "examine" ELSE "show"
                  /\ call' = [call EXCEPT !.frame = previous]
             ELSE Return
    /\ UNCHANGED <<queueVars, gpuVars, fastForwardActive, transitionDue,
                   lastFastForward, rendererVars, historyVars>>

\* The GPU has not finished the frame: probe the backlog, drop it, fall back
\* to the previous frame, or go on and wait for it in presentFrame.
ExamineFrame ==
    /\ pc = "examine"
    /\ \/ /\ call.frame \notin ready
          /\ Probes /\ ~LastAttempt
          /\ Queue!DeferPresentedFrame(CandidatePolicy, call.frame)
          /\ NextAttempt
       \/ /\ call.frame \notin ready
          /\ call.policy.drop
          /\ Queue!DeferPresentedFrame(DeferPolicy, call.frame)
          /\ NextAttempt
       \/ /\ call.frame \notin ready
          /\ ~(Probes /\ ~LastAttempt) /\ ~call.policy.drop /\ MayFallBack
          /\ Queue!DeferPresentedFrame(DeferPolicy, call.frame)
          /\ pc' = "fallback"
          /\ UNCHANGED call
       \/ /\ \/ call.frame \in ready
             \/ ~(Probes /\ ~LastAttempt) /\ ~call.policy.drop /\ ~MayFallBack
          /\ pc' = "show"
          /\ UNCHANGED <<queueVars, call>>
    /\ UNCHANGED <<gpuVars, fastForwardVars, rendererVars, historyVars>>

\* presentFrame waits for the GPU and puts the frame on screen.
PresentFrame ==
    /\ pc = "show"
    /\ call.frame \in ready
    /\ shown' = acquiredAt[call.frame]
    /\ pc' = "commit"
    /\ UNCHANGED <<queueVars, gpuVars, fastForwardVars, rendererVars, call,
                   staleBefore>>

\* With no surface attached presentFrame succeeds at once.
PresentToNobody ==
    /\ MayLackSurface
    /\ pc = "show"
    /\ pc' = "commit"
    /\ UNCHANGED <<queueVars, gpuVars, fastForwardVars, rendererVars, call,
                   historyVars>>

\* Faulty variant: the candidate is not deferred.
PresentFailsPinned ==
    /\ pc = "show"
    /\ IF call.policy.drop THEN NextAttempt ELSE Return
    /\ UNCHANGED <<queueVars, gpuVars, fastForwardVars, rendererVars, historyVars>>

\* The composition cannot be built, the wait times out or no surface takes the
\* frame, which may have been submitted again to be composed.
PresentFails ==
    /\ pc = "show"
    /\ \/ UNCHANGED gpuVars
       \/ /\ call.frame \in ready
          /\ submitted' = Append(submitted, call.frame)
          /\ ready' = ready \ {call.frame}
    /\ Queue!DeferPresentedFrame(DeferPolicy, call.frame)
    /\ IF call.policy.drop THEN NextAttempt ELSE Return
    /\ UNCHANGED <<fastForwardVars, rendererVars, historyVars>>

\* Faulty variant: the frame shown before is overwritten, not released.
CommitOverwriting ==
    /\ pc = "commit"
    /\ previousFrame' = call.frame
    /\ pendingPresentFrame' = NoFrame
    /\ Return
    /\ UNCHANGED <<freeQueue, presentQueue, suppressPreviousFrameReuse,
                   renderFrame, nextFrameId, acquiredAt, gpuVars,
                   fastForwardVars, rendererVars, historyVars>>

CommitFrame ==
    /\ pc = "commit"
    /\ Queue!CommitPresentedFrame(
           IF Probes THEN CandidatePolicy ELSE call.policy, call.frame)
    /\ Return
    /\ UNCHANGED <<gpuVars, fastForwardVars, rendererVars, historyVars>>

-----------------------------------------------------------------------------
(* Other threads.                                                          *)

\* Faulty variant: the presenter's surface callbacks do not wait for its call.
ResyncMidCall(thread) ==
    /\ thread \in ResyncThreads
    /\ Queue!RequestPresentationResync
    /\ lastFastForward' = fastForwardActive
    /\ fallbackFrames' = 0
    /\ staleBefore' = IF renderFrame = NoFrame THEN nextFrameId
                      ELSE acquiredAt[renderFrame]
    /\ UNCHANGED <<gpuVars, fastForwardActive, transitionDue, rendererVars,
                   callVars, shown>>

\* requestVulkanPresentationResync.  The presentation thread calls it between
\* two frames, when a surface is attached or resized; reset, loadState, the
\* emulator thread and the debug controls call it at any time.
Resync(thread) ==
    /\ thread \in ResyncThreads
    /\ thread = "presenter" => pc = "idle"
    /\ Queue!RequestPresentationResync
    /\ lastFastForward' = fastForwardActive
    /\ fallbackFrames' = 0
    /\ staleBefore' = IF renderFrame = NoFrame THEN nextFrameId
                      ELSE acquiredAt[renderFrame]
    /\ UNCHANGED <<gpuVars, fastForwardActive, transitionDue, rendererVars,
                   callVars, shown>>

MaySwitch ==
    \/ FastForwardToggles = "any time"
    \/ FastForwardToggles = "between frames" /\ pc = "idle"

\* setFastForwardEnabled on the UI thread.
SetFastForwardEnabled(enabled) ==
    /\ MaySwitch
    /\ ~transitionDue
    /\ fastForwardActive' = enabled
    /\ transitionDue' = (fastForwardActive /\ ~enabled)
    /\ UNCHANGED <<queueVars, gpuVars, lastFastForward, fallbackFrames,
                   rendererVars, callVars, historyVars>>

\* The rest of it, when fast-forward was on.
FinishDisable ==
    /\ MaySwitch
    /\ transitionDue
    /\ transitionDue' = FALSE
    /\ Queue!RequestFastForwardPresentationTransition
    /\ UNCHANGED <<gpuVars, fastForwardActive, lastFastForward, fallbackFrames,
                   rendererVars, callVars, historyVars>>

-----------------------------------------------------------------------------
Init ==
    /\ Queue!Init
    /\ submitted = <<>>
    /\ ready = {}
    /\ fastForwardActive = FALSE
    /\ transitionDue = FALSE
    /\ lastFastForward = FALSE
    /\ fallbackFrames = 0
    /\ renderPolicy = NoPolicy
    /\ rendering = FALSE
    /\ pc = "idle"
    /\ call = Idle
    /\ shown = 0
    /\ staleBefore = 0

Renderer == BeginFrame \/ AcquireRenderFrame \/ RecycleCandidate \/ EndFrame

PresentStep ==
    \/ BeginPresent \/ PlanPresent \/ ChooseCandidate \/ FallBack
    \/ ExamineFrame \/ CommitFrame
Presenter == PresentStep \/ PresentFrame \/ PresentToNobody \/ PresentFails

Next ==
    \/ Renderer
    \/ GpuFinishes
    \/ Presenter
    \/ \E thread \in ResyncThreads : Resync(thread)
    \/ \E enabled \in BOOLEAN : SetFastForwardEnabled(enabled)
    \/ FinishDisable

Spec == Init /\ [][Next]_vars

\* The presentation thread is called at every vsync and runs to its end; the
\* GPU finishes what it was given; and a frame that is tried at vsync after
\* vsync is not refused by timeouts for ever.  The emulator thread may stop.
Fairness ==
    /\ WF_vars(PresentStep)
    /\ WF_vars(PresentFrame \/ PresentToNobody \/ PresentFails)
    /\ WF_vars(GpuFinishes)
    /\ SF_vars(PresentFrame)

FairSpec == Spec /\ Fairness

-----------------------------------------------------------------------------
(* Properties.                                                             *)

\* Type invariant of the threads' own state; the GPU works on a frame once at
\* most, on none that it has finished, and on none the emulator thread holds; and
\* fallbackFrames never goes below zero, though it is counted down in one place
\* and tested in another.
TypeOK ==
    /\ Queue!TypeOK
    /\ submitted \in Seq(Frames) /\ ready \subseteq Frames
    /\ \A i, j \in 1 .. Len(submitted) : submitted[i] = submitted[j] => i = j
    /\ \A i \in 1 .. Len(submitted) : submitted[i] \notin ready \cup {renderFrame}
    /\ renderFrame \notin ready
    /\ {fastForwardActive, transitionDue, lastFastForward, rendering} \subseteq BOOLEAN
    /\ fallbackFrames \in 0 .. FallbackFrames
    /\ renderPolicy \in Queue!Policy
    /\ pc \in {"idle", "plan", "choose", "fallback", "examine", "show", "commit"}
    /\ call \in [fastForward : BOOLEAN, late : BOOLEAN, temporal : BOOLEAN,
                 policy : Queue!Policy, attempt : 0 .. 2,
                 frame : Frames \cup {NoFrame}]
    /\ {shown, staleBefore} \subseteq Nat

\* The two threads use FrameQueue as its specification expects: with the
\* policies it is given here, holding one frame at a time, settling only
\* candidates it handed out.
ImplementsFrameQueue == Queue!Spec

\* In a pool that runs dry, with a frame shown, one to be shown and the rest queued, a
\* renderer that may take a queued frame back (in fast-forward) finds one to take.
StealingRendererIsServed == Queue!StealingRendererNeverStarves

\* Every path of presentVulkanFrame settles the candidate it took: between two
\* calls no frame is pinned as pending, which would keep newer frames off the
\* screen (getPresentCandidate returns it again at once).
NoCandidatePinned == pc = "idle" => pendingPresentFrame = NoFrame

\* The picture never jumps back: what reaches the screen is the frame there or
\* one rendered after it, through deferrals, fast-forward switches, fallbacks
\* to the previous frame and resyncs.
NeverShowsOlderFrame == [][shown' >= shown]_shown

\* The emulator thread never renders into the frame that presentFrame is
\* putting on screen.
NoTornFrame == pc \in {"show", "commit"} => call.frame # renderFrame

\* "A resync invalidates the presentation contract for all in-flight frames"
\* (FrameQueue.cpp:477): a frame that was rendered before a resync is not put
\* on screen after it.
NoFrameShownAcrossResync ==
    [][PresentFrame => acquiredAt[call.frame] >= staleBefore]_vars

\* The presenter gets on: a frame it has taken is on screen in the end, or one
\* rendered later is, however often it is deferred, unless a resync or a switch of
\* fast-forward lets go of it.  (The last frame queued before the game pauses need
\* not be: commitPresentedFrame releases every queued frame, one queued while
\* presentFrame waited included.)
LetGo(id) ==
    staleBefore >= id \/ fastForwardActive \/ transitionDue
CandidateIsShown ==
    [](\A id \in 1 .. MaxFrameId :
          (pendingPresentFrame # NoFrame /\ acquiredAt[pendingPresentFrame] = id)
              => <>(shown >= id \/ LetGo(id)))
=============================================================================
