---------------------- MODULE VulkanPresentationProofs ----------------------
(***************************************************************************)
(* Proofs about VulkanPresentation for every pool size, scale, device and  *)
(* bound.  The two threads implement FrameQueue, so the theorems of        *)
(* FrameQueueProofs hold of their queue; what presentVulkanFrame holds     *)
(* while it is under way is proved from there.                             *)
(***************************************************************************)
EXTENDS VulkanPresentation, SequencesExt, Functions, SequenceTheorems, TLAPS

\* The theorems about the queue, for the policies of the two threads.
Proved == INSTANCE FrameQueueProofs
            WITH Policies <- BasePolicies \cup Preserving(BasePolicies)

-----------------------------------------------------------------------------
(* Policies.                                                               *)

\* What the policies of the two threads have in common.
LEMMA BasePolicyFacts ==
    ASSUME NEW p \in BasePolicies
    PROVE  /\ p \in Queue!Policy
           /\ p.depth \in 1 .. 2
           /\ ~p.legacy /\ ~p.preserve
<1> DEFINE realtime == VulkanRealtimeFrameQueuePolicy(Scale)
           late == VulkanLateRealtimeFrameQueuePolicy(Scale)
           fast == VulkanFastForwardFrameQueuePolicy(Scale)
           Good(q) == q \in Queue!Policy /\ q.depth \in 1 .. 2 /\ ~q.legacy /\ ~q.preserve
<1>1. BacklogDepth(Scale) \in 1 .. 2
  BY DEF BacklogDepth
<1>2. Good(realtime) /\ Good(late) /\ Good(fast)
  <2>1. Good(realtime)
    BY <1>1 DEF VulkanRealtimeFrameQueuePolicy, Queue!Policy
  <2>2. Good(fast)
    BY <1>1 DEF VulkanFastForwardFrameQueuePolicy, Queue!Policy
  <2>3. late = [realtime EXCEPT !.drop = TRUE]
    BY DEF VulkanLateRealtimeFrameQueuePolicy
  <2> HIDE DEF realtime, late, fast
  <2>4. Good(late)
    BY <2>1, <2>3 DEF Queue!Policy
  <2> QED BY <2>1, <2>2, <2>4
<1>3. ASSUME NEW q, Good(q), NEW temporal
      PROVE  Good(ConstrainGraphicsHardware(q, TRUE, FALSE, temporal))
  BY <1>3 DEF ConstrainGraphicsHardware, Queue!Policy
<1> HIDE DEF realtime, late, fast, Good
<1>4. Good(p)
  <2>1. PICK temporal \in BOOLEAN : p \in PresentPolicies(temporal)
    BY DEF BasePolicies
  <2>2. \/ p = fast
        \/ p = ConstrainGraphicsHardware(realtime, TRUE, FALSE, temporal)
        \/ p = ConstrainGraphicsHardware(late, TRUE, FALSE, temporal)
    BY <2>1 DEF PresentPolicies, realtime, late, fast
  <2> QED BY <1>2, <1>3, <2>2
<1> QED BY <1>4 DEF Good

\* The policies the queue is used with are policies.
LEMMA PoliciesFacts ==
    /\ BasePolicies \cup Preserving(BasePolicies) \subseteq Queue!Policy
    /\ \A p \in BasePolicies \cup Preserving(BasePolicies) : ~p.legacy /\ p.depth \in 1 .. 2
<1>1. ASSUME NEW p \in BasePolicies
      PROVE  /\ [p EXCEPT !.preserve = TRUE] \in Queue!Policy
             /\ ~[p EXCEPT !.preserve = TRUE].legacy
             /\ [p EXCEPT !.preserve = TRUE].depth \in 1 .. 2
  BY BasePolicyFacts DEF Queue!Policy
<1> QED BY <1>1, BasePolicyFacts DEF Preserving

\* The policies the two threads choose are among them.
LEMMA ChosenPolicies ==
    ASSUME NEW fastForward \in BOOLEAN, NEW temporal \in BOOLEAN
    PROVE  /\ ConstrainGraphicsHardware(VulkanFrameQueuePolicy(fastForward, Scale),
                                        TRUE, fastForward, temporal) \in BasePolicies
           /\ ConstrainGraphicsHardware(VulkanLateRealtimeFrameQueuePolicy(Scale),
                                        TRUE, fastForward, temporal) \in BasePolicies
           /\ NoPolicy \in BasePolicies
           /\ ~ConstrainGraphicsHardware(VulkanFrameQueuePolicy(fastForward, Scale),
                                        TRUE, fastForward, temporal).drop
           /\ ~NoPolicy.drop
<1> DEFINE realtime == VulkanRealtimeFrameQueuePolicy(Scale)
           late == VulkanLateRealtimeFrameQueuePolicy(Scale)
           fast == VulkanFastForwardFrameQueuePolicy(Scale)
<1>1. \A q, t : /\ ConstrainGraphicsHardware(q, TRUE, TRUE, t) = q
                /\ ConstrainGraphicsHardware(q, TRUE, FALSE, TRUE) = q
                /\ ~ConstrainGraphicsHardware(q, TRUE, FALSE, FALSE).drop
  BY DEF ConstrainGraphicsHardware
<1>2. ~realtime.drop /\ ~fast.drop
  BY DEF VulkanRealtimeFrameQueuePolicy, VulkanFastForwardFrameQueuePolicy
<1>3. VulkanFrameQueuePolicy(TRUE, Scale) = fast /\ VulkanFrameQueuePolicy(FALSE, Scale) = realtime
  BY DEF VulkanFrameQueuePolicy
<1>4. NoPolicy = realtime
  BY DEF NoPolicy
<1>5. /\ fast \in BasePolicies
      /\ \A t \in BOOLEAN : /\ ConstrainGraphicsHardware(realtime, TRUE, FALSE, t) \in BasePolicies
                            /\ ConstrainGraphicsHardware(late, TRUE, FALSE, t) \in BasePolicies
  BY DEF BasePolicies, PresentPolicies
<1> HIDE DEF realtime, late, fast
<1>6. realtime \in BasePolicies /\ late \in BasePolicies
  BY <1>1, <1>5
<1>7. CASE fastForward
  <2>1. fastForward = TRUE
    BY <1>7
  <2>2. /\ ConstrainGraphicsHardware(fast, TRUE, fastForward, temporal) = fast
        /\ ConstrainGraphicsHardware(late, TRUE, fastForward, temporal) = late
    BY <1>1, <2>1
  <2>3. VulkanFrameQueuePolicy(fastForward, Scale) = fast
    BY <1>3, <2>1
  <2> QED BY <1>2, <1>4, <1>5, <1>6, <2>2, <2>3 DEF late
<1>8. CASE ~fastForward
  <2>1. fastForward = FALSE
    BY <1>8
  <2>2. ~ConstrainGraphicsHardware(realtime, TRUE, FALSE, temporal).drop
    BY <1>1, <1>2
  <2>3. VulkanFrameQueuePolicy(fastForward, Scale) = realtime
    BY <1>3, <2>1
  <2> QED BY <1>2, <1>4, <1>5, <1>6, <2>1, <2>2, <2>3 DEF late
<1> QED BY <1>7, <1>8

-----------------------------------------------------------------------------
(* The queue of the two threads is the queue of FrameQueueProofs.          *)

LEMMA QueueInit == Queue!Init => Proved!Init
  BY DEF Queue!Init, Proved!Init, Queue!NoFrame, Proved!NoFrame, Queue!Frames, Proved!Frames

LEMMA QueueNext == Queue!Next => Proved!Next
  BY Zenon
     DEF Queue!Next, Proved!Next, Queue!RendererCall, Proved!RendererCall,
         Queue!PresenterCall, Proved!PresenterCall,
         Queue!GetRenderFrame, Proved!GetRenderFrame,
         Queue!RecycleRenderFrame, Proved!RecycleRenderFrame,
         Queue!DiscardRenderedFrame, Proved!DiscardRenderedFrame,
         Queue!PushRenderedFrame, Proved!PushRenderedFrame,
         Queue!GetPresentFrame, Proved!GetPresentFrame,
         Queue!GetPresentCandidate, Proved!GetPresentCandidate,
         Queue!CommitPresentedFrame, Proved!CommitPresentedFrame,
         Queue!DeferPresentedFrame, Proved!DeferPresentedFrame,
         Queue!RequestPresentationResync, Proved!RequestPresentationResync,
         Queue!RequestFastForwardPresentationTransition,
         Proved!RequestFastForwardPresentationTransition,
         Queue!Clear, Proved!Clear, Queue!NoFrame, Proved!NoFrame, Queue!Frames, Proved!Frames,
         Queue!SanitizedDepth, Proved!SanitizedDepth, Queue!Slot, Proved!Slot,
         Queue!Kept, Proved!Kept, Queue!Trimmed, Proved!Trimmed, Queue!Reverse, Proved!Reverse,
         Queue!Last, Proved!Last, Queue!Front, Proved!Front,
         Queue!Reusable, Proved!Reusable, Queue!vars, Proved!vars

\* What the theorems about the queue rest on holds of the two threads.
LEMMA QueueAssumptions ==
    /\ BasePolicies \cup Preserving(BasePolicies) \subseteq Proved!Policy
    /\ FRAME_QUEUE_SIZE \in Nat /\ FRAME_QUEUE_SIZE >= 3 /\ MaxFrameId \in Nat
<1>1. Proved!Policy = Queue!Policy
  BY DEF Proved!Policy, Queue!Policy
<1> QED BY <1>1, PoliciesFacts, QueueAssumption

-----------------------------------------------------------------------------
(* What FrameQueueProofs shows of sequences without repetition.            *)

\* Taking the first element away.
LEMMA HeadTailOfInjective ==
    ASSUME NEW S, NEW s \in Seq(S), s # <<>>
    PROVE  /\ Head(s) \in S
           /\ Tail(s) \in Seq(S)
           /\ Len(Tail(s)) = Len(s) - 1
           /\ Range(s) = Range(Tail(s)) \cup {Head(s)}
           /\ IsInjective(s) => IsInjective(Tail(s)) /\ Head(s) \notin Range(Tail(s))
BY QueueAssumptions, Proved!HeadTailOfInjective
  DEF Range, Proved!Range, IsInjective, Proved!IsInjective

\* Concatenating.
LEMMA ConcatOfInjective ==
    ASSUME NEW S, NEW s \in Seq(S), NEW t \in Seq(S)
    PROVE  /\ s \o t \in Seq(S)
           /\ Len(s \o t) = Len(s) + Len(t)
           /\ Range(s \o t) = Range(s) \cup Range(t)
           /\ IsInjective(s) /\ IsInjective(t) /\ Range(s) \cap Range(t) = {}
                => IsInjective(s \o t)
BY QueueAssumptions, Proved!ConcatOfInjective
  DEF Range, Proved!Range, IsInjective, Proved!IsInjective

\* The empty sequence.
LEMMA EmptySequence ==
    ASSUME NEW S
    PROVE  /\ <<>> \in Seq(S)
           /\ Len(<<>>) = 0
           /\ Range(<<>>) = {}
           /\ IsInjective(<<>>)
BY QueueAssumptions, Proved!EmptySequence
  DEF Range, Proved!Range, IsInjective, Proved!IsInjective

\* Cutting a sequence after its first n elements.
LEMMA CutOfInjective ==
    ASSUME NEW S, NEW s \in Seq(S), NEW n \in 0 .. Len(s)
    PROVE  LET first == SubSeq(s, 1, n)
               rest == SubSeq(s, n + 1, Len(s))
           IN  /\ first \in Seq(S) /\ Len(first) = n
               /\ rest \in Seq(S) /\ Len(rest) = Len(s) - n
               /\ Range(s) = Range(first) \cup Range(rest)
               /\ IsInjective(s) => /\ IsInjective(first)
                                    /\ IsInjective(rest)
                                    /\ Range(first) \cap Range(rest) = {}
BY QueueAssumptions, Proved!CutOfInjective
  DEF Range, Proved!Range, IsInjective, Proved!IsInjective

\* Taking the last element away.
LEMMA FrontLastOfInjective ==
    ASSUME NEW S, NEW s \in Seq(S), s # <<>>
    PROVE  /\ Last(s) \in S
           /\ Front(s) \in Seq(S)
           /\ Len(Front(s)) = Len(s) - 1
           /\ Range(s) = Range(Front(s)) \cup {Last(s)}
           /\ IsInjective(s) => IsInjective(Front(s)) /\ Last(s) \notin Range(Front(s))
BY QueueAssumptions, Proved!FrontLastOfInjective
  DEF Range, Proved!Range, IsInjective, Proved!IsInjective,
      Front, Proved!Front, Last, Proved!Last

\* Adding a new last element.
LEMMA AppendOfInjective ==
    ASSUME NEW S, NEW s \in Seq(S), NEW e \in S
    PROVE  /\ Append(s, e) \in Seq(S)
           /\ Len(Append(s, e)) = Len(s) + 1
           /\ Range(Append(s, e)) = Range(s) \cup {e}
           /\ IsInjective(s) /\ e \notin Range(s) => IsInjective(Append(s, e))
BY QueueAssumptions, Proved!AppendOfInjective
  DEF Range, Proved!Range, IsInjective, Proved!IsInjective

\* Adding a new first element.
LEMMA ConsOfInjective ==
    ASSUME NEW S, NEW s \in Seq(S), NEW e \in S
    PROVE  /\ <<e>> \o s \in Seq(S)
           /\ Len(<<e>> \o s) = Len(s) + 1
           /\ Range(<<e>> \o s) = Range(s) \cup {e}
           /\ IsInjective(s) /\ e \notin Range(s) => IsInjective(<<e>> \o s)
BY QueueAssumptions, Proved!ConsOfInjective
  DEF Range, Proved!Range, IsInjective, Proved!IsInjective

-----------------------------------------------------------------------------
(* The invariant of the queue.                                             *)

LEMMA QueueStepIInv == Proved!IInv /\ [Queue!Next]_Queue!vars => Proved!IInv'
<1>1. [Queue!Next]_Queue!vars => [Proved!Next]_Proved!vars
  BY QueueNext DEF Queue!vars, Proved!vars
<1> QED BY <1>1, QueueAssumptions, Proved!NextIInv

\* What the invariant of the queue says of the pointers.
LEMMA QueueFacts ==
    ASSUME Proved!IInv
    PROVE  /\ Queue!TypeOK
           /\ presentQueue \in Seq(Frames)
           /\ {previousFrame, pendingPresentFrame, renderFrame} \subseteq Frames \cup {NoFrame}
           /\ nextFrameId \in Nat /\ acquiredAt \in [Frames -> Nat]
           /\ NoFrame \notin Frames
           /\ previousFrame # NoFrame => previousFrame \notin {pendingPresentFrame, renderFrame}
           /\ pendingPresentFrame # NoFrame => pendingPresentFrame # renderFrame
<1>1. Queue!TypeOK
  BY DEF Proved!IInv, Proved!TypeOK, Queue!TypeOK, Proved!Frames, Queue!Frames,
         Proved!NoFrame, Queue!NoFrame
<1>2. NoFrame \notin Frames
  BY DEF NoFrame, Frames, Queue!NoFrame, Queue!Frames
<1>3. /\ previousFrame # NoFrame => previousFrame \notin {pendingPresentFrame, renderFrame}
      /\ pendingPresentFrame # NoFrame => pendingPresentFrame # renderFrame
  BY DEF Proved!IInv, Proved!NoFrameShared, Proved!NoFrame, NoFrame, Queue!NoFrame
<1> QED BY <1>1, <1>2, <1>3 DEF Queue!TypeOK, Frames, NoFrame

-----------------------------------------------------------------------------
(* The locals of presentVulkanFrame, and how they fit together.            *)

Places == {"idle", "plan", "choose", "fallback", "examine", "show", "commit"}
Holding == {"examine", "show", "commit"}

\* The locals that are records; a late or dropping policy is realtime.
Calls == [fastForward : BOOLEAN, late : BOOLEAN, temporal : BOOLEAN,
          policy : BasePolicies, attempt : 0 .. 2, frame : Frames \cup {NoFrame}]
ProperCall(c) == c \in Calls /\ (c.late \/ c.policy.drop => ~c.fastForward)

Local ==
    /\ {fastForwardActive, transitionDue, lastFastForward, rendering} \subseteq BOOLEAN
    /\ renderPolicy \in BasePolicies
    /\ pc \in Places
    /\ ProperCall(call)
    /\ pc \in Holding => call.frame # NoFrame

\* A frame the presenter works on is the one its call holds.
Settled ==
    pendingPresentFrame # NoFrame =>
        pc \in Holding /\ call.frame = pendingPresentFrame

IInv == Proved!IInv /\ Local /\ Settled

LEMMA IdleIsProper == ProperCall(Idle)
<1>1. NoPolicy \in BasePolicies /\ ~NoPolicy.drop
  BY ChosenPolicies
<1>2. Idle \in Calls
  BY <1>1 DEF Idle, Calls
<1> QED BY <1>1, <1>2 DEF Idle, ProperCall

LEMMA InitIInv == Init => IInv
<1> SUFFICES ASSUME Init PROVE IInv
  OBVIOUS
<1>1. Proved!IInv
  BY QueueInit, QueueAssumptions, Proved!InitIInv DEF Init
<1>2. NoPolicy \in BasePolicies /\ ~NoPolicy.drop
  BY ChosenPolicies
<1>3. Local
  <2>1. /\ {fastForwardActive, transitionDue, lastFastForward, rendering} \subseteq BOOLEAN
        /\ renderPolicy = NoPolicy /\ pc = "idle" /\ call = Idle
    BY DEF Init
  <2> QED BY <1>2, <2>1, IdleIsProper DEF Local, Places, Holding
<1>4. Settled
  BY DEF Init, Queue!Init, Settled, NoFrame
<1> QED BY <1>1, <1>3, <1>4 DEF IInv

\* The policies of a call are policies of the queue, and it defers with its own.
LEMMA CallPolicies ==
    ASSUME Local
    PROVE  /\ CandidatePolicy \in BasePolicies \cup Preserving(BasePolicies)
           /\ DeferPolicy = call.policy
           /\ call.policy \in BasePolicies
           /\ MaxAttempts \in 1 .. 3
<1>1. /\ call.policy \in Queue!Policy /\ call.policy.depth \in 1 .. 2 /\ ~call.policy.preserve
      /\ call.policy \in BasePolicies
  BY BasePolicyFacts DEF Local, ProperCall, Calls
<1>2. [call.policy EXCEPT !.preserve = FALSE] = call.policy
  BY <1>1 DEF Queue!Policy
<1>3. CandidatePolicy \in {[call.policy EXCEPT !.preserve = FALSE],
                           [call.policy EXCEPT !.preserve = TRUE]}
  <2> DEFINE kept == Probes /\ ~call.fastForward /\ call.temporal
  <2>1. kept \in {TRUE, FALSE}
    BY DEF kept
  <2>2. CandidatePolicy = [call.policy EXCEPT !.preserve = kept]
    BY DEF CandidatePolicy
  <2> QED BY <2>1, <2>2
<1>4. DeferPolicy = call.policy
  <2>1. (call.policy.drop /\ ~call.fastForward) = call.policy.drop
    BY <1>1 DEF Local, ProperCall, Queue!Policy
  <2>2. DeferPolicy = [call.policy EXCEPT !.drop = call.policy.drop]
    BY <2>1 DEF DeferPolicy
  <2> QED BY <1>1, <2>2 DEF Queue!Policy
<1>5. MaxAttempts \in 1 .. 3
  BY <1>1 DEF MaxAttempts
<1> QED BY <1>1, <1>2, <1>3, <1>4, <1>5 DEF Preserving

-----------------------------------------------------------------------------
(* What the calls of the queue do to the pointers.                         *)

\* The calls the two threads make: all of the queue's but clear.
QueueCall ==
    \/ \E p \in BasePolicies \cup Preserving(BasePolicies), f \in Frames :
          Queue!RendererCall(p, f) \/ Queue!PresenterCall(p, f)
    \/ Queue!RequestPresentationResync
    \/ Queue!RequestFastForwardPresentationTransition

LEMMA QueueCallIsNext == QueueCall => Queue!Next
  BY DEF QueueCall, Queue!Next, Frames

LEMMA CandidateEffect ==
    ASSUME Proved!IInv, NEW p \in BasePolicies \cup Preserving(BasePolicies),
           NEW f \in Frames \cup {NoFrame}, Queue!GetPresentCandidate(p, f)
    PROVE  /\ [QueueCall]_Queue!vars
           /\ UNCHANGED <<previousFrame, renderFrame, nextFrameId, acquiredAt>>
           /\ f = NoFrame => pendingPresentFrame' = NoFrame
           /\ f # NoFrame => \/ pendingPresentFrame' = f
                             \/ pendingPresentFrame' = NoFrame /\ f = previousFrame
<1>1. CASE UNCHANGED Queue!vars
  BY <1>1 DEF Queue!GetPresentCandidate, Queue!Reusable, Queue!vars, NoFrame
<1>2. CASE /\ pendingPresentFrame = NoFrame
           /\ presentQueue # <<>>
           /\ f = Head(presentQueue)
           /\ pendingPresentFrame' = f
           /\ UNCHANGED <<previousFrame, renderFrame, nextFrameId, acquiredAt>>
  <2>1. f \in Frames /\ f # NoFrame
    BY <1>2, QueueFacts, HeadTailOfInjective
  <2>2. QueueCall
    BY <2>1 DEF QueueCall, Queue!PresenterCall
  <2> QED BY <1>2, <2>1, <2>2
<1> QED BY <1>1, <1>2 DEF Queue!GetPresentCandidate, NoFrame

LEMMA DeferEffect ==
    ASSUME NEW p \in BasePolicies \cup Preserving(BasePolicies), NEW f \in Frames,
           Queue!DeferPresentedFrame(p, f)
    PROVE  /\ QueueCall
           /\ UNCHANGED <<previousFrame, renderFrame, nextFrameId, acquiredAt>>
           /\ f = pendingPresentFrame => pendingPresentFrame' = NoFrame
           /\ f # pendingPresentFrame => UNCHANGED pendingPresentFrame
<1>1. QueueCall
  BY DEF QueueCall, Queue!PresenterCall
<1> QED BY <1>1 DEF Queue!DeferPresentedFrame, NoFrame

LEMMA CommitEffect ==
    ASSUME NEW p \in BasePolicies \cup Preserving(BasePolicies), NEW f \in Frames,
           Queue!CommitPresentedFrame(p, f)
    PROVE  /\ QueueCall
           /\ UNCHANGED <<renderFrame, nextFrameId, acquiredAt>>
           /\ f = pendingPresentFrame => pendingPresentFrame' = NoFrame /\ previousFrame' = f
           /\ f # pendingPresentFrame => UNCHANGED <<previousFrame, pendingPresentFrame>>
<1>1. QueueCall
  BY DEF QueueCall, Queue!PresenterCall
<1> QED BY <1>1 DEF Queue!CommitPresentedFrame, NoFrame

LEMMA ResyncEffect ==
    ASSUME Queue!RequestPresentationResync
    PROVE  /\ QueueCall
           /\ UNCHANGED <<renderFrame, nextFrameId, acquiredAt>>
           /\ previousFrame' = NoFrame /\ pendingPresentFrame' = NoFrame
           /\ presentQueue' = <<>>
  BY DEF QueueCall, Queue!RequestPresentationResync, NoFrame

LEMMA TransitionEffect ==
    ASSUME Queue!RequestFastForwardPresentationTransition
    PROVE  /\ QueueCall
           /\ UNCHANGED <<previousFrame, renderFrame, nextFrameId, acquiredAt>>
           /\ pendingPresentFrame' = NoFrame /\ presentQueue' = <<>>
  BY DEF QueueCall, Queue!RequestFastForwardPresentationTransition, NoFrame

\* The renderer's calls leave the presenter's pointers alone.
LEMMA RendererEffect ==
    ASSUME NEW p \in BasePolicies \cup Preserving(BasePolicies), NEW f \in Frames,
           \/ Queue!GetRenderFrame(p, f) \/ Queue!RecycleRenderFrame(f)
           \/ Queue!DiscardRenderedFrame(f) \/ Queue!PushRenderedFrame(p, f)
    PROVE  QueueCall /\ UNCHANGED <<previousFrame, pendingPresentFrame>>
<1>1. QueueCall
  BY DEF QueueCall, Queue!RendererCall
<1> QED BY <1>1 DEF Queue!GetRenderFrame, Queue!RecycleRenderFrame,
           Queue!DiscardRenderedFrame, Queue!PushRenderedFrame

-----------------------------------------------------------------------------
(* Each step is a call of the queue or leaves it alone, and keeps the      *)
(* invariant.                                                              *)

Kept == [QueueCall]_Queue!vars /\ Local' /\ Settled'

LEMMA QueueStands ==
    ASSUME UNCHANGED queueVars
    PROVE  /\ UNCHANGED Queue!vars
           /\ UNCHANGED <<freeQueue, presentQueue, previousFrame, pendingPresentFrame,
                          suppressPreviousFrameReuse, renderFrame, nextFrameId, acquiredAt>>
  BY DEF queueVars, Queue!vars

LEMMA BeginFrameKept == ASSUME IInv, BeginFrame PROVE Kept
<1>1. renderPolicy' \in BasePolicies
  <2>1. \A temporal \in Temporal : temporal \in BOOLEAN
    BY DEF Temporal
  <2>2. fastForwardActive \in BOOLEAN
    BY DEF IInv, Local
  <2> QED BY <2>1, <2>2, ChosenPolicies DEF BeginFrame
<1>2. /\ rendering' \in BOOLEAN
      /\ UNCHANGED <<queueVars, gpuVars, fastForwardVars, callVars, historyVars>>
  BY DEF BeginFrame
<1>3. Local'
  BY <1>1, <1>2 DEF IInv, Local, gpuVars, fastForwardVars, callVars
<1>4. Settled'
  BY <1>2 DEF IInv, Settled, queueVars, callVars
<1> QED BY <1>2, <1>3, <1>4, QueueStands DEF Kept

LEMMA AcquireRenderFrameKept == ASSUME IInv, AcquireRenderFrame PROVE Kept
<1>1. /\ \E f \in Frames : Queue!GetRenderFrame(renderPolicy, f)
      /\ UNCHANGED <<fastForwardVars, rendererVars, callVars, historyVars>>
  BY DEF AcquireRenderFrame
<1>2. QueueCall /\ UNCHANGED <<previousFrame, pendingPresentFrame>>
  BY <1>1, RendererEffect DEF IInv, Local
<1>3. Local'
  BY <1>1 DEF IInv, Local, fastForwardVars, rendererVars, callVars
<1>4. Settled'
  BY <1>1, <1>2 DEF IInv, Settled, callVars
<1> QED BY <1>2, <1>3, <1>4 DEF Kept

LEMMA RecycleCandidateKept == ASSUME IInv, RecycleCandidate PROVE Kept
<1>1. /\ \E f \in Frames : Queue!RecycleRenderFrame(f)
      /\ UNCHANGED <<gpuVars, fastForwardVars, rendererVars, callVars, historyVars>>
  BY DEF RecycleCandidate
<1>2. QueueCall /\ UNCHANGED <<previousFrame, pendingPresentFrame>>
  BY <1>1, RendererEffect DEF IInv, Local
<1>3. Local'
  BY <1>1 DEF IInv, Local, gpuVars, fastForwardVars, rendererVars, callVars
<1>4. Settled'
  BY <1>1, <1>2 DEF IInv, Settled, callVars
<1> QED BY <1>2, <1>3, <1>4 DEF Kept

LEMMA EndFrameKept == ASSUME IInv, EndFrame PROVE Kept
<1>1. /\ rendering' = FALSE /\ renderPolicy' = NoPolicy
      /\ UNCHANGED <<fastForwardVars, callVars, historyVars>>
  BY DEF EndFrame
<1>2. [QueueCall]_Queue!vars /\ UNCHANGED pendingPresentFrame
  <2>1. CASE \E f \in Frames : \/ Queue!PushRenderedFrame(renderPolicy, f)
                               \/ Queue!DiscardRenderedFrame(f)
    BY <2>1, RendererEffect DEF IInv, Local
  <2>2. CASE UNCHANGED queueVars
    BY <2>2, QueueStands
  <2> QED BY <2>1, <2>2 DEF EndFrame
<1>3. Local'
  BY <1>1, ChosenPolicies DEF IInv, Local, fastForwardVars, callVars
<1>4. Settled'
  BY <1>1, <1>2 DEF IInv, Settled, callVars
<1> QED BY <1>2, <1>3, <1>4 DEF Kept

LEMMA GpuFinishesKept == ASSUME IInv, GpuFinishes PROVE Kept
<1>1. UNCHANGED <<queueVars, fastForwardVars, rendererVars, callVars, historyVars>>
  BY DEF GpuFinishes
<1>2. Local'
  BY <1>1 DEF IInv, Local, fastForwardVars, rendererVars, callVars
<1>3. Settled'
  BY <1>1 DEF IInv, Settled, queueVars, callVars
<1> QED BY <1>1, <1>2, <1>3, QueueStands DEF Kept

\* How a call ends, or goes on to its next attempt.
LEMMA ReturnFacts == Return => pc' = "idle" /\ ProperCall(call')
  BY IdleIsProper DEF Return

LEMMA NextAttemptFacts ==
    ASSUME Local, NextAttempt
    PROVE  pc' \in {"idle", "choose"} /\ ProperCall(call')
<1>1. CASE LastAttempt
  BY <1>1, ReturnFacts DEF NextAttempt
<1>2. CASE ~LastAttempt
  <2>1. pc' = "choose" /\ call' = [call EXCEPT !.attempt = @ + 1, !.frame = NoFrame]
    BY <1>2 DEF NextAttempt
  <2>2. call.attempt + 1 \in 0 .. 2
    <3>1. MaxAttempts \in 1 .. 3 /\ call.attempt \in 0 .. 2
      BY CallPolicies DEF Local, ProperCall, Calls
    <3> QED BY <1>2, <3>1 DEF LastAttempt
  <2>3. call' \in Calls
    BY <2>1, <2>2 DEF Local, ProperCall, Calls
  <2>4. call'.late = call.late /\ call'.policy = call.policy /\ call'.fastForward = call.fastForward
    BY <2>1 DEF Local, ProperCall, Calls
  <2> QED BY <2>1, <2>3, <2>4 DEF Local, ProperCall
<1> QED BY <1>1, <1>2

LEMMA BeginPresentKept == ASSUME IInv, BeginPresent PROVE Kept
<1>1. /\ pc = "idle" /\ pc' = "plan"
      /\ UNCHANGED <<fastForwardActive, transitionDue, rendererVars>>
  BY DEF BeginPresent
<1>2. lastFastForward' \in BOOLEAN /\ fastForwardActive \in BOOLEAN
  BY DEF BeginPresent, IInv, Local
<1>3. [QueueCall]_Queue!vars /\ pendingPresentFrame' = NoFrame
  <2>1. pendingPresentFrame = NoFrame
    BY <1>1 DEF IInv, Settled, Holding
  <2> QED BY <2>1, TransitionEffect, QueueStands DEF BeginPresent
<1>4. ProperCall(call')
  <2>1. PICK late \in BOOLEAN :
          call' = [Idle EXCEPT !.fastForward = fastForwardActive,
                               !.late = late /\ ~fastForwardActive]
    BY DEF BeginPresent
  <2>2. Idle \in Calls /\ ~Idle.policy.drop
    BY IdleIsProper, ChosenPolicies DEF ProperCall, Idle
  <2>3. call' \in Calls
    BY <1>2, <2>1, <2>2 DEF Calls
  <2>4. /\ call'.late = (late /\ ~fastForwardActive)
        /\ call'.fastForward = fastForwardActive /\ call'.policy = Idle.policy
    BY <2>1, <2>2 DEF Calls
  <2> QED BY <2>2, <2>3, <2>4 DEF ProperCall
<1>5. Local'
  BY <1>1, <1>2, <1>4 DEF IInv, Local, rendererVars, Places, Holding
<1>6. Settled'
  BY <1>3 DEF Settled
<1> QED BY <1>3, <1>5, <1>6 DEF Kept

LEMMA PlanPresentKept == ASSUME IInv, PlanPresent PROVE Kept
<1>1. /\ pc = "plan" /\ pc' = "choose"
      /\ UNCHANGED <<queueVars, gpuVars, fastForwardVars, rendererVars, historyVars>>
  BY DEF PlanPresent
<1>2. PICK temporal \in Temporal :
        call' = [call EXCEPT
                   !.temporal = temporal,
                   !.policy = ConstrainGraphicsHardware(
                                 IF call.late THEN VulkanLateRealtimeFrameQueuePolicy(Scale)
                                 ELSE VulkanFrameQueuePolicy(fastForwardActive, Scale),
                                 TRUE, fastForwardActive, temporal)]
  BY DEF PlanPresent
<1> DEFINE policy == ConstrainGraphicsHardware(
                        IF call.late THEN VulkanLateRealtimeFrameQueuePolicy(Scale)
                        ELSE VulkanFrameQueuePolicy(fastForwardActive, Scale),
                        TRUE, fastForwardActive, temporal)
<1>3. policy \in BasePolicies /\ (policy.drop => call.late)
  <2>1. temporal \in BOOLEAN /\ fastForwardActive \in BOOLEAN
    BY DEF Temporal, IInv, Local
  <2> QED BY <2>1, ChosenPolicies
<1>4. call' = [call EXCEPT !.temporal = temporal, !.policy = policy]
  BY <1>2
<1> HIDE DEF policy
<1>5. call \in Calls /\ temporal \in BOOLEAN /\ (call.late => ~call.fastForward)
  BY DEF IInv, Local, ProperCall, Temporal
<1>6. /\ call' \in Calls /\ call'.late = call.late
      /\ call'.fastForward = call.fastForward /\ call'.policy = policy
  BY <1>3, <1>4, <1>5 DEF Calls
<1>7. ProperCall(call')
  BY <1>3, <1>5, <1>6 DEF ProperCall
<1>8. Local'
  BY <1>1, <1>7 DEF IInv, Local, fastForwardVars, rendererVars, Places, Holding
<1>9. Settled'
  BY <1>1 DEF IInv, Settled, queueVars, Holding
<1> QED BY <1>1, <1>8, <1>9, QueueStands DEF Kept

\* Another frame in a call's record.
LEMMA HoldFacts ==
    ASSUME Local, NEW f \in Frames \cup {NoFrame}, call' = [call EXCEPT !.frame = f]
    PROVE  ProperCall(call') /\ call'.frame = f
  BY DEF Local, ProperCall, Calls

LEMMA ChooseCandidateKept == ASSUME IInv, ChooseCandidate PROVE Kept
<1>1. UNCHANGED <<gpuVars, fastForwardVars, rendererVars, historyVars>>
  BY DEF ChooseCandidate
<1>2. PICK f \in Frames \cup {NoFrame} :
        /\ Queue!GetPresentCandidate(CandidatePolicy, f)
        /\ \/ f # NoFrame /\ pc' = "examine" /\ call' = [call EXCEPT !.frame = f]
           \/ f = NoFrame /\ pc' = "fallback" /\ UNCHANGED call
           \/ f = NoFrame /\ Return
  BY DEF ChooseCandidate
<1>3. CandidatePolicy \in BasePolicies \cup Preserving(BasePolicies)
  BY CallPolicies DEF IInv
<1>4. /\ [QueueCall]_Queue!vars
      /\ f = NoFrame => pendingPresentFrame' = NoFrame
      /\ f # NoFrame => pendingPresentFrame' \in {f, NoFrame}
  BY <1>2, <1>3, CandidateEffect DEF IInv
<1>5. /\ pc' \in Places /\ ProperCall(call')
      /\ f = NoFrame => pc' \notin Holding
      /\ f # NoFrame => pc' = "examine" /\ call'.frame = f
  BY <1>2, HoldFacts, ReturnFacts DEF IInv, Local, Places, Holding
<1>6. Local'
  BY <1>1, <1>5 DEF IInv, Local, fastForwardVars, rendererVars
<1>7. Settled'
  BY <1>4, <1>5 DEF Settled, Holding
<1> QED BY <1>4, <1>6, <1>7 DEF Kept

LEMMA FallBackKept == ASSUME IInv, FallBack PROVE Kept
<1>1. /\ pc = "fallback"
      /\ UNCHANGED <<queueVars, gpuVars, fastForwardActive, transitionDue,
                     lastFastForward, rendererVars, historyVars>>
  BY DEF FallBack
<1>2. \/ /\ pc' \in {"examine", "show"}
         /\ call' = [call EXCEPT !.frame = previousFrame]
         /\ previousFrame # NoFrame
      \/ Return
  BY DEF FallBack, Queue!Reusable, NoFrame
<1>3. previousFrame \in Frames \cup {NoFrame}
  BY QueueFacts DEF IInv
<1>4. pc' \in Places /\ ProperCall(call') /\ (pc' \in Holding => call'.frame # NoFrame)
  BY <1>2, <1>3, HoldFacts, ReturnFacts DEF IInv, Places, Holding
<1>5. Local'
  BY <1>1, <1>4 DEF IInv, Local, rendererVars
<1>6. pendingPresentFrame' = NoFrame
  BY <1>1 DEF IInv, Settled, queueVars, Holding
<1> QED BY <1>1, <1>5, <1>6, QueueStands DEF Kept, Settled

LEMMA ExamineFrameKept == ASSUME IInv, ExamineFrame PROVE Kept
<1>1. pc = "examine" /\ UNCHANGED <<gpuVars, fastForwardVars, rendererVars, historyVars>>
  BY DEF ExamineFrame
<1>2. /\ call.frame \in Frames
      /\ {CandidatePolicy, DeferPolicy} \subseteq BasePolicies \cup Preserving(BasePolicies)
  BY <1>1, CallPolicies DEF IInv, Local, ProperCall, Calls, Holding
<1>3. CASE \E p \in {CandidatePolicy, DeferPolicy} :
             /\ Queue!DeferPresentedFrame(p, call.frame)
             /\ NextAttempt \/ (pc' = "fallback" /\ UNCHANGED call)
  <2>1. [QueueCall]_Queue!vars /\ pendingPresentFrame' = NoFrame
    BY <1>1, <1>2, <1>3, DeferEffect DEF IInv, Settled
  <2>2. pc' \in {"idle", "choose", "fallback"} /\ ProperCall(call')
    BY <1>3, NextAttemptFacts DEF IInv, Local
  <2>3. Local'
    BY <1>1, <2>2 DEF IInv, Local, fastForwardVars, rendererVars, Places, Holding
  <2> QED BY <2>1, <2>3 DEF Kept, Settled
<1>4. CASE pc' = "show" /\ UNCHANGED <<queueVars, call>>
  <2>1. Local'
    BY <1>1, <1>4 DEF IInv, Local, fastForwardVars, rendererVars, Places, Holding
  <2>2. Settled'
    BY <1>4 DEF IInv, Settled, queueVars, Holding
  <2> QED BY <1>4, <2>1, <2>2, QueueStands DEF Kept
<1>5. \/ Queue!DeferPresentedFrame(CandidatePolicy, call.frame) /\ NextAttempt
      \/ /\ Queue!DeferPresentedFrame(DeferPolicy, call.frame)
         /\ NextAttempt \/ (pc' = "fallback" /\ UNCHANGED call)
      \/ pc' = "show" /\ UNCHANGED <<queueVars, call>>
  BY DEF ExamineFrame
<1>6. CandidatePolicy \in {CandidatePolicy, DeferPolicy} /\ DeferPolicy \in {CandidatePolicy, DeferPolicy}
  OBVIOUS
<1> QED BY Zenon, <1>3, <1>4, <1>5, <1>6

\* The frame is put on screen, or there is no screen.
LEMMA ShowKept == ASSUME IInv, PresentFrame \/ PresentToNobody PROVE Kept
<1>1. /\ pc = "show" /\ pc' = "commit"
      /\ UNCHANGED <<queueVars, gpuVars, fastForwardVars, rendererVars, call>>
  BY DEF PresentFrame, PresentToNobody
<1>2. Local'
  BY <1>1 DEF IInv, Local, fastForwardVars, rendererVars, Places, Holding
<1>3. Settled'
  BY <1>1 DEF IInv, Settled, queueVars, Holding
<1> QED BY <1>1, <1>2, <1>3, QueueStands DEF Kept

LEMMA PresentFailsKept == ASSUME IInv, PresentFails PROVE Kept
<1>1. /\ pc = "show"
      /\ Queue!DeferPresentedFrame(DeferPolicy, call.frame)
      /\ NextAttempt \/ Return
      /\ UNCHANGED <<fastForwardVars, rendererVars, historyVars>>
  BY DEF PresentFails
<1>2. call.frame \in Frames /\ DeferPolicy \in BasePolicies \cup Preserving(BasePolicies)
  BY <1>1, CallPolicies DEF IInv, Local, ProperCall, Calls, Holding
<1>3. [QueueCall]_Queue!vars /\ pendingPresentFrame' = NoFrame
  BY <1>1, <1>2, DeferEffect DEF IInv, Settled
<1>4. pc' \in {"idle", "choose"} /\ ProperCall(call')
  BY <1>1, NextAttemptFacts, ReturnFacts DEF IInv
<1>5. Local'
  BY <1>1, <1>4 DEF IInv, Local, fastForwardVars, rendererVars, Places, Holding
<1> QED BY <1>3, <1>5 DEF Kept, Settled

LEMMA CommitFrameKept == ASSUME IInv, CommitFrame PROVE Kept
<1>1. /\ pc = "commit" /\ Return
      /\ \E p \in {CandidatePolicy, call.policy} : Queue!CommitPresentedFrame(p, call.frame)
      /\ UNCHANGED <<gpuVars, fastForwardVars, rendererVars, historyVars>>
  BY DEF CommitFrame
<1>2. /\ call.frame \in Frames
      /\ {CandidatePolicy, call.policy} \subseteq BasePolicies \cup Preserving(BasePolicies)
  BY <1>1, CallPolicies DEF IInv, Local, ProperCall, Calls, Holding
<1>3. [QueueCall]_Queue!vars /\ pendingPresentFrame' = NoFrame
  BY <1>1, <1>2, CommitEffect DEF IInv, Settled
<1>4. Local'
  BY <1>1, ReturnFacts DEF IInv, Local, fastForwardVars, rendererVars, Places, Holding
<1> QED BY <1>3, <1>4 DEF Kept, Settled

LEMMA ResyncKept == ASSUME IInv, NEW thread \in ResyncThreads, Resync(thread) PROVE Kept
<1>1. /\ Queue!RequestPresentationResync
      /\ lastFastForward' = fastForwardActive
      /\ UNCHANGED <<gpuVars, fastForwardActive, transitionDue, rendererVars, callVars, shown>>
  BY DEF Resync
<1>2. Local'
  BY <1>1 DEF IInv, Local, rendererVars, callVars
<1> QED BY <1>1, <1>2, ResyncEffect DEF Kept, Settled

\* The switch of fast-forward, and what remains of it.
LEMMA SetFastForwardEnabledKept ==
    ASSUME IInv, NEW enabled \in BOOLEAN, SetFastForwardEnabled(enabled) PROVE Kept
<1>1. /\ fastForwardActive' = enabled
      /\ transitionDue' = (fastForwardActive /\ ~enabled)
      /\ UNCHANGED <<queueVars, gpuVars, lastFastForward, fallbackFrames,
                     rendererVars, callVars, historyVars>>
  BY DEF SetFastForwardEnabled
<1>2. Local'
  BY <1>1 DEF IInv, Local, rendererVars, callVars
<1>3. Settled'
  BY <1>1 DEF IInv, Settled, queueVars, callVars
<1> QED BY <1>1, <1>2, <1>3, QueueStands DEF Kept

LEMMA FinishDisableKept == ASSUME IInv, FinishDisable PROVE Kept
<1>1. /\ Queue!RequestFastForwardPresentationTransition
      /\ transitionDue' = FALSE
      /\ UNCHANGED <<gpuVars, fastForwardActive, lastFastForward, fallbackFrames,
                     rendererVars, callVars, historyVars>>
  BY DEF FinishDisable
<1>2. Local'
  BY <1>1 DEF IInv, Local, rendererVars, callVars
<1> QED BY <1>1, <1>2, TransitionEffect DEF Kept, Settled

LEMMA NextKept == IInv /\ [Next]_vars => Kept
<1> SUFFICES ASSUME IInv, [Next]_vars PROVE Kept
  OBVIOUS
<1>1. CASE Renderer
  BY <1>1, BeginFrameKept, AcquireRenderFrameKept, RecycleCandidateKept, EndFrameKept
     DEF Renderer
<1>2. CASE Presenter
  BY <1>2, BeginPresentKept, PlanPresentKept, ChooseCandidateKept, FallBackKept,
     ExamineFrameKept, CommitFrameKept, ShowKept, PresentFailsKept DEF Presenter, PresentStep
<1>3. CASE UNCHANGED vars
  <2>1. Local' /\ Settled'
    BY <1>3 DEF vars, IInv, Local, Settled, queueVars, fastForwardVars, rendererVars, callVars
  <2> QED BY <1>3, <2>1, QueueStands DEF vars, Kept
<1> QED BY <1>1, <1>2, <1>3, GpuFinishesKept, ResyncKept, SetFastForwardEnabledKept,
           FinishDisableKept DEF Next

LEMMA NextIInv == IInv /\ [Next]_vars => IInv'
  BY NextKept, QueueCallIsNext, QueueStepIInv DEF Kept, IInv

LEMMA SpecIInv == Spec => []IInv
  BY InitIInv, NextIInv, PTL DEF Spec

-----------------------------------------------------------------------------
(* The theorems.                                                           *)

\* The two threads use the queue within its specification, so all that
\* FrameQueueProofs proves holds of it here.
THEOREM SpecImplementsFrameQueue == Spec => ImplementsFrameQueue
<1>1. Init => Queue!Init
  BY DEF Init
<1>2. IInv /\ [Next]_vars => [Queue!Next]_Queue!vars
  BY NextKept, QueueCallIsNext DEF Kept
<1> QED BY <1>1, <1>2, SpecIInv, PTL DEF Spec, ImplementsFrameQueue, Queue!Spec

\* Every way out of presentVulkanFrame settles the candidate it took.
THEOREM SpecNoCandidatePinned == Spec => []NoCandidatePinned
<1>1. IInv => NoCandidatePinned
  BY DEF IInv, Settled, NoCandidatePinned, Holding
<1> QED BY <1>1, SpecIInv, PTL

\* No getRenderFrame of the Vulkan renderer is refused, once the pool has two
\* frames more than the deepest backlog, the frame shown and the frame rendered
\* need (the pool of FrameQueue.h has nine).
THEOREM SpecRendererIsServed ==
    FRAME_QUEUE_SIZE >= 5 => (Spec => [](renderFrame = NoFrame => freeQueue # <<>>))
<1> SUFFICES ASSUME FRAME_QUEUE_SIZE >= 5
             PROVE  Spec => [](renderFrame = NoFrame => freeQueue # <<>>)
  OBVIOUS
<1>1. Init => Proved!Init
  BY QueueInit DEF Init
<1>2. IInv /\ [Next]_vars => [Proved!Next]_Proved!vars
  BY NextKept, QueueCallIsNext, QueueNext DEF Kept, Queue!vars, Proved!vars
<1>3. Proved!VulkanRendererNeverStarves => (renderFrame = NoFrame => freeQueue # <<>>)
  <2>1. Proved!AllWithin(2)
    <3> SUFFICES ASSUME NEW p \in BasePolicies \cup Preserving(BasePolicies)
                 PROVE  ~p.legacy /\ Proved!SanitizedDepth(p) <= 2
      BY DEF Proved!AllWithin
    <3>1. p.depth \in 1 .. 2 /\ ~p.legacy
      BY PoliciesFacts
    <3>2. FRAME_QUEUE_SIZE \in Nat
      BY QueueAssumption
    <3> QED BY <3>1, <3>2 DEF Proved!SanitizedDepth
  <2>2. 2 \in 1 .. FRAME_QUEUE_SIZE - 3
    BY QueueAssumption
  <2> QED BY <2>1, <2>2 DEF Proved!VulkanRendererNeverStarves, Proved!NoFrame, NoFrame, Queue!NoFrame
<1>4. Proved!Spec => []Proved!VulkanRendererNeverStarves
  BY QueueAssumptions, Proved!SpecVulkanRendererNeverStarves
<1> QED BY <1>1, <1>2, <1>3, <1>4, SpecIInv, PTL DEF Spec, Proved!Spec

\* In a pool of three frames or more that has run dry, a renderer in fast-forward has a
\* queued frame to take back, whatever the presentation holds of it.
THEOREM SpecStealingRendererIsServed == Spec => []StealingRendererIsServed
<1>1. Init => Proved!Init
  BY QueueInit DEF Init
<1>2. IInv /\ [Next]_vars => [Proved!Next]_Proved!vars
  BY NextKept, QueueCallIsNext, QueueNext DEF Kept, Queue!vars, Proved!vars
<1>3. Proved!StealingRendererNeverStarves => StealingRendererIsServed
  BY DEF StealingRendererIsServed, Queue!StealingRendererNeverStarves,
         Proved!StealingRendererNeverStarves, Queue!RenderFrameUnavailable,
         Proved!RenderFrameUnavailable, Queue!NoFrame, Proved!NoFrame
<1>4. Proved!Spec => []Proved!StealingRendererNeverStarves
  BY QueueAssumptions, Proved!SpecStealingRendererNeverStarves
<1> QED BY <1>1, <1>2, <1>3, <1>4, SpecIInv, PTL DEF Spec, Proved!Spec

-----------------------------------------------------------------------------
(* While only the presenter resyncs, between its calls.                    *)

OnlyPresenterResyncs == "other" \notin ResyncThreads

\* The frame a call holds is the candidate, or the frame shown before.
Held == pc \in Holding => call.frame \in {pendingPresentFrame, previousFrame}

LEMMA NextHeld ==
    ASSUME OnlyPresenterResyncs, FastForwardToggles # "any time", IInv, Held, [Next]_vars
    PROVE  Held'
<1>1. ASSUME UNCHANGED <<previousFrame, pendingPresentFrame, pc, call>> PROVE Held'
  BY <1>1 DEF Held
<1>2. ASSUME pc' \notin Holding PROVE Held'
  BY <1>2 DEF Held
<1>3. CASE Renderer
  <2>1. /\ UNCHANGED callVars
        /\ \/ \E p \in BasePolicies, f \in Frames :
                 \/ Queue!GetRenderFrame(p, f) \/ Queue!RecycleRenderFrame(f)
                 \/ Queue!DiscardRenderedFrame(f) \/ Queue!PushRenderedFrame(p, f)
           \/ UNCHANGED queueVars
    BY <1>3 DEF Renderer, BeginFrame, AcquireRenderFrame, RecycleCandidate, EndFrame, IInv, Local
  <2> QED BY <1>1, <2>1, RendererEffect, QueueStands DEF callVars
<1>4. CASE BeginPresent \/ PlanPresent \/ CommitFrame \/ PresentFails
  <2>1. pc' \in {"plan", "choose", "idle"}
    BY <1>4, NextAttemptFacts, ReturnFacts
       DEF BeginPresent, PlanPresent, CommitFrame, PresentFails, IInv
  <2> QED BY <1>2, <2>1 DEF Holding
<1>5. CASE ChooseCandidate
  <2>1. PICK f \in Frames \cup {NoFrame} :
          /\ Queue!GetPresentCandidate(CandidatePolicy, f)
          /\ \/ f # NoFrame /\ pc' = "examine" /\ call' = [call EXCEPT !.frame = f]
             \/ pc' = "fallback"
             \/ Return
    BY <1>5 DEF ChooseCandidate
  <2>2. f # NoFrame => f \in {pendingPresentFrame', previousFrame'}
    BY <2>1, CandidateEffect, CallPolicies DEF IInv
  <2> QED BY <2>1, <2>2, HoldFacts, ReturnFacts DEF Held, IInv, Holding
<1>6. CASE FallBack
  <2>1. /\ UNCHANGED previousFrame
        /\ call' = [call EXCEPT !.frame = previousFrame] \/ Return
    BY <1>6 DEF FallBack, Queue!Reusable, NoFrame, queueVars
  <2>2. previousFrame \in Frames \cup {NoFrame}
    BY QueueFacts DEF IInv
  <2> QED BY <1>2, <2>1, <2>2, HoldFacts, ReturnFacts DEF Held, IInv, Holding
<1>7. CASE ExamineFrame
  <2>1. \/ NextAttempt \/ pc' = "fallback"
        \/ pc = "examine" /\ UNCHANGED <<queueVars, call>>
    BY <1>7 DEF ExamineFrame
  <2>2. ASSUME pc = "examine", UNCHANGED <<queueVars, call>> PROVE Held'
    BY <2>2, QueueStands DEF Held, Holding
  <2> QED BY <1>2, <2>1, <2>2, NextAttemptFacts DEF IInv, Holding
<1>8. CASE PresentFrame \/ PresentToNobody
  BY <1>8, QueueStands DEF PresentFrame, PresentToNobody, Held, Holding
<1>9. CASE GpuFinishes \/ UNCHANGED vars \/ \E on \in BOOLEAN : SetFastForwardEnabled(on)
  BY <1>1, <1>9, QueueStands DEF GpuFinishes, vars, SetFastForwardEnabled, callVars
<1>10. CASE FinishDisable \/ \E thread \in ResyncThreads : Resync(thread)
  <2>1. pc = "idle" /\ UNCHANGED callVars
    BY <1>10, PresentationAssumption
       DEF FinishDisable, Resync, MaySwitch, OnlyPresenterResyncs
  <2> QED BY <1>2, <2>1 DEF callVars, Holding
<1> QED BY <1>3, <1>4, <1>5, <1>6, <1>7, <1>8, <1>9, <1>10 DEF Next, Presenter, PresentStep

\* The emulator thread never renders into the frame being put on screen, if no
\* other thread takes that frame from the presentation thread.
THEOREM SpecNoTornFrame ==
    OnlyPresenterResyncs /\ FastForwardToggles # "any time" => (Spec => []NoTornFrame)
<1> SUFFICES ASSUME OnlyPresenterResyncs, FastForwardToggles # "any time"
             PROVE  Spec => []NoTornFrame
  OBVIOUS
<1>1. Init => Held
  BY DEF Init, Held, Holding
<1>2. IInv /\ Held /\ [Next]_vars => Held'
  BY NextHeld
<1>3. IInv /\ Held => NoTornFrame
  <2> SUFFICES ASSUME IInv, Held, pc \in {"show", "commit"} PROVE call.frame # renderFrame
    BY DEF NoTornFrame
  <2>1. call.frame \in {pendingPresentFrame, previousFrame} \ {NoFrame}
    BY DEF Held, IInv, Local, Holding
  <2> QED BY <2>1, QueueFacts DEF IInv
<1> QED BY <1>1, <1>2, <1>3, SpecIInv, PTL DEF Spec

-----------------------------------------------------------------------------
(* The frames that may yet be shown.                                       *)

Live == (Range(presentQueue) \cup {previousFrame, pendingPresentFrame, renderFrame}) \ {NoFrame}

\* A frame becomes one of them only when it is handed to the renderer.
Acquired(f) ==
    /\ f \in Frames /\ Live' \subseteq Live \cup {f}
    /\ acquiredAt' = [acquiredAt EXCEPT ![f] = nextFrameId]
    /\ nextFrameId' = nextFrameId + 1
NoneAcquired == Live' \subseteq Live /\ UNCHANGED <<nextFrameId, acquiredAt>>

\* Trimming keeps frames that were there.
LEMMA TrimmedRange ==
    ASSUME NEW q \in Seq(Frames), NEW depth \in Nat
    PROVE  Queue!Kept(q, depth) \in Seq(Frames) /\ Range(Queue!Kept(q, depth)) \subseteq Range(q)
<1>1. Frames = Proved!Frames
  BY DEF Frames, Queue!Frames, Proved!Frames
<1>2. Queue!Kept(q, depth) = Proved!Kept(q, depth)
  BY DEF Queue!Kept, Proved!Kept
<1>3. /\ Proved!Kept(q, depth) \in Seq(Frames)
      /\ Proved!Range(q) = Proved!Range(Proved!Kept(q, depth))
                              \cup Proved!Range(Proved!Trimmed(q, depth))
  BY <1>1, QueueAssumptions, Proved!TrimFacts
<1>4. \A t : Proved!Range(t) = Range(t)
  BY DEF Proved!Range, Range
<1> QED BY <1>2, <1>3, <1>4

LEMMA RendererLive ==
    ASSUME IInv, NEW p \in BasePolicies \cup Preserving(BasePolicies), NEW f \in Frames,
           Queue!RendererCall(p, f)
    PROVE  Acquired(f) \/ NoneAcquired
<1>1. presentQueue \in Seq(Frames) /\ f # NoFrame
  BY QueueFacts DEF IInv
<1>2. CASE Queue!GetRenderFrame(p, f)
  <2>1. Range(presentQueue') \subseteq Range(presentQueue)
    <3>1. CASE UNCHANGED presentQueue
      BY <3>1
    <3>2. CASE presentQueue # <<>> /\ presentQueue' = Queue!Front(presentQueue)
      <4>1. Queue!Front(presentQueue) = Front(presentQueue)
        BY DEF Queue!Front, Front
      <4> QED BY <1>1, <3>2, <4>1, FrontLastOfInjective
    <3> QED BY <1>2, <3>1, <3>2 DEF Queue!GetRenderFrame
  <2>2. /\ renderFrame' = f /\ UNCHANGED <<previousFrame, pendingPresentFrame>>
        /\ acquiredAt' = [acquiredAt EXCEPT ![f] = nextFrameId]
        /\ nextFrameId' = nextFrameId + 1
    BY <1>2 DEF Queue!GetRenderFrame
  <2> QED BY <2>1, <2>2 DEF Acquired, Live
<1>3. CASE Queue!RecycleRenderFrame(f) \/ Queue!DiscardRenderedFrame(f)
  <2>1. /\ renderFrame' = NoFrame
        /\ UNCHANGED <<presentQueue, previousFrame, pendingPresentFrame, nextFrameId, acquiredAt>>
    BY <1>3 DEF Queue!RecycleRenderFrame, Queue!DiscardRenderedFrame, NoFrame
  <2> QED BY <2>1 DEF NoneAcquired, Live
<1>4. CASE Queue!PushRenderedFrame(p, f)
  <2>1. /\ f = renderFrame /\ renderFrame' = NoFrame
        /\ UNCHANGED <<previousFrame, pendingPresentFrame, nextFrameId, acquiredAt>>
    BY <1>4 DEF Queue!PushRenderedFrame, NoFrame
  <2>2. PICK kept \in Seq(Frames) :
          Range(kept) \subseteq Range(presentQueue) /\ presentQueue' = <<f>> \o kept
    <3> DEFINE depth == Queue!SanitizedDepth(p) - 1
    <3>1. ~p.legacy /\ p.depth \in 1 .. 2
      BY PoliciesFacts
    <3>2. presentQueue' = <<f>> \o Queue!Kept(presentQueue, depth)
      BY <1>4, <3>1 DEF Queue!PushRenderedFrame
    <3>3. depth \in Nat
      BY <3>1, QueueAssumption DEF Queue!SanitizedDepth
    <3> HIDE DEF depth
    <3>4. /\ Queue!Kept(presentQueue, depth) \in Seq(Frames)
          /\ Range(Queue!Kept(presentQueue, depth)) \subseteq Range(presentQueue)
      BY <1>1, <3>3, TrimmedRange
    <3> QED BY <3>2, <3>4
  <2>3. Range(presentQueue') = Range(kept) \cup {f}
    BY <2>2, ConsOfInjective
  <2> QED BY <2>1, <2>2, <2>3 DEF NoneAcquired, Live
<1> QED BY <1>2, <1>3, <1>4 DEF Queue!RendererCall

LEMMA CandidateLive ==
    ASSUME IInv, NEW p, NEW f, Queue!GetPresentCandidate(p, f)
    PROVE  NoneAcquired
<1>1. CASE UNCHANGED Queue!vars
  BY <1>1 DEF Queue!vars, NoneAcquired, Live
<1>2. CASE /\ presentQueue # <<>>
           /\ f = Head(presentQueue)
           /\ pendingPresentFrame' = f
           /\ presentQueue' = Tail(presentQueue) \/ presentQueue' = <<>>
           /\ UNCHANGED <<previousFrame, renderFrame, nextFrameId, acquiredAt>>
  <2>1. Range(presentQueue) = Range(Tail(presentQueue)) \cup {f}
    BY <1>2, QueueFacts, HeadTailOfInjective DEF IInv
  <2>2. Range(presentQueue') \subseteq Range(presentQueue)
    BY <1>2, <2>1, EmptySequence
  <2> QED BY <1>2, <2>1, <2>2 DEF NoneAcquired, Live
<1> QED BY <1>1, <1>2 DEF Queue!GetPresentCandidate

LEMMA DeferLive ==
    ASSUME IInv, NEW p, NEW f \in Frames, Queue!DeferPresentedFrame(p, f)
    PROVE  NoneAcquired
<1>1. CASE f = pendingPresentFrame
  <2>1. /\ pendingPresentFrame' = NoFrame
        /\ presentQueue' = presentQueue \/ presentQueue' = Append(presentQueue, f)
        /\ UNCHANGED <<previousFrame, renderFrame, nextFrameId, acquiredAt>>
    BY <1>1 DEF Queue!DeferPresentedFrame, NoFrame
  <2>2. Range(Append(presentQueue, f)) = Range(presentQueue) \cup {f}
    BY QueueFacts, AppendOfInjective DEF IInv
  <2> QED BY <1>1, <2>1, <2>2, QueueFacts DEF NoneAcquired, Live, IInv
<1>2. CASE f # pendingPresentFrame
  BY <1>2 DEF Queue!DeferPresentedFrame, NoneAcquired, Live
<1> QED BY <1>1, <1>2

LEMMA CommitLive ==
    ASSUME IInv, NEW p \in BasePolicies \cup Preserving(BasePolicies), NEW f \in Frames,
           Queue!CommitPresentedFrame(p, f)
    PROVE  NoneAcquired
<1>1. CASE f = pendingPresentFrame
  <2> DEFINE depth == IF p.preserve THEN Queue!SanitizedDepth(p) ELSE 0
  <2>1. /\ pendingPresentFrame' = NoFrame /\ previousFrame' = f
        /\ presentQueue' = Queue!Kept(presentQueue, depth)
        /\ UNCHANGED <<renderFrame, nextFrameId, acquiredAt>>
    BY <1>1 DEF Queue!CommitPresentedFrame, NoFrame
  <2>2. depth \in Nat
    <3>1. p.depth \in 1 .. 2
      BY PoliciesFacts
    <3> QED BY <3>1, QueueAssumption DEF Queue!SanitizedDepth
  <2> HIDE DEF depth
  <2>3. Range(presentQueue') \subseteq Range(presentQueue)
    BY <2>1, <2>2, QueueFacts, TrimmedRange DEF IInv
  <2> QED BY <1>1, <2>1, <2>3 DEF NoneAcquired, Live
<1>2. CASE f # pendingPresentFrame
  BY <1>2 DEF Queue!CommitPresentedFrame, NoneAcquired, Live
<1> QED BY <1>1, <1>2

\* A resync leaves the frame being rendered; a transition also the one shown.
LEMMA GivenUpLive ==
    ASSUME \/ Queue!RequestPresentationResync
           \/ Queue!RequestFastForwardPresentationTransition
    PROVE  /\ NoneAcquired /\ UNCHANGED renderFrame
           /\ Queue!RequestPresentationResync => Live' \subseteq {renderFrame} \ {NoFrame}
<1>1. /\ presentQueue' = <<>> /\ pendingPresentFrame' = NoFrame
      /\ previousFrame' \in {previousFrame, NoFrame}
      /\ Queue!RequestPresentationResync => previousFrame' = NoFrame
      /\ UNCHANGED <<renderFrame, nextFrameId, acquiredAt>>
  BY ResyncEffect, TransitionEffect
<1>2. Range(presentQueue') = {}
  BY <1>1, EmptySequence
<1> QED BY <1>1, <1>2 DEF NoneAcquired, Live

\* What may yet be shown, and what a call holds, was acquired after the last resync
\* let go of its frames.
Fresh ==
    /\ staleBefore \in Nat /\ staleBefore <= nextFrameId
    /\ \A f \in Frames : acquiredAt[f] <= nextFrameId
    /\ \A f \in Live : acquiredAt[f] >= staleBefore
    /\ pc \in Holding => acquiredAt[call.frame] >= staleBefore

LEMMA LiveFacts ==
    ASSUME IInv
    PROVE  /\ Live \subseteq Frames
           /\ nextFrameId \in Nat /\ acquiredAt \in [Frames -> Nat]
           /\ pc \in Holding => call.frame \in Frames
<1>1. Range(presentQueue) \subseteq Frames
  BY QueueFacts DEF IInv, Range
<1> QED BY <1>1, QueueFacts DEF IInv, Live, Local, ProperCall, Calls

\* A step that lets the call hold only what was live keeps it so.
LEMMA FreshStep ==
    ASSUME IInv, Fresh, UNCHANGED staleBefore,
           (\E f \in Frames : Acquired(f)) \/ NoneAcquired,
           pc' \in Holding => \/ call'.frame \in Live
                              \/ pc \in Holding /\ call'.frame = call.frame
    PROVE  Fresh'
<1>1. /\ Live \subseteq Frames /\ nextFrameId \in Nat /\ acquiredAt \in [Frames -> Nat]
      /\ pc \in Holding => call.frame \in Frames
      /\ staleBefore \in Nat
  BY LiveFacts DEF Fresh
<1>2. CASE NoneAcquired
  BY <1>1, <1>2 DEF Fresh, NoneAcquired
<1>3. ASSUME NEW f \in Frames, Acquired(f) PROVE Fresh'
  <2>1. \A g \in Frames : acquiredAt'[g] = IF g = f THEN nextFrameId ELSE acquiredAt[g]
    BY <1>1, <1>3 DEF Acquired
  <2>2. nextFrameId' = nextFrameId + 1 /\ Live' \subseteq Live \cup {f}
    BY <1>3 DEF Acquired
  <2>3. \A g \in Frames : acquiredAt[g] \in Nat
    BY <1>1
  <2>4. \A g \in Frames : acquiredAt'[g] <= nextFrameId'
    BY <1>1, <2>1, <2>2, <2>3 DEF Fresh
  <2>5. \A g \in Frames : acquiredAt[g] >= staleBefore => acquiredAt'[g] >= staleBefore
    BY <1>1, <2>1, <2>3 DEF Fresh
  <2>6. \A g \in Live' : acquiredAt'[g] >= staleBefore
    BY <1>1, <1>3, <2>1, <2>2, <2>5 DEF Fresh
  <2>7. pc' \in Holding => acquiredAt'[call'.frame] >= staleBefore
    BY <1>1, <2>5 DEF Fresh
  <2>8. staleBefore <= nextFrameId'
    BY <1>1, <2>2 DEF Fresh
  <2> QED BY <1>1, <2>4, <2>6, <2>7, <2>8 DEF Fresh
<1> QED BY <1>2, <1>3

LEMMA StandsLive == UNCHANGED queueVars => NoneAcquired
  BY QueueStands DEF NoneAcquired, Live

LEMMA NextFresh ==
    ASSUME OnlyPresenterResyncs, IInv, Fresh, [Next]_vars
    PROVE  Fresh'
<1>1. CASE Renderer
  <2>1. /\ UNCHANGED <<callVars, staleBefore>>
        /\ \/ \E p \in BasePolicies, f \in Frames : Queue!RendererCall(p, f)
           \/ UNCHANGED queueVars
    BY <1>1 DEF Renderer, BeginFrame, AcquireRenderFrame, RecycleCandidate, EndFrame,
                Queue!RendererCall, IInv, Local, historyVars
  <2> QED BY <2>1, RendererLive, StandsLive, FreshStep DEF callVars
<1>2. CASE BeginPresent \/ PlanPresent
  <2>1. pc' = "plan" \/ pc' = "choose"
    BY <1>2 DEF BeginPresent, PlanPresent
  <2>2. NoneAcquired /\ UNCHANGED staleBefore
    BY <1>2, GivenUpLive, StandsLive DEF BeginPresent, PlanPresent, historyVars
  <2> QED BY <2>1, <2>2, FreshStep DEF Holding
<1>3. CASE CommitFrame \/ PresentFails
  <2>1. pc' \in {"choose", "idle"} /\ UNCHANGED staleBefore
    BY <1>3, NextAttemptFacts, ReturnFacts DEF CommitFrame, PresentFails, IInv, historyVars
  <2>2. /\ call.frame \in Frames
        /\ {CandidatePolicy, call.policy} \subseteq BasePolicies \cup Preserving(BasePolicies)
    BY <1>3, LiveFacts, CallPolicies DEF CommitFrame, PresentFails, Holding, IInv
  <2>3. NoneAcquired
    BY <1>3, <2>2, CommitLive, DeferLive DEF CommitFrame, PresentFails
  <2> QED BY <2>1, <2>3, FreshStep DEF Holding
<1>4. CASE ChooseCandidate
  <2>1. PICK f \in Frames \cup {NoFrame} :
          /\ Queue!GetPresentCandidate(CandidatePolicy, f)
          /\ \/ f # NoFrame /\ pc' = "examine" /\ call' = [call EXCEPT !.frame = f]
             \/ pc' = "fallback"
             \/ Return
    BY <1>4 DEF ChooseCandidate
  <2>2. UNCHANGED staleBefore
    BY <1>4 DEF ChooseCandidate, historyVars
  <2>3. NoneAcquired
    BY <2>1, CandidateLive
  <2>4. f # NoFrame => f \in Live
    <3>1. f # NoFrame => f \in {pendingPresentFrame', previousFrame'}
      BY <2>1, CandidateEffect, CallPolicies DEF IInv
    <3> QED BY <2>3, <3>1 DEF NoneAcquired, Live
  <2>5. pc' \in Holding => call'.frame \in Live
    BY <2>1, <2>4, HoldFacts, ReturnFacts DEF IInv, Holding
  <2> QED BY <2>2, <2>3, <2>5, FreshStep
<1>5. CASE FallBack
  <2>1. /\ UNCHANGED <<queueVars, staleBefore>>
        /\ \/ call' = [call EXCEPT !.frame = previousFrame] /\ previousFrame # NoFrame
           \/ Return
    BY <1>5 DEF FallBack, Queue!Reusable, NoFrame, historyVars
  <2>2. previousFrame \in Frames \cup {NoFrame}
    BY QueueFacts DEF IInv
  <2>3. pc' \in Holding => call'.frame \in Live
    BY <2>1, <2>2, HoldFacts, ReturnFacts DEF IInv, Holding, Live
  <2> QED BY <2>1, <2>3, StandsLive, FreshStep
<1>6. CASE ExamineFrame
  <2>1. /\ UNCHANGED staleBefore
        /\ \/ /\ \E p : Queue!DeferPresentedFrame(p, call.frame)
              /\ NextAttempt \/ pc' = "fallback"
           \/ pc = "examine" /\ UNCHANGED <<queueVars, call>>
    BY <1>6 DEF ExamineFrame, historyVars
  <2>2. pc' \in Holding => pc \in Holding /\ call'.frame = call.frame
    BY <2>1, NextAttemptFacts DEF IInv, Holding
  <2>3. call.frame \in Frames
    BY <1>6, LiveFacts DEF ExamineFrame, Holding
  <2>4. NoneAcquired
    BY <2>1, <2>3, DeferLive, StandsLive
  <2> QED BY <2>1, <2>2, <2>4, FreshStep
<1>7. CASE PresentFrame \/ PresentToNobody
  <2>1. UNCHANGED <<queueVars, call, staleBefore>> /\ pc = "show"
    BY <1>7 DEF PresentFrame, PresentToNobody, historyVars
  <2> QED BY <2>1, StandsLive, FreshStep DEF Holding
<1>8. CASE GpuFinishes \/ UNCHANGED vars \/ \E on \in BOOLEAN : SetFastForwardEnabled(on)
  <2>1. UNCHANGED <<queueVars, pc, call, staleBefore>>
    BY <1>8 DEF GpuFinishes, vars, SetFastForwardEnabled, callVars, historyVars
  <2> QED BY <2>1, StandsLive, FreshStep
<1>9. CASE FinishDisable
  <2>1. NoneAcquired /\ UNCHANGED <<pc, call, staleBefore>>
    BY <1>9, GivenUpLive DEF FinishDisable, callVars, historyVars
  <2> QED BY <2>1, FreshStep
<1>10. CASE \E thread \in ResyncThreads : Resync(thread)
  <2>1. /\ Queue!RequestPresentationResync
        /\ pc = "idle" /\ UNCHANGED <<pc, call>>
        /\ staleBefore' = IF renderFrame = NoFrame THEN nextFrameId ELSE acquiredAt[renderFrame]
    BY <1>10, PresentationAssumption DEF Resync, OnlyPresenterResyncs, callVars
  <2>2. Live' \subseteq {renderFrame} \ {NoFrame} /\ UNCHANGED <<renderFrame, nextFrameId, acquiredAt>>
    BY <2>1, GivenUpLive DEF NoneAcquired
  <2>3. /\ nextFrameId \in Nat /\ acquiredAt \in [Frames -> Nat]
        /\ renderFrame \in Frames \cup {NoFrame}
    BY LiveFacts, QueueFacts DEF IInv
  <2>4. staleBefore' \in Nat /\ staleBefore' <= nextFrameId
    BY <2>1, <2>3 DEF Fresh
  <2>5. \A f \in Live' : f = renderFrame /\ renderFrame # NoFrame
    BY <2>2
  <2>6. \A f \in Live' : acquiredAt[f] >= staleBefore'
    BY <2>1, <2>3, <2>4, <2>5
  <2> QED BY <2>1, <2>2, <2>4, <2>6 DEF Fresh, Holding
<1> QED BY <1>1, <1>2, <1>3, <1>4, <1>5, <1>6, <1>7, <1>8, <1>9, <1>10
        DEF Next, Presenter, PresentStep

\* After a resync no frame rendered before it is put on screen, if the presentation
\* thread is the one that asks for it (with other threads it may be: section 6 of
\* the README).
THEOREM SpecNoFrameShownAcrossResync ==
    OnlyPresenterResyncs => (Spec => NoFrameShownAcrossResync)
<1> SUFFICES ASSUME OnlyPresenterResyncs PROVE Spec => NoFrameShownAcrossResync
  OBVIOUS
<1>1. Init => Fresh
  <2> SUFFICES ASSUME Init PROVE Fresh
    OBVIOUS
  <2>1. Range(presentQueue) = {}
    BY EmptySequence DEF Init, Queue!Init
  <2>2. Live = {}
    BY <2>1 DEF Init, Queue!Init, Live, NoFrame
  <2>3. \A f \in Frames : acquiredAt[f] = 0
    BY DEF Init, Queue!Init, Frames
  <2> QED BY <2>2, <2>3 DEF Init, Queue!Init, Fresh, Holding
<1>2. IInv /\ Fresh /\ [Next]_vars => Fresh'
  BY NextFresh
<1>3. Fresh => (PresentFrame => acquiredAt[call.frame] >= staleBefore)
  BY DEF PresentFrame, Fresh, Holding
<1> QED BY <1>1, <1>2, <1>3, SpecIInv, PTL DEF Spec, NoFrameShownAcrossResync

-----------------------------------------------------------------------------
(* The order of the pictures, on a device without temporal history, while  *)
(* fast-forward is switched between presentations only.                    *)

\* Then no backlog is kept behind a candidate, and none is dropped for a deadline.
Plain ==
    /\ ~call.temporal /\ ~call.policy.drop
    /\ pc = "plan" /\ call.late => ~fastForwardActive

\* The frames that come after the one shown, and how far their turn is.
Ahead == (Range(presentQueue) \cup {pendingPresentFrame, renderFrame}) \ {NoFrame}
InOrder ==
    /\ shown \in Nat /\ shown <= nextFrameId
    /\ \A f \in Frames : acquiredAt[f] <= nextFrameId
    /\ \A f \in Ahead : acquiredAt[f] >= shown
    /\ renderFrame # NoFrame => \A f \in Ahead : acquiredAt[f] <= acquiredAt[renderFrame]
    /\ pendingPresentFrame # NoFrame =>
          \A f \in Ahead : acquiredAt[f] >= acquiredAt[pendingPresentFrame]
    /\ previousFrame # NoFrame =>
          /\ \A f \in Ahead : acquiredAt[f] >= acquiredAt[previousFrame]
          /\ \/ acquiredAt[previousFrame] >= shown
             \/ pc = "commit" /\ call.frame = pendingPresentFrame

NoBacklogKept == ~TemporalDevice /\ FastForwardToggles # "any time"

LEMMA NextPlain ==
    ASSUME NoBacklogKept, IInv, Plain, [Next]_vars
    PROVE  Plain'
<1>1. ASSUME UNCHANGED call, pc' # "plan" \/ UNCHANGED <<pc, fastForwardActive>> PROVE Plain'
  BY <1>1 DEF Plain
<1>2. ASSUME Return PROVE Plain'
  <2>1. ~NoPolicy.drop
    BY ChosenPolicies
  <2> QED BY <1>2, <2>1 DEF Return, Plain, Idle
<1>3. ASSUME NextAttempt PROVE Plain'
  <2>1. CASE LastAttempt
    BY <1>2, <1>3, <2>1 DEF NextAttempt
  <2>2. CASE ~LastAttempt
    <3>1. pc' = "choose" /\ call' = [call EXCEPT !.attempt = @ + 1, !.frame = NoFrame]
      BY <1>3, <2>2 DEF NextAttempt
    <3>2. call'.temporal = call.temporal /\ call'.policy = call.policy
      BY <3>1 DEF IInv, Local, ProperCall, Calls
    <3> QED BY <3>1, <3>2 DEF Plain
  <2> QED BY <2>1, <2>2
<1>4. ASSUME NEW f \in Frames \cup {NoFrame}, call' = [call EXCEPT !.frame = f], pc' # "plan"
      PROVE  Plain'
  <2>1. call'.temporal = call.temporal /\ call'.policy = call.policy
    BY <1>4 DEF IInv, Local, ProperCall, Calls
  <2> QED BY <1>4, <2>1 DEF Plain
<1>5. CASE BeginPresent
  <2>1. PICK late \in BOOLEAN :
          call' = [Idle EXCEPT !.fastForward = fastForwardActive,
                               !.late = late /\ ~fastForwardActive]
    BY <1>5 DEF BeginPresent
  <2>2. /\ call'.temporal = FALSE /\ call'.policy = NoPolicy
        /\ call'.late => ~fastForwardActive
    BY <2>1 DEF Idle
  <2> QED BY <1>5, <2>2, ChosenPolicies DEF BeginPresent, Plain
<1>6. CASE PlanPresent
  <2> DEFINE policy == IF call.late THEN VulkanLateRealtimeFrameQueuePolicy(Scale)
                       ELSE VulkanFrameQueuePolicy(fastForwardActive, Scale)
  <2>1. PICK temporal \in Temporal :
          call' = [call EXCEPT
                     !.temporal = temporal,
                     !.policy = ConstrainGraphicsHardware(policy, TRUE, fastForwardActive, temporal)]
    BY <1>6 DEF PlanPresent
  <2>2. temporal = FALSE
    BY DEF Temporal, NoBacklogKept
  <2>3. /\ call'.temporal = FALSE
        /\ call'.policy = ConstrainGraphicsHardware(policy, TRUE, fastForwardActive, FALSE)
    BY <2>1, <2>2 DEF IInv, Local, ProperCall, Calls
  <2>4. fastForwardActive \in BOOLEAN
    BY DEF IInv, Local
  <2>5. ~ConstrainGraphicsHardware(policy, TRUE, fastForwardActive, FALSE).drop
    <3>1. CASE ~fastForwardActive
      BY <3>1 DEF ConstrainGraphicsHardware
    <3>2. CASE fastForwardActive
      <4>1. ~call.late
        BY <1>6, <3>2 DEF Plain, PlanPresent
      <4>2. policy = VulkanFrameQueuePolicy(fastForwardActive, Scale)
        BY <4>1
      <4> QED BY <2>4, <4>2, ChosenPolicies
    <3> QED BY <3>1, <3>2
  <2> QED BY <1>6, <2>3, <2>5 DEF PlanPresent, Plain
<1>7. CASE ChooseCandidate
  <2>1. PICK f \in Frames \cup {NoFrame} :
          \/ pc' = "examine" /\ call' = [call EXCEPT !.frame = f]
          \/ pc' = "fallback" /\ UNCHANGED call
          \/ Return
    BY <1>7 DEF ChooseCandidate
  <2> QED BY <1>1, <1>2, <1>4, <2>1
<1>8. CASE FallBack
  <2>1. \/ pc' \in {"examine", "show"} /\ call' = [call EXCEPT !.frame = previousFrame]
        \/ Return
    BY <1>8 DEF FallBack, Queue!Reusable, NoFrame
  <2>2. previousFrame \in Frames \cup {NoFrame}
    BY QueueFacts DEF IInv
  <2> QED BY <1>2, <1>4, <2>1, <2>2
<1>9. CASE ExamineFrame \/ PresentFails \/ CommitFrame
  <2>1. \/ NextAttempt \/ Return
        \/ UNCHANGED call /\ pc' \in {"fallback", "show"}
    BY <1>9 DEF ExamineFrame, PresentFails, CommitFrame
  <2> QED BY <1>1, <1>2, <1>3, <2>1
<1>10. CASE PresentFrame \/ PresentToNobody
  BY <1>1, <1>10 DEF PresentFrame, PresentToNobody
<1>11. CASE Renderer \/ GpuFinishes \/ UNCHANGED vars \/ FinishDisable
            \/ \E thread \in ResyncThreads : Resync(thread)
  <2>1. UNCHANGED <<call, pc, fastForwardActive>>
    BY <1>11 DEF Renderer, BeginFrame, AcquireRenderFrame, RecycleCandidate, EndFrame, GpuFinishes,
                 vars, FinishDisable, Resync, callVars, fastForwardVars
  <2> QED BY <1>1, <2>1
<1>12. CASE \E on \in BOOLEAN : SetFastForwardEnabled(on)
  <2>1. pc = "idle" /\ UNCHANGED <<pc, call>>
    BY <1>12, PresentationAssumption DEF SetFastForwardEnabled, MaySwitch, NoBacklogKept, callVars
  <2> QED BY <1>1, <2>1
<1> QED BY <1>5, <1>6, <1>7, <1>8, <1>9, <1>10, <1>11, <1>12 DEF Next, Presenter, PresentStep

LEMMA AheadFacts ==
    ASSUME IInv
    PROVE  /\ Ahead \subseteq Frames /\ Live = Ahead \cup ({previousFrame} \ {NoFrame})
           /\ previousFrame \notin Ahead
           /\ nextFrameId \in Nat /\ acquiredAt \in [Frames -> Nat]
           /\ pendingPresentFrame # NoFrame => pendingPresentFrame \in Ahead
           /\ renderFrame # NoFrame => renderFrame \in Ahead
           /\ previousFrame # NoFrame => previousFrame \in Frames
<1>1. Live = Ahead \cup ({previousFrame} \ {NoFrame})
  BY DEF Ahead, Live
<1>2. previousFrame # NoFrame => previousFrame \notin Range(presentQueue)
  <2>1. Proved!Pointers \cap Proved!Range(presentQueue) = {}
    BY DEF IInv, Proved!IInv, Proved!NoFrameShared
  <2>2. Proved!Range(presentQueue) = Range(presentQueue)
    BY DEF Proved!Range, Range
  <2>3. previousFrame # NoFrame => previousFrame \in Proved!Pointers
    BY DEF Proved!Pointers, Proved!NoFrame, NoFrame, Queue!NoFrame
  <2> QED BY <2>1, <2>2, <2>3
<1> QED BY <1>1, <1>2, LiveFacts, QueueFacts DEF Ahead, IInv

\* The frame shown before is not ahead, and the one rendered is no other's.
Apart ==
    /\ Ahead \subseteq Live /\ previousFrame \notin Ahead
    /\ renderFrame # NoFrame => renderFrame \notin {previousFrame, pendingPresentFrame}

LEMMA StaysApart == IInv' => Apart'
<1>1. IInv => Apart
  BY AheadFacts, QueueFacts DEF IInv, Apart
<1> QED BY <1>1, PTL

\* A step by which no frame is acquired and the frame shown before stays.
LEMMA NoneAhead ==
    ASSUME IInv, IInv', NoneAcquired, UNCHANGED previousFrame
    PROVE  Ahead' \subseteq Ahead
<1>1. Live' \subseteq Live /\ Ahead' \subseteq Live' /\ previousFrame \notin Ahead'
  BY StaysApart DEF Apart, NoneAcquired
<1>2. Live = Ahead \cup ({previousFrame} \ {NoFrame})
  BY AheadFacts
<1> QED BY <1>1, <1>2

\* Letting go of frames keeps the order.
LEMMA OrderOfFewer ==
    ASSUME InOrder, UNCHANGED <<shown, nextFrameId, acquiredAt>>, Ahead' \subseteq Ahead,
           previousFrame' = previousFrame \/ previousFrame' = NoFrame,
           pendingPresentFrame' = pendingPresentFrame \/ pendingPresentFrame' = NoFrame,
           renderFrame' = renderFrame \/ renderFrame' = NoFrame,
           pc # "commit" \/ UNCHANGED <<pc, call, pendingPresentFrame>>
    PROVE  InOrder'
  BY DEF InOrder

\* The renderer's calls: a frame that is acquired is the last in the order.
LEMMA RendererOrder ==
    ASSUME IInv, IInv', InOrder, NEW p \in BasePolicies \cup Preserving(BasePolicies),
           NEW f \in Frames, Queue!RendererCall(p, f), UNCHANGED <<shown, pc, call>>
    PROVE  InOrder'
<1>1. /\ Acquired(f) \/ NoneAcquired
      /\ UNCHANGED <<previousFrame, pendingPresentFrame>>
  BY RendererLive, RendererEffect DEF Queue!RendererCall
<1>2. CASE Queue!GetRenderFrame(p, f)
  <2>1. renderFrame' = f /\ nextFrameId' = nextFrameId + 1
    BY <1>2 DEF Queue!GetRenderFrame
  <2>2. /\ Ahead \subseteq Frames /\ nextFrameId \in Nat /\ acquiredAt \in [Frames -> Nat]
        /\ previousFrame # NoFrame => previousFrame \in Frames
        /\ pendingPresentFrame # NoFrame => pendingPresentFrame \in Frames
        /\ Live = Ahead \cup ({previousFrame} \ {NoFrame})
    BY AheadFacts
  <2>3. Acquired(f)
    BY <1>1, <2>1, <2>2 DEF NoneAcquired
  <2>4. f # NoFrame
    BY QueueFacts DEF IInv
  <2>5. /\ Ahead' \subseteq Live' /\ previousFrame' \notin Ahead'
        /\ previousFrame # NoFrame => previousFrame # f
        /\ pendingPresentFrame # NoFrame => pendingPresentFrame # f
    BY <1>1, <2>1, <2>4, StaysApart DEF Apart
  <2>6. Ahead' \subseteq Ahead \cup {f}
    BY <1>1, <2>2, <2>3, <2>5 DEF Acquired
  <2>7. \A g \in Frames : acquiredAt'[g] = IF g = f THEN nextFrameId ELSE acquiredAt[g]
    BY <2>2, <2>3 DEF Acquired
  <2>8. \A g \in Frames : acquiredAt[g] \in Nat
    BY <2>2
  <2>9. /\ shown' \in Nat /\ shown' <= nextFrameId /\ shown' <= nextFrameId'
        /\ \A g \in Frames : acquiredAt'[g] <= nextFrameId
    BY <2>1, <2>2, <2>7, <2>8 DEF InOrder
  <2>10. \A g \in Frames : acquiredAt'[g] <= nextFrameId' /\ acquiredAt'[g] <= acquiredAt'[f]
    <3>1. \A g \in Frames : acquiredAt'[g] \in Nat
      BY <2>2, <2>7, <2>8
    <3> QED BY <2>1, <2>2, <2>7, <2>9, <3>1
  <2>11. \A g \in Ahead' : acquiredAt'[g] >= shown'
    BY <2>2, <2>6, <2>7, <2>8, <2>9 DEF InOrder
  <2>12. ASSUME NEW o \in {pendingPresentFrame, previousFrame} \ {NoFrame}, NEW g \in Ahead'
         PROVE  acquiredAt'[g] >= acquiredAt'[o] /\ acquiredAt'[o] = acquiredAt[o]
    <3>1. o \in Frames /\ o # f
      BY <2>2, <2>5, <2>12
    <3>2. acquiredAt'[o] = acquiredAt[o] /\ acquiredAt[o] <= nextFrameId
      BY <2>7, <3>1 DEF InOrder
    <3>3. CASE g = f
      BY <2>2, <2>3, <2>7, <2>8, <3>1, <3>2, <3>3
    <3>4. CASE g # f
      <4>1. g \in Ahead /\ g \in Frames
        BY <2>2, <2>6, <3>4
      <4>2. acquiredAt[g] >= acquiredAt[o]
        BY <2>12, <4>1 DEF InOrder
      <4> QED BY <2>7, <3>2, <3>4, <4>1, <4>2
    <3> QED BY <3>3, <3>4
  <2>13. \A g \in Ahead' : acquiredAt'[g] <= acquiredAt'[renderFrame']
    BY <2>1, <2>2, <2>6, <2>10
  <2>14. previousFrame # NoFrame => acquiredAt'[previousFrame] = acquiredAt[previousFrame]
    BY <2>2, <2>5, <2>7
  <2> QED BY <1>1, <2>9, <2>10, <2>11, <2>12, <2>13, <2>14 DEF InOrder
<1>3. CASE ~Queue!GetRenderFrame(p, f)
  <2>1. renderFrame' = NoFrame /\ UNCHANGED nextFrameId
    BY <1>3 DEF Queue!RendererCall, Queue!RecycleRenderFrame, Queue!DiscardRenderedFrame,
                Queue!PushRenderedFrame, NoFrame
  <2>2. NoneAcquired
    BY <1>1, <2>1, AheadFacts DEF Acquired
  <2> QED BY <1>1, <2>1, <2>2, NoneAhead, OrderOfFewer DEF NoneAcquired
<1> QED BY <1>2, <1>3

\* A commit adds nothing to the queue.
LEMMA CommitRange ==
    ASSUME IInv, NEW p \in BasePolicies \cup Preserving(BasePolicies), NEW f \in Frames,
           Queue!CommitPresentedFrame(p, f)
    PROVE  Range(presentQueue') \subseteq Range(presentQueue)
<1>1. CASE f = pendingPresentFrame
  <2> DEFINE depth == IF p.preserve THEN Queue!SanitizedDepth(p) ELSE 0
  <2>1. presentQueue' = Queue!Kept(presentQueue, depth)
    BY <1>1 DEF Queue!CommitPresentedFrame
  <2>2. depth \in Nat
    <3>1. p.depth \in 1 .. 2
      BY PoliciesFacts
    <3> QED BY <3>1, QueueAssumption DEF Queue!SanitizedDepth
  <2> HIDE DEF depth
  <2> QED BY <2>1, <2>2, QueueFacts, TrimmedRange DEF IInv
<1>2. CASE f # pendingPresentFrame
  BY <1>2 DEF Queue!CommitPresentedFrame
<1> QED BY <1>1, <1>2

LEMMA CandidateOrder ==
    ASSUME IInv, InOrder, Plain, NEW f, Queue!GetPresentCandidate(CandidatePolicy, f),
           UNCHANGED shown, pc # "commit", pc' # "commit"
    PROVE  InOrder'
<1>1. CASE UNCHANGED Queue!vars
  BY <1>1, OrderOfFewer DEF Queue!vars, Ahead
<1>2. CASE ~UNCHANGED Queue!vars
  <2>1. ~CandidatePolicy.drop /\ ~CandidatePolicy.preserve
    BY DEF CandidatePolicy, Plain, IInv, Local, ProperCall, Calls
  <2>2. /\ presentQueue # <<>> /\ f = Head(presentQueue) /\ pendingPresentFrame' = f
        /\ presentQueue' = <<>>
        /\ UNCHANGED <<previousFrame, renderFrame, nextFrameId, acquiredAt>>
    BY <1>2, <2>1 DEF Queue!GetPresentCandidate
  <2>3. f \in Range(presentQueue) /\ f \in Frames /\ f # NoFrame
    BY <2>2, QueueFacts, HeadTailOfInjective DEF IInv
  <2>4. Range(presentQueue') = {}
    BY <2>2, EmptySequence
  <2>5. Ahead' = ({f, renderFrame} \ {NoFrame}) /\ f \in Ahead
    BY <2>2, <2>3, <2>4 DEF Ahead
  <2>6. /\ Ahead' \subseteq Ahead
        /\ \A g \in Ahead' : acquiredAt[g] >= acquiredAt[f]
    <3>1. renderFrame # NoFrame => acquiredAt[f] <= acquiredAt[renderFrame]
      BY <2>5 DEF InOrder
    <3>2. \A g \in Ahead : acquiredAt[g] \in Nat
      BY AheadFacts
    <3> QED BY <2>5, <3>1, <3>2, AheadFacts
  <2> QED BY <2>2, <2>6 DEF InOrder
<1> QED BY <1>1, <1>2

\* A candidate that is committed comes before all that are ahead.
LEMMA CommitOrder ==
    ASSUME IInv, IInv', InOrder, Held, NEW p \in BasePolicies \cup Preserving(BasePolicies),
           pc = "commit", pc' # "commit", Queue!CommitPresentedFrame(p, call.frame), UNCHANGED shown
    PROVE  InOrder'
<1>1. call.frame \in Frames /\ call.frame # NoFrame
  BY LiveFacts, QueueFacts DEF IInv, Holding
<1>2. NoneAcquired /\ UNCHANGED renderFrame
  BY <1>1, CommitLive, CommitEffect
<1>3. CASE call.frame = pendingPresentFrame
  <2>1. pendingPresentFrame' = NoFrame /\ previousFrame' = pendingPresentFrame
    BY <1>1, <1>3, CommitEffect
  <2>2. Ahead' \subseteq Ahead
    <3>1. Range(presentQueue') \subseteq Range(presentQueue)
      BY <1>1, CommitRange
    <3> QED BY <1>2, <2>1, <3>1 DEF Ahead
  <2>3. pendingPresentFrame \in Ahead
    BY <1>1, <1>3, AheadFacts
  <2> QED BY <1>1, <1>2, <1>3, <2>1, <2>2, <2>3 DEF InOrder, NoneAcquired
<1>4. CASE call.frame # pendingPresentFrame
  <2>1. UNCHANGED <<previousFrame, pendingPresentFrame>>
    BY <1>1, <1>4, CommitEffect
  <2>2. Ahead' \subseteq Ahead
    BY <1>2, <2>1, NoneAhead
  <2> QED BY <1>2, <1>4, <2>1, <2>2 DEF InOrder, NoneAcquired
<1> QED BY <1>3, <1>4

\* What is shown is the candidate or the frame shown before, so no older one than the last.
LEMMA ShowOrder ==
    ASSUME IInv, InOrder, Held, PresentFrame
    PROVE  InOrder' /\ shown' >= shown
<1>1. /\ pc = "show" /\ pc' = "commit" /\ shown' = acquiredAt[call.frame]
      /\ UNCHANGED <<queueVars, call>>
  BY DEF PresentFrame
<1>2. /\ call.frame \in Frames /\ acquiredAt[call.frame] \in Nat
      /\ call.frame \in {pendingPresentFrame, previousFrame} \ {NoFrame}
      /\ pendingPresentFrame # NoFrame => call.frame = pendingPresentFrame
      /\ pendingPresentFrame # NoFrame => pendingPresentFrame \in Ahead
  BY <1>1, LiveFacts, QueueFacts, AheadFacts DEF IInv, Settled, Held, Holding
<1>3. UNCHANGED <<Ahead, presentQueue, previousFrame, pendingPresentFrame, renderFrame, nextFrameId,
                  acquiredAt>>
  BY <1>1, QueueStands DEF Ahead
<1>4. acquiredAt[call.frame] >= shown
  BY <1>1, <1>2 DEF InOrder
<1>5. \A f \in Ahead : acquiredAt[f] >= acquiredAt[call.frame]
  BY <1>2 DEF InOrder
<1>6. acquiredAt[call.frame] <= nextFrameId
  BY <1>2 DEF InOrder
<1>7. previousFrame # NoFrame =>
        acquiredAt[previousFrame] >= shown' \/ call'.frame = pendingPresentFrame'
  <2>1. previousFrame # NoFrame => acquiredAt[previousFrame] \in Nat
    BY AheadFacts
  <2> QED BY <1>1, <1>2, <1>3, <2>1
<1> QED BY <1>1, <1>2, <1>3, <1>4, <1>5, <1>6, <1>7 DEF InOrder

LEMMA NextOrder ==
    ASSUME OnlyPresenterResyncs, NoBacklogKept, IInv, IInv', Held, Plain, InOrder, [Next]_vars
    PROVE  InOrder' /\ shown' >= shown
<1>1. ASSUME InOrder', UNCHANGED shown PROVE InOrder' /\ shown' >= shown
  BY <1>1 DEF InOrder
<1>2. ASSUME UNCHANGED <<queueVars, shown>>, pc # "commit" \/ UNCHANGED <<pc, call>>
      PROVE  InOrder'
  <2>1. UNCHANGED <<Ahead, previousFrame, pendingPresentFrame, renderFrame, nextFrameId, acquiredAt>>
    BY <1>2, QueueStands DEF Ahead
  <2> QED BY <1>2, <2>1, OrderOfFewer
<1>3. CASE Renderer
  <2>1. /\ UNCHANGED <<shown, pc, call>>
        /\ \/ \E p \in BasePolicies, f \in Frames : Queue!RendererCall(p, f)
           \/ UNCHANGED queueVars
    BY <1>3 DEF Renderer, BeginFrame, AcquireRenderFrame, RecycleCandidate, EndFrame,
                Queue!RendererCall, IInv, Local, historyVars, callVars
  <2> QED BY <1>1, <1>2, <2>1, RendererOrder
<1>4. CASE BeginPresent \/ FinishDisable
  <2>1. /\ pc = "idle" /\ UNCHANGED shown
        /\ Queue!RequestFastForwardPresentationTransition \/ UNCHANGED queueVars
    BY <1>4, PresentationAssumption
       DEF BeginPresent, FinishDisable, MaySwitch, NoBacklogKept, historyVars
  <2>2. ASSUME Queue!RequestFastForwardPresentationTransition PROVE InOrder'
    <3>1. NoneAcquired /\ UNCHANGED <<previousFrame, renderFrame>> /\ pendingPresentFrame' = NoFrame
      BY <2>2, GivenUpLive, TransitionEffect
    <3> QED BY <2>1, <3>1, NoneAhead, OrderOfFewer DEF NoneAcquired
  <2> QED BY <1>1, <1>2, <2>1, <2>2
<1>5. CASE PlanPresent \/ FallBack
  BY <1>1, <1>2, <1>5 DEF PlanPresent, FallBack, historyVars
<1>6. CASE ChooseCandidate
  <2>1. /\ \E f : Queue!GetPresentCandidate(CandidatePolicy, f)
        /\ pc # "commit" /\ pc' # "commit" /\ UNCHANGED shown
    BY <1>6 DEF ChooseCandidate, historyVars, Return
  <2> QED BY <1>1, <2>1, CandidateOrder
<1>7. CASE ExamineFrame \/ PresentFails
  <2>1. /\ pc \in {"examine", "show"} /\ UNCHANGED shown
        /\ Queue!DeferPresentedFrame(CandidatePolicy, call.frame)
             \/ Queue!DeferPresentedFrame(DeferPolicy, call.frame) \/ UNCHANGED queueVars
    BY <1>7 DEF ExamineFrame, PresentFails, historyVars
  <2>2. call.frame \in Frames
    BY <2>1, LiveFacts DEF Holding
  <2>3. ASSUME NEW p \in BasePolicies \cup Preserving(BasePolicies),
               Queue!DeferPresentedFrame(p, call.frame)
        PROVE  InOrder'
    <3>1. /\ NoneAcquired /\ UNCHANGED <<previousFrame, renderFrame>>
          /\ pendingPresentFrame' \in {pendingPresentFrame, NoFrame}
      BY <2>2, <2>3, DeferLive, DeferEffect
    <3> QED BY <2>1, <3>1, NoneAhead, OrderOfFewer DEF NoneAcquired
  <2>4. {CandidatePolicy, DeferPolicy} \subseteq BasePolicies \cup Preserving(BasePolicies)
    BY CallPolicies DEF IInv
  <2> QED BY <1>1, <1>2, <2>1, <2>3, <2>4
<1>8. CASE CommitFrame
  <2>1. /\ pc = "commit" /\ pc' = "idle" /\ UNCHANGED shown
        /\ \E p \in {CandidatePolicy, call.policy} : Queue!CommitPresentedFrame(p, call.frame)
    BY <1>8 DEF CommitFrame, Return, historyVars
  <2>2. {CandidatePolicy, call.policy} \subseteq BasePolicies \cup Preserving(BasePolicies)
    BY CallPolicies DEF IInv
  <2> QED BY <1>1, <2>1, <2>2, CommitOrder
<1>9. CASE PresentFrame
  BY <1>9, ShowOrder
<1>10. CASE PresentToNobody
  BY <1>1, <1>2, <1>10 DEF PresentToNobody, historyVars
<1>11. CASE GpuFinishes \/ UNCHANGED vars \/ \E on \in BOOLEAN : SetFastForwardEnabled(on)
  BY <1>1, <1>2, <1>11 DEF GpuFinishes, vars, SetFastForwardEnabled, callVars, historyVars
<1>12. CASE \E thread \in ResyncThreads : Resync(thread)
  <2>1. Queue!RequestPresentationResync /\ pc = "idle" /\ UNCHANGED shown
    BY <1>12, PresentationAssumption DEF Resync, OnlyPresenterResyncs
  <2>2. /\ Live' \subseteq {renderFrame} \ {NoFrame} /\ previousFrame' = NoFrame
        /\ pendingPresentFrame' = NoFrame
        /\ UNCHANGED <<renderFrame, nextFrameId, acquiredAt>>
    BY <2>1, GivenUpLive, ResyncEffect
  <2>3. Ahead' \subseteq Ahead
    <3>1. Ahead' \subseteq Live'
      BY DEF Ahead, Live
    <3> QED BY <2>2, <3>1, AheadFacts
  <2> QED BY <1>1, <2>1, <2>2, <2>3, OrderOfFewer
<1> QED BY <1>3, <1>4, <1>5, <1>6, <1>7, <1>8, <1>9, <1>10, <1>11, <1>12
        DEF Next, Presenter, PresentStep

\* The picture never jumps back on a device without temporal history, if nobody
\* but the presentation thread takes a frame from it.  (With temporal history, or when
\* fast-forward is switched while a frame is presented, it may: section 6 of the README.)
THEOREM SpecNeverShowsOlderFrame ==
    OnlyPresenterResyncs /\ NoBacklogKept => (Spec => NeverShowsOlderFrame)
<1> SUFFICES ASSUME OnlyPresenterResyncs, NoBacklogKept PROVE Spec => NeverShowsOlderFrame
  OBVIOUS
<1>1. Init => Held /\ Plain /\ InOrder
  <2> SUFFICES ASSUME Init PROVE Held /\ Plain /\ InOrder
    OBVIOUS
  <2>1. Held
    BY DEF Init, Held, Holding
  <2>2. Plain
    BY ChosenPolicies DEF Init, Plain, Idle
  <2>3. Range(presentQueue) = {}
    BY EmptySequence DEF Init, Queue!Init
  <2>4. Ahead = {}
    BY <2>3 DEF Init, Queue!Init, Ahead, NoFrame
  <2>5. \A f \in Frames : acquiredAt[f] = 0
    BY DEF Init, Queue!Init, Frames
  <2>6. InOrder
    BY <2>4, <2>5 DEF Init, Queue!Init, InOrder, NoFrame
  <2> QED BY <2>1, <2>2, <2>6
<1>2. IInv /\ Held /\ Plain /\ InOrder /\ [Next]_vars =>
        Held' /\ Plain' /\ InOrder' /\ shown' >= shown
  BY NextIInv, NextHeld, NextPlain, NextOrder DEF NoBacklogKept
<1>3. IInv /\ Held /\ Plain /\ InOrder /\ [Next]_vars => [shown' >= shown]_shown
  BY <1>2
<1> QED BY <1>1, <1>2, <1>3, SpecIInv, PTL DEF Spec, NeverShowsOlderFrame

-----------------------------------------------------------------------------
(* Types, and the GPU's frames.                                            *)

\* The GPU works on a frame once at most, on none it has finished and on none that
\* is rendered.
Gpu ==
    /\ submitted \in Seq(Frames) /\ IsInjective(submitted) /\ ready \subseteq Frames
    /\ (Range(submitted) \cup ready) \cap {renderFrame} = {}
    /\ Range(submitted) \cap ready = {}

LEMMA WithdrawnFacts ==
    ASSUME submitted \in Seq(Frames), IsInjective(submitted), NEW f \in Frames
    PROVE  /\ Withdrawn(f) \in Seq(Frames) /\ IsInjective(Withdrawn(f))
           /\ Range(Withdrawn(f)) = Range(submitted) \ {f}
<1> DEFINE at == {i \in 1 .. Len(submitted) : submitted[i] = f}
           i == CHOOSE j \in at : TRUE
           before == SubSeq(submitted, 1, i - 1)
           rest == SubSeq(submitted, i, Len(submitted))
<1>1. Len(submitted) \in Nat /\ DOMAIN submitted = 1 .. Len(submitted)
  BY LenProperties
<1>2. CASE at = {}
  <2>1. f \notin Range(submitted)
    BY <1>1, <1>2 DEF Range
  <2>2. Withdrawn(f) = submitted
    BY <1>2 DEF Withdrawn
  <2> QED BY <2>1, <2>2
<1>3. CASE at # {}
  <2>1. i \in 1 .. Len(submitted) /\ submitted[i] = f
    BY <1>3
  <2>2. Withdrawn(f) = before \o Tail(rest)
    BY <1>3 DEF Withdrawn
  <2> HIDE DEF i
  <2>3. i - 1 \in 0 .. Len(submitted) /\ (i - 1) + 1 = i /\ i \in Int
    BY <1>1, <2>1
  <2>4. /\ before \in Seq(Frames) /\ Len(before) = i - 1
        /\ rest \in Seq(Frames) /\ Len(rest) = Len(submitted) - (i - 1)
        /\ Range(submitted) = Range(before) \cup Range(rest)
        /\ IsInjective(before) /\ IsInjective(rest) /\ Range(before) \cap Range(rest) = {}
    BY <2>3, CutOfInjective
  <2> HIDE DEF before, rest
  <2>5. rest # <<>> /\ Head(rest) = f
    <3>1. Len(rest) >= 1
      BY <1>1, <2>1, <2>4
    <3>2. rest[1] = submitted[i]
      <4>1. \A j \in i .. Len(submitted) : submitted[j] \in Frames
        BY <1>1, <2>1, ElementOfSeq
      <4>2. \A j \in 1 .. (Len(submitted) - i) + 1 : rest[j] = submitted[i + j - 1]
        BY <1>1, <2>1, <4>1, SubSeqProperties DEF rest
      <4> QED BY <1>1, <2>1, <4>2
    <3>3. rest # <<>>
      BY <3>1, EmptySequence
    <3> QED BY <2>1, <2>4, <3>2, <3>3
  <2>6. /\ Tail(rest) \in Seq(Frames) /\ IsInjective(Tail(rest))
        /\ Range(rest) = Range(Tail(rest)) \cup {f} /\ f \notin Range(Tail(rest))
    BY <2>4, <2>5, HeadTailOfInjective
  <2>7. /\ Withdrawn(f) \in Seq(Frames) /\ IsInjective(Withdrawn(f))
        /\ Range(Withdrawn(f)) = Range(before) \cup Range(Tail(rest))
    <3> DEFINE after == Tail(rest)
    <3>1. after \in Seq(Frames) /\ IsInjective(after) /\ Range(before) \cap Range(after) = {}
      BY <2>4, <2>6
    <3> HIDE DEF after
    <3>2. /\ before \o after \in Seq(Frames) /\ IsInjective(before \o after)
          /\ Range(before \o after) = Range(before) \cup Range(after)
      BY <2>4, <3>1, ConcatOfInjective
    <3> QED BY <2>2, <3>2 DEF after
  <2> QED BY <2>4, <2>6, <2>7
<1> QED BY <1>2, <1>3

LEMMA NextGpu == ASSUME IInv, Gpu, [Next]_vars PROVE Gpu'
<1>1. renderFrame \in Frames \cup {NoFrame} /\ NoFrame \notin Frames
  BY QueueFacts DEF IInv
<1>2. ASSUME UNCHANGED gpuVars, renderFrame' = renderFrame \/ renderFrame' = NoFrame PROVE Gpu'
  <2>1. NoFrame \notin Range(submitted) \cup ready
    BY <1>1, ElementOfSeq DEF Gpu, Range
  <2> QED BY <1>2, <2>1 DEF Gpu, gpuVars
<1>3. CASE AcquireRenderFrame
  <2>1. PICK f \in Frames :
          /\ Queue!GetRenderFrame(renderPolicy, f)
          /\ submitted' = Withdrawn(f) /\ ready' = ready \ {f}
    BY <1>3 DEF AcquireRenderFrame
  <2>2. renderFrame' = f
    BY <2>1 DEF Queue!GetRenderFrame
  <2>3. /\ Withdrawn(f) \in Seq(Frames) /\ IsInjective(Withdrawn(f))
        /\ Range(Withdrawn(f)) = Range(submitted) \ {f}
    BY WithdrawnFacts DEF Gpu
  <2> QED BY <2>1, <2>2, <2>3 DEF Gpu
<1>4. CASE EndFrame
  <2>1. CASE \E f \in Frames : Queue!PushRenderedFrame(renderPolicy, f) /\ submitted' = Append(submitted, f)
    <3>1. PICK f \in Frames : Queue!PushRenderedFrame(renderPolicy, f) /\ submitted' = Append(submitted, f)
      BY <2>1
    <3>2. f = renderFrame /\ renderFrame' = NoFrame /\ UNCHANGED ready
      BY <1>4, <3>1 DEF Queue!PushRenderedFrame, NoFrame, EndFrame
    <3>3. /\ Append(submitted, f) \in Seq(Frames) /\ IsInjective(Append(submitted, f))
          /\ Range(Append(submitted, f)) = Range(submitted) \cup {f}
      BY <3>2, AppendOfInjective DEF Gpu
    <3>4. NoFrame \notin Range(submitted) \cup ready
      BY <1>1, ElementOfSeq DEF Gpu, Range
    <3> QED BY <1>1, <3>1, <3>2, <3>3, <3>4 DEF Gpu
  <2>2. CASE /\ UNCHANGED submitted
             /\ (\E f \in Frames : Queue!DiscardRenderedFrame(f)) \/ UNCHANGED queueVars
    <3>1. renderFrame' = renderFrame \/ renderFrame' = NoFrame
      BY <2>2 DEF Queue!DiscardRenderedFrame, Queue!RecycleRenderFrame, NoFrame, queueVars
    <3> QED BY <1>2, <1>4, <2>2, <3>1 DEF EndFrame, gpuVars
  <2> QED BY <1>4, <2>1, <2>2 DEF EndFrame
<1>5. CASE GpuFinishes
  <2>1. /\ submitted # <<>> /\ submitted' = Tail(submitted)
        /\ ready' = ready \cup {Head(submitted)} /\ UNCHANGED renderFrame
    BY <1>5 DEF GpuFinishes, queueVars
  <2>2. /\ Head(submitted) \in Frames /\ Tail(submitted) \in Seq(Frames)
        /\ Range(submitted) = Range(Tail(submitted)) \cup {Head(submitted)}
        /\ IsInjective(Tail(submitted)) /\ Head(submitted) \notin Range(Tail(submitted))
    BY <2>1, HeadTailOfInjective DEF Gpu
  <2> QED BY <2>1, <2>2 DEF Gpu
<1>6. CASE PresentFails
  <2>1. UNCHANGED renderFrame /\ call.frame \in Frames
    BY <1>6, LiveFacts DEF PresentFails, Queue!DeferPresentedFrame, IInv, Holding
  <2>2. CASE UNCHANGED gpuVars
    BY <1>2, <2>1, <2>2
  <2>3. CASE /\ call.frame \in ready /\ submitted' = Append(submitted, call.frame)
             /\ ready' = ready \ {call.frame}
    <3>1. /\ submitted' \in Seq(Frames) /\ IsInjective(submitted')
          /\ Range(submitted') = Range(submitted) \cup {call.frame}
      BY <2>1, <2>3, AppendOfInjective DEF Gpu
    <3> QED BY <2>1, <2>3, <3>1 DEF Gpu
  <2> QED BY <1>6, <2>2, <2>3 DEF PresentFails
<1>7. CASE BeginFrame \/ RecycleCandidate
  <2>1. UNCHANGED gpuVars /\ (renderFrame' = renderFrame \/ renderFrame' = NoFrame)
    BY <1>7 DEF BeginFrame, RecycleCandidate, Queue!RecycleRenderFrame, NoFrame, queueVars
  <2> QED BY <1>2, <2>1
<1>8. CASE PresentStep \/ PresentFrame \/ PresentToNobody
  <2>1. UNCHANGED <<gpuVars, renderFrame>>
    <3>1. CASE BeginPresent \/ PlanPresent \/ FallBack \/ PresentFrame \/ PresentToNobody
      BY <3>1, TransitionEffect
         DEF BeginPresent, PlanPresent, FallBack, PresentFrame, PresentToNobody, queueVars
    <3>2. CASE ChooseCandidate
      BY <3>2 DEF ChooseCandidate, Queue!GetPresentCandidate, Queue!vars
    <3>3. CASE ExamineFrame \/ CommitFrame
      BY <3>3 DEF ExamineFrame, CommitFrame, Queue!DeferPresentedFrame, Queue!CommitPresentedFrame, queueVars
    <3> QED BY <1>8, <3>1, <3>2, <3>3 DEF PresentStep
  <2> QED BY <1>2, <2>1
<1>9. CASE \/ UNCHANGED vars \/ FinishDisable
           \/ \E on \in BOOLEAN : SetFastForwardEnabled(on)
           \/ \E thread \in ResyncThreads : Resync(thread)
  <2>1. UNCHANGED <<gpuVars, renderFrame>>
    BY <1>9, TransitionEffect, ResyncEffect
       DEF vars, FinishDisable, SetFastForwardEnabled, Resync, queueVars
  <2> QED BY <1>2, <2>1
<1> QED BY <1>3, <1>4, <1>5, <1>6, <1>7, <1>8, <1>9 DEF Next, Renderer, Presenter

\* The fallbacks left are counted down only where there are some, and the history
\* counts frames.
Counts ==
    /\ fallbackFrames \in 0 .. FallbackFrames
    /\ pc = "fallback" => fallbackFrames > 0
    /\ shown \in Nat /\ staleBefore \in Nat

LEMMA NextCounts == ASSUME OnlyPresenterResyncs, IInv, Counts, [Next]_vars PROVE Counts'
<1>1. FallbackFrames = 2
  BY DEF FallbackFrames
<1>2. ASSUME UNCHANGED <<fallbackFrames, shown, staleBefore>>, pc' # "fallback" \/ UNCHANGED pc
      PROVE  Counts'
  BY <1>2 DEF Counts
<1>3. CASE BeginPresent
  BY <1>1, <1>3 DEF BeginPresent, Counts, historyVars
<1>4. CASE ChooseCandidate
  <2>1. /\ UNCHANGED <<fallbackFrames, shown, staleBefore>>
        /\ pc' = "fallback" => MayFallBack
    BY <1>4 DEF ChooseCandidate, fastForwardVars, historyVars, Return
  <2> QED BY <2>1 DEF Counts, MayFallBack
<1>5. CASE ExamineFrame
  <2>1. /\ UNCHANGED <<fallbackFrames, shown, staleBefore>>
        /\ NextAttempt \/ (pc' = "fallback" /\ MayFallBack) \/ pc' = "show"
    <3>1. UNCHANGED <<fallbackFrames, shown, staleBefore>>
      BY <1>5 DEF ExamineFrame, fastForwardVars, historyVars
    <3>2. NextAttempt \/ (pc' = "fallback" /\ MayFallBack) \/ pc' = "show"
      BY <1>5, Zenon DEF ExamineFrame
    <3> QED BY <3>1, <3>2
  <2>2. NextAttempt => pc' # "fallback"
    BY NextAttemptFacts DEF IInv
  <2> QED BY <2>1, <2>2 DEF Counts, MayFallBack
<1>6. CASE FallBack
  <2>1. /\ pc = "fallback" /\ UNCHANGED <<shown, staleBefore>>
        /\ \E n \in 0 .. 1 : fallbackFrames' = fallbackFrames - n
        /\ pc' # "fallback"
    BY <1>6 DEF FallBack, historyVars, Return
  <2> QED BY <1>1, <2>1 DEF Counts
<1>7. CASE PresentFrame
  <2>1. /\ call.frame \in Frames /\ acquiredAt[call.frame] \in Nat
    BY <1>7, LiveFacts DEF PresentFrame, Holding
  <2> QED BY <1>7, <2>1 DEF PresentFrame, Counts, fastForwardVars
<1>8. CASE \E thread \in ResyncThreads : Resync(thread)
  <2>1. /\ pc = "idle" /\ UNCHANGED <<pc, shown>> /\ fallbackFrames' = 0
        /\ staleBefore' = IF renderFrame = NoFrame THEN nextFrameId ELSE acquiredAt[renderFrame]
    BY <1>8, PresentationAssumption DEF Resync, OnlyPresenterResyncs, callVars
  <2>2. staleBefore' \in Nat
    BY <2>1, LiveFacts, QueueFacts DEF IInv
  <2> QED BY <1>1, <2>1, <2>2 DEF Counts
<1>9. CASE Renderer \/ GpuFinishes \/ UNCHANGED vars \/ FinishDisable
           \/ \E on \in BOOLEAN : SetFastForwardEnabled(on)
  <2>1. UNCHANGED <<fallbackFrames, shown, staleBefore, pc>>
    BY <1>9 DEF Renderer, BeginFrame, AcquireRenderFrame, RecycleCandidate, EndFrame, GpuFinishes,
                vars, FinishDisable, SetFastForwardEnabled, callVars, fastForwardVars, historyVars
  <2> QED BY <1>2, <2>1
<1>10. CASE PlanPresent \/ CommitFrame \/ PresentFails \/ PresentToNobody
  <2>1. UNCHANGED <<fallbackFrames, shown, staleBefore>> /\ pc' # "fallback"
    BY <1>10, NextAttemptFacts, ReturnFacts
       DEF PlanPresent, CommitFrame, PresentFails, PresentToNobody, fastForwardVars, historyVars, IInv
  <2> QED BY <1>2, <2>1
<1> QED BY <1>3, <1>4, <1>5, <1>6, <1>7, <1>8, <1>9, <1>10 DEF Next, Presenter, PresentStep

\* The two threads keep their types, the GPU's list holds a frame once, and the
\* fallbacks are never counted below zero, if no other thread resyncs in between
\* (then one more may be counted down, which the code takes for none).
THEOREM SpecTypeOK == OnlyPresenterResyncs => (Spec => []TypeOK)
<1> SUFFICES ASSUME OnlyPresenterResyncs PROVE Spec => []TypeOK
  OBVIOUS
<1>1. Init => Gpu /\ Counts
  <2>1. <<>> \in Seq(Frames) /\ Range(<<>>) = {} /\ IsInjective(<<>>)
    BY EmptySequence
  <2> QED BY <2>1 DEF Init, Gpu, Counts, FallbackFrames
<1>2. IInv /\ Gpu /\ Counts /\ [Next]_vars => Gpu' /\ Counts'
  BY NextGpu, NextCounts
<1>3. IInv /\ Gpu /\ Counts => TypeOK
  <2> SUFFICES ASSUME IInv, Gpu, Counts PROVE TypeOK
    OBVIOUS
  <2>1. Queue!TypeOK
    BY QueueFacts DEF IInv
  <2>2. /\ DOMAIN submitted = 1 .. Len(submitted)
        /\ \A i \in 1 .. Len(submitted) : submitted[i] \in Range(submitted)
    BY LenProperties DEF Gpu, Range
  <2>3. \A i, j \in 1 .. Len(submitted) : submitted[i] = submitted[j] => i = j
    BY <2>2 DEF Gpu, IsInjective
  <2>4. /\ \A i \in 1 .. Len(submitted) : submitted[i] \notin ready \cup {renderFrame}
        /\ renderFrame \notin ready
    BY <2>2 DEF Gpu
  <2>5. renderPolicy \in Queue!Policy /\ call.policy \in Queue!Policy
    BY BasePolicyFacts DEF IInv, Local, ProperCall, Calls
  <2>6. call \in [fastForward : BOOLEAN, late : BOOLEAN, temporal : BOOLEAN,
                  policy : Queue!Policy, attempt : 0 .. 2, frame : Frames \cup {NoFrame}]
    BY <2>5 DEF IInv, Local, ProperCall, Calls
  <2>7. /\ {fastForwardActive, transitionDue, lastFastForward, rendering} \subseteq BOOLEAN
        /\ pc \in {"idle", "plan", "choose", "fallback", "examine", "show", "commit"}
    BY DEF IInv, Local, Places
  <2> QED BY <2>1, <2>3, <2>4, <2>5, <2>6, <2>7 DEF TypeOK, Gpu, Counts
<1> QED BY <1>1, <1>2, <1>3, SpecIInv, PTL DEF Spec
=============================================================================
