------------------- MODULE LeaderboardSubmissionsInvariant -------------------
(***************************************************************************)
(* The inductive invariant of LeaderboardSubmissions, part by part.  IInv, *)
(* at the end, puts the parts together; LeaderboardSubmissionsProofs shows *)
(* that every step keeps it and what follows from it.                      *)
(***************************************************************************)
EXTENDS LeaderboardSubmissions

-----------------------------------------------------------------------------
(* The runtime between two steps.                                          *)

Fields ==
    {"session", "lboard", "attempts", "active", "byToken", "shown", "response",
     "scheduled", "young", "pending", "settled", "nextBarrier", "nextAttempt",
     "nextSubmission", "floor", "out"}

Shaped(n) == n = [f \in Fields |-> n[f]]

\* m is a runtime that differs from n in the fields named, if at all.
Like(m, n, changed) == Shaped(m) /\ \A f \in Fields \ changed : m[f] = n[f]

Attempt == [leaderboard : Leaderboards, submitted : BOOLEAN, terminal : BOOLEAN]

\* What every operation of the runtime keeps.
Counts(n) ==
    /\ Shaped(n)
    /\ n.session \in Nat
    /\ n.nextAttempt \in Nat \ {0} /\ n.nextSubmission \in Nat \ {0}
    /\ n.nextBarrier \in Nat \ {0}
    /\ n.floor \in Nat /\ n.floor < n.nextAttempt
    /\ n.lboard \in [Leaderboards -> {"active", "tracking"}]
    /\ n.active \in [Leaderboards -> Nat]

\* Attempts are known as long as a leaderboard or a submission refers to them.
Attempts(n) ==
    /\ \A a \in DOMAIN n.attempts :
           a \in Nat \ {0} /\ a < n.nextAttempt /\ n.attempts[a] \in Attempt
    /\ \A lb \in Leaderboards :
           n.active[lb] # Never =>
               /\ n.active[lb] \in DOMAIN n.attempts
               /\ n.attempts[n.active[lb]].leaderboard = lb

\* The attempt of a leaderboard is tracked, submitted or over.
Leaders(n) ==
    \A lb \in Leaderboards :
        /\ n.lboard[lb] = "tracking" =>
               /\ n.active[lb] > n.floor
               /\ ~n.attempts[n.active[lb]].submitted
               /\ ~n.attempts[n.active[lb]].terminal
        /\ n.lboard[lb] # "tracking" /\ n.active[lb] # Never =>
               \/ n.attempts[n.active[lb]].submitted
               \/ n.attempts[n.active[lb]].terminal

\* An attempt whose score waits for an answer.
Open(lb) == [leaderboard |-> lb, submitted |-> TRUE, terminal |-> FALSE]

\* The app has been told that the score of attempt a waits.
Told(p, a) ==
    p = [id |-> p.id, attempt |-> a, ready |-> TRUE, waiting |-> TRUE, published |-> TRUE]

\* A submission that is kept waits for a retry, and its attempt for an answer.
Waiting(n) ==
    /\ n.scheduled \in [DOMAIN n.scheduled -> Leaderboards]
    /\ n.byToken \in [DOMAIN n.scheduled -> Nat]
    /\ n.pending = [t \in DOMAIN n.scheduled |-> n.pending[t]]
    /\ n.young \subseteq DOMAIN n.scheduled
    /\ \A t \in DOMAIN n.scheduled :
           /\ Told(n.pending[t], n.byToken[t])
           /\ n.pending[t].id \in Nat \ {0} /\ n.pending[t].id < n.nextSubmission
           /\ n.pending[t].id \notin DOMAIN n.settled
           /\ n.byToken[t] \in DOMAIN n.attempts
           /\ n.attempts[n.byToken[t]] = Open(n.scheduled[t])
    /\ \A t, u \in DOMAIN n.scheduled :
           t # u => /\ n.pending[t].id # n.pending[u].id
                    /\ n.byToken[t] # n.byToken[u]

\* What is settled is over.
Ended(n) ==
    \A id \in DOMAIN n.settled :
        /\ id \in Nat \ {0} /\ id < n.nextSubmission
        /\ n.settled[id].attempt \in Nat \ {0} /\ n.settled[id].attempt < n.nextAttempt
        /\ n.settled[id].resolution \in {"accepted", "permanent"}

\* A score that is kept is told of as the score of its own attempt.
PendingIds(n) == {n.pending[t].id : t \in DOMAIN n.pending}

HasAttempt(n, id, a) ==
    \/ \E t \in DOMAIN n.pending : n.pending[t].id = id /\ n.pending[t].attempt = a
    \/ id \in DOMAIN n.settled /\ n.settled[id].attempt = a

Once(n) ==
    /\ \A id1, id2, a : HasAttempt(n, id1, a) /\ HasAttempt(n, id2, a) => id1 = id2
    /\ \A id, a : HasAttempt(n, id, a) =>
           \A lb \in Leaderboards : n.lboard[lb] = "tracking" => n.active[lb] # a

Steady(n) ==
    /\ Counts(n) /\ Attempts(n) /\ Leaders(n) /\ Waiting(n) /\ Ended(n)
    /\ n.response = Never
    /\ n.shown = {lb \in Leaderboards : n.lboard[lb] = "tracking"}
    /\ n.out = <<>>

-----------------------------------------------------------------------------
(* The pipe.                                                               *)

AttemptKinds == {"Started", "Updated", "Hidden", "Submitted"} \cup Results

SessionKinds == {"Added", "Resolved", "Barrier"}

Message ==
    [kind : AttemptKinds, leaderboard : Leaderboards, attempt : Nat \ {0}]
        \cup [kind : {"RuntimeReset"}, floor : Nat]
        \cup [kind : {"Added"}, session : Nat \ {0}, id : Nat \ {0}, attempt : Nat \ {0}]
        \cup [kind : {"Resolved"}, session : Nat \ {0}, id : Nat \ {0},
              resolution : {"accepted", "permanent"}]
        \cup [kind : {"Barrier"}, session : Nat \ {0}, barrier : Nat]

\* Nothing in the pipe is newer than what the runtime has counted.
Counted(n, e) ==
    /\ e.kind \in AttemptKinds \cup {"Added"} => e.attempt < n.nextAttempt
    /\ e.kind = "RuntimeReset" => e.floor < n.nextAttempt
    /\ e.kind \in {"Added", "Resolved"} => e.id < n.nextSubmission
    /\ e.kind = "Barrier" /\ e.session = n.session => e.barrier < n.nextBarrier

OfSession(n, s, e) ==
    e.kind \in SessionKinds =>
        /\ e.session < s.next
        /\ s.number # Never /\ n.session = Never => e.session < s.number

Piped ==
    /\ pipe \in Seq(Message)
    /\ \A i \in DOMAIN pipe : Counted(native, pipe[i]) /\ OfSession(native, session, pipe[i])

-----------------------------------------------------------------------------
(* Sessions.                                                               *)

Shapes ==
    /\ session = [number |-> session.number, open |-> session.open, next |-> session.next]
    /\ resets = [waiting |-> resets.waiting, made |-> resets.made,
                 crossed |-> resets.crossed]
    /\ store = [session |-> store.session, records |-> store.records,
                seen |-> store.seen, attempts |-> store.attempts,
                barrier |-> store.barrier]
    /\ sync = [stage |-> sync.stage, barrier |-> sync.barrier, ids |-> sync.ids,
               failed |-> sync.failed, accepted |-> sync.accepted]
    /\ exit = [stage |-> exit.stage, barrier |-> exit.barrier, frame |-> exit.frame,
               late |-> exit.late, ids |-> exit.ids]

InSession ==
    /\ session.number \in Nat /\ session.next \in Nat
    /\ session.number < session.next
    /\ session.open \in BOOLEAN
    /\ session.open => session.number # Never
    /\ resets.waiting \in Nat /\ resets.crossed \in BOOLEAN
    /\ Live => /\ session.open /\ native.session = session.number
               /\ store.session = session.number
    /\ ~Live => sync = NoFlight /\ exit = NoExit
    /\ session.open /\ ~Live => store = [NoStore EXCEPT !.session = session.number]
    /\ session.number # Never /\ ~session.open => store = NoStore

-----------------------------------------------------------------------------
(* The coordinator.                                                        *)

Coherent(c) ==
    /\ c = [states |-> c.states, latest |-> c.latest, highest |-> c.highest,
            floor |-> c.floor, awaiting |-> c.awaiting]
    /\ c.awaiting \in BOOLEAN
    /\ c.highest \in Nat /\ c.floor \in Nat /\ c.floor <= c.highest
    /\ \A lb \in DOMAIN c.latest : c.latest[lb] \in Nat /\ c.latest[lb] <= c.highest
    /\ \A a \in DOMAIN c.states :
           /\ c.states[a].phase \in Phases
           /\ c.states[a].phase = "TRACKING" => a > c.floor /\ ~c.awaiting

Coordinated == Coherent(coordinator) /\ coordinator.highest < native.nextAttempt

Barriers(p) == {i \in DOMAIN p : p[i].kind = "RuntimeReset"}

\* The coordinator waits for exactly the one barrier that is to come.
AwaitedIn(n, p, c, waiting) ==
    IF c.awaiting
    THEN \/ waiting = 1 /\ Barriers(p) = {} /\ n.session # Never
         \/ /\ waiting = 0 /\ n.session # Never
            /\ \E i \in DOMAIN p : Barriers(p) = {i} /\ p[i].floor = n.floor
         \/ waiting = 0 /\ Barriers(p) = {} /\ n.session = Never
    ELSE /\ waiting = 0 /\ Barriers(p) = {} /\ n.session # Never
         /\ c.floor = n.floor

Awaited ==
    session.number # Never => AwaitedIn(native, pipe, coordinator, resets.waiting)

\* Attempts and barriers are numbered in the order the pipe has them in.
Fresh(e, k) ==
    \/ e.kind = "RuntimeReset" /\ k = e.floor
    \/ e.kind = "Started" /\ k = e.attempt

Older(e, k) ==
    /\ e.kind \in AttemptKinds => e.attempt < k
    /\ e.kind = "RuntimeReset" => e.floor < k

NumberedIn(p, highest) ==
    \A j \in DOMAIN p, k \in Nat :
        Fresh(p[j], k) => highest < k /\ \A i \in 1 .. j - 1 : Older(p[i], k)

Numbered == NumberedIn(pipe, coordinator.highest)

\* Messages that the coordinator will still heed.
Heeded(p, c, i) == i \in DOMAIN p /\ (c.awaiting => \E j \in Barriers(p) : j < i)

TrackedBy(n, a) ==
    \E lb \in Leaderboards : n.lboard[lb] = "tracking" /\ n.active[lb] = a

Ending(e, a) == e.kind \in Results \cup {"Submitted"} /\ e.attempt = a

\* What is tracked is shown, unless a reset is under way, or will be.
TrackedShown(n, p, c, waiting) ==
    \A a : TrackedBy(n, a) =>
        /\ \A i \in DOMAIN p : ~Ending(p[i], a)
        /\ waiting = 0 =>
               \/ Phase(c, a) = "TRACKING"
               \/ \E i : Heeded(p, c, i) /\ p[i].kind = "Started" /\ p[i].attempt = a

\* What is shown is tracked, or its end is on the way.
ShownTracked(n, p, c) ==
    \A a : Phase(c, a) = "TRACKING" =>
        TrackedBy(n, a) \/ \E i \in DOMAIN p : Ending(p[i], a)

\* What will be shown is tracked, or its end comes after.
ToBeShown(n, p, c) ==
    \A i : Heeded(p, c, i) /\ p[i].kind \in {"Started", "Updated"} =>
        /\ \/ TrackedBy(n, p[i].attempt)
           \/ \E j \in DOMAIN p : j > i /\ Ending(p[j], p[i].attempt)
        /\ p[i].kind = "Started" => p[i].attempt > n.floor

Shown ==
    Live => /\ TrackedShown(native, pipe, coordinator, resets.waiting)
            /\ ShownTracked(native, pipe, coordinator)
            /\ ToBeShown(native, pipe, coordinator)

-----------------------------------------------------------------------------
(* The mirror.                                                             *)

EndedAs(n, resolution) ==
    {id \in DOMAIN n.settled : n.settled[id].resolution = resolution}

IsGone(n, id) == id \notin PendingIds(n) /\ id \notin DOMAIN n.settled

\* What message e says of submission id of the session.
Adds(n, e, id) == e.kind = "Added" /\ e.session = n.session /\ e.id = id

Resolves(n, e, id, resolution) ==
    /\ e.kind = "Resolved" /\ e.session = n.session /\ e.id = id
    /\ e.resolution = resolution

\* What the pipe is about to say of it.
WillAdd(n, p, id) == \E i \in DOMAIN p : Adds(n, p[i], id)

WillResolve(n, p, id, resolution) ==
    \E i \in DOMAIN p : Resolves(n, p[i], id, resolution)

WillComeAndGo(n, p, id, resolution) ==
    \E i, j \in DOMAIN p :
        i < j /\ Adds(n, p[i], id) /\ Resolves(n, p[j], id, resolution)

\* Whatever comes goes.
MustGo(n, p, id, resolution) ==
    \A i \in DOMAIN p : Adds(n, p[i], id) =>
        \E j \in DOMAIN p : i < j /\ Resolves(n, p[j], id, resolution)

Recorded(s, id, status) == id \in DOMAIN s.records /\ s.records[id] = status

Records(n, s) ==
    /\ DOMAIN s.records \subseteq s.seen
    /\ \A id \in s.seen : id \in Nat \ {0} /\ id < n.nextSubmission
    /\ \A id \in DOMAIN s.records :
           \/ s.records[id] = "retryable"
           \/ s.records[id] = "failed"
              /\ id \notin PendingIds(n) /\ id \notin EndedAs(n, "accepted")
    /\ s.barrier \in Nat /\ s.barrier < n.nextBarrier

\* A score that waits is in the mirror, or will be.
WaitingTold(n, p, s) ==
    \A id \in PendingIds(n) :
        Recorded(s, id, "retryable") \/ (id \notin s.seen /\ WillAdd(n, p, id))

\* One that was accepted is not, or will be taken out.
AcceptedTold(n, p, s) ==
    \A id \in EndedAs(n, "accepted") :
        /\ id \in DOMAIN s.records => WillResolve(n, p, id, "accepted")
        /\ id \notin s.seen => MustGo(n, p, id, "accepted")

\* One that was rejected is there as failed, or will be.
RejectedTold(n, p, s) ==
    \A id \in EndedAs(n, "permanent") :
        \/ Recorded(s, id, "failed")
        \/ id \in DOMAIN s.records /\ WillResolve(n, p, id, "permanent")
        \/ id \notin s.seen /\ WillComeAndGo(n, p, id, "permanent")

\* One that was discarded is not, or is about to be taken out.
GoneTold(n, p, s, x) ==
    \A id : IsGone(n, id) =>
        /\ id \in DOMAIN s.records => x.stage = "discarded" /\ id \in x.ids
        /\ WillAdd(n, p, id) => id \in s.seen

\* What the pipe says of the end of a submission is so, or may be so again.
TruthTold(n, p) ==
    \A id, r : WillResolve(n, p, id, r) =>
        /\ id \notin PendingIds(n)
        /\ r = "accepted" => id \in EndedAs(n, "accepted")
        /\ r = "permanent" => id \notin EndedAs(n, "accepted")

\* A submission is not taken for another one of its attempt.
OncePerAttempt(n, p, s) ==
    /\ \A i \in DOMAIN p : \A id :
           Adds(n, p[i], id) /\ id \notin s.seen => HasAttempt(n, id, p[i].attempt)
    /\ \A id, a : HasAttempt(n, id, a) /\ id \notin s.seen => a \notin s.attempts
    /\ \A a \in s.attempts : a \in Nat \ {0} /\ a < n.nextAttempt /\ ~TrackedBy(n, a)

\* What is to be taken out is there, and the runtime has discarded it.
Discarded(n, s, x) ==
    x.stage = "discarded" => \A id \in x.ids : id \in DOMAIN s.records /\ IsGone(n, id)

Reflects(n, p, s, x) ==
    /\ WaitingTold(n, p, s) /\ AcceptedTold(n, p, s) /\ RejectedTold(n, p, s)
    /\ GoneTold(n, p, s, x) /\ TruthTold(n, p) /\ OncePerAttempt(n, p, s)
    /\ Discarded(n, s, x)

\* What a synchronisation is about to apply is so.
Applied(n, y) ==
    /\ y.accepted \subseteq EndedAs(n, "accepted")
    /\ \A id \in y.failed :
           /\ id \in Nat /\ id < n.nextSubmission
           /\ id \notin PendingIds(n) /\ id \notin EndedAs(n, "accepted")

Mirrored ==
    Live => /\ Once(native) /\ Records(native, store)
            /\ Reflects(native, pipe, store, exit) /\ Applied(native, sync)

-----------------------------------------------------------------------------
(* The exit.                                                               *)

IsBarrier(n, e, barrier) ==
    e.kind = "Barrier" /\ e.session = n.session /\ e.barrier >= barrier

\* Submission id is told of before the barrier.
ToldBefore(n, p, barrier, id) ==
    \A j \in DOMAIN p : IsBarrier(n, p[j], barrier) =>
        \E i \in DOMAIN p : i < j /\ Adds(n, p[i], id)

Warned(n, p, s, x) ==
    ~x.late =>
        /\ x.stage = "verifying" =>
               /\ x.barrier \in Nat
               /\ \A id \in PendingIds(n) :
                      \/ id \in DOMAIN s.records
                      \/ s.barrier < x.barrier /\ ToldBefore(n, p, x.barrier, id)
        /\ x.stage \in {"asked", "syncing"} => PendingIds(n) \subseteq DOMAIN s.records
        /\ x.stage \in {"leaving", "discarded"} => DOMAIN n.scheduled = {}

Asking == Live => Warned(native, pipe, store, exit)

-----------------------------------------------------------------------------
\* The runtime, the pipe and the session.
Base == Shapes /\ Steady(native) /\ Piped /\ InSession

\* What the screen shows.
Screen ==
    /\ Coordinated /\ Numbered
    /\ ~resets.crossed => Awaited /\ Shown

IInv == muddled = {} => Base /\ Screen /\ Mirrored /\ Asking

=============================================================================
