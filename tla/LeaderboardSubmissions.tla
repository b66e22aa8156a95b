----------------------- MODULE LeaderboardSubmissions -----------------------
(* The attempts at a game's leaderboards and the scores that wait for the   *)
(* server, from the frame that submits them to what the player is told:     *)
(* the native runtime (LeaderboardRuntime), the pipe of its events, the     *)
(* coordinator of attempts (LeaderboardCoordinator), the mirror of the      *)
(* pending submissions with its synchronisation and its discarding on exit, *)
(* resets, and sessions that end with events still in the pipe.             *)
EXTENDS LeaderboardRuntime, LeaderboardCoordinator

CONSTANTS
    MaxAttempts,     \* bound: identifiers, besides those of barriers
    MaxSubmissions,  \* bound: submissions
    MaxOutages,      \* bound: submissions and retries left unanswered
    MaxSessions,     \* bound: sessions
    MaxResets,       \* bound: resets asked for
    MaxRefreshes,    \* bound: barriers of a session, besides one from the dialog
    MaxLag           \* bound: events in the pipe when a frame starts

ASSUME BoundsAssumption ==
    {MaxAttempts, MaxSubmissions, MaxOutages, MaxSessions, MaxResets,
     MaxRefreshes, MaxLag} \subseteq Nat

VARIABLES
    native,       \* RetroAchievementsManager and rc_client
    pipe,         \* its events, to be read by the app
    coordinator,  \* LeaderboardAttemptCoordinator
    store,        \* PendingRaSubmissionStore and the barrier last read
    session,      \* the app's session: number, path open, number of the next
    resets,       \* resets asked for and not done, all, and two of them at once
    sync,         \* RaPendingSubmissionSyncCoordinator's flight
    exit,         \* the dialog of a player who leaves with scores waiting
    outages,      \* submissions and retries left unanswered
    muddled       \* history: leaderboards whose attempts were mixed up

vars == <<native, pipe, coordinator, store, session, resets, sync, exit,
          outages, muddled>>

NoStore == [session |-> Never, records |-> <<>>, seen |-> {}, attempts |-> {},
            barrier |-> 0]

NoFlight == [stage |-> "none", barrier |-> 0, ids |-> {}, failed |-> {},
             accepted |-> {}]

NoExit == [stage |-> "none", barrier |-> 0, frame |-> FALSE, late |-> FALSE,
           ids |-> {}]

Init ==
    /\ native = InitialRuntime
    /\ pipe = <<>>
    /\ coordinator = InitialCoordinator
    /\ store = NoStore
    /\ session = [number |-> Never, open |-> FALSE, next |-> 1]
    /\ resets = [waiting |-> 0, made |-> 0, crossed |-> FALSE]
    /\ sync = NoFlight
    /\ exit = NoExit
    /\ outages = 0
    /\ muddled = {}

---------------------------------------------------------------------------
(* Calls into the native runtime.                                          *)

(* The runtime's new state is m, the events it sent are in the pipe.        *)
Native(m) ==
    /\ native' = [m EXCEPT !.out = <<>>]
    /\ pipe' = pipe \o m.out
    /\ m.nextAttempt <= MaxAttempts + session.next + resets.made
    /\ m.nextSubmission <= MaxSubmissions + 1

(* The last answer decides whether the entry is left to be retried.        *)
Suffers(answer) ==
    /\ outages' = IF answer = "unreachable" THEN outages + 1 ELSE outages
    /\ outages' <= MaxOutages

Live == native.session # Never

(* The lock is held during the retries of a synchronisation.  A player who  *)
(* leaves has the emulator paused first, which does not wait for the frame  *)
(* under way.                                                               *)
FrameMayRun ==
    /\ Live
    /\ sync.stage # "retrying"
    /\ exit.stage = "none" \/ exit.frame
    /\ Len(pipe) <= MaxLag

(* A frame changes the state of at most one leaderboard...                 *)
FrameOf(m) ==
    /\ FrameMayRun
    /\ Native(PublishTrackers(m))
    /\ exit' = [exit EXCEPT !.frame = FALSE, !.late = exit.stage # "none"]
    /\ UNCHANGED <<coordinator, store, session, resets, sync>>

(* A submission shares the attempt of one that still waits, unless that one *)
(* was tracked or a reset came in between.                                  *)
SharesAttempt(lb) ==
    LET a == native.active[lb]
    IN  a \in DOMAIN native.attempts
        /\ native.attempts[a].submitted /\ ~native.attempts[a].terminal

(* A retry that is not known to be one counts as a new submission.          *)
StraysFrom(lb, t) ==
    t \notin DOMAIN native.byToken \/ native.byToken[t] # native.active[lb]

Muddles(lb, condition) ==
    muddled' = muddled \cup {x \in {lb} : condition}

StartAttempt(lb) ==
    /\ native.lboard[lb] = "active"
    /\ FrameOf(Started(native, lb))
    /\ UNCHANGED <<outages, muddled>>

CancelAttempt(lb) ==
    /\ native.lboard[lb] = "tracking"
    /\ FrameOf(Canceled(native, lb))
    /\ UNCHANGED <<outages, muddled>>

(* The callback data of a submission may lie anywhere that is free; addresses *)
(* that were never used are alike.                                          *)
FreeTokens ==
    IF native.nextSubmission = 1
    THEN {CHOOSE t \in Tokens : TRUE}
    ELSE Tokens \ DOMAIN native.scheduled

(* ... whether it was being tracked or starts and ends in the same frame.   *)
SubmitAttempt(lb) ==
    \E t \in FreeTokens : \E answers \in FirstAnswers :
        /\ Suffers(IF answers[1] = "unreachable" THEN answers[2] ELSE answers[1])
        /\ FrameOf(Submitted(native, lb, t, answers))
        /\ Muddles(lb, SharesAttempt(lb))

(* ... or makes a retry that is due, a second after the submission or more. *)
RetryScheduled(t) ==
    /\ t \in DOMAIN native.scheduled
    /\ \E answer \in Answers :
           /\ Suffers(answer)
           /\ FrameOf(RetryEntry(native, t, TRUE, answer))
    /\ UNCHANGED muddled

---------------------------------------------------------------------------
(* Events read by the app, one after the other.                            *)

Reads(kinds) == pipe # <<>> /\ Head(pipe).kind \in kinds /\ pipe' = Tail(pipe)

ReadRuntimeReset ==
    /\ Reads({"RuntimeReset"})
    /\ coordinator' = CompleteRuntimeReset(coordinator, Head(pipe).floor)
    /\ UNCHANGED <<native, store, session, resets, sync, exit, outages, muddled>>

Results == {"Scoreboard", "Failed", "Canceled"}

ReadAttemptEvent ==
    LET e == Head(pipe)
    IN  /\ Reads({"Started", "Updated", "Hidden", "Submitted"} \cup Results)
        /\ coordinator' = IF session.open THEN Reduce(coordinator, e) ELSE coordinator
        /\ UNCHANGED <<native, store, session, resets, sync, exit, outages, muddled>>

(* A submission is added once, and once for an attempt.                    *)
ReadAdded ==
    LET e == Head(pipe)
        new == /\ session.open /\ e.session = store.session
               /\ e.id \notin store.seen
               /\ e.attempt \notin store.attempts
    IN  /\ Reads({"Added"})
        /\ store' = IF new
                    THEN [store EXCEPT !.records = With(@, e.id, "retryable"),
                                       !.seen = @ \cup {e.id},
                                       !.attempts = @ \cup {e.attempt}]
                    ELSE store
        /\ UNCHANGED <<native, coordinator, session, resets, sync, exit, outages, muddled>>

Settle(records, accepted, failed) ==
    [id \in DOMAIN records \ accepted |->
        IF id \in failed THEN "failed" ELSE records[id]]

ReadResolved ==
    LET e == Head(pipe)
        ids(resolution) == {id \in {e.id} : e.resolution = resolution}
    IN  /\ Reads({"Resolved"})
        /\ store' = IF e.session = store.session
                    THEN [store EXCEPT !.records =
                             Settle(@, ids("accepted"), ids("permanent"))]
                    ELSE store
        /\ UNCHANGED <<native, coordinator, session, resets, sync, exit, outages, muddled>>

ReadBarrier ==
    LET e == Head(pipe)
    IN  /\ Reads({"Barrier"})
        /\ store' = IF session.open /\ e.session = store.session
                    THEN [store EXCEPT !.barrier = e.barrier]
                    ELSE store
        /\ UNCHANGED <<native, coordinator, session, resets, sync, exit, outages, muddled>>

Read == ReadRuntimeReset \/ ReadAttemptEvent \/ ReadAdded \/ ReadResolved \/ ReadBarrier

---------------------------------------------------------------------------
(* Resets: the coordinator waits for the barrier of the native one, or for  *)
(* that of an earlier reset or session if one is still to come.             *)
(* A reset and an exit exclude each other here, but not in the code: the    *)
(* resume that ends the reset would set frames going beside the exit, all   *)
(* of them late, as the one of exit.frame is.                               *)

ResetEmulator ==
    /\ session.number # Never
    /\ resets.made < MaxResets
    /\ exit.stage = "none"
    /\ coordinator' = BeginRuntimeReset(coordinator)
    /\ resets' = [resets EXCEPT !.waiting = @ + 1, !.made = @ + 1,
                                !.crossed = @ \/ coordinator.awaiting]
    /\ UNCHANGED <<native, pipe, store, session, sync, exit, outages, muddled>>

NativeReset ==
    /\ resets.waiting > 0
    /\ sync.stage # "retrying"
    /\ Native(Reset(native))
    /\ resets' = [resets EXCEPT !.waiting = @ - 1]
    /\ UNCHANGED <<coordinator, store, session, sync, exit, outages, muddled>>

---------------------------------------------------------------------------
(* Sessions.                                                               *)

(* A session starts from a fresh collector of events, which misses those    *)
(* that were read but not dealt with.                                       *)
BeginSession ==
    /\ session.number = Never
    /\ session.next <= MaxSessions
    /\ session' = [number |-> session.next, open |-> FALSE, next |-> session.next + 1]
    /\ \E missed \in 0..Len(pipe) :
           pipe' = SubSeq(pipe, missed + 1, Len(pipe))
    /\ coordinator' = BeginRuntimeReset(ResetCoordinator(coordinator))
    /\ resets' = [resets EXCEPT !.crossed =
           resets.waiting > 0 \/ \E i \in DOMAIN pipe' : pipe'[i].kind = "RuntimeReset"]
    /\ store' = NoStore
    /\ UNCHANGED <<native, sync, exit, outages, muddled>>

OpenSession ==
    /\ session.number # Never /\ ~session.open
    /\ session' = [session EXCEPT !.open = TRUE]
    /\ store' = [NoStore EXCEPT !.session = session.number]
    /\ UNCHANGED <<native, pipe, coordinator, resets, sync, exit, outages, muddled>>

ActivateSession ==
    /\ session.open /\ ~Live
    /\ Native(Activate(native, session.number))
    /\ UNCHANGED <<coordinator, store, session, resets, sync, exit, outages, muddled>>

(* Whatever is still in the pipe stays there.                              *)
StopSession ==
    /\ session.open
    /\ sync.stage # "retrying"
    /\ exit.stage \in {"none", "leaving"}
    /\ coordinator' = ResetCoordinator(coordinator)
    /\ native' = Cleared(native)
    /\ session' = [session EXCEPT !.number = Never, !.open = FALSE]
    /\ sync' = NoFlight
    /\ exit' = NoExit
    /\ muddled' = {}
    /\ UNCHANGED <<pipe, store, resets, outages>>

---------------------------------------------------------------------------
(* Synchronisation: the mirror is brought up to date, then every record     *)
(* that may be retried is, one by one, and the outcome applied at the end.  *)

RefreshMirror ==
    /\ session.open /\ Live
    /\ sync.stage # "retrying"
    /\ native.nextBarrier <= MaxRefreshes + Cardinality({exit.stage} \cap {"asked"})
    /\ Native(Refresh(native))
    /\ UNCHANGED muddled

Retryable == {id \in DOMAIN store.records : store.records[id] = "retryable"}

BeginSync ==
    /\ sync.stage = "none"
    /\ RefreshMirror
    /\ sync' = [NoFlight EXCEPT !.stage = "verifying", !.barrier = native.nextBarrier]
    /\ \/ exit.stage = "none" /\ UNCHANGED exit
       \/ exit.stage = "asked" /\ exit' = [exit EXCEPT !.stage = "syncing"]
    /\ UNCHANGED <<coordinator, store, session, resets, outages>>

VerifySync ==
    /\ sync.stage = "verifying"
    /\ store.barrier >= sync.barrier
    /\ sync' = IF Retryable = {} THEN NoFlight
               ELSE [sync EXCEPT !.stage = "ready", !.ids = Retryable]
    /\ UNCHANGED <<native, pipe, coordinator, store, session, resets, exit, outages, muddled>>

SyncTimesOut ==
    /\ sync.stage = "verifying"
    /\ store.barrier < sync.barrier
    /\ sync' = NoFlight
    /\ UNCHANGED <<native, pipe, coordinator, store, session, resets, exit, outages, muddled>>

(* Every record must be settled by now or still wait, or nothing is done.   *)
PlanSync ==
    LET waiting == {native.pending[t].id : t \in
                       {u \in DOMAIN native.pending : /\ native.pending[u].published
                                                      /\ u \in DOMAIN native.scheduled}}
    IN  /\ sync.stage = "ready"
        /\ sync' = IF sync.ids \subseteq DOMAIN native.settled \cup waiting
                   THEN [sync EXCEPT !.stage = "retrying"]
                   ELSE NoFlight
        /\ UNCHANGED <<native, pipe, coordinator, store, session, resets, exit, outages, muddled>>

(* The outcome of record id is what the runtime has settled, if it has.     *)
Reported(m, id) ==
    [sync EXCEPT
        !.ids = @ \ {id},
        !.stage = IF sync.ids = {id} THEN "applying" ELSE @,
        !.accepted = @ \cup {x \in {id} \cap DOMAIN m.settled :
                                  m.settled[x].resolution = "accepted"},
        !.failed = @ \cup ({id} \cap FailedIds(m))]

RetryRecord ==
    LET id == Min(sync.ids)
    IN  /\ sync.stage = "retrying"
        /\ IF id \in DOMAIN native.settled
           THEN /\ sync' = Reported(native, id)
                /\ UNCHANGED <<native, pipe, outages, muddled>>
           ELSE \E t \in DOMAIN native.pending, answer \in Answers, elapsed \in BOOLEAN :
                    LET m == RetryEntry(native, t, elapsed, answer)
                    IN  /\ native.pending[t].id = id
                        /\ elapsed \/ t \in native.young
                        /\ Suffers(answer)
                        /\ Native(m)
                        /\ Muddles(native.scheduled[t],
                                   ~elapsed /\ StraysFrom(native.scheduled[t], t))
                        /\ sync' = Reported(m, id)
        /\ UNCHANGED <<coordinator, store, session, resets, exit>>

(* Mutant: what was rejected meanwhile may be retried again.                *)
ApplySyncForgetful ==
    /\ sync.stage = "applying"
    /\ store' = [store EXCEPT !.records =
           [id \in DOMAIN @ \ sync.accepted |->
               IF id \in sync.failed THEN "failed" ELSE "retryable"]]
    /\ sync' = NoFlight
    /\ UNCHANGED <<native, pipe, coordinator, session, resets, exit, outages, muddled>>

ApplySync ==
    /\ sync.stage = "applying"
    /\ store' = [store EXCEPT !.records = Settle(@, sync.accepted, sync.failed)]
    /\ sync' = NoFlight
    /\ UNCHANGED <<native, pipe, coordinator, session, resets, exit, outages, muddled>>

---------------------------------------------------------------------------
(* A player leaves.  The emulator is paused, the mirror brought up to date  *)
(* and the player asked if scores are waiting.                              *)

LeaveGame ==
    /\ exit.stage = "none" /\ resets.waiting = 0
    /\ RefreshMirror
    /\ exit' = [NoExit EXCEPT !.stage = "verifying",
                              !.barrier = native.nextBarrier, !.frame = TRUE]
    /\ UNCHANGED <<coordinator, store, session, resets, sync, outages>>

(* Mutant: the mirror is looked at without waiting for the barrier.         *)
VerifyLeavingAtOnce ==
    /\ exit.stage = "verifying"
    /\ exit' = [exit EXCEPT !.stage =
           IF store.records = NoFunction THEN "leaving" ELSE "asked"]
    /\ UNCHANGED <<native, pipe, coordinator, store, session, resets, sync, outages, muddled>>

VerifyLeaving ==
    /\ exit.stage = "verifying"
    /\ store.barrier >= exit.barrier
    /\ exit' = [exit EXCEPT !.stage =
           IF store.records = NoFunction THEN "leaving" ELSE "asked"]
    /\ UNCHANGED <<native, pipe, coordinator, store, session, resets, sync, outages, muddled>>

LeavingTimesOut ==
    /\ exit.stage = "verifying"
    /\ store.barrier < exit.barrier
    /\ exit' = NoExit
    /\ UNCHANGED <<native, pipe, coordinator, store, session, resets, sync, outages, muddled>>

ContinuePlaying ==
    /\ exit.stage = "asked"
    /\ exit' = NoExit
    /\ UNCHANGED <<native, pipe, coordinator, store, session, resets, sync, outages, muddled>>

(* The player chose to synchronise first, and leaves if nothing is left.    *)
LeaveSynchronised ==
    /\ exit.stage = "syncing" /\ sync.stage = "none"
    /\ exit' = IF store.records = NoFunction
               THEN [exit EXCEPT !.stage = "leaving"] ELSE NoExit
    /\ UNCHANGED <<native, pipe, coordinator, store, session, resets, sync, outages, muddled>>

(* Leaderboards with an attempt that looks pending and that the runtime     *)
(* knows nothing of: no event tells of a discarded one.                     *)
Orphaned ==
    {coordinator.states[a].leaderboard : a \in
        {b \in DOMAIN coordinator.states :
            /\ Phase(coordinator, b) = "PENDING"
            /\ \A t \in DOMAIN native.byToken : native.byToken[t] # b}}

(* What the runtime does not discard as a whole is shown again and asked    *)
(* about anew; otherwise the records go, after which nothing may remain.    *)
DiscardScores ==
    LET ids == DOMAIN store.records
    IN  /\ exit.stage = "asked" /\ sync.stage # "retrying" /\ ids # {}
        /\ IF MayDiscard(native, ids)
           THEN /\ Native(Discard(native, ids))
                /\ UNCHANGED muddled
                /\ exit' = [exit EXCEPT !.stage = "discarded", !.ids = ids]
           ELSE /\ RefreshMirror
                /\ exit' = NoExit
        /\ UNCHANGED <<coordinator, store, session, resets, sync, outages>>

DiscardRecords ==
    LET known == exit.ids \subseteq DOMAIN store.records
        records == Without(store.records, exit.ids)
        leaves == known /\ records = NoFunction
    IN  /\ exit.stage = "discarded"
        /\ store' = IF known THEN [store EXCEPT !.records = records] ELSE store
        /\ exit' = IF leaves THEN [exit EXCEPT !.stage = "leaving"] ELSE NoExit
        /\ muddled' = IF leaves THEN muddled ELSE muddled \cup Orphaned
        /\ UNCHANGED <<native, pipe, coordinator, session, resets, sync, outages>>

---------------------------------------------------------------------------
Frame ==
    \/ \E lb \in Leaderboards : StartAttempt(lb) \/ CancelAttempt(lb) \/ SubmitAttempt(lb)
    \/ \E t \in Tokens : RetryScheduled(t)

Sessions == BeginSession \/ OpenSession \/ ActivateSession \/ StopSession

Synchronise ==
    BeginSync \/ VerifySync \/ SyncTimesOut \/ PlanSync \/ RetryRecord \/ ApplySync

Leave ==
    \/ LeaveGame \/ VerifyLeaving \/ LeavingTimesOut \/ ContinuePlaying
    \/ LeaveSynchronised \/ DiscardScores \/ DiscardRecords

(* No property says anything of what follows a mix-up: it ends a behaviour. *)
Sound == muddled = {} /\ ~resets.crossed

Next ==
    /\ Sound
    /\ Frame \/ Read \/ ResetEmulator \/ NativeReset \/ Sessions \/ Synchronise \/ Leave

(* The app reads what is in the pipe; a synchronisation, which makes one    *)
(* call after the other, comes to its end; and rc_client retries a score in *)
(* the frames as often as it takes: the server is reached at last.          *)
Fairness ==
    /\ WF_vars(Read)
    /\ []<>(sync.stage # "retrying")
    /\ \A t \in Tokens :
           []<>(t \in DOMAIN native.scheduled /\ FrameMayRun)
               => []<>(t \notin DOMAIN native.scheduled)

Spec == Init /\ [][Next]_vars /\ Fairness

---------------------------------------------------------------------------
(* Properties.                                                             *)

(* The app's mirror of the waiting submissions, the one the menu counts and *)
(* the exit dialog asks about, is right whenever every event has been read  *)
(* and nothing is being applied: it holds what the runtime waits to retry   *)
(* and what the server rejected for good, replayed, synchronised, discarded *)
(* or not, in every session.                                                *)
MirrorIsTrue ==
    (/\ pipe = <<>> /\ session.open /\ Live /\ muddled = {}
     /\ sync.stage \notin {"retrying", "applying"} /\ exit.stage # "discarded")
        => /\ DOMAIN store.records = PublishedIds(native) \cup FailedIds(native)
           /\ \A id \in DOMAIN store.records :
                  store.records[id] = "failed" <=> id \in FailedIds(native)

(* Once every event has been read, the attempts the screen shows as being   *)
(* tracked are those the runtime tracks: none is left over from before a    *)
(* reset or another session, and none is missing.                           *)
IndicatorsAreTrue ==
    (/\ pipe = <<>> /\ session.open /\ Live /\ muddled = {}
     /\ ~coordinator.awaiting /\ ~resets.crossed)
        => {a \in DOMAIN coordinator.states : Phase(coordinator, a) = "TRACKING"}
               = {native.active[lb] : lb \in
                     {x \in Leaderboards : native.lboard[x] = "tracking"}}

(* A player who leaves without having been asked leaves nothing behind: when *)
(* the exit goes ahead no score waits for a retry, unless the frame that was *)
(* under way at the pause came after the question.                          *)
LeavesNothingUntold ==
    exit.stage = "leaving" /\ ~exit.late /\ muddled = {}
        => native.scheduled = NoFunction

(* Events sent before a reset, of the console or between two sessions, no   *)
(* longer change anything once the reset was asked for, except for answers  *)
(* to submissions that still wait.  A wait for a barrier may be ended by    *)
(* the barrier of an earlier reset: barriers are not told apart.            *)
NothingFromBeforeReset ==
    [][\A a \in DOMAIN coordinator'.states :
           (/\ Phase(coordinator', a) # Phase(coordinator, a)
            /\ ~resets.crossed)
               => \/ a > native.floor /\ resets.waiting = 0
                  \/ Phase(coordinator, a) = "PENDING"]_coordinator

(* The answer to a retry counts for the attempt its score was made in,      *)
(* whatever attempts of the same leaderboard came in between.               *)
RetryKeepsAttempt ==
    [][\A t \in DOMAIN native.scheduled \ DOMAIN native'.scheduled :
           (Live' /\ native.scheduled[t] \notin muddled')
               => \A i \in Len(pipe) + 1 .. Len(pipe') :
                      pipe'[i].kind \in Results
                          => pipe'[i].attempt = native.pending[t].attempt]_native

(* A player who goes on playing learns what became of every score: an       *)
(* attempt does not stay pending once the server can be reached again.      *)
PendingIsSettled ==
    \A a \in 2 .. MaxAttempts + 1 :
        Phase(coordinator, a) = "PENDING"
            ~> \/ Phase(coordinator, a) # "PENDING"
               \/ exit.stage # "none" \/ muddled # {} \/ resets.crossed

=============================================================================
