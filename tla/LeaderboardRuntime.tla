------------------------- MODULE LeaderboardRuntime -------------------------
(* The native half of the leaderboards: what RetroAchievementsManager keeps *)
(* about attempts and submissions around the calls and events of the        *)
(* vendored rc_client.  Everything here runs under the runtime lock, so     *)
(* each operator is a function of the whole state of the manager: a record  *)
(* "n" whose field "out" collects the events sent, in order.                *)
(*                                                                          *)
(* A submission is the callback data of rc_client, whose address the        *)
(* manager uses as its token.  Only online sessions in hardcore and only    *)
(* leaderboards are modelled; scores, names and ranks are left out, and so  *)
(* are the numbers of an attempt's events, which the pipe keeps in order.   *)
EXTENDS Naturals, Sequences, SequencesExt

CONSTANTS
    Leaderboards,  \* the leaderboards of the game
    Tokens         \* addresses of callback data, reused once freed

Never == 0         \* no attempt, no session

---------------------------------------------------------------------------
(* State.                                                                  *)

NoFunction == <<>>

Without(f, keys) == [x \in DOMAIN f \ keys |-> f[x]]

With(f, key, value) ==
    [x \in DOMAIN f \cup {key} |-> IF x = key THEN value ELSE f[x]]

(* The runtime before a game is loaded, which is also what deactivating it *)
(* leaves: the counters go on, no event tells of what was dropped.         *)
Cleared(n) ==
    [n EXCEPT !.session = Never,
              !.lboard = [lb \in Leaderboards |-> "active"],
              !.attempts = NoFunction,
              !.active = [lb \in Leaderboards |-> Never],
              !.byToken = NoFunction,
              !.shown = {},
              !.response = Never,
              !.scheduled = NoFunction,
              !.young = {},
              !.pending = NoFunction,
              !.settled = NoFunction,
              !.nextBarrier = 1]

InitialRuntime ==
    Cleared([session |-> Never, lboard |-> NoFunction, attempts |-> NoFunction,
             active |-> NoFunction, byToken |-> NoFunction, shown |-> {},
             response |-> Never, scheduled |-> NoFunction, young |-> {},
             pending |-> NoFunction,
             settled |-> NoFunction, nextBarrier |-> 1, nextAttempt |-> 1,
             nextSubmission |-> 1, floor |-> 0, out |-> <<>>])

Send(n, message) == [n EXCEPT !.out = Append(@, message)]

SendEvent(n, kind, a) ==
    Send(n, [kind |-> kind, leaderboard |-> n.attempts[a].leaderboard,
             attempt |-> a])

---------------------------------------------------------------------------
(* Attempts.                                                               *)

Referenced(n) ==
    {n.response} \cup {n.active[lb] : lb \in Leaderboards}
        \cup {n.byToken[t] : t \in DOMAIN n.byToken}

Pruned(n) ==
    [n EXCEPT !.attempts = Without(@, DOMAIN @ \ Referenced(n))]

BeginAttempt(n, lb) ==
    LET attempt == [leaderboard |-> lb, submitted |-> FALSE,
                    terminal |-> FALSE]
    IN  Pruned([n EXCEPT !.nextAttempt = @ + 1,
                         !.attempts = With(@, n.nextAttempt, attempt),
                         !.active[lb] = n.nextAttempt,
                         !.shown = @ \ {lb}])

(* Afterwards the attempt is n.active[lb].                                 *)
EnsureAttempt(n, lb, startNewIfTerminal) ==
    IF \/ n.active[lb] \notin DOMAIN n.attempts
       \/ startNewIfTerminal /\ n.attempts[n.active[lb]].terminal
    THEN BeginAttempt(n, lb)
    ELSE n

ForgetCallbacks(n, a) ==
    [n EXCEPT !.byToken =
        Without(@, {t \in DOMAIN n.byToken : n.byToken[t] = a})]

(* A result ends its attempt, once.                                        *)
Finish(n, kind, a) ==
    IF n.attempts[a].terminal
    THEN n
    ELSE ForgetCallbacks(
             SendEvent([n EXCEPT !.attempts[a].terminal = TRUE], kind, a), a)

(* Mutant: the first attempt after the barrier is given its number.         *)
PublishResetBarrierShared(n) ==
    LET m == Pruned([n EXCEPT !.active = [lb \in Leaderboards |-> Never],
                              !.shown = {}])
    IN  Send([m EXCEPT !.floor = m.nextAttempt],
             [kind |-> "RuntimeReset", floor |-> m.nextAttempt])

(* A barrier in the stream of events: what is below the floor is over.     *)
PublishResetBarrier(n) ==
    LET m == Pruned([n EXCEPT !.active = [lb \in Leaderboards |-> Never],
                              !.shown = {}])
    IN  Send([m EXCEPT !.nextAttempt = @ + 1, !.floor = m.nextAttempt],
             [kind |-> "RuntimeReset", floor |-> m.nextAttempt])

---------------------------------------------------------------------------
(* Submissions that wait for a retry.                                      *)

Publishable(p) == p.ready /\ p.waiting

Added(n, p) ==
    [kind |-> "Added", session |-> n.session, id |-> p.id, attempt |-> p.attempt]

Resolved(n, id, resolution) ==
    [kind |-> "Resolved", session |-> n.session, id |-> id,
     resolution |-> resolution]

MaybePublish(n, t) ==
    IF n.pending[t].published \/ ~Publishable(n.pending[t])
    THEN n
    ELSE Send([n EXCEPT !.pending[t].published = TRUE], Added(n, n.pending[t]))

PreparePending(n, t) ==
    IF t \in DOMAIN n.pending
    THEN n
    ELSE [n EXCEPT
            !.nextSubmission = @ + 1,
            !.pending =
                With(@, t, [id |-> n.nextSubmission, attempt |-> n.response,
                            ready |-> FALSE, waiting |-> FALSE,
                            published |-> FALSE])]

Marked(pending, ready, published) ==
    [t \in DOMAIN pending |->
        [pending[t] EXCEPT !.ready = @ \/ t \in ready,
                           !.published = @ \/ t \in published]]

Additions(n, tokens) == {Added(n, n.pending[t]) : t \in tokens}

MatchesOf(n, a) == {t \in DOMAIN n.pending : n.pending[t].attempt = a}

ToldOf(n, a) ==
    {t \in MatchesOf(n, a) : n.pending[t].waiting /\ ~n.pending[t].published}

(* The SUBMITTED event of attempt a has its score ready to be shown.        *)
MarkReady(n, a) ==
    [n EXCEPT !.pending = Marked(@, MatchesOf(n, a), ToldOf(n, a)),
              !.out = @ \o SetToSeq(Additions(n, ToldOf(n, a)))]

FinalizePending(n, t, retryPending, resolution) ==
    CASE t \notin DOMAIN n.pending -> n
      [] t \in DOMAIN n.pending /\ retryPending ->
             MaybePublish([n EXCEPT !.pending[t].waiting = TRUE], t)
      [] OTHER ->
             LET p == n.pending[t]
                 m == [n EXCEPT !.pending = Without(@, {t})]
             IN  IF ~p.published
                 THEN m
                 ELSE Send([m EXCEPT !.settled =
                               With(@, p.id, [attempt |-> p.attempt,
                                              resolution |-> resolution])],
                           Resolved(n, p.id, resolution))

---------------------------------------------------------------------------
(* Requests and their answers.  The server accepts an entry, rejects it for *)
(* good or cannot be reached; the call returns before the frame goes on.    *)

(* Mutant: a retry counts for the attempt that is the current one.          *)
RequestOfCurrent(n, lb, t, isRetry) ==
    LET m == EnsureAttempt(n, lb, TRUE)
        a == m.active[lb]
    IN  PreparePending([m EXCEPT !.byToken = With(@, t, a), !.response = a], t)

(* The attempt a request belongs to: the one of its callback data, if the   *)
(* request is known to be a retry, and the leaderboard's current one        *)
(* otherwise.  It is n.response until the answer is dealt with.             *)
Request(n, lb, t, isRetry) ==
    LET known == isRetry /\ t \in DOMAIN n.byToken
        m == IF known THEN n ELSE EnsureAttempt(n, lb, TRUE)
        a == IF known THEN n.byToken[t] ELSE m.active[lb]
    IN  PreparePending(
            [m EXCEPT !.byToken = With(@, t, a),
                      !.response = a],
            t)

EndResponse(n) ==
    Pruned([n EXCEPT !.response = Never, !.young = @ \cap DOMAIN n.scheduled])

(* rc_client tells of the scoreboard unless it took a scheduled retry.      *)
RaiseScoreboard(n, scheduled) ==
    IF scheduled THEN n ELSE Finish(n, "Scoreboard", n.response)

(* Mutant: the manager relies on rc_client.                                 *)
NoTransportScoreboard(n) == n

(* The manager read the scoreboard in the answer and makes up for it.       *)
TransportScoreboard(n) == Finish(n, "Scoreboard", n.response)

Accepted(n, t, scheduled) ==
    EndResponse(FinalizePending(
        TransportScoreboard(RaiseScoreboard(n, scheduled)),
        t, FALSE, "accepted"))

Rejected(n, t) ==
    EndResponse(FinalizePending(
        Finish(n, "Failed", n.response), t, FALSE, "permanent"))

(* A second failure has the submission wait in the queue of rc_client.      *)
Scheduled(n, lb, t) ==
    EndResponse(FinalizePending(
        [n EXCEPT !.scheduled = With(@, t, lb)], t, TRUE, "none"))

Answered(n, lb, t, answer, scheduled) ==
    CASE answer = "accepted" -> Accepted(n, t, scheduled)
      [] answer = "rejected" -> Rejected(n, t)
      [] answer = "unreachable" -> Scheduled(n, lb, t)

Answers == {"accepted", "rejected", "unreachable"}

(* The first answer, and the second one if the first call failed: that      *)
(* retry is made at once, from within the callback.                         *)
FirstAnswers == {<<a, "none">> : a \in Answers \ {"unreachable"}}
                    \cup {<<"unreachable", a>> : a \in Answers}

SubmitEntry(n, lb, t, answers) ==
    LET m == Request([n EXCEPT !.young = @ \cup {t}], lb, t, FALSE)
    IN  IF answers[1] = "unreachable"
        THEN Answered(Request(m, lb, t, TRUE), lb, t, answers[2], FALSE)
        ELSE Answered(m, lb, t, answers[1], FALSE)

(* A submission leaves the queue.  A request of less than a second after    *)
(* the submission does not say how long ago that was, which is how the      *)
(* manager tells a retry from a new submission.                             *)
RetryEntry(n, t, elapsed, answer) ==
    LET lb == n.scheduled[t]
        m == [n EXCEPT !.scheduled = Without(@, {t}),
                      !.young = IF elapsed THEN @ \ {t} ELSE @]
    IN  Answered(Request(m, lb, t, elapsed), lb, t, answer, TRUE)

---------------------------------------------------------------------------
(* What a frame may find of one leaderboard.                               *)

Started(n, lb) ==
    LET m == BeginAttempt([n EXCEPT !.lboard[lb] = "tracking"], lb)
    IN  SendEvent(m, "Started", m.active[lb])

Canceled(n, lb) ==
    LET m == EnsureAttempt([n EXCEPT !.lboard[lb] = "active"], lb, FALSE)
        a == m.active[lb]
    IN  IF m.attempts[a].terminal
        THEN m
        ELSE SendEvent([m EXCEPT !.attempts[a].terminal = TRUE], "Canceled", a)

(* The request goes out before the event is raised.                        *)
Submitted(n, lb, t, answers) ==
    LET r == SubmitEntry([n EXCEPT !.lboard[lb] = "active"], lb, t, answers)
        m == EnsureAttempt(r, lb, FALSE)
        a == m.active[lb]
        ready == MarkReady([m EXCEPT !.attempts[a].submitted = TRUE], a)
    IN  IF m.attempts[a].submitted THEN m ELSE SendEvent(ready, "Submitted", a)

(* The value of a leaderboard is shown from the end of the frame on.        *)
PublishTracker(n, lb) ==
    LET m == EnsureAttempt(n, lb, FALSE)
    IN  CASE n.lboard[lb] = "tracking" /\ lb \notin n.shown ->
                 SendEvent([m EXCEPT !.shown = @ \cup {lb}], "Updated", m.active[lb])
          [] n.lboard[lb] # "tracking" /\ lb \in n.shown ->
                 SendEvent([m EXCEPT !.shown = @ \ {lb}], "Hidden", m.active[lb])
          [] OTHER -> n

(* A frame changes at most one leaderboard, and only that one can have      *)
(* anything to tell: the others show what they are.                         *)
PublishTrackers(n) ==
    LET changed == {lb \in Leaderboards : (n.lboard[lb] = "tracking") # (lb \in n.shown)}
    IN  IF changed = {} THEN n ELSE PublishTracker(n, CHOOSE lb \in changed : TRUE)

---------------------------------------------------------------------------
(* The calls of the app.                                                   *)

Reset(n) ==
    PublishResetBarrier([n EXCEPT !.lboard = [lb \in Leaderboards |-> "active"]])

Activate(n, session) ==
    PublishResetBarrier([Cleared(n) EXCEPT !.session = session])

PublishedIds(n) ==
    {n.pending[t].id : t \in {u \in DOMAIN n.pending : n.pending[u].published}}

FailedIds(n) == {id \in DOMAIN n.settled : n.settled[id].resolution = "permanent"}

(* What a refresh tells of the session's submissions: each once more, and   *)
(* how it ended if it has.                                                  *)
Replayed(n, ready) ==
    Additions(n, ready)
        \cup UNION {{Added(n, [id |-> id, attempt |-> n.settled[id].attempt]),
                     Resolved(n, id, n.settled[id].resolution)} : id \in DOMAIN n.settled}

(* Oldest first, and each before its end.                                   *)
Precedes(x, y) ==
    x.id < y.id \/ (x.id = y.id /\ x.kind = "Added" /\ y.kind = "Resolved")

InOrder(messages) ==
    CHOOSE s \in SetToSeqs(messages) :
        \A i, j \in DOMAIN s : i < j => Precedes(s[i], s[j])

(* Tells of every submission of the session again, and then of the barrier. *)
Refresh(n) ==
    LET ready == {t \in DOMAIN n.pending : Publishable(n.pending[t])}
    IN  [n EXCEPT !.pending = Marked(@, {}, ready),
                  !.nextBarrier = @ + 1,
                  !.out = @ \o InOrder(Replayed(n, ready))
                            \o <<[kind |-> "Barrier", session |-> n.session,
                                  barrier |-> n.nextBarrier]>>]

(* Only what the caller knows of may be discarded, and all of it at once.   *)
MayDiscard(n, ids) ==
    LET active == {t \in DOMAIN n.scheduled :
                      t \in DOMAIN n.pending /\ n.pending[t].published}
    IN  /\ ids = {n.pending[t].id : t \in active} \cup FailedIds(n)
        /\ DOMAIN n.scheduled = active

Discard(n, ids) ==
    LET gone == {t \in DOMAIN n.pending : n.pending[t].id \in ids}
        ended == {n.pending[t].attempt : t \in gone}
        m == [n EXCEPT
                !.scheduled = NoFunction,
                !.young = {},
                !.attempts = [a \in DOMAIN @ |->
                    IF a \in ended THEN [@[a] EXCEPT !.terminal = TRUE] ELSE @[a]],
                !.byToken = Without(@, {t \in DOMAIN @ : @[t] \in ended}),
                !.pending = Without(@, gone),
                !.settled = Without(@, ids)]
    IN  Pruned(m)
=============================================================================
