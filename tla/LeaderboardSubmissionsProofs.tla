-------------------- MODULE LeaderboardSubmissionsProofs --------------------
(***************************************************************************)
(* Proofs about LeaderboardSubmissions, for every set of leaderboards and  *)
(* every bound.  The invariant is that of LeaderboardSubmissionsInvariant, *)
(* and the proof that each step keeps it goes in layers:                   *)
(*   - what each operation of the runtime does to its fields (the lemmas   *)
(*     in ...Like, ...Facts and ...Frame), that it leaves the runtime at   *)
(*     rest (...Rests), and that each action is one of them (...Step);     *)
(*   - Base, from what the operations tell (...Goes, ...Base);             *)
(*   - Screen, from what the coordinator makes of it (...Screens,          *)
(*     ...Follows, ...Screen);                                             *)
(*   - Mirrored, from what becomes of each submission (...Tells,           *)
(*     ...Reflects, ...Mirror), and Asking (...Warned, ...Asking).         *)
(* The theorems are at the end.                                            *)
(***************************************************************************)
EXTENDS LeaderboardSubmissionsInvariant, SequenceTheorems, FiniteSetTheorems, TLAPS

-----------------------------------------------------------------------------
(* What the operations of the runtime change.                              *)

\* Send appends one message, in the order the callbacks make it.
LEMMA SendLike ==
    ASSUME NEW n, Shaped(n), NEW message
    PROVE  /\ Like(Send(n, message), n, {"out"})
           /\ Send(n, message).out = Append(n.out, message)
BY DEF Send, Shaped, Like, Fields

\* The event that tells of attempt a.
Event(kind, lb, a) == [kind |-> kind, leaderboard |-> lb, attempt |-> a]

\* SendEvent tells of the attempt with the leaderboard it belongs to.
LEMMA SendEventLike ==
    ASSUME NEW n, Shaped(n), NEW kind, NEW a
    PROVE  /\ Like(SendEvent(n, kind, a), n, {"out"})
           /\ SendEvent(n, kind, a).out
                  = Append(n.out, Event(kind, n.attempts[a].leaderboard, a))
BY SendLike DEF SendEvent, Event

\* The attempts of m are attempts of f, and those it refers to are among them.
Kept(m, f) ==
    /\ DOMAIN m.attempts \subseteq DOMAIN f
    /\ \A a \in DOMAIN m.attempts : m.attempts[a] = f[a]
    /\ DOMAIN f \cap Referenced(m) \subseteq DOMAIN m.attempts

\* Pruning forgets attempts only, and none that is still referred to.
LEMMA PrunedLike ==
    ASSUME NEW n, Shaped(n)
    PROVE  /\ Like(Pruned(n), n, {"attempts"})
           /\ Kept(Pruned(n), n.attempts)
<1> DEFINE m == Pruned(n)
<1>1. /\ Like(m, n, {"attempts"})
      /\ m.attempts = Without(n.attempts, DOMAIN n.attempts \ Referenced(n))
  BY DEF Pruned, Shaped, Like, Fields
<1>2. m.response = n.response /\ m.active = n.active /\ m.byToken = n.byToken
  BY <1>1 DEF Like, Fields
<1>3. Referenced(m) = Referenced(n)
  BY <1>2 DEF Referenced
<1>4. DOMAIN n.attempts \ (DOMAIN n.attempts \ Referenced(n))
          = DOMAIN n.attempts \cap Referenced(n)
  OBVIOUS
<1> HIDE DEF m
<1>5. Kept(m, n.attempts)
  BY <1>1, <1>3, <1>4 DEF Kept, Without
<1> QED BY <1>1, <1>5 DEF m

\* A new attempt takes the next number and becomes its leaderboard's.
LEMMA BeginAttemptLike ==
    ASSUME NEW n, Shaped(n), NEW lb
    PROVE  LET m == BeginAttempt(n, lb)
           IN  /\ Like(m, n, {"nextAttempt", "attempts", "active", "shown"})
               /\ m.nextAttempt = n.nextAttempt + 1
               /\ m.active = [n.active EXCEPT ![lb] = n.nextAttempt]
               /\ m.shown = n.shown \ {lb}
               /\ Kept(m, With(n.attempts, n.nextAttempt,
                               [leaderboard |-> lb, submitted |-> FALSE, terminal |-> FALSE]))
<1> DEFINE new == [leaderboard |-> lb, submitted |-> FALSE, terminal |-> FALSE]
           k == [n EXCEPT !.nextAttempt = @ + 1,
                          !.attempts = With(@, n.nextAttempt, new),
                          !.active[lb] = n.nextAttempt,
                          !.shown = @ \ {lb}]
           m == BeginAttempt(n, lb)
<1>1. m = Pruned(k)
  BY DEF BeginAttempt
<1>2. /\ Like(k, n, {"nextAttempt", "attempts", "active", "shown"})
      /\ k.nextAttempt = n.nextAttempt + 1
      /\ k.active = [n.active EXCEPT ![lb] = n.nextAttempt]
      /\ k.shown = n.shown \ {lb}
      /\ k.attempts = With(n.attempts, n.nextAttempt, new)
  BY DEF Shaped, Like, Fields
<1> HIDE DEF k, m, new
<1>3. Shaped(k)
  BY <1>2 DEF Like
<1>4. Like(m, k, {"attempts"}) /\ Kept(m, k.attempts)
  BY <1>1, <1>3, PrunedLike
<1>5. Like(m, n, {"nextAttempt", "attempts", "active", "shown"})
  BY <1>2, <1>4 DEF Like
<1>6. m.nextAttempt = k.nextAttempt /\ m.active = k.active /\ m.shown = k.shown
  BY <1>4 DEF Like, Fields
<1> QED BY <1>2, <1>4, <1>5, <1>6 DEF m, new

\* The requests that belong to attempt a.
TokensOf(n, a) == {t \in DOMAIN n.byToken : n.byToken[t] = a}

\* An attempt ends once: it is marked, its requests are forgotten, its end is told.
LEMMA FinishLike ==
    ASSUME NEW n, Shaped(n), NEW kind, NEW a \in DOMAIN n.attempts,
           n.attempts[a] \in Attempt, ~n.attempts[a].terminal
    PROVE  LET m == Finish(n, kind, a)
           IN  /\ Like(m, n, {"attempts", "byToken", "out"})
               /\ m.attempts = [n.attempts EXCEPT ![a].terminal = TRUE]
               /\ m.byToken = Without(n.byToken, TokensOf(n, a))
               /\ m.out = Append(n.out, Event(kind, n.attempts[a].leaderboard, a))
<1> DEFINE j == [n EXCEPT !.attempts[a].terminal = TRUE]
           k == SendEvent(j, kind, a)
           m == Finish(n, kind, a)
<1>1. /\ Like(j, n, {"attempts"})
      /\ j.attempts = [n.attempts EXCEPT ![a].terminal = TRUE]
  BY DEF Shaped, Like, Fields
<1>2. j.attempts[a].leaderboard = n.attempts[a].leaderboard
  BY <1>1 DEF Attempt
<1>3. m = ForgetCallbacks(k, a)
  BY DEF Finish
<1> HIDE DEF j, m
<1>s. Shaped(j)
  BY <1>1 DEF Like
<1>4. /\ Like(k, j, {"out"})
      /\ k.out = Append(j.out, Event(kind, j.attempts[a].leaderboard, a))
  BY <1>s, SendEventLike
<1> HIDE DEF k
<1>5. /\ Like(m, k, {"byToken"})
      /\ m.byToken = Without(k.byToken, TokensOf(k, a))
  BY <1>3, <1>4 DEF ForgetCallbacks, TokensOf, Shaped, Like, Fields
<1>6. j.out = n.out /\ j.byToken = n.byToken /\ k.byToken = j.byToken
      /\ k.attempts = j.attempts /\ m.attempts = k.attempts /\ m.out = k.out
  BY <1>1, <1>4, <1>5 DEF Like, Fields
<1>8. TokensOf(k, a) = TokensOf(n, a)
  BY <1>6 DEF TokensOf
<1>7. Like(m, n, {"attempts", "byToken", "out"})
  BY <1>1, <1>4, <1>5 DEF Like
<1> QED BY <1>1, <1>2, <1>4, <1>5, <1>6, <1>7, <1>8 DEF m

\* A request gets a submission of its own, not ready and not published.
LEMMA PrepareLike ==
    ASSUME NEW n, Shaped(n), NEW t, t \notin DOMAIN n.pending
    PROVE  LET m == PreparePending(n, t)
           IN  /\ Like(m, n, {"nextSubmission", "pending"})
               /\ m.nextSubmission = n.nextSubmission + 1
               /\ m.pending = With(n.pending, t,
                      [id |-> n.nextSubmission, attempt |-> n.response,
                       ready |-> FALSE, waiting |-> FALSE, published |-> FALSE])
BY DEF PreparePending, Shaped, Like, Fields

\* A submission that is left to be retried: published already, or not ready yet.
LEMMA FinalizeRetryLike ==
    ASSUME NEW n, Shaped(n), NEW t \in DOMAIN n.pending,
           n.pending[t] = [id |-> n.pending[t].id, attempt |-> n.pending[t].attempt,
                           ready |-> n.pending[t].ready, waiting |-> n.pending[t].waiting,
                           published |-> n.pending[t].ready],
           n.pending[t].ready \in BOOLEAN
    PROVE  LET m == FinalizePending(n, t, TRUE, "none")
           IN  /\ Like(m, n, {"pending"})
               /\ m.pending = [n.pending EXCEPT ![t].waiting = TRUE]
<1> DEFINE k == [n EXCEPT !.pending[t].waiting = TRUE]
<1>1. /\ Like(k, n, {"pending"})
      /\ k.pending = [n.pending EXCEPT ![t].waiting = TRUE]
  BY DEF Shaped, Like, Fields
<1>2. k.pending[t] = [n.pending[t] EXCEPT !.waiting = TRUE]
  BY <1>1
<1>3. FinalizePending(n, t, TRUE, "none") = MaybePublish(k, t)
  BY DEF FinalizePending
<1> HIDE DEF k
<1>4. k.pending[t].published = n.pending[t].ready /\ k.pending[t].ready = n.pending[t].ready
  BY <1>2
<1>5. MaybePublish(k, t) = k
  BY <1>4 DEF MaybePublish, Publishable
<1> QED BY <1>1, <1>3, <1>5

\* A submission that nobody was told of is dropped without a word.
LEMMA FinalizeUnpublishedLike ==
    ASSUME NEW n, Shaped(n), NEW t \in DOMAIN n.pending, NEW resolution,
           ~n.pending[t].published
    PROVE  LET m == FinalizePending(n, t, FALSE, resolution)
           IN  Like(m, n, {"pending"}) /\ m.pending = Without(n.pending, {t})
BY DEF FinalizePending, Shaped, Like, Fields

\* The message that tells how a submission ended.
Resolution(n, id, resolution) ==
    [kind |-> "Resolved", session |-> n.session, id |-> id, resolution |-> resolution]

\* One that was told of is settled, and the end is told.
LEMMA FinalizePublishedLike ==
    ASSUME NEW n, Shaped(n), NEW t \in DOMAIN n.pending, NEW resolution,
           n.pending[t].published
    PROVE  LET m == FinalizePending(n, t, FALSE, resolution)
           IN  /\ Like(m, n, {"pending", "settled", "out"})
               /\ m.pending = Without(n.pending, {t})
               /\ m.settled = With(n.settled, n.pending[t].id,
                      [attempt |-> n.pending[t].attempt, resolution |-> resolution])
               /\ m.out = Append(n.out, Resolution(n, n.pending[t].id, resolution))
BY DEF FinalizePending, Send, Resolved, Resolution, Shaped, Like, Fields

\* After the callback the runtime has no answer in hand.
LEMMA EndResponseLike ==
    ASSUME NEW n, Shaped(n)
    PROVE  LET m == EndResponse(n)
           IN  /\ Like(m, n, {"response", "young", "attempts"})
               /\ m.response = Never
               /\ m.young = n.young \cap DOMAIN n.scheduled
               /\ Kept(m, n.attempts)
<1> DEFINE k == [n EXCEPT !.response = Never, !.young = @ \cap DOMAIN n.scheduled]
           m == EndResponse(n)
<1>1. /\ Like(k, n, {"response", "young"})
      /\ k.response = Never /\ k.young = n.young \cap DOMAIN n.scheduled
  BY DEF Shaped, Like, Fields
<1>2. m = Pruned(k)
  BY DEF EndResponse
<1> HIDE DEF k, m
<1>3. Like(m, k, {"attempts"}) /\ Kept(m, k.attempts)
  BY <1>1, <1>2, PrunedLike DEF Like
<1>4. k.attempts = n.attempts /\ m.response = k.response /\ m.young = k.young
  BY <1>1, <1>3 DEF Like, Fields
<1> QED BY <1>1, <1>3, <1>4 DEF Like, m

-----------------------------------------------------------------------------
(* A submission that waits is retried.                                     *)

\* A second message after the first.
LEMMA AppendToOne ==
    ASSUME NEW x, NEW y
    PROVE  Append(<<x>>, y) = <<x, y>>
<1> DEFINE S == {x, y}
<1>1. <<x>> \in Seq(S) /\ Len(<<x>>) = 1
  OBVIOUS
<1>2. <<x, y>> \in Seq(S) /\ Len(<<x, y>>) = 2
  OBVIOUS
<1>3. Append(<<x>>, y) \in Seq(S) /\ Len(Append(<<x>>, y)) = 2
  BY <1>1, AppendProperties
<1>4. \A i \in 1 .. 2 : Append(<<x>>, y)[i] = <<x, y>>[i]
  BY <1>1, AppendProperties
<1> QED BY <1>2, <1>3, <1>4, SeqEqual

\* Setting an entry to what it is changes nothing.
LEMMA WithSame ==
    ASSUME NEW D, NEW S, NEW f \in [D -> S], NEW x \in D
    PROVE  With(f, x, f[x]) = f /\ With(Without(f, {x}), x, f[x]) = f
BY DEF With, Without

\* The event of an attempt whose score has been answered.
EventOf(answer) == IF answer = "accepted" THEN "Scoreboard" ELSE "Failed"

\* The resolution of a submission whose score has been answered.
ResolutionOf(answer) == IF answer = "accepted" THEN "accepted" ELSE "permanent"

\* The answer to a retry, if there is one, is for the attempt of its score.
Retried(n, m, t, answer) ==
    LET a == n.byToken[t]
        p == n.pending[t]
    IN  IF answer = "unreachable"
        THEN /\ Like(m, n, {"young", "attempts"})
             /\ m.young \subseteq DOMAIN n.scheduled
             /\ Kept(m, n.attempts)
        ELSE /\ Like(m, n, {"scheduled", "young", "byToken", "pending", "settled",
                            "attempts", "out"})
             /\ m.scheduled = Without(n.scheduled, {t})
             /\ m.young \subseteq DOMAIN m.scheduled
             /\ m.byToken = Without(n.byToken, {t})
             /\ m.pending = Without(n.pending, {t})
             /\ m.settled = With(n.settled, p.id, [attempt |-> a,
                                                   resolution |-> ResolutionOf(answer)])
             /\ Kept(m, [n.attempts EXCEPT ![a].terminal = TRUE])
             /\ m.out = <<Event(EventOf(answer), n.scheduled[t], a),
                          Resolution(n, p.id, ResolutionOf(answer))>>

\* The request of a retry that is known, or may be taken, for one.
LEMMA RetryRequest ==
    ASSUME NEW n, Shaped(n), NEW t, NEW lb, NEW isRetry \in BOOLEAN,
           NEW a, NEW D, t \in D, t \in DOMAIN n.pending,
           n.byToken \in [D -> Nat], n.byToken[t] = a,
           isRetry \/ (n.active[lb] = a /\ a \in DOMAIN n.attempts
                       /\ ~n.attempts[a].terminal)
    PROVE  LET m == Request(n, lb, t, isRetry)
           IN  Like(m, n, {"response"}) /\ m.response = a
<1> DEFINE k == [n EXCEPT !.byToken = With(@, t, a), !.response = a]
<1>1. Request(n, lb, t, isRetry) = PreparePending(k, t)
  BY DEF Request, EnsureAttempt
<1>2. /\ Like(k, n, {"byToken", "response"})
      /\ k.response = a /\ k.byToken = With(n.byToken, t, a)
  BY DEF Shaped, Like, Fields
<1> HIDE DEF k
<1>w. With(n.byToken, t, n.byToken[t]) = n.byToken
  BY WithSame
<1>3. k.byToken = n.byToken /\ k.pending = n.pending
  BY <1>2, <1>w DEF Like, Fields
<1>4. Like(k, n, {"response"})
  BY <1>2, <1>3 DEF Like, Fields
<1>5. PreparePending(k, t) = k
  BY <1>3 DEF PreparePending
<1> QED BY <1>1, <1>2, <1>4, <1>5

\* RetryEntry does what Retried says: the answer counts for the attempt of t.
LEMMA RetryFacts ==
    ASSUME NEW n, Steady(n), NEW t \in DOMAIN n.scheduled,
           NEW elapsed \in BOOLEAN, NEW answer \in Answers,
           elapsed \/ n.byToken[t] = n.active[n.scheduled[t]]
    PROVE  Retried(n, RetryEntry(n, t, elapsed, answer), t, answer)
<1> DEFINE a == n.byToken[t]
           lb == n.scheduled[t]
           p == n.pending[t]
           k == [n EXCEPT !.scheduled = Without(@, {t}),
                          !.young = IF elapsed THEN @ \ {t} ELSE @]
           r == Request(k, lb, t, elapsed)
           m == RetryEntry(n, t, elapsed, answer)
<1>1. /\ Shaped(n) /\ n.out = <<>> /\ n.response = Never
      /\ n.scheduled \in [DOMAIN n.scheduled -> Leaderboards]
      /\ n.byToken \in [DOMAIN n.scheduled -> Nat]
      /\ n.pending = [u \in DOMAIN n.scheduled |-> n.pending[u]]
      /\ n.young \subseteq DOMAIN n.scheduled
      /\ p = [id |-> p.id, attempt |-> a, ready |-> TRUE, waiting |-> TRUE,
              published |-> TRUE]
      /\ a \in DOMAIN n.attempts /\ lb \in Leaderboards
      /\ n.attempts[a] = [leaderboard |-> lb, submitted |-> TRUE, terminal |-> FALSE]
      /\ \A u \in DOMAIN n.scheduled : u # t => n.byToken[u] # a
  BY DEF Steady, Counts, Waiting, Told, Open
<1>2. /\ Like(k, n, {"scheduled", "young"})
      /\ k.scheduled = Without(n.scheduled, {t})
      /\ k.young \subseteq n.young
  BY <1>1 DEF Shaped, Like, Fields
<1>3. m = Answered(r, lb, t, answer, TRUE)
  BY DEF RetryEntry
<1> HIDE DEF k, a, lb, p, m
<1>4. /\ k.byToken = n.byToken /\ k.attempts = n.attempts /\ k.active = n.active
      /\ k.pending = n.pending
  BY <1>2 DEF Like, Fields
<1>5. elapsed \/ k.active[lb] = a
  BY <1>4 DEF a, lb
<1>6. Like(r, k, {"response"}) /\ r.response = a
  <2>1. Shaped(k) /\ t \in DOMAIN k.pending
    BY <1>1, <1>2, <1>4 DEF Like
  <2>2. k.byToken \in [DOMAIN n.scheduled -> Nat] /\ k.byToken[t] = a
    BY <1>1, <1>4 DEF a
  <2>3. a \in DOMAIN k.attempts /\ ~k.attempts[a].terminal
    BY <1>1, <1>4
  <2> QED BY <1>5, <2>1, <2>2, <2>3, RetryRequest
<1> HIDE DEF r
<1>7. /\ Like(r, n, {"scheduled", "young", "response"})
      /\ r.scheduled = Without(n.scheduled, {t})
      /\ r.young \subseteq n.young
      /\ r.byToken = n.byToken /\ r.attempts = n.attempts
      /\ r.pending = n.pending /\ r.settled = n.settled /\ r.out = <<>>
      /\ r.session = n.session /\ Shaped(r)
  BY <1>1, <1>2, <1>6 DEF Like, Fields
<1>8. CASE answer = "unreachable"
  <2> DEFINE s == [r EXCEPT !.scheduled = With(@, t, lb)]
             f == FinalizePending(s, t, TRUE, "none")
  <2>1. m = EndResponse(f)
    BY <1>3, <1>8 DEF Answered, Scheduled
  <2>2. Like(s, r, {"scheduled"}) /\ s.scheduled = With(r.scheduled, t, lb)
    BY <1>7 DEF Shaped, Like, Fields
  <2> HIDE DEF s
  <2>3. s.scheduled = n.scheduled
    <3>1. With(Without(n.scheduled, {t}), t, n.scheduled[t]) = n.scheduled
      <4>1. n.scheduled \in [DOMAIN n.scheduled -> Leaderboards]
        BY <1>1
      <4> QED BY <4>1, WithSame
    <3> QED BY <1>7, <2>2, <3>1 DEF lb
  <2>4. s.pending = n.pending
    BY <1>7, <2>2 DEF Like, Fields
  <2>5. Like(f, s, {"pending"}) /\ f.pending = [s.pending EXCEPT ![t].waiting = TRUE]
    <3>1. Shaped(s) /\ t \in DOMAIN s.pending /\ s.pending[t] = p
      BY <1>1, <2>2, <2>4 DEF Like, p
    <3>2. /\ p = [id |-> p.id, attempt |-> p.attempt, ready |-> p.ready,
                  waiting |-> p.waiting, published |-> p.ready]
          /\ p.ready \in BOOLEAN
      <4>1. p.attempt = a /\ p.ready = TRUE /\ p.waiting = TRUE
        BY <1>1
      <4> QED BY <1>1, <4>1
    <3>3. /\ s.pending[t] = [id |-> s.pending[t].id, attempt |-> s.pending[t].attempt,
                             ready |-> s.pending[t].ready,
                             waiting |-> s.pending[t].waiting,
                             published |-> s.pending[t].ready]
          /\ s.pending[t].ready \in BOOLEAN
      BY <3>1, <3>2
    <3> HIDE DEF f
    <3>4. f = FinalizePending(s, t, TRUE, "none")
      BY DEF f
    <3> QED BY <3>1, <3>3, <3>4, FinalizeRetryLike
  <2>6. f.pending = n.pending
    <3>1. [p EXCEPT !.waiting = TRUE] = p
      BY <1>1
    <3>2. \A u \in DOMAIN n.scheduled : f.pending[u] = n.pending[u]
      BY <1>1, <2>4, <2>5, <3>1 DEF p
    <3>3. f.pending = [u \in DOMAIN n.scheduled |-> f.pending[u]]
      BY <1>1, <2>4, <2>5
    <3> QED BY <1>1, <3>2, <3>3
  <2> HIDE DEF f
  <2>7. /\ Like(m, f, {"response", "young", "attempts"})
        /\ m.response = Never /\ m.young = f.young \cap DOMAIN f.scheduled
        /\ Kept(m, f.attempts)
    BY <2>1, <2>5, EndResponseLike DEF Like
  <2>8. f.attempts = n.attempts /\ f.scheduled = n.scheduled
    BY <1>7, <2>2, <2>3, <2>5 DEF Like, Fields
  <2>9. Like(m, n, {"young", "attempts"})
    BY <1>7, <2>2, <2>5, <2>7, <2>6, <2>8, <1>1 DEF Like, Fields
  <2>10. m.young \subseteq DOMAIN n.scheduled
    BY <2>7, <2>8
  <2> QED BY <1>8, <2>7, <2>8, <2>9, <2>10 DEF Retried, m
<1>9. CASE answer # "unreachable"
  <2> DEFINE kind == EventOf(answer)
             res == ResolutionOf(answer)
             e == Finish(r, kind, a)
             f == FinalizePending(e, t, FALSE, res)
  <2>1. m = EndResponse(f)
    BY <1>3, <1>6, <1>9 DEF Answered, Answers, Accepted, Rejected, RaiseScoreboard,
       TransportScoreboard, EventOf, ResolutionOf
  <2> HIDE DEF kind, res
  <2>2. /\ Like(e, r, {"attempts", "byToken", "out"})
        /\ e.attempts = [r.attempts EXCEPT ![a].terminal = TRUE]
        /\ e.byToken = Without(r.byToken, TokensOf(r, a))
        /\ e.out = Append(r.out, Event(kind, r.attempts[a].leaderboard, a))
    <3>1. [leaderboard |-> lb, submitted |-> TRUE, terminal |-> FALSE] \in Attempt
      BY <1>1 DEF Attempt
    <3>2. a \in DOMAIN r.attempts /\ r.attempts[a] \in Attempt /\ ~r.attempts[a].terminal
      BY <1>1, <1>7, <3>1
    <3>3. Shaped(r)
      BY <1>7
    <3>4. e = Finish(r, kind, a)
      OBVIOUS
    <3> HIDE DEF e
    <3> QED BY <3>2, <3>3, <3>4, FinishLike
  <2>3. TokensOf(r, a) = {t}
    BY <1>1, <1>7 DEF a, TokensOf
  <2>4. e.pending = n.pending /\ e.settled = n.settled /\ e.session = n.session
    BY <1>7, <2>2 DEF Like, Fields
  <2>5. e.out = <<Event(kind, lb, a)>>
    BY <1>1, <1>7, <2>2
  <2> HIDE DEF e
  <2>6. /\ Like(f, e, {"pending", "settled", "out"})
        /\ f.pending = Without(e.pending, {t})
        /\ f.settled = With(e.settled, p.id, [attempt |-> a, resolution |-> res])
        /\ f.out = Append(e.out, Resolution(e, p.id, res))
    <3>1. Shaped(e) /\ t \in DOMAIN e.pending /\ e.pending[t] = p
      BY <1>1, <2>2, <2>4 DEF Like, p
    <3>2. p.published /\ p.attempt = a
      BY <1>1
    <3> QED BY ZenonT(60), <3>1, <3>2, FinalizePublishedLike
  <2> HIDE DEF f
  <2>7. Resolution(e, p.id, res) = Resolution(n, p.id, res)
    BY <2>4 DEF Resolution
  <2>8. f.out = <<Event(kind, lb, a), Resolution(n, p.id, res)>>
    <3> DEFINE x == Event(kind, lb, a)
               y == Resolution(n, p.id, res)
    <3>1. f.out = Append(<<x>>, y)
      BY <2>5, <2>6, <2>7
    <3> HIDE DEF x, y
    <3>2. Append(<<x>>, y) = <<x, y>>
      BY AppendToOne
    <3> QED BY <3>1, <3>2 DEF x, y
  <2>9. /\ Like(m, f, {"response", "young", "attempts"})
        /\ m.response = Never /\ m.young = f.young \cap DOMAIN f.scheduled
        /\ Kept(m, f.attempts)
    BY <2>1, <2>6, EndResponseLike DEF Like
  <2>10. /\ f.attempts = [n.attempts EXCEPT ![a].terminal = TRUE]
         /\ m.byToken = Without(n.byToken, {t})
         /\ m.scheduled = Without(n.scheduled, {t}) /\ f.scheduled = m.scheduled
         /\ m.pending = Without(n.pending, {t})
         /\ m.settled = f.settled /\ m.out = f.out
    BY <1>7, <2>2, <2>3, <2>4, <2>6, <2>9 DEF Like, Fields
  <2>11. Like(m, n, {"scheduled", "young", "byToken", "pending", "settled",
                     "attempts", "out"})
    BY <1>1, <1>7, <2>2, <2>6, <2>9 DEF Like, Fields
  <2> QED BY <1>9, <2>4, <2>6, <2>8, <2>9, <2>10, <2>11 DEF Retried, m, kind, res, a, lb, p
<1> QED BY <1>8, <1>9

-----------------------------------------------------------------------------
(* A score is submitted.                                                   *)

\* The one listing of no message, and of one.
LEMMA SetToSeqOfNone == SetToSeq({}) = <<>>
BY FS_EmptySet DEF IsInjective, SetToSeq

LEMMA SetToSeqOfOne ==
    ASSUME NEW x
    PROVE  SetToSeq({x}) = <<x>>
<1>1. Cardinality({x}) = 1
  BY FS_Singleton
<1>2. \A f \in [1 .. 1 -> {x}] : f = <<x>>
  OBVIOUS
<1>3. <<x>> \in [1 .. 1 -> {x}] /\ IsInjective(<<x>>)
  BY DEF IsInjective
<1> QED BY <1>1, <1>2, <1>3 DEF SetToSeq

\* The leaderboard has no attempt that a new submission would share.
Apart(n, lb) ==
    LET a == n.active[lb]
    IN  ~(a \in DOMAIN n.attempts /\ n.attempts[a].submitted /\ ~n.attempts[a].terminal)

\* The attempt that a submission of the leaderboard belongs to.
Entry(n, lb) == IF n.lboard[lb] = "tracking" THEN n.active[lb] ELSE n.nextAttempt

\* The runtime while the server is asked about the score of a new submission.
Asked(n, m, lb, t) ==
    LET a == Entry(n, lb)
    IN  /\ Like(m, n, {"lboard", "nextAttempt", "attempts", "active", "young", "byToken",
                       "response", "pending", "nextSubmission"})
        /\ m.lboard = [n.lboard EXCEPT ![lb] = "active"]
        /\ m.nextAttempt = IF n.lboard[lb] = "tracking" THEN n.nextAttempt
                           ELSE n.nextAttempt + 1
        /\ m.active = [n.active EXCEPT ![lb] = a]
        /\ Kept(m, With(n.attempts, a, [leaderboard |-> lb, submitted |-> FALSE,
                                        terminal |-> FALSE]))
        /\ m.young \subseteq n.young \cup {t}
        /\ m.byToken = With(n.byToken, t, a)
        /\ m.response = a
        /\ m.nextSubmission = n.nextSubmission + 1
        /\ m.pending = With(n.pending, t, [id |-> n.nextSubmission, attempt |-> a,
               ready |-> FALSE, waiting |-> FALSE, published |-> FALSE])

\* The attempt of a new submission is shared with none that waits.
LEMMA EntryFacts ==
    ASSUME NEW n, Steady(n), NEW lb \in Leaderboards, Apart(n, lb)
    PROVE  LET a == Entry(n, lb)
           IN  /\ a \in Nat \ {0}
               /\ n.lboard[lb] = "tracking" =>
                      /\ a \in DOMAIN n.attempts
                      /\ n.attempts[a] = [leaderboard |-> lb, submitted |-> FALSE,
                                          terminal |-> FALSE]
               /\ n.lboard[lb] # "tracking" =>
                      /\ a \notin DOMAIN n.attempts /\ lb \notin n.shown
                      /\ n.active[lb] \notin DOMAIN n.attempts
                         \/ n.attempts[n.active[lb]].terminal
               /\ \A u \in DOMAIN n.scheduled :
                      n.byToken[u] # a /\ n.pending[u].attempt # a
<1> DEFINE b == n.active[lb]
           a == Entry(n, lb)
<1>1. /\ b \in Nat /\ n.nextAttempt \in Nat \ {0} /\ n.floor \in Nat
      /\ b # Never => b \in DOMAIN n.attempts /\ n.attempts[b].leaderboard = lb
      /\ \A c \in DOMAIN n.attempts :
             c \in Nat \ {0} /\ c < n.nextAttempt /\ n.attempts[c] \in Attempt
  BY DEF Steady, Counts, Attempts
<1>2. /\ n.lboard[lb] = "tracking" =>
             b > n.floor /\ ~n.attempts[b].submitted /\ ~n.attempts[b].terminal
      /\ n.lboard[lb] # "tracking" /\ b # Never =>
             n.attempts[b].submitted \/ n.attempts[b].terminal
  BY DEF Steady, Leaders
<1>3. \A u \in DOMAIN n.scheduled :
          /\ n.byToken[u] \in DOMAIN n.attempts /\ n.attempts[n.byToken[u]].submitted
          /\ n.pending[u].attempt = n.byToken[u]
  <2> TAKE u \in DOMAIN n.scheduled
  <2>1. /\ n.pending[u] = [id |-> n.pending[u].id, attempt |-> n.byToken[u],
                           ready |-> TRUE, waiting |-> TRUE, published |-> TRUE]
        /\ n.byToken[u] \in DOMAIN n.attempts
        /\ n.attempts[n.byToken[u]] =
               [leaderboard |-> n.scheduled[u], submitted |-> TRUE, terminal |-> FALSE]
    BY DEF Steady, Waiting, Told, Open
  <2> QED BY <2>1
<1>4. n.shown = {x \in Leaderboards : n.lboard[x] = "tracking"}
  BY DEF Steady
<1>5. CASE n.lboard[lb] = "tracking"
  <2>1. a = b /\ b # Never /\ b \in DOMAIN n.attempts
    BY <1>1, <1>2, <1>5 DEF Entry, Never
  <2>2. n.attempts[b] = [leaderboard |-> lb, submitted |-> FALSE, terminal |-> FALSE]
    BY <1>1, <1>2, <1>5, <2>1 DEF Attempt
  <2> HIDE DEF a, b
  <2> QED BY <1>1, <1>2, <1>3, <1>5, <2>1, <2>2 DEF a
<1>6. CASE n.lboard[lb] # "tracking"
  BY <1>1, <1>4, <1>6, <1>2, <1>3 DEF Entry, Apart, Never
<1> QED BY <1>5, <1>6

\* The request of a new submission is entered for that attempt.
LEMMA AskedFacts ==
    ASSUME NEW n, Steady(n), NEW lb \in Leaderboards, Apart(n, lb),
           NEW t, t \notin DOMAIN n.scheduled
    PROVE  Asked(n, Request([[n EXCEPT !.lboard[lb] = "active"]
                                EXCEPT !.young = @ \cup {t}], lb, t, FALSE), lb, t)
<1> DEFINE a == Entry(n, lb)
           new == [leaderboard |-> lb, submitted |-> FALSE, terminal |-> FALSE]
           k == [[n EXCEPT !.lboard[lb] = "active"] EXCEPT !.young = @ \cup {t}]
           e == EnsureAttempt(k, lb, TRUE)
           r == [e EXCEPT !.byToken = With(@, t, a), !.response = a]
           m == Request(k, lb, t, FALSE)
<1>1. /\ Shaped(n) /\ n.active \in [Leaderboards -> Nat] /\ DOMAIN n.pending = DOMAIN n.scheduled
      /\ n.attempts = n.attempts
  BY DEF Steady, Counts, Waiting, Told, Open
<1>2. /\ Like(k, n, {"lboard", "young"})
      /\ k.lboard = [n.lboard EXCEPT ![lb] = "active"] /\ k.young = n.young \cup {t}
  BY <1>1 DEF Shaped, Like, Fields
<1> HIDE DEF k, new
<1>3. /\ k.active = n.active /\ k.attempts = n.attempts /\ k.nextAttempt = n.nextAttempt
      /\ k.shown = n.shown /\ Shaped(k)
  BY <1>2 DEF Like, Fields
<1>4. /\ Like(e, k, {"nextAttempt", "attempts", "active"})
      /\ e.nextAttempt = IF n.lboard[lb] = "tracking" THEN n.nextAttempt
                         ELSE n.nextAttempt + 1
      /\ e.active = [n.active EXCEPT ![lb] = a]
      /\ Kept(e, With(n.attempts, a, new))
  <2>1. CASE n.lboard[lb] = "tracking"
    BY <2>1, EntryFacts, <1>3, <1>1 DEF Entry, new, EnsureAttempt, Kept, With, Like
  <2>2. CASE n.lboard[lb] # "tracking"
    <3>0. a \notin DOMAIN n.attempts /\ lb \notin n.shown
          /\ (n.active[lb] \notin DOMAIN n.attempts \/ n.attempts[n.active[lb]].terminal)
      BY <2>2, EntryFacts
    <3>1. /\ a = n.nextAttempt /\ a \notin DOMAIN n.attempts /\ lb \notin n.shown
          /\ n.active[lb] \notin DOMAIN n.attempts \/ n.attempts[n.active[lb]].terminal
      BY <2>2, <3>0 DEF Entry
    <3>2. e = BeginAttempt(k, lb)
      BY <1>3, <3>1 DEF EnsureAttempt
    <3>b. LET b == BeginAttempt(k, lb)
          IN  /\ Like(b, k, {"nextAttempt", "attempts", "active", "shown"})
              /\ b.nextAttempt = k.nextAttempt + 1
              /\ b.active = [k.active EXCEPT ![lb] = k.nextAttempt]
              /\ b.shown = k.shown \ {lb}
              /\ Kept(b, With(k.attempts, k.nextAttempt,
                     [leaderboard |-> lb, submitted |-> FALSE, terminal |-> FALSE]))
      BY <1>3, BeginAttemptLike
    <3> HIDE DEF e
    <3>3. /\ Like(e, k, {"nextAttempt", "attempts", "active", "shown"})
          /\ e.nextAttempt = k.nextAttempt + 1
          /\ e.active = [k.active EXCEPT ![lb] = k.nextAttempt]
          /\ e.shown = k.shown \ {lb}
          /\ Kept(e, With(k.attempts, k.nextAttempt, new))
      BY <3>2, <3>b DEF new
    <3>4. e.shown = k.shown
      BY <1>3, <3>1, <3>3
    <3>5. Like(e, k, {"nextAttempt", "attempts", "active"})
      BY <3>3, <3>4 DEF Like, Fields
    <3> QED BY <1>3, <2>2, <3>1, <3>3, <3>5
  <2> QED BY <2>1, <2>2
<1>5. m = PreparePending(r, t)
  BY <1>1, <1>4 DEF Request
<1> HIDE DEF a, e
<1>6. /\ Like(r, e, {"byToken", "response"})
      /\ r.byToken = With(e.byToken, t, a) /\ r.response = a
  BY <1>4 DEF Shaped, Like, Fields
<1> HIDE DEF r, m
<1>7. /\ Like(r, n, {"lboard", "nextAttempt", "attempts", "active", "young", "byToken",
                     "response"})
      /\ r.pending = n.pending /\ r.nextSubmission = n.nextSubmission
      /\ r.byToken = With(n.byToken, t, a)
  BY <1>2, <1>4, <1>6 DEF Like, Fields
<1>8. /\ Like(m, r, {"nextSubmission", "pending"})
      /\ m.nextSubmission = r.nextSubmission + 1
      /\ m.pending = With(r.pending, t,
             [id |-> r.nextSubmission, attempt |-> r.response,
              ready |-> FALSE, waiting |-> FALSE, published |-> FALSE])
  BY <1>1, <1>6, <1>7, <1>5, PrepareLike DEF Like
<1>9. /\ m.byToken = r.byToken /\ m.response = a /\ m.active = e.active
      /\ m.attempts = e.attempts /\ m.nextAttempt = e.nextAttempt
      /\ m.lboard = k.lboard /\ m.young = k.young
  BY <1>4, <1>6, <1>8 DEF Like, Fields
<1>10. Kept(m, With(n.attempts, a, new))
  <2>1. Referenced(m) \subseteq Referenced(e) \cup {a}
    BY <1>2, <1>4, <1>6, <1>7, <1>9 DEF Referenced, With, Like, Fields
  <2>2. a \in DOMAIN e.attempts
    BY <1>1, <1>4 DEF Kept, With, Referenced
  <2> QED BY <1>4, <1>9, <2>1, <2>2 DEF Kept
<1>11. Like(m, n, {"lboard", "nextAttempt", "attempts", "active", "young", "byToken",
                   "response", "pending", "nextSubmission"})
  BY <1>7, <1>8 DEF Like
<1> QED BY <1>2, <1>4, <1>6, <1>7, <1>8, <1>9, <1>10, <1>11 DEF Asked, a, m, k, new

\* What an attempt is once its score has been sent.
Sent(lb, answer) ==
    [leaderboard |-> lb, submitted |-> TRUE, terminal |-> answer # "unreachable"]

\* A score that is answered leaves nothing behind, one that is not waits.
Entered(n, m, lb, t, answer) ==
    LET a == Entry(n, lb)
        id == n.nextSubmission
    IN  /\ Like(m, n, {"lboard", "nextAttempt", "attempts", "active", "young", "byToken",
                       "scheduled", "pending", "nextSubmission", "out"})
        /\ m.lboard = [n.lboard EXCEPT ![lb] = "active"]
        /\ m.nextAttempt = IF n.lboard[lb] = "tracking" THEN n.nextAttempt
                           ELSE n.nextAttempt + 1
        /\ m.active = [n.active EXCEPT ![lb] = a]
        /\ m.nextSubmission = id + 1
        /\ m.young \subseteq DOMAIN m.scheduled
        /\ IF answer = "unreachable"
           THEN /\ m.scheduled = With(n.scheduled, t, lb)
                /\ m.byToken = With(n.byToken, t, a)
           ELSE /\ m.scheduled = n.scheduled
                /\ m.byToken = n.byToken
                /\ m.pending = n.pending

\* The runtime when the server has been asked, before the event is raised.
Heard(n, m, lb, t, answer) ==
    LET a == Entry(n, lb)
    IN  /\ Entered(n, m, lb, t, answer)
        /\ Kept(m, With(n.attempts, a, [leaderboard |-> lb, submitted |-> FALSE,
                                        terminal |-> answer # "unreachable"]))
        /\ IF answer = "unreachable"
           THEN /\ m.pending = With(n.pending, t, [id |-> n.nextSubmission, attempt |-> a,
                       ready |-> FALSE, waiting |-> TRUE, published |-> FALSE])
                /\ m.out = <<>>
           ELSE m.out = <<Event(EventOf(answer), lb, a)>>

\* A runtime that differs in no field is the same.
LEMMA LikeEqual ==
    ASSUME NEW n, Shaped(n), NEW m, Like(m, n, {})
    PROVE  m = n
BY DEF Like, Shaped

\* A second request with the same token changes nothing.
LEMMA AskedAgain ==
    ASSUME NEW n, NEW lb \in Leaderboards, NEW t, NEW q, NEW D,
           Shaped(q), n.byToken \in [D -> Nat], Entry(n, lb) \in Nat, Asked(n, q, lb, t)
    PROVE  Request(q, lb, t, TRUE) = q
<1> DEFINE a == Entry(n, lb)
           m == Request(q, lb, t, TRUE)
<1>1. /\ q.byToken = With(n.byToken, t, a) /\ q.response = a
      /\ t \in DOMAIN q.pending
  BY DEF Asked, With
<1>2. q.byToken \in [D \cup {t} -> Nat] /\ q.byToken[t] = a
  BY <1>1 DEF With
<1> HIDE DEF a, m
<1>3. Like(m, q, {"response"}) /\ m.response = a
  BY <1>1, <1>2, RetryRequest DEF m
<1>4. Like(m, q, {})
  BY <1>1, <1>3 DEF Like, Fields
<1> QED BY <1>4, LikeEqual DEF m

\* Taking back what was added.
LEMMA WithoutWith ==
    ASSUME NEW D, NEW f, f = [x \in D |-> f[x]], NEW x, x \notin D, NEW v
    PROVE  Without(With(f, x, v), {x}) = f
BY DEF With, Without

\* The provers take no Boolean literals in the fields of an EXCEPT.
LEMMA WaitingSet ==
    ASSUME NEW p, NEW id, NEW a,
           p = [id |-> id, attempt |-> a, ready |-> FALSE, waiting |-> FALSE,
                published |-> FALSE]
    PROVE  [p EXCEPT !.waiting = TRUE]
               = [id |-> id, attempt |-> a, ready |-> FALSE, waiting |-> TRUE,
                  published |-> FALSE]
<1> DEFINE F == {"id", "attempt", "ready", "waiting", "published"}
           r == [p EXCEPT !.waiting = TRUE]
<1>1. r = [f \in F |-> IF f = "waiting" THEN TRUE ELSE p[f]]
  OBVIOUS
<1>2. r.id = id /\ r.attempt = a
  BY <1>1
<1>3. r.ready = FALSE /\ r.waiting = TRUE /\ r.published = FALSE
  BY <1>1
<1>4. r = [id |-> r.id, attempt |-> r.attempt, ready |-> r.ready,
           waiting |-> r.waiting, published |-> r.published]
  <2> HIDE DEF r
  <2> QED BY <1>1
<1> QED BY <1>2, <1>3, <1>4

LEMMA TerminalSet ==
    ASSUME NEW p, NEW lb, NEW x \in BOOLEAN, NEW y \in BOOLEAN,
           p = [leaderboard |-> lb, submitted |-> x, terminal |-> y]
    PROVE  [p EXCEPT !.terminal = TRUE]
               = [leaderboard |-> lb, submitted |-> x, terminal |-> TRUE]
<1> DEFINE F == {"leaderboard", "submitted", "terminal"}
           r == [p EXCEPT !.terminal = TRUE]
<1>1. r = [f \in F |-> IF f = "terminal" THEN TRUE ELSE p[f]]
  OBVIOUS
<1>2. r.leaderboard = lb /\ r.submitted = x /\ r.terminal = TRUE
  BY <1>1
<1>4. r = [leaderboard |-> r.leaderboard, submitted |-> r.submitted,
           terminal |-> r.terminal]
  <2> HIDE DEF r
  <2> QED BY <1>1
<1> QED BY <1>2, <1>4

LEMMA SubmittedSet ==
    ASSUME NEW p, NEW lb, NEW x \in BOOLEAN, NEW y \in BOOLEAN,
           p = [leaderboard |-> lb, submitted |-> x, terminal |-> y]
    PROVE  [p EXCEPT !.submitted = TRUE]
               = [leaderboard |-> lb, submitted |-> TRUE, terminal |-> y]
<1> DEFINE F == {"leaderboard", "submitted", "terminal"}
           r == [p EXCEPT !.submitted = TRUE]
<1>1. r = [f \in F |-> IF f = "submitted" THEN TRUE ELSE p[f]]
  OBVIOUS
<1>2. r.leaderboard = lb /\ r.submitted = TRUE /\ r.terminal = y
  BY <1>1
<1>4. r = [leaderboard |-> r.leaderboard, submitted |-> r.submitted,
           terminal |-> r.terminal]
  <2> HIDE DEF r
  <2> QED BY <1>1
<1> QED BY <1>2, <1>4

\* The answer to the request leaves what Heard says.
LEMMA HeardFacts ==
    ASSUME NEW n, Steady(n), NEW lb \in Leaderboards, Apart(n, lb),
           NEW t, t \notin DOMAIN n.scheduled, NEW answer \in Answers,
           NEW q, Asked(n, q, lb, t)
    PROVE  Heard(n, Answered(q, lb, t, answer, FALSE), lb, t, answer)
<1> DEFINE a == Entry(n, lb)
           m == Answered(q, lb, t, answer, FALSE)
           new == [leaderboard |-> lb, submitted |-> FALSE, terminal |-> FALSE]
           p == [id |-> n.nextSubmission, attempt |-> a,
                 ready |-> FALSE, waiting |-> FALSE, published |-> FALSE]
<1>1. /\ Shaped(n) /\ n.out = <<>>
      /\ n.scheduled = [u \in DOMAIN n.scheduled |-> n.scheduled[u]]
      /\ n.byToken = [u \in DOMAIN n.scheduled |-> n.byToken[u]]
      /\ n.pending = [u \in DOMAIN n.scheduled |-> n.pending[u]]
      /\ n.young \subseteq DOMAIN n.scheduled
  BY DEF Steady, Counts, Waiting, Told, Open
<1>2. \A u \in DOMAIN n.scheduled : n.byToken[u] # a
  BY EntryFacts
<1>3. /\ Like(q, n, {"lboard", "nextAttempt", "attempts", "active", "young", "byToken",
                     "response", "pending", "nextSubmission"})
      /\ Kept(q, With(n.attempts, a, new))
      /\ q.lboard = [n.lboard EXCEPT ![lb] = "active"]
      /\ q.nextAttempt = IF n.lboard[lb] = "tracking" THEN n.nextAttempt
                         ELSE n.nextAttempt + 1
      /\ q.active = [n.active EXCEPT ![lb] = a]
      /\ q.young \subseteq n.young \cup {t}
      /\ q.byToken = With(n.byToken, t, a)
      /\ q.response = a
      /\ q.nextSubmission = n.nextSubmission + 1
      /\ q.pending = With(n.pending, t, p)
  BY DEF Asked
<1>4. /\ Shaped(q) /\ q.scheduled = n.scheduled /\ q.out = <<>> /\ q.settled = n.settled
      /\ n.response = Never
  BY <1>1, <1>3 DEF Like, Fields, Steady
<1>5. a \in DOMAIN q.attempts /\ q.attempts[a] = new
  BY <1>3 DEF Kept, With, Referenced
<1>6. t \in DOMAIN q.pending /\ q.pending[t] = p
  BY <1>3 DEF With
<1> HIDE DEF a, m, new
<1>7. CASE answer = "unreachable"
  <2> DEFINE s == [q EXCEPT !.scheduled = With(@, t, lb)]
             f == FinalizePending(s, t, TRUE, "none")
  <2>1. m = EndResponse(f)
    BY <1>7 DEF Answered, Scheduled, m
  <2>2. Like(s, q, {"scheduled"}) /\ s.scheduled = With(n.scheduled, t, lb)
    BY <1>4 DEF Shaped, Like, Fields
  <2> HIDE DEF s
  <2>3. Shaped(s) /\ s.pending = q.pending /\ s.attempts = q.attempts
    BY <2>2 DEF Like, Fields
  <2>4. Like(f, s, {"pending"}) /\ f.pending = [s.pending EXCEPT ![t].waiting = TRUE]
    <3>0. /\ p.id = n.nextSubmission /\ p.attempt = a
          /\ p.ready = FALSE /\ p.waiting = FALSE /\ p.published = FALSE
      OBVIOUS
    <3>1. /\ s.pending[t] = [id |-> s.pending[t].id, attempt |-> s.pending[t].attempt,
                             ready |-> s.pending[t].ready,
                             waiting |-> s.pending[t].waiting,
                             published |-> s.pending[t].ready]
          /\ s.pending[t].ready \in BOOLEAN
      BY <3>0, <1>6, <2>3 DEF p
    <3>2. t \in DOMAIN s.pending
      BY <1>6, <2>3
    <3> HIDE DEF f
    <3>3. f = FinalizePending(s, t, TRUE, "none")
      BY DEF f
    <3> QED BY <2>3, <3>1, <3>2, <3>3, FinalizeRetryLike
  <2> HIDE DEF f
  <2>5. /\ Like(m, f, {"response", "young", "attempts"})
        /\ m.response = Never /\ m.young = f.young \cap DOMAIN f.scheduled
        /\ Kept(m, f.attempts)
    BY <2>1, <2>4, EndResponseLike DEF Like
  <2>6. f.attempts = q.attempts /\ f.scheduled = s.scheduled /\ m.scheduled = s.scheduled
        /\ m.pending = f.pending /\ m.byToken = q.byToken /\ m.out = <<>>
        /\ m.lboard = q.lboard /\ m.nextAttempt = q.nextAttempt /\ m.active = q.active
        /\ m.nextSubmission = q.nextSubmission
    BY <1>4, <2>2, <2>4, <2>5 DEF Like, Fields
  <2>7. m.pending = With(n.pending, t, [id |-> n.nextSubmission, attempt |-> a,
                ready |-> FALSE, waiting |-> TRUE, published |-> FALSE])
    <3>0. p = [id |-> n.nextSubmission, attempt |-> a,
               ready |-> FALSE, waiting |-> FALSE, published |-> FALSE]
      OBVIOUS
    <3> HIDE DEF p
    <3>1. [p EXCEPT !.waiting = TRUE]
              = [id |-> n.nextSubmission, attempt |-> a,
                 ready |-> FALSE, waiting |-> TRUE, published |-> FALSE]
      BY <3>0, WaitingSet
    <3>2. m.pending = [With(n.pending, t, p) EXCEPT ![t].waiting = TRUE]
      BY <1>3, <2>3, <2>4, <2>6
    <3> QED BY <3>1, <3>2 DEF With
  <2>8. Kept(m, With(n.attempts, a, new))
    <3>1. Referenced(m) \subseteq Referenced(q) \cup {Never}
      BY <2>5, <2>6 DEF Referenced
    <3>2. Kept(m, q.attempts)
      BY <2>5, <2>6
    <3>3. Never \notin DOMAIN With(n.attempts, a, new)
      BY EntryFacts DEF Steady, Attempts, With, Never, a
    <3> QED BY <1>3, <3>1, <3>2, <3>3 DEF Kept
  <2>9. Like(m, n, {"lboard", "nextAttempt", "attempts", "active", "young", "byToken",
                    "scheduled", "pending", "nextSubmission", "out"})
    BY <1>3, <1>4, <2>2, <2>4, <2>5 DEF Like, Fields
  <2> QED BY <1>3, <1>7, <2>2, <2>5, <2>6, <2>7, <2>8, <2>9
          DEF Heard, Entered, a, m, new
<1>8. CASE answer # "unreachable"
  <2> DEFINE kind == EventOf(answer)
             res == ResolutionOf(answer)
             e == Finish(q, kind, a)
             f == FinalizePending(e, t, FALSE, res)
  <2> HIDE DEF kind, res
  <2>1. q.attempts[a] \in Attempt /\ ~q.attempts[a].terminal
    BY <1>5 DEF Attempt, new
  <2>2. /\ Like(e, q, {"attempts", "byToken", "out"})
        /\ e.attempts = [q.attempts EXCEPT ![a].terminal = TRUE]
        /\ e.byToken = Without(q.byToken, TokensOf(q, a))
        /\ e.out = Append(q.out, Event(kind, q.attempts[a].leaderboard, a))
    <3>1. e = Finish(q, kind, a)
      OBVIOUS
    <3> HIDE DEF e
    <3> QED BY <1>4, <1>5, <2>1, <3>1, FinishLike
  <2> HIDE DEF e
  <2>3. e.response = a /\ e.pending = q.pending /\ Shaped(e) /\ e.attempts[a].terminal
    BY <1>3, <1>5, <2>2 DEF Like, Fields, new
  <2>4. m = EndResponse(f)
    <3>1. Finish(e, kind, a) = e
      BY <2>3 DEF Finish
    <3> QED BY <1>3, <1>8, <2>3, <3>1 DEF Answered, Answers, Accepted, Rejected,
            RaiseScoreboard, TransportScoreboard, EventOf, ResolutionOf, e, kind, res, m
  <2>5. Like(f, e, {"pending"}) /\ f.pending = Without(e.pending, {t})
    <3>1. t \in DOMAIN e.pending /\ ~e.pending[t].published
      BY <1>6, <2>3
    <3> QED BY <2>3, <3>1, FinalizeUnpublishedLike
  <2>6. TokensOf(q, a) = {t}
    BY <1>1, <1>3, <1>2 DEF With, a, TokensOf
  <2> HIDE DEF f
  <2>7. e.byToken = n.byToken /\ f.pending = n.pending
    <3>1. Without(With(n.byToken, t, a), {t}) = n.byToken
      BY <1>1, WithoutWith
    <3>2. Without(With(n.pending, t, p), {t}) = n.pending
      <4> HIDE DEF p
      <4> QED BY <1>1, WithoutWith
    <3> QED BY <1>3, <2>2, <2>3, <2>5, <2>6, <3>1, <3>2
  <2>8. e.out = <<Event(kind, lb, a)>>
    BY <1>4, <1>5, <2>2 DEF new
  <2>9. /\ Like(m, f, {"response", "young", "attempts"})
        /\ m.response = Never /\ m.young = f.young \cap DOMAIN f.scheduled
        /\ Kept(m, f.attempts)
    BY <2>3, <2>4, <2>5, EndResponseLike DEF Like
  <2>10. f.attempts = e.attempts /\ f.scheduled = n.scheduled /\ m.scheduled = n.scheduled
        /\ m.pending = n.pending /\ m.byToken = n.byToken /\ m.out = e.out
        /\ m.lboard = q.lboard /\ m.nextAttempt = q.nextAttempt /\ m.active = q.active
        /\ m.nextSubmission = q.nextSubmission
    BY <1>4, <2>2, <2>5, <2>7, <2>9 DEF Like, Fields
  <2>11. Kept(m, With(n.attempts, a, [new EXCEPT !.terminal = TRUE]))
    <3>1. Referenced(m) \subseteq Referenced(q) \cup {Never}
      <4>1. \A u \in DOMAIN n.byToken : u \in DOMAIN q.byToken /\ q.byToken[u] = n.byToken[u]
        BY <1>1, <1>3 DEF With
      <4> QED BY <2>9, <2>10, <4>1 DEF Referenced
    <3>2. Kept(m, e.attempts)
      BY <2>9, <2>10
    <3>3. Never \notin DOMAIN With(n.attempts, a, new)
      BY EntryFacts DEF Steady, Attempts, With, Never, a
    <3>4. DOMAIN With(n.attempts, a, [new EXCEPT !.terminal = TRUE])
              = DOMAIN With(n.attempts, a, new)
      BY DEF With
    <3>5. \A b \in DOMAIN e.attempts :
              /\ b \in DOMAIN With(n.attempts, a, new)
              /\ e.attempts[b] = With(n.attempts, a, [new EXCEPT !.terminal = TRUE])[b]
      BY <1>3, <1>5, <2>2 DEF Kept, With
    <3>6. DOMAIN With(n.attempts, a, new) \cap Referenced(q) \subseteq DOMAIN e.attempts
      BY <1>3, <2>2 DEF Kept
    <3> HIDE DEF new
    <3> QED BY <3>1, <3>2, <3>3, <3>4, <3>5, <3>6 DEF Kept
  <2>12. Like(m, n, {"lboard", "nextAttempt", "attempts", "active", "young", "byToken",
                    "scheduled", "pending", "nextSubmission", "out"})
    BY <1>3, <1>4, <2>2, <2>5, <2>9 DEF Like, Fields
  <2>13. [new EXCEPT !.terminal = TRUE]
             = [leaderboard |-> lb, submitted |-> FALSE, terminal |-> answer # "unreachable"]
    BY <1>8, TerminalSet DEF new
  <2>14. m.young \subseteq DOMAIN m.scheduled
    BY <2>9, <2>10
  <2> QED BY <1>3, <1>8, <2>8, <2>9, <2>10, <2>11, <2>12, <2>13, <2>14
          DEF Heard, Entered, a, m, kind
<1> QED BY <1>7, <1>8 DEF m

\* The message that tells of a submission that waits.
Addition(n, id, a) == [kind |-> "Added", session |-> n.session, id |-> id, attempt |-> a]

\* What a new submission leaves behind and tells.
Submission(n, m, lb, t, answer) ==
    LET a == Entry(n, lb)
    IN  /\ Entered(n, m, lb, t, answer)
        /\ Kept(m, With(n.attempts, a, Sent(lb, answer)))
        /\ IF answer = "unreachable"
           THEN /\ m.pending = With(n.pending, t, [id |-> n.nextSubmission, attempt |-> a,
                       ready |-> TRUE, waiting |-> TRUE, published |-> TRUE])
                /\ m.out = <<Addition(n, n.nextSubmission, a), Event("Submitted", lb, a)>>
           ELSE m.out = <<Event(EventOf(answer), lb, a), Event("Submitted", lb, a)>>

\* MarkPendingSubmissionPresentationReady tells of what it publishes, in any order.
LEMMA MarkReadyLike ==
    ASSUME NEW n, Shaped(n), NEW a
    PROVE  LET m == MarkReady(n, a)
           IN  /\ Like(m, n, {"pending", "out"})
               /\ m.pending = Marked(n.pending, MatchesOf(n, a), ToldOf(n, a))
               /\ m.out = n.out \o SetToSeq(Additions(n, ToldOf(n, a)))
BY DEF MarkReady, Shaped, Like, Fields

\* A submission becomes ready, and is published if it waits.
LEMMA MarkedOne ==
    ASSUME NEW pending, NEW t \in DOMAIN pending, NEW R, NEW P, NEW p, p = pending[t],
           p = [id |-> p.id, attempt |-> p.attempt, ready |-> p.ready,
                waiting |-> p.waiting, published |-> p.published],
           p.ready \in BOOLEAN, p.published \in BOOLEAN
    PROVE  Marked(pending, R, P)[t]
               = [id |-> p.id, attempt |-> p.attempt, ready |-> p.ready \/ t \in R,
                  waiting |-> p.waiting, published |-> p.published \/ t \in P]
<1> DEFINE F == {"id", "attempt", "ready", "waiting", "published"}
           r == [p EXCEPT !.ready = @ \/ t \in R, !.published = @ \/ t \in P]
<1>1. r = [f \in F |-> IF f = "ready" THEN p.ready \/ t \in R
                       ELSE IF f = "published" THEN p.published \/ t \in P ELSE p[f]]
  OBVIOUS
<1>2. r.id = p.id /\ r.attempt = p.attempt
  BY <1>1
<1>3. /\ r.ready = (p.ready \/ t \in R) /\ r.waiting = p.waiting
      /\ r.published = (p.published \/ t \in P)
  BY <1>1
<1>4. r = [id |-> r.id, attempt |-> r.attempt, ready |-> r.ready,
           waiting |-> r.waiting, published |-> r.published]
  <2> HIDE DEF r
  <2> QED BY <1>1
<1>5. Marked(pending, R, P)[t] = r
  BY DEF Marked
<1> QED BY <1>2, <1>3, <1>4, <1>5

\* Everything that waits has been told of.
AllTold(pending) ==
    /\ pending = [t \in DOMAIN pending |-> pending[t]]
    /\ \A t \in DOMAIN pending :
           pending[t] = [id |-> pending[t].id, attempt |-> pending[t].attempt,
                         ready |-> TRUE, waiting |-> TRUE, published |-> TRUE]

\* What is told of stays as it is.
LEMMA MarkedAll ==
    ASSUME NEW pending, NEW R, NEW P, AllTold(pending)
    PROVE  Marked(pending, R, P) = pending
<1>1. ASSUME NEW t \in DOMAIN pending
      PROVE  Marked(pending, R, P)[t] = pending[t]
  <2> DEFINE p == pending[t]
  <2>1. /\ p.ready = TRUE /\ p.waiting = TRUE /\ p.published = TRUE
        /\ p = [id |-> p.id, attempt |-> p.attempt, ready |-> p.ready,
                waiting |-> p.waiting, published |-> p.published]
    <3>1. p = [id |-> p.id, attempt |-> p.attempt,
               ready |-> TRUE, waiting |-> TRUE, published |-> TRUE]
      BY DEF AllTold
    <3> HIDE DEF p
    <3>2. p.ready = TRUE /\ p.waiting = TRUE /\ p.published = TRUE
      BY <3>1
    <3> QED BY <3>1, <3>2
  <2> HIDE DEF p
  <2>2. p = pending[t] /\ p.ready \in BOOLEAN /\ p.published \in BOOLEAN
    BY <2>1 DEF p
  <2>3. Marked(pending, R, P)[t]
            = [id |-> p.id, attempt |-> p.attempt, ready |-> p.ready \/ t \in R,
               waiting |-> p.waiting, published |-> p.published \/ t \in P]
    BY <2>1, <2>2, MarkedOne
  <2>4. (p.ready \/ t \in R) = p.ready /\ (p.published \/ t \in P) = p.published
    BY <2>1
  <2> QED BY <2>1, <2>2, <2>3, <2>4
<1>2. Marked(pending, R, P) = [t \in DOMAIN pending |-> Marked(pending, R, P)[t]]
  BY DEF Marked
<1> QED BY <1>1, <1>2 DEF AllTold

\* The event of the submission finds its attempt, and marks it submitted.
LEMMA OpenedFacts ==
    ASSUME NEW n, Steady(n), NEW lb \in Leaderboards, Apart(n, lb),
           NEW t, t \notin DOMAIN n.scheduled, NEW answer \in Answers,
           NEW r, Heard(n, r, lb, t, answer)
    PROVE  LET a == Entry(n, lb)
               k == [r EXCEPT !.attempts[a].submitted = TRUE]
           IN  /\ EnsureAttempt(r, lb, FALSE) = r
               /\ r.active[lb] = a /\ ~r.attempts[a].submitted
               /\ Like(k, r, {"attempts"})
               /\ Kept(k, With(n.attempts, a, Sent(lb, answer)))
<1> DEFINE a == Entry(n, lb)
           k == [r EXCEPT !.attempts[a].submitted = TRUE]
           new == [leaderboard |-> lb, submitted |-> FALSE,
                   terminal |-> answer # "unreachable"]
<1>1. /\ Like(r, n, {"lboard", "nextAttempt", "attempts", "active", "young", "byToken",
                     "scheduled", "pending", "nextSubmission", "out"})
      /\ r.active = [n.active EXCEPT ![lb] = a]
      /\ Kept(r, With(n.attempts, a, new))
  BY DEF Heard, Entered
<1>2. n.active \in [Leaderboards -> Nat]
  BY DEF Steady, Counts
<1> HIDE DEF a
<1>3. Shaped(r) /\ r.active[lb] = a /\ a \in Referenced(r)
  BY <1>1, <1>2 DEF Like, Referenced
<1>4. a \in DOMAIN r.attempts /\ r.attempts[a] = new
  BY <1>1, <1>3 DEF Kept, With
<1>5. EnsureAttempt(r, lb, FALSE) = r
  BY <1>3, <1>4 DEF EnsureAttempt
<1>6. /\ Like(k, r, {"attempts"})
      /\ k.attempts = [r.attempts EXCEPT ![a] = [r.attempts[a] EXCEPT !.submitted = TRUE]]
  BY <1>3 DEF Shaped, Like, Fields
<1>7. ~r.attempts[a].submitted
  BY <1>4
<1> HIDE DEF k
<1>8. k.attempts[a] = Sent(lb, answer)
  <2>1. \E y \in BOOLEAN :
            r.attempts[a] = [leaderboard |-> lb, submitted |-> FALSE, terminal |-> y]
            /\ y = (answer # "unreachable")
    BY <1>4
  <2>2. [r.attempts[a] EXCEPT !.submitted = TRUE] = Sent(lb, answer)
    <3>1. PICK y \in BOOLEAN :
              r.attempts[a] = [leaderboard |-> lb, submitted |-> FALSE, terminal |-> y]
              /\ y = (answer # "unreachable")
      BY <2>1
    <3>2. [r.attempts[a] EXCEPT !.submitted = TRUE]
              = [leaderboard |-> lb, submitted |-> TRUE, terminal |-> y]
      BY <3>1, SubmittedSet
    <3> QED BY <3>1, <3>2 DEF Sent
  <2> QED BY <1>4, <1>6, <2>2
<1>9. Kept(k, With(n.attempts, a, Sent(lb, answer)))
  <2>1. k.response = r.response /\ k.active = r.active /\ k.byToken = r.byToken
    BY <1>6 DEF Like, Fields
  <2>2. Referenced(k) = Referenced(r)
    BY <2>1 DEF Referenced
  <2>3. DOMAIN With(n.attempts, a, Sent(lb, answer)) = DOMAIN With(n.attempts, a, new)
    BY DEF With
  <2>4. \A b \in DOMAIN r.attempts :
            b # a => With(n.attempts, a, Sent(lb, answer))[b] = With(n.attempts, a, new)[b]
    BY <1>1 DEF With, Kept
  <2>5. a \in DOMAIN With(n.attempts, a, Sent(lb, answer))
        /\ With(n.attempts, a, Sent(lb, answer))[a] = Sent(lb, answer)
    BY DEF With
  <2> HIDE DEF new
  <2> QED BY <1>1, <1>6, <1>8, <2>2, <2>3, <2>4, <2>5 DEF Kept
<1> QED BY <1>3, <1>5, <1>6, <1>7, <1>9 DEF a, k

\* The answer that counts, the last one.
LastOf(answers) == IF answers[1] = "unreachable" THEN answers[2] ELSE answers[1]

\* Both answers together: a submission that waits is told of, one that is over is not.
LEMMA SubmitFacts ==
    ASSUME NEW n, Steady(n), NEW lb \in Leaderboards, Apart(n, lb),
           NEW t, t \notin DOMAIN n.scheduled, NEW answers \in FirstAnswers
    PROVE  Submission(n, Submitted(n, lb, t, answers), lb, t, LastOf(answers))
<1> DEFINE answer == LastOf(answers)
           a == Entry(n, lb)
           k == [n EXCEPT !.lboard[lb] = "active"]
           q == Request([k EXCEPT !.young = @ \cup {t}], lb, t, FALSE)
           r == SubmitEntry(k, lb, t, answers)
           o == [r EXCEPT !.attempts[a].submitted = TRUE]
           e == MarkReady(o, a)
           m == Submitted(n, lb, t, answers)
           new == [leaderboard |-> lb, submitted |-> FALSE,
                   terminal |-> answer # "unreachable"]
<1>1. answer \in Answers
  BY DEF FirstAnswers, Answers, LastOf
<1>2. Asked(n, q, lb, t)
  BY AskedFacts
<1>3. r = Answered(q, lb, t, answer, FALSE)
  <2>1. CASE answers[1] = "unreachable"
    <3>1. Shaped(q)
      BY <1>2 DEF Asked, Like
    <3>2. n.byToken \in [DOMAIN n.scheduled -> Nat] /\ a \in Nat
      BY EntryFacts DEF Steady, Waiting, Told, Open
    <3> HIDE DEF q
    <3>3. Request(q, lb, t, TRUE) = q
      BY <1>2, <3>1, <3>2, AskedAgain
    <3> QED BY <2>1, <3>3 DEF SubmitEntry, LastOf, q
  <2>2. CASE answers[1] # "unreachable"
    BY <2>2 DEF SubmitEntry, LastOf
  <2> QED BY <2>1, <2>2
<1> HIDE DEF q, answer
<1>4. Heard(n, r, lb, t, answer)
  BY <1>1, <1>2, <1>3, HeardFacts
<1> HIDE DEF r
<1>5. /\ EnsureAttempt(r, lb, FALSE) = r
      /\ r.active[lb] = a /\ ~r.attempts[a].submitted
      /\ Like(o, r, {"attempts"})
      /\ Kept(o, With(n.attempts, a, Sent(lb, answer)))
  BY <1>1, <1>4, OpenedFacts
<1>6. m = SendEvent(e, "Submitted", a)
  BY <1>5 DEF Submitted, r, k
<1> HIDE DEF o, m
<1>7. Entered(n, r, lb, t, answer) /\ Like(r, n, {"lboard", "nextAttempt", "attempts",
          "active", "young", "byToken", "scheduled", "pending", "nextSubmission", "out"})
  BY <1>4 DEF Heard, Entered
<1>8. Shaped(r) /\ Shaped(o) /\ o.pending = r.pending /\ o.out = r.out /\ o.active = r.active
      /\ o.session = n.session
  BY <1>5, <1>7 DEF Like, Fields
<1>9. /\ Like(e, o, {"pending", "out"})
      /\ e.pending = Marked(o.pending, MatchesOf(o, a), ToldOf(o, a))
      /\ e.out = o.out \o SetToSeq(Additions(o, ToldOf(o, a)))
  BY <1>8, MarkReadyLike
<1>10. o.attempts[a].leaderboard = lb /\ a \in DOMAIN o.attempts
  <2>1. n.active \in [Leaderboards -> Nat]
    BY DEF Steady, Counts
  <2>2. a \in Referenced(o)
    BY <1>5, <1>8, <2>1 DEF Referenced
  <2>3. a \in DOMAIN With(n.attempts, a, Sent(lb, answer))
        /\ With(n.attempts, a, Sent(lb, answer))[a].leaderboard = lb
    BY DEF With, Sent
  <2> QED BY <1>5, <2>2, <2>3 DEF Kept
<1>11. /\ Like(m, e, {"out"})
       /\ m.out = Append(e.out, Event("Submitted", lb, a))
  <2>1. e.attempts = o.attempts /\ Shaped(e)
    BY <1>9 DEF Like, Fields
  <2> HIDE DEF e
  <2> QED BY <1>6, <1>10, <2>1, SendEventLike
<1> HIDE DEF e, a
<1>12. /\ \A u \in DOMAIN n.scheduled :
              n.pending[u] = [id |-> n.pending[u].id, attempt |-> n.pending[u].attempt,
                              ready |-> TRUE, waiting |-> TRUE, published |-> TRUE]
              /\ n.pending[u].attempt # a
       /\ n.pending = [u \in DOMAIN n.scheduled |-> n.pending[u]]
  <2>1. \A u \in DOMAIN n.scheduled : n.pending[u].attempt # a
    BY EntryFacts DEF a
  <2>2. \A u \in DOMAIN n.scheduled :
            n.pending[u] = [id |-> n.pending[u].id, attempt |-> n.byToken[u],
                            ready |-> TRUE, waiting |-> TRUE, published |-> TRUE]
    BY DEF Steady, Waiting, Told, Open
  <2>3. n.pending = [u \in DOMAIN n.scheduled |-> n.pending[u]]
    BY DEF Steady, Waiting, Told, Open
  <2>4. ASSUME NEW u \in DOMAIN n.scheduled PROVE n.pending[u].attempt = n.byToken[u]
    <3>1. n.pending[u] = [id |-> n.pending[u].id, attempt |-> n.byToken[u],
                          ready |-> TRUE, waiting |-> TRUE, published |-> TRUE]
      BY <2>2
    <3> QED BY <3>1
  <2> QED BY <2>1, <2>2, <2>3, <2>4
<1>13. Kept(m, With(n.attempts, a, Sent(lb, answer)))
  BY <1>9, <1>11, <1>5 DEF Like, Fields, Kept, Referenced, a
<1>14. /\ m.lboard = r.lboard /\ m.nextAttempt = r.nextAttempt /\ m.active = r.active
       /\ m.nextSubmission = r.nextSubmission /\ m.young = r.young
       /\ m.scheduled = r.scheduled /\ m.byToken = r.byToken
       /\ m.pending = e.pending
       /\ Like(m, n, {"lboard", "nextAttempt", "attempts", "active", "young", "byToken",
                      "scheduled", "pending", "nextSubmission", "out"})
  BY <1>5, <1>7, <1>9, <1>11 DEF Like, Fields
<1>15. CASE answer = "unreachable"
  <2>1. /\ o.pending = With(n.pending, t, [id |-> n.nextSubmission, attempt |-> a,
                ready |-> FALSE, waiting |-> TRUE, published |-> FALSE])
        /\ o.out = <<>>
    BY <1>4, <1>8, <1>15 DEF Heard, a
  <2>2. /\ DOMAIN o.pending = DOMAIN n.scheduled \cup {t}
        /\ o.pending[t] = [id |-> n.nextSubmission, attempt |-> a,
                           ready |-> FALSE, waiting |-> TRUE, published |-> FALSE]
        /\ \A u \in DOMAIN n.scheduled : o.pending[u] = n.pending[u]
    BY <1>12, <2>1 DEF With
  <2>3. MatchesOf(o, a) = {t}
    <3>1. o.pending[t].attempt = a
      BY <2>2
    <3> QED BY <1>12, <2>2, <3>1 DEF MatchesOf
  <2>4. ToldOf(o, a) = {t}
    BY <2>2, <2>3 DEF ToldOf
  <2>5. Additions(o, {t}) = {Addition(n, n.nextSubmission, a)}
    BY <1>8, <2>2 DEF Added, Addition, Additions
  <2>6. e.out = <<Addition(n, n.nextSubmission, a)>>
    <3> DEFINE x == Addition(n, n.nextSubmission, a)
    <3>1. e.out = <<>> \o SetToSeq({x})
      BY <1>9, <2>1, <2>4, <2>5
    <3> HIDE DEF x
    <3>2. SetToSeq({x}) = <<x>>
      BY SetToSeqOfOne
    <3> QED BY <3>1, <3>2 DEF x
  <2>7. m.out = <<Addition(n, n.nextSubmission, a), Event("Submitted", lb, a)>>
    <3> DEFINE x == Addition(n, n.nextSubmission, a)
               y == Event("Submitted", lb, a)
    <3>1. m.out = Append(<<x>>, y)
      BY <1>11, <2>6
    <3> HIDE DEF x, y
    <3>2. Append(<<x>>, y) = <<x, y>>
      BY AppendToOne
    <3> QED BY <3>1, <3>2 DEF x, y
  <2>8. m.pending = With(n.pending, t, [id |-> n.nextSubmission, attempt |-> a,
                         ready |-> TRUE, waiting |-> TRUE, published |-> TRUE])
    <3> DEFINE p == [id |-> n.nextSubmission, attempt |-> a,
                     ready |-> TRUE, waiting |-> TRUE, published |-> TRUE]
    <3>1. m.pending = Marked(o.pending, {t}, {t}) /\ DOMAIN m.pending = DOMAIN o.pending
      BY <1>9, <1>14, <2>3, <2>4 DEF Marked
    <3>2. m.pending[t] = p
      <4> DEFINE b == o.pending[t]
      <4>1. /\ b.id = n.nextSubmission /\ b.attempt = a /\ b.ready = FALSE
            /\ b.waiting = TRUE /\ b.published = FALSE
            /\ b = [id |-> b.id, attempt |-> b.attempt, ready |-> b.ready,
                    waiting |-> b.waiting, published |-> b.published]
        <5>1. b = [id |-> n.nextSubmission, attempt |-> a, ready |-> FALSE,
                   waiting |-> TRUE, published |-> FALSE]
          BY <2>2
        <5> HIDE DEF b
        <5>2. /\ b.id = n.nextSubmission /\ b.attempt = a /\ b.ready = FALSE
              /\ b.waiting = TRUE /\ b.published = FALSE
          BY <5>1
        <5> QED BY <5>1, <5>2
      <4> HIDE DEF b
      <4>2. t \in DOMAIN o.pending /\ b = o.pending[t] /\ b.ready \in BOOLEAN
            /\ b.published \in BOOLEAN
        BY <2>2, <4>1 DEF b
      <4>3. m.pending[t]
                = [id |-> b.id, attempt |-> b.attempt, ready |-> b.ready \/ t \in {t},
                   waiting |-> b.waiting, published |-> b.published \/ t \in {t}]
        BY <3>1, <4>1, <4>2, MarkedOne
      <4>4. (b.ready \/ t \in {t}) = TRUE /\ (b.published \/ t \in {t}) = TRUE
        BY <4>1
      <4> QED BY <4>1, <4>3, <4>4
    <3>3. ASSUME NEW u \in DOMAIN n.scheduled
          PROVE  m.pending[u] = n.pending[u]
      <4> DEFINE b == n.pending[u]
      <4>1. /\ b.ready = TRUE /\ b.waiting = TRUE /\ b.published = TRUE
            /\ b = [id |-> b.id, attempt |-> b.attempt, ready |-> b.ready,
                    waiting |-> b.waiting, published |-> b.published]
        <5>1. b = [id |-> b.id, attempt |-> b.attempt, ready |-> TRUE,
                   waiting |-> TRUE, published |-> TRUE]
          BY <1>12
        <5> HIDE DEF b
        <5>2. b.ready = TRUE /\ b.waiting = TRUE /\ b.published = TRUE
          BY <5>1
        <5> QED BY <5>1, <5>2
      <4> HIDE DEF b
      <4>2. u \in DOMAIN o.pending /\ b = o.pending[u] /\ b.ready \in BOOLEAN
            /\ b.published \in BOOLEAN
        BY <2>2, <4>1 DEF b
      <4>3. m.pending[u]
                = [id |-> b.id, attempt |-> b.attempt, ready |-> b.ready \/ u \in {t},
                   waiting |-> b.waiting, published |-> b.published \/ u \in {t}]
        BY <3>1, <4>1, <4>2, MarkedOne
      <4>4. (b.ready \/ u \in {t}) = b.ready /\ (b.published \/ u \in {t}) = b.published
        BY <4>1
      <4> QED BY <4>1, <4>3, <4>4 DEF b
    <3> HIDE DEF p
    <3>4. DOMAIN o.pending = DOMAIN n.pending \cup {t}
      BY <1>12, <2>2
    <3>5. \A u \in DOMAIN o.pending : m.pending[u] = IF u = t THEN p ELSE n.pending[u]
      BY <1>12, <2>2, <3>2, <3>3
    <3>6. m.pending = [u \in DOMAIN n.pending \cup {t} |-> m.pending[u]]
      BY <3>1, <3>4 DEF Marked
    <3> QED BY <3>4, <3>5, <3>6 DEF With, p
  <2> QED BY <1>7, <1>13, <1>14, <1>15, <2>7, <2>8 DEF Submission, Entered, a, answer, m
<1>16. CASE answer # "unreachable"
  <2>1. /\ o.pending = n.pending
        /\ o.out = <<Event(EventOf(answer), lb, a)>>
    BY <1>4, <1>7, <1>8, <1>16 DEF Heard, Entered, a
  <2>2. MatchesOf(o, a) = {} /\ ToldOf(o, a) = {}
    BY <1>12, <2>1 DEF MatchesOf, ToldOf
  <2>3. Additions(o, {}) = {}
    BY DEF Additions
  <2>4. e.out = o.out
    <3>1. o.out \in Seq({Event(EventOf(answer), lb, a)})
      BY <2>1
    <3>2. e.out = o.out \o <<>>
      BY <1>9, <2>2, <2>3, SetToSeqOfNone
    <3> QED BY <3>1, <3>2
  <2>5. m.out = <<Event(EventOf(answer), lb, a), Event("Submitted", lb, a)>>
    <3> DEFINE x == Event(EventOf(answer), lb, a)
               y == Event("Submitted", lb, a)
    <3>1. m.out = Append(<<x>>, y)
      BY <1>11, <2>1, <2>4
    <3> HIDE DEF x, y
    <3>2. Append(<<x>>, y) = <<x, y>>
      BY AppendToOne
    <3> QED BY <3>1, <3>2 DEF x, y
  <2>6. m.pending = n.pending
    <3>1. m.pending = Marked(n.pending, {}, {})
      BY <1>9, <1>14, <2>1, <2>2
    <3>2. AllTold(n.pending)
      BY <1>12 DEF AllTold
    <3> QED BY <3>1, <3>2, MarkedAll
  <2> QED BY <1>7, <1>13, <1>14, <1>16, <2>5, <2>6 DEF Submission, Entered, a, answer, m
<1> QED BY <1>15, <1>16 DEF m, answer

\* Two messages, and three, as one sequence.
LEMMA OneAndOne ==
    ASSUME NEW x, NEW y
    PROVE  <<x>> \o <<y>> = <<x, y>>
<1>1. <<x>> \in Seq({x, y}) /\ Append(<<x>>, y) = <<x>> \o <<y>>
  BY AppendIsConcat
<1> QED BY <1>1, AppendToOne

LEMMA OneMore ==
    ASSUME NEW x, NEW y, NEW z
    PROVE  <<x, y>> \o <<z>> = <<x, y, z>>
<1> DEFINE S == {x, y, z}
           s == <<x, y>> \o <<z>>
<1>1. <<x, y>> \in Seq(S) /\ <<z>> \in Seq(S) /\ <<x, y, z>> \in Seq(S)
      /\ Len(<<x, y>>) = 2 /\ Len(<<z>>) = 1 /\ Len(<<x, y, z>>) = 3
  OBVIOUS
<1>2. s \in Seq(S) /\ Len(s) = 3
  BY <1>1, ConcatProperties
<1>3. \A i \in 1 .. 3 : s[i] = <<x, y, z>>[i]
  BY <1>1, ConcatProperties
<1> QED BY <1>1, <1>2, <1>3, SeqEqual

\* Sending one message more makes the output longer by it.
LEMMA Grown ==
    ASSUME NEW S, NEW s \in Seq(S), NEW x
    PROVE  Append(s, x) = s \o <<x>>
<1>1. s \in Seq(S \cup {x})
  OBVIOUS
<1> QED BY <1>1, AppendIsConcat

\* The leaderboards whose value is shown, as a frame leaves them.
Tracked(n) == {lb \in Leaderboards : n.lboard[lb] = "tracking"}

\* What the end of a frame tells of leaderboard lb.
TrackerOf(n, lb) ==
    CASE n.lboard[lb] = "tracking" /\ lb \notin n.shown ->
             <<Event("Updated", n.attempts[n.active[lb]].leaderboard, n.active[lb])>>
      [] n.lboard[lb] # "tracking" /\ lb \in n.shown ->
             <<Event("Hidden", n.attempts[n.active[lb]].leaderboard, n.active[lb])>>
      [] OTHER -> <<>>

\* The end of a frame tells of the one leaderboard whose value came or went.
LEMMA PublishTrackersLike ==
    ASSUME NEW n, Shaped(n), NEW S, n.out \in Seq(S), NEW lb \in Leaderboards,
           n.active[lb] \in DOMAIN n.attempts, n.shown \subseteq Leaderboards,
           \A x \in Leaderboards \ {lb} : n.lboard[x] = "tracking" <=> x \in n.shown
    PROVE  LET m == PublishTrackers(n)
           IN  /\ Like(m, n, {"shown", "out"})
               /\ m.shown = Tracked(n)
               /\ m.out = n.out \o TrackerOf(n, lb)
<1> DEFINE changed == {x \in Leaderboards : (n.lboard[x] = "tracking") # (x \in n.shown)}
           m == PublishTrackers(n)
<1>1. EnsureAttempt(n, lb, FALSE) = n
  BY DEF EnsureAttempt
<1>2. CASE (n.lboard[lb] = "tracking") <=> (lb \in n.shown)
  <2>1. changed = {}
    BY <1>2
  <2>2. m = n
    BY <2>1 DEF PublishTrackers
  <2>3. TrackerOf(n, lb) = <<>>
    BY <1>2 DEF TrackerOf
  <2>4. n.shown = Tracked(n)
    BY <1>2 DEF Tracked
  <2>5. n.out = n.out \o <<>>
    OBVIOUS
  <2> HIDE DEF m
  <2> QED BY <2>2, <2>3, <2>4, <2>5 DEF Like, m
<1>3. CASE n.lboard[lb] = "tracking" /\ lb \notin n.shown
  <2> DEFINE k == [n EXCEPT !.shown = @ \cup {lb}]
  <2>1. changed = {lb}
    BY <1>3
  <2>2. m = SendEvent(k, "Updated", n.active[lb])
    BY <2>1, <1>1, <1>3 DEF PublishTrackers, PublishTracker
  <2>3. /\ Like(k, n, {"shown"}) /\ k.shown = n.shown \cup {lb}
    BY DEF Shaped, Like, Fields
  <2> HIDE DEF k, m
  <2>4. /\ Like(m, k, {"out"})
        /\ m.out = Append(k.out, Event("Updated", k.attempts[n.active[lb]].leaderboard,
                                       n.active[lb]))
    BY <2>2, <2>3, SendEventLike DEF Like
  <2>5. k.out = n.out /\ k.attempts = n.attempts /\ m.shown = k.shown
    BY <2>3, <2>4 DEF Like, Fields
  <2>6. Like(m, n, {"shown", "out"})
    BY <2>3, <2>4 DEF Like
  <2>7. m.shown = Tracked(n)
    BY <1>3, <2>3, <2>5 DEF Tracked
  <2>8. m.out = n.out \o TrackerOf(n, lb)
    <3> DEFINE x == Event("Updated", n.attempts[n.active[lb]].leaderboard, n.active[lb])
    <3>1. TrackerOf(n, lb) = <<x>>
      BY <1>3 DEF TrackerOf
    <3>2. m.out = Append(n.out, x)
      BY <2>4, <2>5
    <3> HIDE DEF x
    <3> QED BY <3>1, <3>2, Grown
  <2> QED BY <2>6, <2>7, <2>8 DEF m
<1>4. CASE n.lboard[lb] # "tracking" /\ lb \in n.shown
  <2> DEFINE k == [n EXCEPT !.shown = @ \ {lb}]
  <2>1. changed = {lb}
    BY <1>4
  <2>2. m = SendEvent(k, "Hidden", n.active[lb])
    BY <2>1, <1>1, <1>4 DEF PublishTrackers, PublishTracker
  <2>3. /\ Like(k, n, {"shown"}) /\ k.shown = n.shown \ {lb}
    BY DEF Shaped, Like, Fields
  <2> HIDE DEF k, m
  <2>4. /\ Like(m, k, {"out"})
        /\ m.out = Append(k.out, Event("Hidden", k.attempts[n.active[lb]].leaderboard,
                                       n.active[lb]))
    BY <2>2, <2>3, SendEventLike DEF Like
  <2>5. k.out = n.out /\ k.attempts = n.attempts /\ m.shown = k.shown
    BY <2>3, <2>4 DEF Like, Fields
  <2>6. Like(m, n, {"shown", "out"})
    BY <2>3, <2>4 DEF Like
  <2>7. m.shown = Tracked(n)
    BY <1>4, <2>3, <2>5 DEF Tracked
  <2>8. m.out = n.out \o TrackerOf(n, lb)
    <3> DEFINE x == Event("Hidden", n.attempts[n.active[lb]].leaderboard, n.active[lb])
    <3>1. TrackerOf(n, lb) = <<x>>
      BY <1>4 DEF TrackerOf
    <3>2. m.out = Append(n.out, x)
      BY <2>4, <2>5
    <3> HIDE DEF x
    <3> QED BY <3>1, <3>2, Grown
  <2> QED BY <2>6, <2>7, <2>8 DEF m
<1> QED BY <1>2, <1>3, <1>4

\* The runtime between two steps, but for what it has sent.
Resting(n) ==
    /\ Counts(n) /\ Attempts(n) /\ Leaders(n) /\ Waiting(n) /\ Ended(n)
    /\ n.response = Never
    /\ n.shown = Tracked(n)

\* At rest between two steps nothing is left to be sent.
LEMMA SteadyRests ==
    ASSUME NEW n
    PROVE  Steady(n) <=> Resting(n) /\ n.out = <<>>
BY DEF Steady, Resting, Tracked

\* An attempt starts.
Start(n, m, lb) ==
    LET a == n.nextAttempt
    IN  /\ Like(m, n, {"lboard", "nextAttempt", "attempts", "active", "shown", "out"})
        /\ m.lboard = [n.lboard EXCEPT ![lb] = "tracking"]
        /\ m.nextAttempt = a + 1
        /\ m.active = [n.active EXCEPT ![lb] = a]
        /\ m.shown = Tracked(m)
        /\ Kept(m, With(n.attempts, a, [leaderboard |-> lb, submitted |-> FALSE,
                                        terminal |-> FALSE]))
        /\ m.out = <<Event("Started", lb, a), Event("Updated", lb, a)>>

\* StartAttempt, up to the end of the frame.
LEMMA StartFacts ==
    ASSUME NEW n, Steady(n), NEW lb \in Leaderboards, n.lboard[lb] = "active"
    PROVE  Start(n, PublishTrackers(Started(n, lb)), lb)
<1> DEFINE a == n.nextAttempt
           new == [leaderboard |-> lb, submitted |-> FALSE, terminal |-> FALSE]
           k == [n EXCEPT !.lboard[lb] = "tracking"]
           b == BeginAttempt(k, lb)
           s == Started(n, lb)
           m == PublishTrackers(s)
<1>1. /\ Shaped(n) /\ n.out = <<>> /\ n.shown = Tracked(n)
      /\ n.active \in [Leaderboards -> Nat]
      /\ n.lboard \in [Leaderboards -> {"active", "tracking"}]
  BY DEF Steady, Counts, Tracked
<1>2. /\ Like(k, n, {"lboard"}) /\ k.lboard = [n.lboard EXCEPT ![lb] = "tracking"]
  BY <1>1 DEF Shaped, Like, Fields
<1>3. s = SendEvent(b, "Started", b.active[lb])
  BY DEF Started
<1> HIDE DEF k, s, m
<1>4. /\ Like(b, k, {"nextAttempt", "attempts", "active", "shown"})
      /\ b.nextAttempt = k.nextAttempt + 1
      /\ b.active = [k.active EXCEPT ![lb] = k.nextAttempt]
      /\ b.shown = k.shown \ {lb}
      /\ Kept(b, With(k.attempts, k.nextAttempt, new))
  BY <1>2, BeginAttemptLike DEF Like
<1> HIDE DEF b
<1>5. /\ k.nextAttempt = a /\ k.active = n.active /\ k.attempts = n.attempts
      /\ k.shown = n.shown /\ b.out = <<>> /\ b.lboard = k.lboard
  BY <1>1, <1>2, <1>4 DEF Like, Fields
<1>6. b.active[lb] = a /\ a \in DOMAIN b.attempts /\ b.attempts[a] = new
  <2>1. b.active[lb] = a /\ a \in Referenced(b)
    BY <1>1, <1>4, <1>5 DEF Referenced
  <2> HIDE DEF new
  <2>2. a \in DOMAIN With(n.attempts, a, new) /\ With(n.attempts, a, new)[a] = new
    BY DEF With
  <2> QED BY <1>4, <1>5, <2>1, <2>2 DEF Kept
<1>7. /\ Like(s, b, {"out"})
      /\ s.out = <<Event("Started", lb, a)>>
  BY <1>3, <1>4, <1>6, SendEventLike, <1>5 DEF Like
<1>8. /\ s.active = b.active /\ s.attempts = b.attempts /\ s.lboard = k.lboard
      /\ s.shown = n.shown \ {lb} /\ s.response = b.response /\ s.byToken = b.byToken
      /\ s.nextAttempt = b.nextAttempt
  BY <1>4, <1>5, <1>7 DEF Like, Fields
<1>9. /\ Like(m, s, {"shown", "out"})
      /\ m.shown = Tracked(s)
      /\ m.out = s.out \o TrackerOf(s, lb)
  <2>1. s.out \in Seq({Event("Started", lb, a)})
    BY <1>7
  <2>2. Shaped(s) /\ s.shown \subseteq Leaderboards /\ s.active[lb] \in DOMAIN s.attempts
    BY <1>1, <1>6, <1>7, <1>8 DEF Like, Tracked
  <2>3. \A x \in Leaderboards \ {lb} : s.lboard[x] = "tracking" <=> x \in s.shown
    BY <1>1, <1>2, <1>8 DEF Tracked
  <2> QED BY <2>1, <2>2, <2>3, PublishTrackersLike DEF m
<1>10. TrackerOf(s, lb) = <<Event("Updated", lb, a)>>
  BY <1>1, <1>2, <1>8, <1>6 DEF TrackerOf
<1>11. m.out = <<Event("Started", lb, a), Event("Updated", lb, a)>>
  <2> DEFINE x == Event("Started", lb, a)
             y == Event("Updated", lb, a)
  <2>1. m.out = <<x>> \o <<y>>
    BY <1>7, <1>9, <1>10
  <2> HIDE DEF x, y
  <2>2. <<x>> \o <<y>> = <<x, y>>
    BY OneAndOne
  <2> QED BY <2>1, <2>2 DEF x, y
<1>12. /\ m.active = b.active /\ m.attempts = b.attempts /\ m.lboard = k.lboard
       /\ m.response = b.response /\ m.byToken = b.byToken /\ m.nextAttempt = b.nextAttempt
  BY <1>8, <1>9 DEF Like, Fields
<1>13. Kept(m, With(n.attempts, a, new))
  <2> HIDE DEF new
  <2>1. Kept(b, With(n.attempts, a, new)) /\ Referenced(m) = Referenced(b)
    BY <1>4, <1>5, <1>12 DEF Referenced
  <2> QED BY <1>12, <2>1 DEF Kept
<1>14. Like(m, n, {"lboard", "nextAttempt", "attempts", "active", "shown", "out"})
  BY <1>2, <1>4, <1>7, <1>9 DEF Like
<1>15. m.shown = Tracked(m)
  BY <1>8, <1>9, <1>12 DEF Tracked
<1>16. /\ m.lboard = [n.lboard EXCEPT ![lb] = "tracking"] /\ m.nextAttempt = a + 1
       /\ m.active = [n.active EXCEPT ![lb] = a]
  BY <1>2, <1>4, <1>5, <1>12
<1> HIDE DEF m
<1> QED BY <1>11, <1>13, <1>14, <1>15, <1>16 DEF Start, m, s

\* A tracked attempt is given up.
Cancel(n, m, lb) ==
    LET a == n.active[lb]
    IN  /\ Like(m, n, {"lboard", "attempts", "shown", "out"})
        /\ m.lboard = [n.lboard EXCEPT ![lb] = "active"]
        /\ m.attempts = [n.attempts EXCEPT ![a] = [leaderboard |-> lb, submitted |-> FALSE,
                                                   terminal |-> TRUE]]
        /\ m.shown = Tracked(m)
        /\ m.out = <<Event("Canceled", lb, a), Event("Hidden", lb, a)>>

\* CancelAttempt, up to the end of the frame.
LEMMA CancelFacts ==
    ASSUME NEW n, Steady(n), NEW lb \in Leaderboards, n.lboard[lb] = "tracking"
    PROVE  Cancel(n, PublishTrackers(Canceled(n, lb)), lb)
<1> DEFINE a == n.active[lb]
           new == [leaderboard |-> lb, submitted |-> FALSE, terminal |-> FALSE]
           k == [n EXCEPT !.lboard[lb] = "active"]
           j == [k EXCEPT !.attempts[a].terminal = TRUE]
           s == Canceled(n, lb)
           m == PublishTrackers(s)
<1>1. /\ Shaped(n) /\ n.out = <<>> /\ n.shown = Tracked(n)
      /\ n.active \in [Leaderboards -> Nat]
      /\ n.lboard \in [Leaderboards -> {"active", "tracking"}]
  BY DEF Steady, Counts, Tracked
<1>2. a \in DOMAIN n.attempts /\ n.attempts[a] = new
  <2>1. /\ a > n.floor /\ n.floor \in Nat
        /\ ~n.attempts[a].submitted /\ ~n.attempts[a].terminal
    BY DEF Steady, Leaders, Counts
  <2>2. a # Never => a \in DOMAIN n.attempts /\ n.attempts[a].leaderboard = lb
    BY DEF Steady, Attempts
  <2>3. a # Never
    BY <1>1, <2>1 DEF Never
  <2>4. n.attempts[a] \in Attempt
    BY <2>2, <2>3 DEF Steady, Attempts
  <2> QED BY <2>1, <2>2, <2>3, <2>4 DEF Attempt
<1>3. /\ Like(k, n, {"lboard"}) /\ k.lboard = [n.lboard EXCEPT ![lb] = "active"]
  BY <1>1 DEF Shaped, Like, Fields
<1>4. /\ k.active = n.active /\ k.attempts = n.attempts
      /\ k.shown = n.shown /\ k.out = <<>> /\ Shaped(k)
  BY <1>1, <1>3 DEF Like, Fields
<1>5. EnsureAttempt(k, lb, FALSE) = k
  BY <1>2, <1>4 DEF EnsureAttempt
<1>6. s = SendEvent(j, "Canceled", a)
  <2>1. ~k.attempts[a].terminal
    BY <1>2, <1>4
  <2> QED BY <1>4, <1>5, <2>1 DEF Canceled
<1>7. /\ Like(j, k, {"attempts"})
      /\ j.attempts = [n.attempts EXCEPT ![a] = [leaderboard |-> lb, submitted |-> FALSE,
                                                 terminal |-> TRUE]]
  <2>1. /\ Like(j, k, {"attempts"})
        /\ j.attempts = [k.attempts EXCEPT ![a] = [k.attempts[a] EXCEPT !.terminal = TRUE]]
    BY <1>4 DEF Shaped, Like, Fields
  <2>2. [n.attempts[a] EXCEPT !.terminal = TRUE]
            = [leaderboard |-> lb, submitted |-> FALSE, terminal |-> TRUE]
    BY <1>2, TerminalSet
  <2> QED BY <1>4, <2>1, <2>2
<1> HIDE DEF k, j, s, m
<1>8. j.attempts[a].leaderboard = lb /\ a \in DOMAIN j.attempts
  BY <1>2, <1>7
<1>9. /\ Like(s, j, {"out"})
      /\ s.out = <<Event("Canceled", lb, a)>>
  <2>1. /\ Like(s, j, {"out"})
        /\ s.out = Append(j.out, Event("Canceled", j.attempts[a].leaderboard, a))
    <3>1. Shaped(j)
      BY <1>7 DEF Like
    <3> HIDE DEF a
    <3> QED BY <1>6, <3>1, SendEventLike
  <2>2. j.out = <<>>
    BY <1>4, <1>7 DEF Like, Fields
  <2> QED BY <1>8, <2>1, <2>2
<1>10. /\ s.active = n.active /\ s.attempts = j.attempts /\ s.lboard = k.lboard
       /\ s.shown = n.shown
  BY <1>4, <1>7, <1>9 DEF Like, Fields
<1>11. /\ Like(m, s, {"shown", "out"})
       /\ m.shown = Tracked(s)
       /\ m.out = s.out \o TrackerOf(s, lb)
  <2>1. s.out \in Seq({Event("Canceled", lb, a)})
    BY <1>9
  <2>2. Shaped(s) /\ s.shown \subseteq Leaderboards /\ s.active[lb] \in DOMAIN s.attempts
    BY <1>1, <1>8, <1>9, <1>10 DEF Like, Tracked
  <2>3. \A x \in Leaderboards \ {lb} : s.lboard[x] = "tracking" <=> x \in s.shown
    BY <1>1, <1>3, <1>10 DEF Tracked
  <2> QED BY <2>1, <2>2, <2>3, PublishTrackersLike DEF m
<1>12. TrackerOf(s, lb) = <<Event("Hidden", lb, a)>>
  BY <1>1, <1>3, <1>10, <1>8 DEF Tracked, TrackerOf
<1>13. m.out = <<Event("Canceled", lb, a), Event("Hidden", lb, a)>>
  <2> DEFINE x == Event("Canceled", lb, a)
             y == Event("Hidden", lb, a)
  <2>1. m.out = <<x>> \o <<y>>
    BY <1>9, <1>11, <1>12
  <2> HIDE DEF x, y
  <2>2. <<x>> \o <<y>> = <<x, y>>
    BY OneAndOne
  <2> QED BY <2>1, <2>2 DEF x, y
<1>14. /\ m.attempts = j.attempts /\ m.lboard = k.lboard
  BY <1>10, <1>11 DEF Like, Fields
<1>15. Like(m, n, {"lboard", "attempts", "shown", "out"})
  BY <1>3, <1>7, <1>9, <1>11 DEF Like
<1>16. m.shown = Tracked(m)
  BY <1>10, <1>11, <1>14 DEF Tracked
<1> QED BY <1>3, <1>7, <1>13, <1>14, <1>15, <1>16 DEF Cancel, m, s

\* What a submission tells of the value that was shown.
HiddenOf(n, lb) ==
    IF n.lboard[lb] = "tracking" THEN <<Event("Hidden", lb, Entry(n, lb))>> ELSE <<>>

\* A frame that submits a score.
Submit(n, m, lb, t, answer) ==
    LET a == Entry(n, lb)
    IN  /\ Like(m, n, {"lboard", "nextAttempt", "attempts", "active", "shown", "young",
                       "byToken", "scheduled", "pending", "nextSubmission", "out"})
        /\ m.lboard = [n.lboard EXCEPT ![lb] = "active"]
        /\ m.nextAttempt = IF n.lboard[lb] = "tracking" THEN n.nextAttempt
                           ELSE n.nextAttempt + 1
        /\ m.active = [n.active EXCEPT ![lb] = a]
        /\ m.nextSubmission = n.nextSubmission + 1
        /\ m.young \subseteq DOMAIN m.scheduled
        /\ m.shown = Tracked(m)
        /\ Kept(m, With(n.attempts, a, Sent(lb, answer)))
        /\ IF answer = "unreachable"
           THEN /\ m.scheduled = With(n.scheduled, t, lb)
                /\ m.byToken = With(n.byToken, t, a)
                /\ m.pending = With(n.pending, t, [id |-> n.nextSubmission, attempt |-> a,
                       ready |-> TRUE, waiting |-> TRUE, published |-> TRUE])
                /\ m.out = <<Addition(n, n.nextSubmission, a), Event("Submitted", lb, a)>>
                               \o HiddenOf(n, lb)
           ELSE /\ m.scheduled = n.scheduled
                /\ m.byToken = n.byToken
                /\ m.pending = n.pending
                /\ m.out = <<Event(EventOf(answer), lb, a), Event("Submitted", lb, a)>>
                               \o HiddenOf(n, lb)

\* SubmitAttempt, up to the end of the frame.
LEMMA SubmitFrame ==
    ASSUME NEW n, Steady(n), NEW lb \in Leaderboards, Apart(n, lb),
           NEW t, t \notin DOMAIN n.scheduled, NEW answers \in FirstAnswers
    PROVE  Submit(n, PublishTrackers(Submitted(n, lb, t, answers)), lb, t, LastOf(answers))
<1> DEFINE a == Entry(n, lb)
           answer == LastOf(answers)
           s == Submitted(n, lb, t, answers)
           m == PublishTrackers(s)
<1>1. /\ n.shown = Tracked(n) /\ n.active \in [Leaderboards -> Nat]
      /\ n.lboard \in [Leaderboards -> {"active", "tracking"}]
  BY DEF Steady, Counts, Tracked
<1> HIDE DEF s, answer
<1>2. Submission(n, s, lb, t, answer)
  BY SubmitFacts DEF s, answer
<1>3. /\ Like(s, n, {"lboard", "nextAttempt", "attempts", "active", "young", "byToken",
                     "scheduled", "pending", "nextSubmission", "out"})
      /\ s.lboard = [n.lboard EXCEPT ![lb] = "active"]
      /\ s.active = [n.active EXCEPT ![lb] = a]
      /\ Kept(s, With(n.attempts, a, Sent(lb, answer)))
  BY <1>2 DEF Submission, Entered
<1>4. Shaped(s) /\ s.shown = n.shown
  BY <1>3 DEF Like, Fields
<1> HIDE DEF a, m
<1>5. s.active[lb] = a /\ a \in DOMAIN s.attempts /\ s.attempts[a].leaderboard = lb
  <2>1. s.active[lb] = a /\ a \in Referenced(s)
    BY <1>1, <1>3 DEF Referenced
  <2>2. /\ a \in DOMAIN With(n.attempts, a, Sent(lb, answer))
        /\ With(n.attempts, a, Sent(lb, answer))[a].leaderboard = lb
    BY DEF With, Sent
  <2> QED BY <1>3, <2>1, <2>2 DEF Kept
<1>6. PICK x, y : s.out = <<x, y>>
  BY <1>2 DEF Submission
<1>7. /\ Like(m, s, {"shown", "out"})
      /\ m.shown = Tracked(s)
      /\ m.out = s.out \o TrackerOf(s, lb)
  <2>1. s.out \in Seq({x, y})
    BY <1>6
  <2>2. s.shown \subseteq Leaderboards
    BY <1>1, <1>4 DEF Tracked
  <2>3. \A z \in Leaderboards \ {lb} : s.lboard[z] = "tracking" <=> z \in s.shown
    BY <1>1, <1>3, <1>4 DEF Tracked
  <2> QED BY <1>4, <1>5, <2>1, <2>2, <2>3, PublishTrackersLike DEF m
<1>8. TrackerOf(s, lb) = HiddenOf(n, lb)
  BY <1>1, <1>3, <1>4, <1>5 DEF Tracked, TrackerOf, HiddenOf, a
<1>9. /\ m.lboard = s.lboard /\ m.nextAttempt = s.nextAttempt /\ m.active = s.active
      /\ m.nextSubmission = s.nextSubmission /\ m.young = s.young
      /\ m.scheduled = s.scheduled /\ m.byToken = s.byToken /\ m.pending = s.pending
      /\ m.attempts = s.attempts /\ m.response = s.response
  BY <1>7 DEF Like, Fields
<1>10. Kept(m, With(n.attempts, a, Sent(lb, answer))) /\ m.shown = Tracked(m)
  BY <1>3, <1>7, <1>9 DEF Kept, Referenced, Tracked
<1>11. Like(m, n, {"lboard", "nextAttempt", "attempts", "active", "shown", "young",
                   "byToken", "scheduled", "pending", "nextSubmission", "out"})
  BY <1>3, <1>7 DEF Like
<1>12. Entered(n, s, lb, t, answer)
  BY <1>2 DEF Submission
<1>13. CASE answer = "unreachable"
  BY <1>2, <1>7, <1>8, <1>9, <1>10, <1>11, <1>12, <1>13
     DEF Submission, Entered, Submit, a, m, s, answer
<1>14. CASE answer # "unreachable"
  BY <1>2, <1>7, <1>8, <1>9, <1>10, <1>11, <1>12, <1>14
     DEF Submission, Entered, Submit, a, m, s, answer
<1> QED BY <1>13, <1>14

\* A retry shows and hides no value.
LEMMA RetryFrame ==
    ASSUME NEW n, Steady(n), NEW m, Like(m, n, Fields \ {"lboard", "shown"})
    PROVE  PublishTrackers(m) = m
BY DEF Like, Fields, Steady, PublishTrackers

-----------------------------------------------------------------------------
(* Every operation leaves the runtime at rest.                             *)

\* The runtime once its messages are in the pipe.
Quiet(n) == [n EXCEPT !.out = <<>>]

\* Sending changes nothing else.
LEMMA QuietFacts ==
    ASSUME NEW n, Shaped(n)
    PROVE  Like(Quiet(n), n, {"out"}) /\ Quiet(n).out = <<>>
BY DEF Quiet, Shaped, Like, Fields

\* Whether the runtime is at rest does not depend on what it has sent.
LEMMA LikeRests ==
    ASSUME NEW n, Resting(n), NEW m, Like(m, n, {"out"})
    PROVE  Resting(m)
<1>1. /\ m.session = n.session /\ m.lboard = n.lboard /\ m.attempts = n.attempts
      /\ m.active = n.active /\ m.byToken = n.byToken /\ m.shown = n.shown
      /\ m.response = n.response /\ m.scheduled = n.scheduled /\ m.young = n.young
      /\ m.pending = n.pending /\ m.settled = n.settled /\ m.nextBarrier = n.nextBarrier
      /\ m.nextAttempt = n.nextAttempt /\ m.nextSubmission = n.nextSubmission
      /\ m.floor = n.floor /\ Shaped(m)
  BY DEF Like, Fields
<1>2. Counts(m)
  BY <1>1 DEF Resting, Counts
<1>3. Attempts(m)
  BY <1>1 DEF Resting, Attempts
<1>4. Leaders(m)
  BY <1>1 DEF Resting, Leaders
<1>5. Waiting(m)
  BY <1>1 DEF Resting, Waiting
<1>6. Ended(m)
  BY <1>1 DEF Resting, Ended
<1> QED BY <1>1, <1>2, <1>3, <1>4, <1>5, <1>6 DEF Resting, Tracked

\* At rest and all sent, the runtime is between two steps.
LEMMA QuietIsSteady ==
    ASSUME NEW n, Resting(n)
    PROVE  Steady(Quiet(n)) /\ Like(Quiet(n), n, {"out"})
BY QuietFacts, LikeRests, SteadyRests DEF Resting, Counts

\* What waits goes on waiting as long as its attempts are known.
LEMMA WaitingKept ==
    ASSUME NEW n, Waiting(n), NEW m,
           m.scheduled = n.scheduled, m.byToken = n.byToken, m.pending = n.pending,
           m.young \subseteq DOMAIN n.scheduled, m.settled = n.settled,
           m.nextSubmission = n.nextSubmission
               \/ (n.nextSubmission \in Nat /\ m.nextSubmission = n.nextSubmission + 1),
           \A t \in DOMAIN n.scheduled :
               /\ n.byToken[t] \in DOMAIN m.attempts
               /\ m.attempts[n.byToken[t]] = n.attempts[n.byToken[t]]
    PROVE  Waiting(m)
<1>1. /\ m.scheduled \in [DOMAIN m.scheduled -> Leaderboards]
      /\ m.byToken \in [DOMAIN m.scheduled -> Nat]
      /\ m.pending = [t \in DOMAIN m.scheduled |-> m.pending[t]]
      /\ m.young \subseteq DOMAIN m.scheduled
  BY DEF Waiting
<1>2. ASSUME NEW t \in DOMAIN m.scheduled
      PROVE  /\ Told(m.pending[t], m.byToken[t])
             /\ m.pending[t].id \in Nat \ {0} /\ m.pending[t].id < m.nextSubmission
             /\ m.pending[t].id \notin DOMAIN m.settled
             /\ m.byToken[t] \in DOMAIN m.attempts
             /\ m.attempts[m.byToken[t]] = Open(m.scheduled[t])
  <2>1. /\ Told(n.pending[t], n.byToken[t])
        /\ n.pending[t].id \in Nat \ {0} /\ n.pending[t].id < n.nextSubmission
        /\ n.pending[t].id \notin DOMAIN n.settled
        /\ n.attempts[n.byToken[t]] = Open(n.scheduled[t])
    BY DEF Waiting
  <2> QED BY <2>1
<1>3. \A t, u \in DOMAIN m.scheduled :
          t # u => /\ m.pending[t].id # m.pending[u].id
                   /\ m.byToken[t] # m.byToken[u]
  <2> TAKE t, u \in DOMAIN m.scheduled
  <2>1. t # u => n.pending[t].id # n.pending[u].id /\ n.byToken[t] # n.byToken[u]
    BY DEF Waiting
  <2> QED BY <2>1
<1> QED BY <1>1, <1>2, <1>3 DEF Waiting

\* Attempts nothing refers to may be forgotten.
LEMMA PruneRests ==
    ASSUME NEW m, Shaped(m), NEW n, Resting(n), Like(m, n, {"attempts"}),
           Kept(m, n.attempts)
    PROVE  Resting(m)
<1>1. /\ m.session = n.session /\ m.lboard = n.lboard
      /\ m.active = n.active /\ m.byToken = n.byToken /\ m.shown = n.shown
      /\ m.response = n.response /\ m.scheduled = n.scheduled /\ m.young = n.young
      /\ m.pending = n.pending /\ m.settled = n.settled /\ m.nextBarrier = n.nextBarrier
      /\ m.nextAttempt = n.nextAttempt /\ m.nextSubmission = n.nextSubmission
      /\ m.floor = n.floor
  BY DEF Like, Fields
<1>2. Counts(m)
  BY <1>1 DEF Resting, Counts
<1>3. \A lb \in Leaderboards : m.active[lb] # Never =>
          m.active[lb] \in DOMAIN m.attempts
          /\ m.attempts[m.active[lb]] = n.attempts[n.active[lb]]
  BY <1>1 DEF Resting, Attempts, Kept, Referenced
<1>4. Attempts(m)
  BY <1>1, <1>3 DEF Kept, Resting, Attempts
<1>5. Leaders(m)
  BY <1>1, <1>3 DEF Leaders, Resting, Counts, Never
<1>6. Waiting(m)
  <2>1. \A t \in DOMAIN n.scheduled :
            /\ n.byToken[t] \in DOMAIN m.attempts
            /\ m.attempts[n.byToken[t]] = n.attempts[n.byToken[t]]
    BY <1>1 DEF Resting, Waiting, Kept, Referenced
  <2>2. Waiting(n) /\ n.young \subseteq DOMAIN n.scheduled
    BY DEF Resting, Waiting
  <2> QED BY <1>1, <2>1, <2>2, WaitingKept
<1>7. Ended(m)
  BY <1>1 DEF Resting, Ended
<1> QED BY <1>1, <1>2, <1>4, <1>5, <1>6, <1>7 DEF Resting, Tracked

\* The runtime with attempts f, all of them.
Whole(m, f) == [m EXCEPT !.attempts = f]

\* Putting attempts back changes nothing else.
LEMMA WholeFacts ==
    ASSUME NEW m, Shaped(m), NEW f
    PROVE  /\ Like(Whole(m, f), m, {"attempts"}) /\ Whole(m, f).attempts = f
           /\ Like(m, Whole(m, f), {"attempts"})
BY DEF Whole, Shaped, Like, Fields

\* What is at rest with all attempts is at rest without those nothing refers to.
LEMMA WholeRests ==
    ASSUME NEW m, Shaped(m), NEW f, Kept(m, f), Resting(Whole(m, f))
    PROVE  Resting(m)
<1> DEFINE w == Whole(m, f)
<1>1. Like(m, w, {"attempts"}) /\ w.attempts = f
  BY WholeFacts
<1> HIDE DEF w
<1>2. Resting(w) /\ Kept(m, w.attempts)
  BY <1>1 DEF w
<1> QED BY <1>1, <1>2, PruneRests

\* A started attempt leaves the runtime at rest.
LEMMA StartRests ==
    ASSUME NEW n, Steady(n), NEW lb \in Leaderboards, n.lboard[lb] = "active",
           NEW m, Start(n, m, lb)
    PROVE  Resting(m)
<1> DEFINE a == n.nextAttempt
           new == [leaderboard |-> lb, submitted |-> FALSE, terminal |-> FALSE]
           f == With(n.attempts, a, new)
           w == Whole(m, f)
<1>0. /\ Counts(n) /\ Attempts(n) /\ Leaders(n) /\ Waiting(n) /\ Ended(n)
      /\ n.response = Never
  BY DEF Steady
<1>1. /\ Like(m, n, {"lboard", "nextAttempt", "attempts", "active", "shown", "out"})
      /\ m.lboard = [n.lboard EXCEPT ![lb] = "tracking"]
      /\ m.nextAttempt = a + 1
      /\ m.active = [n.active EXCEPT ![lb] = a]
      /\ m.shown = Tracked(m)
      /\ Kept(m, f)
  BY DEF Start
<1> HIDE DEF w
<1>2. /\ Like(w, m, {"attempts"}) /\ w.attempts = f /\ Shaped(m)
  BY <1>1, WholeFacts DEF w, Like
<1>3. /\ w.session = n.session /\ w.lboard = [n.lboard EXCEPT ![lb] = "tracking"]
      /\ w.active = [n.active EXCEPT ![lb] = a] /\ w.byToken = n.byToken
      /\ w.response = n.response /\ w.scheduled = n.scheduled /\ w.young = n.young
      /\ w.pending = n.pending /\ w.settled = n.settled /\ w.nextBarrier = n.nextBarrier
      /\ w.nextAttempt = a + 1 /\ w.nextSubmission = n.nextSubmission
      /\ w.floor = n.floor /\ Shaped(w) /\ w.shown = Tracked(m)
  BY <1>1, <1>2 DEF Like, Fields
<1>4. /\ DOMAIN f = DOMAIN n.attempts \cup {a} /\ f[a] = new
      /\ a \notin DOMAIN n.attempts
      /\ \A b \in DOMAIN n.attempts : f[b] = n.attempts[b]
      /\ a \in Nat \ {0} /\ a > n.floor
  BY <1>0 DEF With, Attempts, Counts
<1>4b. /\ new \in Attempt /\ new.leaderboard = lb
       /\ ~new.submitted /\ ~new.terminal
  BY DEF Attempt
<1> HIDE DEF new, f
<1>5. Counts(w)
  BY <1>0, <1>3, <1>4 DEF Counts
<1>6. Attempts(w)
  BY <1>0, <1>2, <1>3, <1>4, <1>4b DEF Attempts, Counts
<1>7. Leaders(w)
  BY <1>0, <1>3, <1>4, <1>2, <1>4b DEF Leaders, Counts, Never, Attempts
<1>8. Waiting(w)
  <2>1. /\ n.young \subseteq DOMAIN n.scheduled
        /\ \A t \in DOMAIN n.scheduled : n.byToken[t] \in DOMAIN n.attempts
    BY <1>0 DEF Waiting
  <2>2. \A t \in DOMAIN n.scheduled :
            /\ n.byToken[t] \in DOMAIN w.attempts
            /\ w.attempts[n.byToken[t]] = n.attempts[n.byToken[t]]
    BY <1>2, <1>4, <2>1
  <2> QED BY <1>0, <1>3, <2>1, <2>2, WaitingKept
<1>9. Ended(w)
  BY <1>0, <1>3, <1>4 DEF Ended
<1>10. Tracked(w) = Tracked(m)
  BY <1>1, <1>3 DEF Tracked
<1>11. Resting(w)
  BY <1>0, <1>3, <1>5, <1>6, <1>7, <1>8, <1>9, <1>10 DEF Resting
<1> QED BY <1>1, <1>2, <1>11, WholeRests DEF w

\* The attempt of a leaderboard that is tracked, and those that wait.
LEMMA TrackedAttempt ==
    ASSUME NEW n, Steady(n), NEW lb \in Leaderboards, n.lboard[lb] = "tracking"
    PROVE  LET a == n.active[lb]
           IN  /\ a \in Nat \ {0} /\ a > n.floor /\ a < n.nextAttempt
               /\ a \in DOMAIN n.attempts
               /\ n.attempts[a] = [leaderboard |-> lb, submitted |-> FALSE,
                                   terminal |-> FALSE]
               /\ \A u \in DOMAIN n.scheduled : n.byToken[u] # a
<1> DEFINE a == n.active[lb]
<1>1. /\ a > n.floor /\ n.floor \in Nat /\ a \in Nat
      /\ ~n.attempts[a].submitted /\ ~n.attempts[a].terminal
  BY DEF Steady, Leaders, Counts
<1>2. a # Never => a \in DOMAIN n.attempts /\ n.attempts[a].leaderboard = lb
  BY DEF Steady, Attempts
<1>3. a # Never
  BY <1>1 DEF Never
<1>4. n.attempts[a] \in Attempt /\ a \in Nat \ {0} /\ a < n.nextAttempt
  BY <1>2, <1>3 DEF Steady, Attempts
<1>5. ASSUME NEW u \in DOMAIN n.scheduled PROVE n.byToken[u] # a
  <2>1. n.attempts[n.byToken[u]] = Open(n.scheduled[u])
    BY DEF Steady, Waiting
  <2>2. n.attempts[n.byToken[u]].submitted
    BY <2>1 DEF Open
  <2> QED BY <1>1, <2>2
<1> QED BY <1>1, <1>2, <1>3, <1>4, <1>5 DEF Attempt

\* So does a canceled one.
LEMMA CancelRests ==
    ASSUME NEW n, Steady(n), NEW lb \in Leaderboards, n.lboard[lb] = "tracking",
           NEW m, Cancel(n, m, lb)
    PROVE  Resting(m)
<1> DEFINE a == n.active[lb]
           over == [leaderboard |-> lb, submitted |-> FALSE, terminal |-> TRUE]
<1>0. /\ Counts(n) /\ Attempts(n) /\ Leaders(n) /\ Waiting(n) /\ Ended(n)
      /\ n.response = Never
  BY DEF Steady
<1>1. /\ m.lboard = [n.lboard EXCEPT ![lb] = "active"]
      /\ m.attempts = [n.attempts EXCEPT ![a] = over]
      /\ m.shown = Tracked(m)
  BY DEF Cancel
<1>2. /\ m.session = n.session
      /\ m.active = n.active /\ m.byToken = n.byToken
      /\ m.response = n.response /\ m.scheduled = n.scheduled /\ m.young = n.young
      /\ m.pending = n.pending /\ m.settled = n.settled /\ m.nextBarrier = n.nextBarrier
      /\ m.nextAttempt = n.nextAttempt /\ m.nextSubmission = n.nextSubmission
      /\ m.floor = n.floor /\ Shaped(m)
  BY DEF Cancel, Like, Fields
<1>3. /\ a \in Nat \ {0} /\ a \in DOMAIN n.attempts
      /\ \A u \in DOMAIN n.scheduled : n.byToken[u] # a
      /\ over \in Attempt /\ over.leaderboard = lb /\ over.terminal
  BY TrackedAttempt DEF Attempt
<1> HIDE DEF over
<1>4. Counts(m)
  BY <1>0, <1>1, <1>2 DEF Counts
<1>5. Attempts(m)
  BY <1>1, <1>0, <1>3, <1>2 DEF Attempts, Never
<1>6. Leaders(m)
  <2>2. \A x \in Leaderboards : n.active[x] = a => x = lb
    <3>1. \A x \in Leaderboards : n.active[x] # Never => n.attempts[n.active[x]].leaderboard = x
      BY <1>0 DEF Attempts
    <3> QED BY <1>3, <3>1 DEF Never
  <2>3. \A x \in Leaderboards \ {lb} :
            m.lboard[x] = n.lboard[x] /\ m.attempts[m.active[x]] = n.attempts[n.active[x]]
    BY <1>0, <1>1, <1>2, <2>2 DEF Counts
  <2>4. m.lboard[lb] = "active" /\ m.attempts[m.active[lb]].terminal
    BY <1>0, <1>1, <1>2, <1>3 DEF Counts
  <2> QED BY <1>0, <1>2, <2>3, <2>4 DEF Leaders
<1>7. Waiting(m)
  <2>1. /\ n.young \subseteq DOMAIN n.scheduled
        /\ \A t \in DOMAIN n.scheduled : n.byToken[t] \in DOMAIN n.attempts
    BY <1>0 DEF Waiting
  <2>2. \A t \in DOMAIN n.scheduled :
            /\ n.byToken[t] \in DOMAIN m.attempts
            /\ m.attempts[n.byToken[t]] = n.attempts[n.byToken[t]]
    BY <1>1, <1>3, <2>1
  <2> QED BY <1>0, <1>2, <2>1, <2>2, WaitingKept
<1>8. Ended(m)
  BY <1>0, <1>2 DEF Ended
<1> QED BY <1>0, <1>1, <1>2, <1>4, <1>5, <1>6, <1>7, <1>8 DEF Resting

\* So does a submission, whatever the answer.
LEMMA SubmitRests ==
    ASSUME NEW n, Steady(n), NEW lb \in Leaderboards, Apart(n, lb),
           NEW t, t \notin DOMAIN n.scheduled, NEW answer, NEW m, Submit(n, m, lb, t, answer)
    PROVE  Resting(m)
<1> DEFINE a == Entry(n, lb)
           f == With(n.attempts, a, Sent(lb, answer))
           w == Whole(m, f)
<1>0. /\ Counts(n) /\ Attempts(n) /\ Leaders(n) /\ Waiting(n) /\ Ended(n)
      /\ n.response = Never
  BY DEF Steady
<1>1. /\ Like(m, n, {"lboard", "nextAttempt", "attempts", "active", "shown", "young",
                     "byToken", "scheduled", "pending", "nextSubmission", "out"})
      /\ m.lboard = [n.lboard EXCEPT ![lb] = "active"]
      /\ m.nextAttempt = IF n.lboard[lb] = "tracking" THEN n.nextAttempt
                         ELSE n.nextAttempt + 1
      /\ m.active = [n.active EXCEPT ![lb] = a]
      /\ m.nextSubmission = n.nextSubmission + 1
      /\ m.young \subseteq DOMAIN m.scheduled
      /\ m.shown = Tracked(m)
      /\ Kept(m, f)
  BY DEF Submit
<1>2. \/ /\ answer = "unreachable"
         /\ m.scheduled = With(n.scheduled, t, lb) /\ m.byToken = With(n.byToken, t, a)
         /\ m.pending = With(n.pending, t, [id |-> n.nextSubmission, attempt |-> a,
                             ready |-> TRUE, waiting |-> TRUE, published |-> TRUE])
      \/ /\ answer # "unreachable"
         /\ m.scheduled = n.scheduled /\ m.byToken = n.byToken /\ m.pending = n.pending
  BY DEF Submit
<1>3. /\ a \in Nat \ {0} /\ a < m.nextAttempt /\ n.nextAttempt <= m.nextAttempt
      /\ m.nextAttempt \in Nat \ {0}
      /\ \A u \in DOMAIN n.scheduled : n.byToken[u] # a
  <2>1. /\ a \in Nat \ {0}
        /\ \A u \in DOMAIN n.scheduled : n.byToken[u] # a
    BY EntryFacts
  <2>2. n.nextAttempt \in Nat \ {0}
    BY <1>0 DEF Counts
  <2>3. CASE n.lboard[lb] = "tracking"
    <3>1. a < n.nextAttempt
      BY <2>3, TrackedAttempt DEF Entry
    <3> QED BY <1>1, <2>1, <2>2, <2>3, <3>1
  <2>4. CASE n.lboard[lb] # "tracking"
    BY <1>1, <2>1, <2>2, <2>4 DEF Entry
  <2> QED BY <2>3, <2>4
<1>4. \A x \in Leaderboards \ {lb} : n.active[x] # a
  BY TrackedAttempt, <1>0, <1>3 DEF Entry, Attempts, Never, Counts
<1> HIDE DEF a, w
<1>5. /\ Like(w, m, {"attempts"}) /\ w.attempts = f /\ Shaped(m)
  BY <1>1, WholeFacts DEF w, Like
<1>6. /\ w.session = n.session /\ w.lboard = [n.lboard EXCEPT ![lb] = "active"]
      /\ w.active = [n.active EXCEPT ![lb] = a]
      /\ w.response = n.response /\ w.settled = n.settled /\ w.nextBarrier = n.nextBarrier
      /\ w.nextAttempt = m.nextAttempt /\ w.nextSubmission = n.nextSubmission + 1
      /\ w.floor = n.floor /\ Shaped(w) /\ w.shown = Tracked(m) /\ w.young = m.young
      /\ w.scheduled = m.scheduled /\ w.byToken = m.byToken /\ w.pending = m.pending
  BY <1>1, <1>5 DEF Like, Fields
<1>7. /\ DOMAIN f = DOMAIN n.attempts \cup {a} /\ f[a] = Sent(lb, answer)
      /\ \A b \in DOMAIN n.attempts \ {a} : f[b] = n.attempts[b]
      /\ Sent(lb, answer) \in Attempt
      /\ Sent(lb, answer).leaderboard = lb /\ Sent(lb, answer).submitted
  BY DEF With, Sent, Attempt
<1> HIDE DEF f
<1>8. Counts(w)
  BY <1>0, <1>3, <1>6 DEF Counts
<1>9. Attempts(w)
  BY <1>0, <1>3, <1>4, <1>5, <1>6, <1>7 DEF Attempts, Counts
<1>10. Leaders(w)
  BY <1>0, <1>6, <1>4, <1>7, <1>5 DEF Leaders, Counts, Never, Attempts
<1>11. Waiting(w)
  <2>0. \A u \in DOMAIN n.scheduled :
            n.byToken[u] \in DOMAIN f /\ f[n.byToken[u]] = n.attempts[n.byToken[u]]
    BY <1>0, <1>3, <1>7 DEF Waiting
  <2>1. CASE answer # "unreachable"
    BY <1>1, <1>2, <1>6, <2>1, <1>0, <1>5, <2>0, WaitingKept DEF Counts
  <2>2. CASE answer = "unreachable"
    <3> DEFINE p == [id |-> n.nextSubmission, attempt |-> a,
                     ready |-> TRUE, waiting |-> TRUE, published |-> TRUE]
               D == DOMAIN n.scheduled
    <3>1. /\ w.scheduled = With(n.scheduled, t, lb) /\ w.byToken = With(n.byToken, t, a)
          /\ w.pending = With(n.pending, t, p)
      BY <1>2, <1>6, <2>2
    <3>2. /\ n.scheduled \in [D -> Leaderboards] /\ n.byToken \in [D -> Nat]
          /\ n.pending = [u \in D |-> n.pending[u]]
      BY <1>0 DEF Waiting
    <3>3. p.id = n.nextSubmission /\ Told(p, a)
      BY DEF Told
    <3> HIDE DEF p
    <3>4. /\ w.scheduled \in [D \cup {t} -> Leaderboards]
          /\ w.byToken \in [D \cup {t} -> Nat]
          /\ w.pending = [u \in D \cup {t} |-> w.pending[u]]
      BY <1>3, <3>1, <3>2 DEF With
    <3>5. /\ w.scheduled[t] = lb /\ w.byToken[t] = a /\ w.pending[t] = p
          /\ \A u \in D : /\ w.scheduled[u] = n.scheduled[u]
                          /\ w.byToken[u] = n.byToken[u]
                          /\ w.pending[u] = n.pending[u]
      BY <3>1, <3>2 DEF With
    <3>6. \A u \in D : /\ Told(n.pending[u], n.byToken[u])
                       /\ n.pending[u].id \in Nat \ {0}
                       /\ n.pending[u].id < n.nextSubmission
                       /\ n.pending[u].id \notin DOMAIN n.settled
                       /\ n.attempts[n.byToken[u]] = Open(n.scheduled[u])
      BY <1>0 DEF Waiting
    <3>7. n.nextSubmission \notin DOMAIN n.settled /\ n.nextSubmission \in Nat \ {0}
      BY <1>0 DEF Ended, Counts
    <3>8. f[a] = Open(lb) /\ a \in DOMAIN f
      BY <1>7, <2>2 DEF Sent, Open
    <3>9. ASSUME NEW u \in D \cup {t}
          PROVE  /\ Told(w.pending[u], w.byToken[u])
                 /\ w.pending[u].id \in Nat \ {0} /\ w.pending[u].id < w.nextSubmission
                 /\ w.pending[u].id \notin DOMAIN w.settled
                 /\ w.byToken[u] \in DOMAIN w.attempts
                 /\ w.attempts[w.byToken[u]] = Open(w.scheduled[u])
      BY <1>5, <1>6, <3>3, <3>5, <3>7, <3>8, <2>0, <3>6
    <3>10. ASSUME NEW u \in D \cup {t}, NEW v \in D \cup {t}, u # v
           PROVE  w.pending[u].id # w.pending[v].id /\ w.byToken[u] # w.byToken[v]
      <4>1. \A x, y \in D : x # y => n.pending[x].id # n.pending[y].id
                                     /\ n.byToken[x] # n.byToken[y]
        BY <1>0 DEF Waiting
      <4>2. \A x \in D : n.pending[x].id # n.nextSubmission
        BY <3>6, <3>7
      <4> QED BY <1>3, <3>3, <3>5, <3>10, <4>1, <4>2
    <3>11. DOMAIN w.scheduled = D \cup {t}
      BY <3>4
    <3>12. w.young \subseteq D \cup {t}
      BY <1>1, <1>6, <3>11
    <3> HIDE DEF D
    <3> QED BY <3>4, <3>9, <3>10, <3>11, <3>12 DEF Waiting
  <2> QED BY <2>1, <2>2
<1>12. Ended(w)
  BY <1>0, <1>3, <1>6 DEF Ended, Counts
<1>13. Tracked(w) = Tracked(m)
  BY <1>1, <1>6 DEF Tracked
<1>14. Resting(w)
  BY <1>0, <1>6, <1>8, <1>9, <1>10, <1>11, <1>12, <1>13 DEF Resting
<1> QED BY <1>1, <1>5, <1>14, WholeRests DEF w

\* So does a retry, and it shows and hides nothing.
LEMMA RetriedRests ==
    ASSUME NEW n, Steady(n), NEW t \in DOMAIN n.scheduled, NEW answer \in Answers,
           NEW m, Retried(n, m, t, answer)
    PROVE  Resting(m) /\ PublishTrackers(m) = m
<1> DEFINE a == n.byToken[t]
           lb == n.scheduled[t]
           p == n.pending[t]
           f == [n.attempts EXCEPT ![a].terminal = TRUE]
           w == Whole(m, f)
<1>0. /\ Counts(n) /\ Attempts(n) /\ Leaders(n) /\ Waiting(n) /\ Ended(n)
      /\ n.response = Never /\ n.shown = Tracked(n) /\ Resting(n)
  BY DEF Steady, Tracked, Resting
<1>1. PublishTrackers(m) = m
  BY RetryFrame DEF Retried, Like, Fields
<1>2. CASE answer = "unreachable"
  <2> DEFINE v == Whole(m, n.attempts)
  <2>1. /\ Like(m, n, {"young", "attempts"})
        /\ m.young \subseteq DOMAIN n.scheduled
        /\ Kept(m, n.attempts)
    BY <1>2 DEF Retried
  <2>2. Shaped(m)
    BY <2>1 DEF Like
  <2> HIDE DEF v
  <2>3. Like(v, m, {"attempts"}) /\ v.attempts = n.attempts
    BY <2>2, WholeFacts DEF v
  <2>4. /\ v.session = n.session /\ v.lboard = n.lboard
        /\ v.active = n.active /\ v.byToken = n.byToken /\ v.shown = n.shown
        /\ v.response = n.response /\ v.scheduled = n.scheduled /\ v.young = m.young
        /\ v.pending = n.pending /\ v.settled = n.settled /\ v.nextBarrier = n.nextBarrier
        /\ v.nextAttempt = n.nextAttempt /\ v.nextSubmission = n.nextSubmission
        /\ v.floor = n.floor /\ Shaped(v)
    BY <2>1, <2>3 DEF Like, Fields
  <2>5. Counts(v) /\ Ended(v)
    BY <1>0, <2>4 DEF Counts, Ended
  <2>6. Attempts(v) /\ Leaders(v)
    BY <1>0, <2>3, <2>4 DEF Attempts, Leaders
  <2>7. Waiting(v)
    <3>1. \A u \in DOMAIN n.scheduled : n.byToken[u] \in DOMAIN n.attempts
      BY <1>0 DEF Waiting
    <3> QED BY <1>0, <2>1, <2>3, <2>4, <3>1, WaitingKept
  <2>8. Tracked(v) = Tracked(n)
    BY <2>4 DEF Tracked
  <2>9. Resting(v)
    BY <1>0, <2>4, <2>5, <2>6, <2>7, <2>8 DEF Resting
  <2> QED BY <1>1, <2>1, <2>2, <2>9, WholeRests DEF v
<1>3. CASE answer # "unreachable"
  <2>1. /\ Like(m, n, {"scheduled", "young", "byToken", "pending", "settled",
                       "attempts", "out"})
        /\ m.scheduled = Without(n.scheduled, {t})
        /\ m.young \subseteq DOMAIN m.scheduled
        /\ m.byToken = Without(n.byToken, {t})
        /\ m.pending = Without(n.pending, {t})
        /\ m.settled = With(n.settled, p.id, [attempt |-> a,
                                              resolution |-> ResolutionOf(answer)])
        /\ Kept(m, f)
    BY <1>3 DEF Retried
  <2>2. /\ a \in DOMAIN n.attempts /\ n.attempts[a] = Open(lb) /\ lb \in Leaderboards
        /\ p.id \in Nat \ {0} /\ p.id < n.nextSubmission
        /\ \A u \in DOMAIN n.scheduled \ {t} : n.byToken[u] # a /\ n.pending[u].id # p.id
    BY <1>0 DEF Waiting
  <2>3. a \in Nat \ {0} /\ a < n.nextAttempt
    BY <1>0, <2>2 DEF Attempts
  <2> HIDE DEF a, lb, p, w
  <2>4. /\ DOMAIN f = DOMAIN n.attempts
        /\ \A b \in DOMAIN n.attempts \ {a} : f[b] = n.attempts[b]
        /\ f[a] = Sent(lb, answer)
        /\ Sent(lb, answer) \in Attempt
        /\ Sent(lb, answer).leaderboard = lb /\ Sent(lb, answer).terminal
    <3>1. [n.attempts[a] EXCEPT !.terminal = TRUE]
              = [leaderboard |-> lb, submitted |-> TRUE, terminal |-> TRUE]
      BY <2>2, TerminalSet DEF Open
    <3>2. Sent(lb, answer) = [leaderboard |-> lb, submitted |-> TRUE, terminal |-> TRUE]
      BY <1>3 DEF Sent
    <3>3. f = [n.attempts EXCEPT ![a] = [n.attempts[a] EXCEPT !.terminal = TRUE]]
      OBVIOUS
    <3> HIDE DEF f
    <3>4. Sent(lb, answer) \in Attempt
          /\ Sent(lb, answer).leaderboard = lb /\ Sent(lb, answer).terminal
      BY <2>2, <3>2 DEF Attempt
    <3> QED BY <2>2, <3>1, <3>2, <3>3, <3>4
  <2> HIDE DEF f
  <2>5. /\ Like(w, m, {"attempts"}) /\ w.attempts = f /\ Shaped(m)
    BY <2>1, WholeFacts DEF w, Like
  <2>6. /\ w.session = n.session /\ w.lboard = n.lboard
        /\ w.active = n.active /\ w.shown = n.shown
        /\ w.response = n.response /\ w.nextBarrier = n.nextBarrier
        /\ w.nextAttempt = n.nextAttempt /\ w.nextSubmission = n.nextSubmission
        /\ w.floor = n.floor /\ Shaped(w) /\ w.young = m.young
        /\ w.scheduled = m.scheduled /\ w.byToken = m.byToken /\ w.pending = m.pending
        /\ w.settled = m.settled
    BY <2>1, <2>5 DEF Like, Fields
  <2>7. Counts(w)
    BY <1>0, <2>6 DEF Counts
  <2>8. Attempts(w)
    BY <1>0, <2>2, <2>3, <2>4, <2>5, <2>6 DEF Attempts, Open, Never
  <2>9. Leaders(w)
    BY <2>2, <1>0, <2>4, <2>5, <2>6 DEF Open, Leaders, Attempts, Counts, Never
  <2>10. Waiting(w)
    <3> DEFINE D == DOMAIN n.scheduled \ {t}
    <3>1. /\ n.scheduled \in [DOMAIN n.scheduled -> Leaderboards]
          /\ n.byToken \in [DOMAIN n.scheduled -> Nat]
          /\ n.pending = [u \in DOMAIN n.scheduled |-> n.pending[u]]
      BY <1>0 DEF Waiting
    <3>2. /\ w.scheduled \in [D -> Leaderboards] /\ w.byToken \in [D -> Nat]
          /\ w.pending = [u \in D |-> w.pending[u]]
          /\ \A u \in D : /\ w.scheduled[u] = n.scheduled[u]
                          /\ w.byToken[u] = n.byToken[u]
                          /\ w.pending[u] = n.pending[u]
      BY <2>1, <2>6, <3>1 DEF Without
    <3>3. DOMAIN w.scheduled = D
      BY <3>2
    <3>4. DOMAIN w.settled = DOMAIN n.settled \cup {p.id}
      BY <2>1, <2>6 DEF With
    <3>5. \A u \in D : /\ Told(n.pending[u], n.byToken[u])
                       /\ n.pending[u].id \in Nat \ {0}
                       /\ n.pending[u].id < n.nextSubmission
                       /\ n.pending[u].id \notin DOMAIN n.settled
                       /\ n.byToken[u] \in DOMAIN n.attempts
                       /\ n.attempts[n.byToken[u]] = Open(n.scheduled[u])
      BY <1>0 DEF Waiting
    <3>6. \A x, y \in D : x # y => n.pending[x].id # n.pending[y].id
                                   /\ n.byToken[x] # n.byToken[y]
      BY <1>0 DEF Waiting
    <3>7. w.young \subseteq D
      BY <2>1, <2>6, <3>3
    <3>8. ASSUME NEW u \in D
          PROVE  /\ Told(w.pending[u], w.byToken[u])
                 /\ w.pending[u].id \in Nat \ {0} /\ w.pending[u].id < w.nextSubmission
                 /\ w.pending[u].id \notin DOMAIN w.settled
                 /\ w.byToken[u] \in DOMAIN w.attempts
                 /\ w.attempts[w.byToken[u]] = Open(w.scheduled[u])
      <4>1. /\ Told(n.pending[u], n.byToken[u])
            /\ n.pending[u].id \in Nat \ {0}
            /\ n.pending[u].id < n.nextSubmission
            /\ n.pending[u].id \notin DOMAIN n.settled
            /\ n.byToken[u] \in DOMAIN n.attempts
            /\ n.attempts[n.byToken[u]] = Open(n.scheduled[u])
        BY <3>5
      <4>2. w.scheduled[u] = n.scheduled[u] /\ w.byToken[u] = n.byToken[u]
            /\ w.pending[u] = n.pending[u]
        BY <3>2
      <4>3. n.byToken[u] # a /\ n.pending[u].id # p.id
        BY <2>2
      <4> HIDE DEF D
      <4> QED BY <2>4, <2>5, <2>6, <3>4, <4>1, <4>2, <4>3
    <3>9. ASSUME NEW x \in D, NEW y \in D, x # y
          PROVE  w.pending[x].id # w.pending[y].id /\ w.byToken[x] # w.byToken[y]
      BY ZenonT(60), <3>2, <3>6, <3>9
    <3> HIDE DEF D
    <3> QED BY <3>2, <3>3, <3>7, <3>8, <3>9 DEF Waiting
  <2>11. Ended(w)
    BY <2>1, <2>6, <1>0, <2>2, <2>3 DEF With, ResolutionOf, Ended
  <2>12. Tracked(w) = Tracked(n)
    BY <2>6 DEF Tracked
  <2>13. Resting(w)
    BY <1>0, <2>6, <2>7, <2>8, <2>9, <2>10, <2>11, <2>12 DEF Resting
  <2> QED BY <1>1, <2>1, <2>5, <2>13, WholeRests DEF w
<1> QED BY <1>2, <1>3

-----------------------------------------------------------------------------
(* Resets and sessions.                                                    *)

\* The barrier of a reset.
ResetMessage(floor) == [kind |-> "RuntimeReset", floor |-> floor]

\* The barrier takes the next number, so every attempt before it is lower.
LEMMA BarrierLike ==
    ASSUME NEW n, Shaped(n)
    PROVE  LET m == PublishResetBarrier(n)
           IN  /\ Like(m, n, {"active", "shown", "attempts", "nextAttempt", "floor", "out"})
               /\ m.active = [lb \in Leaderboards |-> Never] /\ m.shown = {}
               /\ m.floor = n.nextAttempt /\ m.nextAttempt = n.nextAttempt + 1
               /\ Kept(m, n.attempts)
               /\ m.out = Append(n.out, ResetMessage(n.nextAttempt))
<1> DEFINE k == [n EXCEPT !.active = [lb \in Leaderboards |-> Never], !.shown = {}]
           p == Pruned(k)
           q == [p EXCEPT !.nextAttempt = @ + 1, !.floor = p.nextAttempt]
           m == PublishResetBarrier(n)
<1>1. m = Send(q, ResetMessage(p.nextAttempt))
  BY DEF PublishResetBarrier, ResetMessage
<1>2. /\ Like(k, n, {"active", "shown"})
      /\ k.active = [lb \in Leaderboards |-> Never] /\ k.shown = {}
  <2> DEFINE v == [lb \in Leaderboards |-> Never]
  <2>1. k = [n EXCEPT !.active = v, !.shown = {}]
    OBVIOUS
  <2> HIDE DEF v, k
  <2>2. Like(k, n, {"active", "shown"}) /\ k.active = v /\ k.shown = {}
    BY <2>1 DEF Shaped, Like, Fields
  <2> QED BY <2>2 DEF v
<1> HIDE DEF k
<1>3. Like(p, k, {"attempts"}) /\ Kept(p, k.attempts)
  BY <1>2, PrunedLike DEF Like
<1> HIDE DEF p
<1>4. /\ Like(q, p, {"nextAttempt", "floor"})
      /\ q.nextAttempt = p.nextAttempt + 1 /\ q.floor = p.nextAttempt
  BY <1>3 DEF Shaped, Like, Fields
<1> HIDE DEF q, m
<1>5. /\ Like(m, q, {"out"})
      /\ m.out = Append(q.out, ResetMessage(p.nextAttempt))
  BY <1>1, <1>4, SendLike DEF Like
<1>6. /\ p.nextAttempt = n.nextAttempt /\ q.out = n.out /\ k.attempts = n.attempts
      /\ m.active = k.active /\ m.shown = k.shown /\ m.floor = q.floor
      /\ m.nextAttempt = q.nextAttempt
  BY <1>2, <1>3, <1>4, <1>5 DEF Like, Fields
<1>7. Kept(m, n.attempts)
  BY <1>4, <1>5, <1>3, <1>6 DEF Like, Fields, Referenced, Kept
<1>8. Like(m, n, {"active", "shown", "attempts", "nextAttempt", "floor", "out"})
  BY <1>2, <1>3, <1>4, <1>5 DEF Like
<1> QED BY <1>2, <1>4, <1>5, <1>6, <1>7, <1>8 DEF m

\* A reset of the console.
Restarted(n, m) ==
    /\ Like(m, n, {"lboard", "active", "shown", "attempts", "nextAttempt", "floor", "out"})
    /\ m.lboard = [lb \in Leaderboards |-> "active"]
    /\ m.active = [lb \in Leaderboards |-> Never] /\ m.shown = {}
    /\ m.floor = n.nextAttempt /\ m.nextAttempt = n.nextAttempt + 1
    /\ Kept(m, n.attempts)
    /\ m.out = <<ResetMessage(n.nextAttempt)>>

\* Reset does what Restarted says.
LEMMA ResetFacts ==
    ASSUME NEW n, Steady(n)
    PROVE  Restarted(n, Reset(n))
<1> DEFINE v == [lb \in Leaderboards |-> "active"]
           k == [n EXCEPT !.lboard = v]
           m == PublishResetBarrier(k)
<1>1. Reset(n) = m
  BY DEF Reset
<1> HIDE DEF v
<1>2. Like(k, n, {"lboard"}) /\ k.lboard = v
  BY DEF Steady, Counts, Shaped, Like, Fields
<1> HIDE DEF k, m
<1>3. k.nextAttempt = n.nextAttempt /\ k.attempts = n.attempts /\ k.out = <<>> /\ Shaped(k)
  BY <1>2 DEF Like, Fields, Steady
<1>4. /\ Like(m, k, {"active", "shown", "attempts", "nextAttempt", "floor", "out"})
      /\ m.active = [lb \in Leaderboards |-> Never] /\ m.shown = {}
      /\ m.floor = k.nextAttempt /\ m.nextAttempt = k.nextAttempt + 1
      /\ Kept(m, k.attempts)
      /\ m.out = Append(k.out, ResetMessage(k.nextAttempt))
  BY <1>3, BarrierLike DEF m
<1>5. m.lboard = v
  BY <1>2, <1>4 DEF Like, Fields
<1>6. Like(m, n, {"lboard", "active", "shown", "attempts", "nextAttempt", "floor", "out"})
  BY <1>2, <1>4 DEF Like
<1>7. m.out = <<ResetMessage(n.nextAttempt)>>
  BY <1>3, <1>4
<1> QED BY <1>1, <1>3, <1>4, <1>5, <1>6, <1>7 DEF Restarted, v

\* The runtime forgets everything but its counters.
Empty(n, m) ==
    /\ Shaped(m)
    /\ m.lboard = [lb \in Leaderboards |-> "active"]
    /\ m.active = [lb \in Leaderboards |-> Never] /\ m.shown = {}
    /\ DOMAIN m.attempts = {} /\ m.byToken = NoFunction /\ m.scheduled = NoFunction
    /\ m.pending = NoFunction /\ m.settled = NoFunction /\ m.young = {}
    /\ m.response = Never /\ m.nextBarrier = 1
    /\ m.nextSubmission = n.nextSubmission

\* Clearing keeps the counters, so numbers are not used again.
LEMMA ClearFacts ==
    ASSUME NEW n, Shaped(n)
    PROVE  LET m == Cleared(n)
           IN  /\ Empty(n, m) /\ m.session = Never
               /\ m.nextAttempt = n.nextAttempt /\ m.floor = n.floor /\ m.out = n.out
<1> DEFINE v == [lb \in Leaderboards |-> "active"]
           u == [lb \in Leaderboards |-> Never]
           m == Cleared(n)
<1>1. m = [n EXCEPT !.session = Never, !.lboard = v, !.attempts = NoFunction,
              !.active = u, !.byToken = NoFunction, !.shown = {}, !.response = Never,
              !.scheduled = NoFunction, !.young = {}, !.pending = NoFunction,
              !.settled = NoFunction, !.nextBarrier = 1]
  BY DEF Cleared
<1> HIDE DEF v, u, m
<1>2. /\ Shaped(m) /\ m.lboard = v /\ m.active = u /\ m.shown = {}
      /\ m.attempts = NoFunction /\ m.byToken = NoFunction /\ m.scheduled = NoFunction
      /\ m.pending = NoFunction /\ m.settled = NoFunction /\ m.young = {}
      /\ m.response = Never /\ m.nextBarrier = 1
      /\ m.nextSubmission = n.nextSubmission
      /\ m.session = Never
      /\ m.nextAttempt = n.nextAttempt /\ m.floor = n.floor /\ m.out = n.out
  BY <1>1 DEF Shaped, Fields
<1>3. DOMAIN m.attempts = {}
  BY <1>2 DEF NoFunction
<1> QED BY <1>2, <1>3 DEF Empty, v, u, m

\* A new session starts empty, behind a barrier of its own.
LEMMA ActivateFacts ==
    ASSUME NEW n, Steady(n), NEW number
    PROVE  LET m == Activate(n, number)
           IN  /\ Empty(n, m) /\ m.session = number
               /\ m.floor = n.nextAttempt /\ m.nextAttempt = n.nextAttempt + 1
               /\ m.out = <<ResetMessage(n.nextAttempt)>>
<1> DEFINE c == Cleared(n)
           k == [c EXCEPT !.session = number]
           m == PublishResetBarrier(k)
<1>1. Activate(n, number) = m
  BY DEF Activate
<1>2. /\ Empty(n, c) /\ c.session = Never
      /\ c.nextAttempt = n.nextAttempt /\ c.floor = n.floor /\ c.out = <<>>
  BY ClearFacts DEF Steady, Counts
<1> HIDE DEF c
<1>3. /\ Like(k, c, {"session"}) /\ k.session = number
  BY <1>2 DEF Empty, Shaped, Like, Fields
<1> HIDE DEF k, m
<1>4. k.nextAttempt = n.nextAttempt /\ DOMAIN k.attempts = {} /\ k.out = <<>> /\ Shaped(k)
  BY <1>2, <1>3 DEF Empty, Like, Fields
<1>5. /\ Like(m, k, {"active", "shown", "attempts", "nextAttempt", "floor", "out"})
      /\ m.active = [lb \in Leaderboards |-> Never] /\ m.shown = {}
      /\ m.floor = k.nextAttempt /\ m.nextAttempt = k.nextAttempt + 1
      /\ Kept(m, k.attempts)
      /\ m.out = Append(k.out, ResetMessage(k.nextAttempt))
  BY <1>4, BarrierLike DEF m
<1>6. DOMAIN m.attempts = {}
  BY <1>4, <1>5 DEF Kept
<1>7. /\ m.lboard = c.lboard /\ m.byToken = c.byToken /\ m.scheduled = c.scheduled
      /\ m.pending = c.pending /\ m.settled = c.settled /\ m.young = c.young
      /\ m.response = c.response /\ m.nextBarrier = c.nextBarrier
      /\ m.nextSubmission = c.nextSubmission /\ m.session = number /\ Shaped(m)
  BY <1>3, <1>5 DEF Like, Fields
<1>8. m.out = <<ResetMessage(n.nextAttempt)>>
  BY <1>4, <1>5
<1> QED BY <1>1, <1>2, <1>4, <1>5, <1>6, <1>7, <1>8 DEF Empty

\* An empty runtime is at rest.
LEMMA EmptyRests ==
    ASSUME NEW n, n.nextSubmission \in Nat \ {0}, NEW m, Empty(n, m), m.session \in Nat,
           m.nextAttempt \in Nat \ {0}, m.floor \in Nat, m.floor < m.nextAttempt
    PROVE  Resting(m)
<1>1. /\ DOMAIN m.scheduled = {} /\ DOMAIN m.byToken = {} /\ DOMAIN m.settled = {}
      /\ m.pending = [t \in {} |-> m.pending[t]]
      /\ m.scheduled \in [{} -> Leaderboards] /\ m.byToken \in [{} -> Nat]
  BY DEF Empty, NoFunction
<1>2. Counts(m)
  BY DEF Empty, Counts, Never
<1>3. Attempts(m) /\ Leaders(m)
  BY DEF Empty, Attempts, Leaders
<1>4. Waiting(m) /\ Ended(m)
  BY <1>1 DEF Empty, Waiting, Ended
<1>5. m.shown = Tracked(m)
  BY DEF Empty, Tracked
<1> QED BY <1>2, <1>3, <1>4, <1>5 DEF Resting, Empty

\* A reset leaves the runtime at rest, with what waits still waiting.
LEMMA RestartRests ==
    ASSUME NEW n, Steady(n), NEW m, Restarted(n, m)
    PROVE  Resting(m)
<1> DEFINE w == Whole(m, n.attempts)
<1>0. /\ Counts(n) /\ Attempts(n) /\ Leaders(n) /\ Waiting(n) /\ Ended(n)
      /\ n.response = Never
  BY DEF Steady
<1>1. /\ Like(m, n, {"lboard", "active", "shown", "attempts", "nextAttempt", "floor", "out"})
      /\ m.lboard = [lb \in Leaderboards |-> "active"]
      /\ m.active = [lb \in Leaderboards |-> Never] /\ m.shown = {}
      /\ m.floor = n.nextAttempt /\ m.nextAttempt = n.nextAttempt + 1
      /\ Kept(m, n.attempts) /\ Shaped(m)
  BY DEF Restarted, Like
<1> HIDE DEF w
<1>2. Like(w, m, {"attempts"}) /\ w.attempts = n.attempts
  BY <1>1, WholeFacts DEF w
<1>3. /\ w.session = n.session /\ w.lboard = [lb \in Leaderboards |-> "active"]
      /\ w.active = [lb \in Leaderboards |-> Never] /\ w.byToken = n.byToken
      /\ w.response = n.response /\ w.scheduled = n.scheduled /\ w.young = n.young
      /\ w.pending = n.pending /\ w.settled = n.settled /\ w.nextBarrier = n.nextBarrier
      /\ w.nextAttempt = n.nextAttempt + 1 /\ w.nextSubmission = n.nextSubmission
      /\ w.floor = n.nextAttempt /\ Shaped(w) /\ w.shown = {}
  BY <1>1, <1>2 DEF Like, Fields
<1>4. n.nextAttempt \in Nat \ {0}
  BY <1>0 DEF Counts
<1>5. Counts(w)
  BY <1>0, <1>3, <1>4 DEF Counts, Never
<1>6. Attempts(w) /\ Leaders(w)
  BY <1>0, <1>2, <1>3, <1>4 DEF Attempts, Leaders
<1>7. Waiting(w)
  <2>1. /\ n.young \subseteq DOMAIN n.scheduled
        /\ \A t \in DOMAIN n.scheduled : n.byToken[t] \in DOMAIN n.attempts
    BY <1>0 DEF Waiting
  <2> QED BY <1>0, <1>2, <1>3, <2>1, WaitingKept
<1>8. Ended(w)
  BY <1>0, <1>3, <1>4 DEF Ended
<1>9. w.shown = Tracked(w)
  BY <1>3 DEF Tracked
<1>10. Resting(w)
  BY <1>0, <1>3, <1>5, <1>6, <1>7, <1>8, <1>9 DEF Resting
<1> QED BY <1>1, <1>10, WholeRests DEF w

-----------------------------------------------------------------------------
(* Scores are discarded.                                                   *)

\* Everything that waits or was rejected is discarded, or nothing.
Discards(n, m, ids) ==
    /\ Like(m, n, {"scheduled", "young", "attempts", "byToken", "pending", "settled"})
    /\ m.scheduled = NoFunction /\ DOMAIN m.pending = {}
    /\ m.settled = Without(n.settled, ids)

\* DiscardPending drops exactly what waits or was rejected, and what it leaves is at rest.
LEMMA DiscardFacts ==
    ASSUME NEW n, Steady(n), NEW ids, MayDiscard(n, ids)
    PROVE  /\ ids = PendingIds(n) \cup FailedIds(n)
           /\ Discards(n, Discard(n, ids), ids)
           /\ Resting(Discard(n, ids))
<1> DEFINE gone == {t \in DOMAIN n.pending : n.pending[t].id \in ids}
           ended == {n.pending[t].attempt : t \in gone}
           f == [a \in DOMAIN n.attempts |->
                    IF a \in ended THEN [n.attempts[a] EXCEPT !.terminal = TRUE]
                    ELSE n.attempts[a]]
           b == Without(n.byToken, {t \in DOMAIN n.byToken : n.byToken[t] \in ended})
           p == Without(n.pending, gone)
           s == Without(n.settled, ids)
           k == [n EXCEPT !.scheduled = NoFunction, !.young = {}, !.attempts = f,
                          !.byToken = b, !.pending = p, !.settled = s]
           m == Discard(n, ids)
<1>0. /\ Counts(n) /\ Attempts(n) /\ Leaders(n) /\ Waiting(n) /\ Ended(n)
      /\ n.response = Never /\ n.shown = Tracked(n) /\ Shaped(n)
  BY DEF Steady, Counts, Tracked
<1>1. /\ DOMAIN n.pending = DOMAIN n.scheduled /\ DOMAIN n.byToken = DOMAIN n.scheduled
      /\ \A t \in DOMAIN n.scheduled :
             n.pending[t].published /\ n.pending[t].attempt = n.byToken[t]
  <2>1. ASSUME NEW t \in DOMAIN n.scheduled
        PROVE  n.pending[t].published /\ n.pending[t].attempt = n.byToken[t]
    <3>1. Told(n.pending[t], n.byToken[t])
      BY <1>0 DEF Waiting
    <3> QED BY <3>1 DEF Told
  <2> QED BY <1>0, <2>1 DEF Waiting
<1>2. ids = PendingIds(n) \cup FailedIds(n)
  BY <1>1 DEF MayDiscard, PendingIds
<1>3. gone = DOMAIN n.pending
  BY <1>2 DEF PendingIds
<1>4. m = Pruned(k)
  BY DEF Discard
<1>5. DOMAIN b = {} /\ DOMAIN p = {}
  BY <1>1, <1>3 DEF Without
<1>6. \A a \in DOMAIN n.attempts :
          f[a] = IF a \in ended THEN [n.attempts[a] EXCEPT !.terminal = TRUE]
                 ELSE n.attempts[a]
  OBVIOUS
<1>e. DOMAIN f = DOMAIN n.attempts
  OBVIOUS
<1>7. \A a \in ended : a \in DOMAIN n.attempts /\ n.attempts[a].submitted
  <2>1. ASSUME NEW t \in DOMAIN n.scheduled
        PROVE  n.byToken[t] \in DOMAIN n.attempts /\ n.attempts[n.byToken[t]].submitted
    <3>1. n.byToken[t] \in DOMAIN n.attempts /\ n.attempts[n.byToken[t]] = Open(n.scheduled[t])
      BY <1>0 DEF Waiting
    <3> QED BY <3>1 DEF Open
  <2> QED BY <1>1, <2>1
<1> HIDE DEF f, b, p, s, ended, gone, m
<1>8. /\ Like(k, n, {"scheduled", "young", "attempts", "byToken", "pending", "settled"})
      /\ k.scheduled = NoFunction /\ k.young = {} /\ k.attempts = f
      /\ k.byToken = b /\ k.pending = p /\ k.settled = s
  BY <1>0 DEF Shaped, Like, Fields
<1> HIDE DEF k
<1>9. Like(m, k, {"attempts"}) /\ Kept(m, k.attempts)
  BY <1>4, <1>8, PrunedLike DEF Like
<1>10. Discards(n, m, ids)
  BY <1>9, <1>8, <1>5 DEF Like, Fields, Discards, s
<1>11. /\ k.session = n.session /\ k.lboard = n.lboard
       /\ k.active = n.active /\ k.shown = n.shown
       /\ k.response = n.response /\ k.nextBarrier = n.nextBarrier
       /\ k.nextAttempt = n.nextAttempt /\ k.nextSubmission = n.nextSubmission
       /\ k.floor = n.floor /\ Shaped(k)
  BY <1>8 DEF Like, Fields
<1>12. Counts(k)
  BY <1>0, <1>11 DEF Counts
<1>13. ASSUME NEW a \in DOMAIN n.attempts
       PROVE  /\ f[a] \in Attempt /\ f[a].leaderboard = n.attempts[a].leaderboard
              /\ f[a].submitted = n.attempts[a].submitted
              /\ n.attempts[a].terminal => f[a].terminal
              /\ a \notin ended => f[a] = n.attempts[a]
  <2>1. n.attempts[a] \in Attempt
    BY <1>0 DEF Attempts
  <2>2. CASE a \notin ended
    BY <1>6, <2>1, <2>2
  <2>3. CASE a \in ended
    BY <1>6, <2>3, <2>1 DEF Attempt
  <2> QED BY <2>2, <2>3
<1>14. Attempts(k)
  BY <1>0, <1>8, <1>11, <1>e, <1>13 DEF Attempts
<1>15. Leaders(k)
  BY <1>0, <1>7, <1>8, <1>11, <1>13 DEF Attempts, Leaders, Counts, Never
<1>16. Waiting(k)
  BY <1>8, <1>5 DEF NoFunction, b, p, Without, Waiting
<1>17. Ended(k)
  BY <1>0, <1>8, <1>11 DEF Ended, s, Without
<1>18. k.shown = Tracked(k)
  BY <1>0, <1>11 DEF Tracked
<1>19. Resting(k)
  BY <1>0, <1>11, <1>12, <1>14, <1>15, <1>16, <1>17, <1>18 DEF Resting
<1>20. Resting(m)
  BY <1>9, <1>19, PruneRests DEF Like
<1> QED BY <1>2, <1>10, <1>20 DEF m

-----------------------------------------------------------------------------
(* Everything is told of again, in order.                                  *)

\* The members of M that weigh no more than x.
Below(M, w, x) == {y \in M : w[y] <= w[x]}

\* A finite set whose members have different weights can be listed by weight.
LEMMA Listed ==
    ASSUME NEW M, IsFiniteSet(M), NEW w \in [M -> Nat],
           \A x, y \in M : w[x] = w[y] => x = y
    PROVE  \E s \in SetToSeqs(M) :
               \A i, j \in DOMAIN s : i < j => w[s[i]] < w[s[j]]
<1> DEFINE n == Cardinality(M)
           rank == [x \in M |-> Cardinality(Below(M, w, x))]
<1>1. n \in Nat
  BY FS_CardinalityType
<1>2. ASSUME NEW x \in M
      PROVE  /\ IsFiniteSet(Below(M, w, x)) /\ rank[x] \in 1 .. n
  <2>1. Below(M, w, x) \in SUBSET M
    BY DEF Below
  <2>2. IsFiniteSet(Below(M, w, x)) /\ Cardinality(Below(M, w, x)) <= n
    BY <2>1, FS_Subset
  <2>3. Cardinality(Below(M, w, x)) \in Nat
    BY <2>2, FS_CardinalityType
  <2>4. Below(M, w, x) # {}
    BY DEF Below
  <2>5. Cardinality(Below(M, w, x)) # 0
    BY <2>2, <2>4, FS_EmptySet
  <2> QED BY <1>1, <2>2, <2>3, <2>5
<1>3. ASSUME NEW x \in M, NEW y \in M, w[x] < w[y]
      PROVE  rank[x] < rank[y]
  BY <1>3, <1>2, FS_Subset, <1>1 DEF Below
<1>4. rank \in Injection(M, 1 .. n)
  <2>1. \A x, y \in M : x # y => w[x] < w[y] \/ w[y] < w[x]
    OBVIOUS
  <2>2. rank \in [M -> 1 .. n]
    BY <1>2
  <2>3. \A x, y \in M : rank[x] = rank[y] => x = y
    BY <1>1, <1>2, <1>3, <2>1
  <2> HIDE DEF rank, n
  <2> QED BY <2>2, <2>3 DEF Injection, IsInjective
<1>5. rank \in Surjection(M, 1 .. n)
  <2>1. IsFiniteSet(1 .. n) /\ Cardinality(1 .. n) = n
    BY <1>1, FS_Interval
  <2> HIDE DEF rank
  <2> QED BY <1>4, <2>1, FS_Injection
<1> HIDE DEF rank
<1>6. \A i \in 1 .. n : \E x \in M : rank[x] = i
  BY <1>5 DEF Surjection
<1> DEFINE s == [i \in 1 .. n |-> CHOOSE x \in M : rank[x] = i]
<1>7. \A i \in 1 .. n : s[i] \in M /\ rank[s[i]] = i
  BY <1>6
<1>8. s \in [1 .. n -> M]
  BY <1>7
<1>9. s \in SetToSeqs(M)
  <2>1. \A i, j \in 1 .. n : i # j => s[i] # s[j]
    BY <1>7
  <2> HIDE DEF s
  <2> QED BY <1>8, <2>1 DEF SetToSeqs
<1> HIDE DEF s
<1>10. ASSUME NEW i \in DOMAIN s, NEW j \in DOMAIN s, i < j
       PROVE  w[s[i]] < w[s[j]]
  BY <1>7, <1>8, <1>10, <1>3, <1>1
<1> QED BY <1>9, <1>10

\* The place of a message about a submission in a replay.
Weight(x) == 2 * x.id + IF x.kind = "Resolved" THEN 1 ELSE 0

\* What a replay tells, if every score that waits has been told of.
Replay(n) == Replayed(n, DOMAIN n.pending)

\* A replay tells of what waits and of what is settled, and of nothing else.
LEMMA ReplayFacts ==
    ASSUME NEW n, Steady(n)
    PROVE  /\ \A x \in Replay(n) :
                  \/ \E t \in DOMAIN n.scheduled :
                         x = Addition(n, n.pending[t].id, n.pending[t].attempt)
                  \/ \E id \in DOMAIN n.settled :
                         \/ x = Addition(n, id, n.settled[id].attempt)
                         \/ x = Resolution(n, id, n.settled[id].resolution)
           /\ \A t \in DOMAIN n.scheduled :
                  Addition(n, n.pending[t].id, n.pending[t].attempt) \in Replay(n)
           /\ \A id \in DOMAIN n.settled :
                  /\ Addition(n, id, n.settled[id].attempt) \in Replay(n)
                  /\ Resolution(n, id, n.settled[id].resolution) \in Replay(n)
<1>1. DOMAIN n.pending = DOMAIN n.scheduled
  BY DEF Steady, Waiting
<1>2. \A t \in DOMAIN n.scheduled :
          Added(n, n.pending[t]) = Addition(n, n.pending[t].id, n.pending[t].attempt)
  BY DEF Added, Addition
<1>3. \A id \in DOMAIN n.settled :
          /\ Added(n, [id |-> id, attempt |-> n.settled[id].attempt])
                 = Addition(n, id, n.settled[id].attempt)
          /\ Resolved(n, id, n.settled[id].resolution)
                 = Resolution(n, id, n.settled[id].resolution)
  BY DEF Added, Addition, Resolved, Resolution
<1>4. \A x : x \in Replay(n) <=>
          \/ \E t \in DOMAIN n.scheduled : x = Added(n, n.pending[t])
          \/ \E id \in DOMAIN n.settled :
                 \/ x = Added(n, [id |-> id, attempt |-> n.settled[id].attempt])
                 \/ x = Resolved(n, id, n.settled[id].resolution)
  BY <1>1 DEF Replay, Replayed, Additions
<1>5. ASSUME NEW x \in Replay(n)
      PROVE  \/ \E t \in DOMAIN n.scheduled :
                    x = Addition(n, n.pending[t].id, n.pending[t].attempt)
             \/ \E id \in DOMAIN n.settled :
                    \/ x = Addition(n, id, n.settled[id].attempt)
                    \/ x = Resolution(n, id, n.settled[id].resolution)
  <2>1. CASE \E t \in DOMAIN n.scheduled : x = Added(n, n.pending[t])
    BY <1>2, <2>1
  <2>2. CASE \E id \in DOMAIN n.settled :
                 \/ x = Added(n, [id |-> id, attempt |-> n.settled[id].attempt])
                 \/ x = Resolved(n, id, n.settled[id].resolution)
    BY <1>3, <2>2
  <2> QED BY <1>4, <2>1, <2>2
<1>6. ASSUME NEW t \in DOMAIN n.scheduled
      PROVE  Addition(n, n.pending[t].id, n.pending[t].attempt) \in Replay(n)
  BY <1>2, <1>4
<1>7. ASSUME NEW id \in DOMAIN n.settled
      PROVE  /\ Addition(n, id, n.settled[id].attempt) \in Replay(n)
             /\ Resolution(n, id, n.settled[id].resolution) \in Replay(n)
  BY <1>3, <1>4
<1> QED BY <1>5, <1>6, <1>7

\* The sort puts a replay in one order: by submission, its addition first.
LEMMA ReplayWeights ==
    ASSUME NEW n, Steady(n)
    PROVE  /\ \A x \in Replay(n) :
                  /\ x.kind \in {"Added", "Resolved"} /\ x.id \in Nat
                  /\ Weight(x) \in Nat /\ Weight(x) <= 2 * n.nextSubmission
           /\ \A x, y \in Replay(n) : Weight(x) = Weight(y) => x = y
           /\ \A x, y \in Replay(n) : Weight(x) < Weight(y) => Precedes(x, y)
<1>1. n.nextSubmission \in Nat
  BY DEF Steady, Counts
<1>2. \A t \in DOMAIN n.scheduled :
          /\ n.pending[t].id \in Nat /\ n.pending[t].id < n.nextSubmission
          /\ n.pending[t].id \notin DOMAIN n.settled
          /\ \A u \in DOMAIN n.scheduled : t # u => n.pending[t].id # n.pending[u].id
  BY DEF Steady, Waiting
<1>3. \A id \in DOMAIN n.settled : id \in Nat /\ id < n.nextSubmission
  BY DEF Steady, Ended
<1>4. \A id, a : /\ Addition(n, id, a).kind = "Added" /\ Addition(n, id, a).id = id
                 /\ Resolution(n, id, a).kind = "Resolved" /\ Resolution(n, id, a).id = id
  BY DEF Addition, Resolution
<1>5. ASSUME NEW x \in Replay(n)
      PROVE  /\ x.kind \in {"Added", "Resolved"} /\ x.id \in Nat /\ x.id < n.nextSubmission
             /\ Weight(x) = IF x.kind = "Resolved" THEN 2 * x.id + 1 ELSE 2 * x.id
  BY <1>2, <1>3, <1>4, ReplayFacts DEF Weight
<1>6. ASSUME NEW x \in Replay(n), NEW y \in Replay(n), Weight(x) = Weight(y)
      PROVE  x = y
  <2>1. x.id = y.id /\ x.kind = y.kind
    BY <1>5, <1>6
  <2>2. CASE x.kind = "Resolved"
    <3>1. ASSUME NEW z \in Replay(n), z.kind = "Resolved"
          PROVE  z = Resolution(n, z.id, n.settled[z.id].resolution)
      BY <1>4, <3>1, ReplayFacts
    <3> QED BY <2>1, <2>2, <3>1
  <2>3. CASE x.kind = "Added"
    <3>1. ASSUME NEW z \in Replay(n), z.kind = "Added"
          PROVE  \/ /\ z.id \in DOMAIN n.settled
                    /\ z = Addition(n, z.id, n.settled[z.id].attempt)
                 \/ \E t \in DOMAIN n.scheduled :
                        /\ z.id = n.pending[t].id
                        /\ z = Addition(n, z.id, n.pending[t].attempt)
      BY <1>4, <3>1, ReplayFacts
    <3>2. CASE x.id \in DOMAIN n.settled
      BY ZenonT(60), <1>2, <2>1, <2>3, <3>1, <3>2
    <3>3. CASE x.id \notin DOMAIN n.settled
      <4>1. PICK t \in DOMAIN n.scheduled :
                x.id = n.pending[t].id /\ x = Addition(n, x.id, n.pending[t].attempt)
        BY <2>3, <3>1, <3>3
      <4>2. PICK u \in DOMAIN n.scheduled :
                y.id = n.pending[u].id /\ y = Addition(n, y.id, n.pending[u].attempt)
        BY <2>1, <2>3, <3>1, <3>3
      <4>3. t = u
        BY <1>2, <2>1, <4>1, <4>2
      <4> QED BY <2>1, <4>1, <4>2, <4>3
    <3> QED BY <3>2, <3>3
  <2> QED BY <1>5, <2>2, <2>3
<1>7. ASSUME NEW x \in Replay(n), NEW y \in Replay(n), Weight(x) < Weight(y)
      PROVE  Precedes(x, y)
  BY <1>5, <1>7 DEF Precedes
<1>8. \A x \in Replay(n) : Weight(x) \in Nat /\ Weight(x) <= 2 * n.nextSubmission
  BY <1>1, <1>5
<1> QED BY <1>5, <1>6, <1>7, <1>8

\* So the sorted replay has every message once, each addition before its end.
LEMMA ReplayListed ==
    ASSUME NEW n, Steady(n)
    PROVE  LET o == InOrder(Replay(n))
           IN  /\ o \in Seq(Replay(n))
               /\ \A x \in Replay(n) : \E i \in DOMAIN o : o[i] = x
               /\ \A i, j \in DOMAIN o : i < j => Precedes(o[i], o[j])
<1> DEFINE M == Replay(n)
           w == [x \in M |-> Weight(x)]
           W == {Weight(x) : x \in M}
           o == InOrder(M)
<1>1. /\ \A x \in M : Weight(x) \in Nat /\ Weight(x) <= 2 * n.nextSubmission
      /\ \A x, y \in M : Weight(x) = Weight(y) => x = y
      /\ \A x, y \in M : Weight(x) < Weight(y) => Precedes(x, y)
  BY ReplayWeights
<1> HIDE DEF M
<1>2. IsFiniteSet(W)
  <2>1. W \in SUBSET Nat /\ \A v \in W : v <= 2 * n.nextSubmission
    BY <1>1
  <2>2. 2 * n.nextSubmission \in Nat
    BY DEF Steady, Counts
  <2> HIDE DEF W
  <2> QED BY <2>1, <2>2, FS_BoundedSetOfNaturals
<1>3. IsFiniteSet(M)
  <2>1. w \in Injection(M, W)
    BY <1>1 DEF Injection, IsInjective
  <2> HIDE DEF W, w
  <2> QED BY <1>2, <2>1, FS_Injection
<1>4. w \in [M -> Nat] /\ \A x, y \in M : w[x] = w[y] => x = y
  BY <1>1
<1>5. \A x, y \in M : w[x] < w[y] => Precedes(x, y)
  BY <1>1
<1> HIDE DEF w
<1>6. \E s \in SetToSeqs(M) : \A i, j \in DOMAIN s : i < j => w[s[i]] < w[s[j]]
  BY <1>3, <1>4, Listed
<1>7. ASSUME NEW s \in SetToSeqs(M)
      PROVE  /\ s \in Seq(M) /\ DOMAIN s = 1 .. Cardinality(M)
             /\ \A x \in M : \E i \in DOMAIN s : s[i] = x
  <2>1. Cardinality(M) \in Nat
    BY <1>3, FS_CardinalityType
  <2>2. s \in Injection(1 .. Cardinality(M), M) /\ s \in [1 .. Cardinality(M) -> M]
    BY DEF SetToSeqs, Injection, IsInjective
  <2>3. Cardinality(1 .. Cardinality(M)) = Cardinality(M)
    BY <2>1, FS_Interval
  <2>4. s \in Surjection(1 .. Cardinality(M), M)
    BY <1>3, <2>2, <2>3, FS_Injection
  <2> QED BY <2>1, <2>2, <2>4 DEF Surjection
<1>8. \E s \in SetToSeqs(M) : \A i, j \in DOMAIN s : i < j => Precedes(s[i], s[j])
  BY <1>5, <1>6, <1>7
<1>9. o \in SetToSeqs(M) /\ \A i, j \in DOMAIN o : i < j => Precedes(o[i], o[j])
  BY <1>8 DEF InOrder
<1> HIDE DEF o
<1> QED BY <1>7, <1>9 DEF o, M

-----------------------------------------------------------------------------
(* The mirror is brought up to date.                                       *)

\* The barrier that closes a refresh.
BarrierOf(n) == [kind |-> "Barrier", session |-> n.session, barrier |-> n.nextBarrier]

\* Every submission is told of again, before the barrier.
Refreshed(n, m) ==
    /\ Like(m, n, {"nextBarrier", "out"})
    /\ m.nextBarrier = n.nextBarrier + 1
    /\ m.out = InOrder(Replay(n)) \o <<BarrierOf(n)>>

\* Refresh does what Refreshed says.
LEMMA RefreshFacts ==
    ASSUME NEW n, Steady(n)
    PROVE  Refreshed(n, Refresh(n)) /\ Resting(Refresh(n))
<1> DEFINE m == Refresh(n)
           D == DOMAIN n.pending
<1>1. Shaped(n) /\ n.out = <<>> /\ n.nextBarrier \in Nat \ {0}
  BY DEF Steady, Counts
<1>2. \A t \in D : /\ n.pending[t].ready = TRUE /\ n.pending[t].waiting = TRUE
  <2> TAKE t \in D
  <2>1. t \in DOMAIN n.scheduled /\ Told(n.pending[t], n.byToken[t])
    BY DEF Steady, Waiting
  <2> QED BY <2>1 DEF Told
<1>3. {t \in D : Publishable(n.pending[t])} = D
  BY <1>2 DEF Publishable
<1>4. Marked(n.pending, {}, D) = n.pending
  <2>1. n.pending = [t \in D |-> n.pending[t]]
    BY DEF Steady, Waiting
  <2>2. ASSUME NEW t \in D
        PROVE  n.pending[t] = [id |-> n.pending[t].id, attempt |-> n.pending[t].attempt,
                               ready |-> TRUE, waiting |-> TRUE, published |-> TRUE]
    <3>1. t \in DOMAIN n.scheduled /\ Told(n.pending[t], n.byToken[t])
      BY DEF Steady, Waiting
    <3>2. n.pending[t] = [id |-> n.pending[t].id, attempt |-> n.byToken[t],
                          ready |-> TRUE, waiting |-> TRUE, published |-> TRUE]
      BY <3>1 DEF Told
    <3>3. n.pending[t].attempt = n.byToken[t]
      BY <3>2
    <3> QED BY <3>2, <3>3
  <2>3. AllTold(n.pending)
    BY <2>1, <2>2 DEF AllTold
  <2> QED BY <2>3, MarkedAll
<1> DEFINE o == InOrder(Replayed(n, D))
           b == BarrierOf(n)
<1>5. m = [n EXCEPT !.pending = n.pending, !.nextBarrier = n.nextBarrier + 1,
                    !.out = n.out \o o \o <<b>>]
  BY <1>3, <1>4 DEF Refresh, BarrierOf
<1>6. o \in Seq(Replay(n)) /\ o = InOrder(Replay(n))
  BY ReplayListed DEF Replay
<1> HIDE DEF o, b, m
<1>7. n.out \o o = o
  BY <1>1, <1>6
<1>8. /\ Like(m, n, {"pending", "nextBarrier", "out"}) /\ m.pending = n.pending
      /\ m.nextBarrier = n.nextBarrier + 1 /\ m.out = o \o <<b>>
  BY <1>1, <1>5, <1>7 DEF Shaped, Like, Fields
<1>9. Like(m, n, {"nextBarrier", "out"})
  BY <1>8 DEF Like, Fields
<1>10. Refreshed(n, m)
  BY <1>6, <1>8, <1>9 DEF Refreshed, b
<1>11. Resting(m)
  <2>1. /\ Shaped(m) /\ m.session = n.session /\ m.lboard = n.lboard
        /\ m.attempts = n.attempts /\ m.active = n.active /\ m.byToken = n.byToken
        /\ m.shown = n.shown /\ m.response = n.response /\ m.scheduled = n.scheduled
        /\ m.young = n.young /\ m.pending = n.pending /\ m.settled = n.settled
        /\ m.nextAttempt = n.nextAttempt /\ m.nextSubmission = n.nextSubmission
        /\ m.floor = n.floor
    BY <1>9 DEF Like, Fields
  <2>2. m.nextBarrier \in Nat \ {0}
    BY <1>1, <1>8
  <2>3. Resting(n)
    BY SteadyRests
  <2>4. Counts(m)
    BY <2>1, <2>2, <2>3 DEF Resting, Counts
  <2>5. Attempts(m) /\ Leaders(m) /\ Waiting(m) /\ Ended(m)
    <3>1. Attempts(m)
      BY <2>1, <2>3 DEF Resting, Attempts
    <3>2. Leaders(m)
      BY <2>1, <2>3 DEF Resting, Leaders
    <3>3. Waiting(m)
      <4>1. /\ Waiting(n) /\ m.young \subseteq DOMAIN n.scheduled
            /\ \A t \in DOMAIN n.scheduled :
                   /\ n.byToken[t] \in DOMAIN m.attempts
                   /\ m.attempts[n.byToken[t]] = n.attempts[n.byToken[t]]
        BY <2>1, <2>3 DEF Resting, Waiting
      <4> QED BY <2>1, <4>1, WaitingKept
    <3>4. Ended(m)
      BY <2>1, <2>3 DEF Resting, Ended
    <3> QED BY <3>1, <3>2, <3>3, <3>4
  <2> QED BY <2>1, <2>3, <2>4, <2>5 DEF Resting, Tracked
<1> QED BY <1>10, <1>11 DEF m

-----------------------------------------------------------------------------
(* The pipe.                                                               *)

\* The messages of two sequences put together,
LEMMA Longer ==
    ASSUME NEW S, NEW p \in Seq(S), NEW q \in Seq(S)
    PROVE  LET r == p \o q
           IN  /\ r \in Seq(S) /\ Len(r) = Len(p) + Len(q)
               /\ \A i \in DOMAIN p : i \in DOMAIN r /\ r[i] = p[i]
               /\ \A i \in DOMAIN q : i + Len(p) \in DOMAIN r /\ r[i + Len(p)] = q[i]
               /\ \A i \in DOMAIN r :
                      \/ i \in DOMAIN p
                      \/ i > Len(p) /\ i - Len(p) \in DOMAIN q /\ r[i] = q[i - Len(p)]
OBVIOUS

\* of a sequence without its first,
LEMMA Shorter ==
    ASSUME NEW S, NEW p \in Seq(S), p # <<>>
    PROVE  /\ Tail(p) \in Seq(S) /\ Head(p) \in S
           /\ 1 \in DOMAIN p /\ Head(p) = p[1]
           /\ \A i : i \in DOMAIN Tail(p) => i + 1 \in DOMAIN p /\ Tail(p)[i] = p[i + 1]
           /\ \A i \in DOMAIN p : i = 1 \/ (i > 1 /\ i - 1 \in DOMAIN Tail(p)
                                            /\ p[i] = Tail(p)[i - 1])
OBVIOUS

\* and of the end of a sequence.
LEMMA Later ==
    ASSUME NEW S, NEW p \in Seq(S), NEW k \in 0 .. Len(p)
    PROVE  LET r == SubSeq(p, k + 1, Len(p))
           IN  /\ r \in Seq(S)
               /\ \A i \in DOMAIN r : i + k \in DOMAIN p /\ r[i] = p[i + k]
OBVIOUS

-----------------------------------------------------------------------------
(* The steps of the runtime.                                               *)

\* The runtime is now m, and what it has told is in the pipe.
Becomes(m) == native' = Quiet(m) /\ pipe' = pipe \o m.out

\* A session begins.
Activated(n, m, number) ==
    /\ Empty(n, m) /\ m.session = number
    /\ m.floor = n.nextAttempt /\ m.nextAttempt = n.nextAttempt + 1
    /\ m.out = <<ResetMessage(n.nextAttempt)>>

\* Native sends what the operation has told, after what the pipe holds.
LEMMA NativeBecomes ==
    ASSUME NEW m, Native(m)
    PROVE  Becomes(m)
BY DEF Native, Becomes, Quiet

\* The rest of what a frame changes.
FrameAround ==
    /\ FrameMayRun
    /\ exit' = [exit EXCEPT !.frame = FALSE, !.late = exit.stage # "none"]
    /\ UNCHANGED <<coordinator, store, session, resets, sync>>

\* Each action that calls the runtime is one of the operations above.
LEMMA StartStep ==
    ASSUME Steady(native), NEW lb \in Leaderboards, StartAttempt(lb)
    PROVE  /\ FrameAround /\ native.lboard[lb] = "active"
           /\ \E m : Becomes(m) /\ Start(native, m, lb) /\ Resting(m)
<1> DEFINE m == PublishTrackers(Started(native, lb))
<1>1. native.lboard[lb] = "active" /\ Native(m) /\ FrameAround
  BY DEF StartAttempt, FrameOf, FrameAround
<1>2. Start(native, m, lb)
  BY <1>1, StartFacts
<1>3. Resting(m)
  BY <1>1, <1>2, StartRests
<1> HIDE DEF m
<1> QED BY <1>1, <1>2, <1>3, NativeBecomes

\* A canceled attempt.
LEMMA CancelStep ==
    ASSUME Steady(native), NEW lb \in Leaderboards, CancelAttempt(lb)
    PROVE  /\ FrameAround /\ native.lboard[lb] = "tracking"
           /\ \E m : Becomes(m) /\ Cancel(native, m, lb) /\ Resting(m)
<1> DEFINE m == PublishTrackers(Canceled(native, lb))
<1>1. native.lboard[lb] = "tracking" /\ Native(m) /\ FrameAround
  BY DEF CancelAttempt, FrameOf, FrameAround
<1>2. Cancel(native, m, lb)
  BY <1>1, CancelFacts
<1>3. Resting(m)
  BY <1>1, <1>2, CancelRests
<1> HIDE DEF m
<1> QED BY <1>1, <1>2, <1>3, NativeBecomes

\* A submission; muddled' = {} says that its leaderboard had no other that waits.
LEMMA SubmitStep ==
    ASSUME Steady(native), NEW lb \in Leaderboards, SubmitAttempt(lb), muddled' = {}
    PROVE  /\ FrameAround /\ Apart(native, lb)
           /\ \E m, answer, t :
                  /\ t \notin DOMAIN native.scheduled
                  /\ Becomes(m) /\ Submit(native, m, lb, t, answer) /\ Resting(m)
<1>1. Apart(native, lb)
  BY DEF SubmitAttempt, Muddles, SharesAttempt, Apart
<1>2. PICK t \in FreeTokens, answers \in FirstAnswers : FrameOf(Submitted(native, lb, t, answers))
  BY DEF SubmitAttempt
<1>3. t \notin DOMAIN native.scheduled
  <2>1. CASE native.nextSubmission = 1
    <3>1. \A u \in DOMAIN native.scheduled :
              native.pending[u].id \in Nat \ {0} /\ native.pending[u].id < native.nextSubmission
      BY DEF Steady, Waiting
    <3> QED BY <2>1, <3>1
  <2>2. CASE native.nextSubmission # 1
    BY <1>2, <2>2 DEF FreeTokens
  <2> QED BY <2>1, <2>2
<1> DEFINE m == PublishTrackers(Submitted(native, lb, t, answers))
<1>4. Native(m) /\ FrameAround
  BY <1>2 DEF FrameOf, FrameAround
<1>5. Submit(native, m, lb, t, LastOf(answers))
  BY <1>1, <1>3, SubmitFrame
<1>6. Resting(m)
  BY <1>1, <1>3, <1>5, SubmitRests
<1> HIDE DEF m
<1> QED BY <1>1, <1>3, <1>4, <1>5, <1>6, NativeBecomes

\* A retry whose time has come.
LEMMA RetryStep ==
    ASSUME Steady(native), NEW t, RetryScheduled(t)
    PROVE  /\ FrameAround /\ t \in DOMAIN native.scheduled
           /\ \E m, answer : /\ answer \in Answers
                             /\ Becomes(m) /\ Retried(native, m, t, answer) /\ Resting(m)
<1>1. t \in DOMAIN native.scheduled
  BY DEF RetryScheduled
<1>2. PICK answer \in Answers : FrameOf(RetryEntry(native, t, TRUE, answer))
  BY DEF RetryScheduled
<1> DEFINE m == RetryEntry(native, t, TRUE, answer)
<1>3. Retried(native, m, t, answer)
  BY <1>1, RetryFacts
<1>4. Native(PublishTrackers(m)) /\ FrameAround
  BY <1>2 DEF FrameOf, FrameAround
<1> HIDE DEF m
<1>5. Resting(m) /\ PublishTrackers(m) = m
  BY <1>1, <1>3, RetriedRests
<1> QED BY <1>1, <1>3, <1>4, <1>5, NativeBecomes

\* A record of a synchronisation is settled already, or retried now.
LEMMA RecordStep ==
    ASSUME Steady(native), RetryRecord, muddled' = {}
    PROVE  /\ sync.stage = "retrying"
           /\ UNCHANGED <<coordinator, store, session, resets, exit>>
           /\ \/ /\ Min(sync.ids) \in DOMAIN native.settled
                 /\ UNCHANGED <<native, pipe>>
                 /\ sync' = Reported(native, Min(sync.ids))
              \/ \E m, t, answer :
                     /\ t \in DOMAIN native.scheduled /\ answer \in Answers
                     /\ native.pending[t].id = Min(sync.ids)
                     /\ Becomes(m) /\ Retried(native, m, t, answer) /\ Resting(m)
                     /\ sync' = Reported(m, Min(sync.ids))
<1> DEFINE id == Min(sync.ids)
<1>1. /\ sync.stage = "retrying"
      /\ UNCHANGED <<coordinator, store, session, resets, exit>>
  BY DEF RetryRecord
<1>2. CASE id \in DOMAIN native.settled
  BY <1>1, <1>2 DEF RetryRecord
<1>3. CASE id \notin DOMAIN native.settled
  <2>1. PICK t \in DOMAIN native.pending, answer \in Answers, elapsed \in BOOLEAN :
            LET m == RetryEntry(native, t, elapsed, answer)
            IN  /\ native.pending[t].id = id
                /\ Native(m)
                /\ Muddles(native.scheduled[t], ~elapsed /\ StraysFrom(native.scheduled[t], t))
                /\ sync' = Reported(m, id)
    BY <1>3 DEF RetryRecord
  <2> DEFINE m == RetryEntry(native, t, elapsed, answer)
  <2>2. t \in DOMAIN native.scheduled /\ t \in DOMAIN native.byToken
    BY <2>1 DEF Steady, Waiting
  <2>3. elapsed \/ native.byToken[t] = native.active[native.scheduled[t]]
    BY <2>1, <2>2 DEF Muddles, StraysFrom
  <2>4. Retried(native, m, t, answer)
    BY <2>2, <2>3, RetryFacts
  <2>5. Native(m) /\ sync' = Reported(m, id) /\ native.pending[t].id = id
    BY <2>1
  <2> HIDE DEF m, id
  <2>6. Resting(m)
    BY <2>2, <2>4, RetriedRests
  <2> QED BY <1>1, <2>2, <2>4, <2>5, <2>6, NativeBecomes DEF id
<1> QED BY <1>2, <1>3

\* A reset of the console.
LEMMA ResetStep ==
    ASSUME Steady(native), NativeReset
    PROVE  \E m : Becomes(m) /\ Restarted(native, m) /\ Resting(m)
<1> DEFINE m == Reset(native)
<1>1. Native(m)
  BY DEF NativeReset
<1>2. Restarted(native, m)
  BY ResetFacts
<1> HIDE DEF m
<1> QED BY <1>1, <1>2, RestartRests, NativeBecomes

\* The session becomes the runtime's.
LEMMA ActivateStep ==
    ASSUME Steady(native), session.number \in Nat, ActivateSession
    PROVE  \E m : /\ Becomes(m) /\ Activated(native, m, session.number)
                  /\ Resting(m)
<1> DEFINE m == Activate(native, session.number)
<1>1. Native(m)
  BY DEF ActivateSession
<1>2. Activated(native, m, session.number)
  BY ActivateFacts DEF Activated
<1> HIDE DEF m
<1>3. Resting(m)
  BY <1>2, EmptyRests DEF Steady, Counts, Activated
<1> QED BY <1>1, <1>2, <1>3, NativeBecomes

\* A refresh of the mirror.
LEMMA RefreshStep ==
    ASSUME Steady(native), RefreshMirror
    PROVE  \E m : Becomes(m) /\ Refreshed(native, m) /\ Resting(m)
BY RefreshFacts, NativeBecomes DEF RefreshMirror

\* The scores are discarded, or the mirror brought up to date.
LEMMA DiscardStep ==
    ASSUME Steady(native), DiscardScores
    PROVE  /\ exit.stage = "asked" /\ sync.stage # "retrying"
           /\ UNCHANGED <<coordinator, store, session, resets, sync>>
           /\ \/ /\ DOMAIN store.records = PendingIds(native) \cup FailedIds(native)
                 /\ exit' = [exit EXCEPT !.stage = "discarded", !.ids = DOMAIN store.records]
                 /\ \E m : /\ Becomes(m) /\ Resting(m)
                           /\ Discards(native, m, DOMAIN store.records)
              \/ RefreshMirror /\ exit' = NoExit
<1> DEFINE ids == DOMAIN store.records
<1>1. CASE MayDiscard(native, ids)
  <2>1. Native(Discard(native, ids))
    BY <1>1 DEF DiscardScores
  <2> QED BY <1>1, <2>1, DiscardFacts, NativeBecomes DEF DiscardScores
<1>2. CASE ~MayDiscard(native, ids)
  BY <1>2 DEF DiscardScores
<1> QED BY <1>1, <1>2

-----------------------------------------------------------------------------
(* What the runtime tells.                                                 *)

\* An event is a message.
LEMMA EventFacts ==
    ASSUME NEW kind \in AttemptKinds, NEW lb \in Leaderboards, NEW a \in Nat \ {0}
    PROVE  LET e == Event(kind, lb, a)
           IN  e \in Message /\ e.kind = kind /\ e.leaderboard = lb /\ e.attempt = a
BY DEF Event, Message

\* So is an addition,
LEMMA AdditionFacts ==
    ASSUME NEW n, n.session \in Nat \ {0}, NEW id \in Nat \ {0}, NEW a \in Nat \ {0}
    PROVE  LET e == Addition(n, id, a)
           IN  /\ e \in Message /\ e.kind = "Added"
               /\ e.session = n.session /\ e.id = id /\ e.attempt = a
BY DEF Addition, Message

\* a resolution,
LEMMA ResolutionFacts ==
    ASSUME NEW n, n.session \in Nat \ {0}, NEW id \in Nat \ {0},
           NEW r \in {"accepted", "permanent"}
    PROVE  LET e == Resolution(n, id, r)
           IN  /\ e \in Message /\ e.kind = "Resolved"
               /\ e.session = n.session /\ e.id = id /\ e.resolution = r
BY DEF Resolution, Message

\* the barrier of a reset,
LEMMA ResetMessageFacts ==
    ASSUME NEW floor \in Nat
    PROVE  LET e == ResetMessage(floor)
           IN  e \in Message /\ e.kind = "RuntimeReset" /\ e.floor = floor
BY DEF ResetMessage, Message

\* and the barrier of a refresh.
LEMMA BarrierFacts ==
    ASSUME NEW n, n.session \in Nat \ {0}, n.nextBarrier \in Nat
    PROVE  LET e == BarrierOf(n)
           IN  /\ e \in Message /\ e.kind = "Barrier"
               /\ e.session = n.session /\ e.barrier = n.nextBarrier
BY DEF BarrierOf, Message

\* What a message holds depends on its kind.
LEMMA MessageFacts ==
    ASSUME NEW e \in Message
    PROVE  /\ e.kind \in AttemptKinds \cup {"RuntimeReset"} \cup SessionKinds
           /\ e.kind \in AttemptKinds =>
                  e.leaderboard \in Leaderboards /\ e.attempt \in Nat \ {0}
           /\ e.kind = "RuntimeReset" => e.floor \in Nat
           /\ e.kind \in SessionKinds => e.session \in Nat \ {0}
           /\ e.kind \in {"Added", "Resolved"} => e.id \in Nat \ {0}
           /\ e.kind = "Added" => e.attempt \in Nat \ {0}
           /\ e.kind = "Resolved" => e.resolution \in {"accepted", "permanent"}
           /\ e.kind = "Barrier" => e.barrier \in Nat
<1>1. CASE e \in [kind : AttemptKinds, leaderboard : Leaderboards, attempt : Nat \ {0}]
  BY <1>1 DEF AttemptKinds, SessionKinds, Results
<1>2. CASE e \in [kind : {"RuntimeReset"}, floor : Nat]
  BY <1>2 DEF AttemptKinds, SessionKinds, Results
<1>3. CASE e \in [kind : {"Added"}, session : Nat \ {0}, id : Nat \ {0}, attempt : Nat \ {0}]
  BY <1>3 DEF AttemptKinds, SessionKinds, Results
<1>4. CASE e \in [kind : {"Resolved"}, session : Nat \ {0}, id : Nat \ {0},
                  resolution : {"accepted", "permanent"}]
  BY <1>4 DEF AttemptKinds, SessionKinds, Results
<1>5. CASE e \in [kind : {"Barrier"}, session : Nat \ {0}, barrier : Nat]
  BY <1>5 DEF AttemptKinds, SessionKinds, Results
<1> QED BY <1>1, <1>2, <1>3, <1>4, <1>5 DEF Message

\* A message that fits the runtime m that n became.
Fit(n, m, e) ==
    /\ e \in Message
    /\ Counted(m, e)
    /\ e.kind \in SessionKinds => e.session = n.session

\* All that m has told fits.
Said(n, m) ==
    /\ m.out \in Seq(Message)
    /\ \A i \in DOMAIN m.out : Fit(n, m, m.out[i])

\* One message that fits,
LEMMA SaidOne ==
    ASSUME NEW n, NEW m, NEW x, m.out = <<x>>, Fit(n, m, x)
    PROVE  Said(n, m)
BY DEF Said, Fit

\* two,
LEMMA SaidTwo ==
    ASSUME NEW n, NEW m, NEW x, NEW y, m.out = <<x, y>>, Fit(n, m, x), Fit(n, m, y)
    PROVE  Said(n, m)
BY DEF Said, Fit

\* or three.
LEMMA SaidThree ==
    ASSUME NEW n, NEW m, NEW x, NEW y, NEW z, m.out = <<x, y, z>>,
           Fit(n, m, x), Fit(n, m, y), Fit(n, m, z)
    PROVE  Said(n, m)
BY DEF Said, Fit

\* An event fits if its attempt has been counted.
LEMMA EventFit ==
    ASSUME NEW n, NEW m, NEW kind \in AttemptKinds, NEW lb \in Leaderboards,
           NEW a \in Nat \ {0}, a < m.nextAttempt
    PROVE  Fit(n, m, Event(kind, lb, a))
BY EventFacts DEF Fit, Counted, AttemptKinds, SessionKinds, Results

\* An addition fits if its submission and its attempt have been.
LEMMA AdditionFit ==
    ASSUME NEW n, n.session \in Nat \ {0}, NEW m, NEW id \in Nat \ {0},
           NEW a \in Nat \ {0}, id < m.nextSubmission, a < m.nextAttempt
    PROVE  Fit(n, m, Addition(n, id, a))
BY AdditionFacts DEF Fit, Counted, AttemptKinds, SessionKinds, Results

\* A resolution fits if its submission has been.
LEMMA ResolutionFit ==
    ASSUME NEW n, n.session \in Nat \ {0}, NEW m, NEW id \in Nat \ {0},
           id < m.nextSubmission, NEW r \in {"accepted", "permanent"}
    PROVE  Fit(n, m, Resolution(n, id, r))
BY ResolutionFacts DEF Fit, Counted, AttemptKinds, SessionKinds, Results

\* A barrier fits if its number has been given.
LEMMA ResetMessageFit ==
    ASSUME NEW n, NEW m, NEW floor \in Nat, floor < m.nextAttempt
    PROVE  Fit(n, m, ResetMessage(floor))
BY ResetMessageFacts DEF Fit, Counted, AttemptKinds, SessionKinds, Results

\* The counters only go up.
Grows(n, m) ==
    /\ n.nextAttempt \in Nat /\ m.nextAttempt \in Nat /\ n.nextAttempt <= m.nextAttempt
    /\ n.nextSubmission \in Nat /\ m.nextSubmission \in Nat
    /\ n.nextSubmission <= m.nextSubmission

\* Within a session.
Goes(n, m) ==
    /\ Grows(n, m) /\ Said(n, m) /\ m.session = n.session
    /\ n.nextBarrier \in Nat /\ m.nextBarrier \in Nat /\ n.nextBarrier <= m.nextBarrier

\* What each operation tells fits, and the counters go up: a started attempt,
LEMMA StartGoes ==
    ASSUME NEW n, Steady(n), NEW lb \in Leaderboards, NEW m, Start(n, m, lb)
    PROVE  Goes(n, m)
<1> DEFINE a == n.nextAttempt
<1>1. /\ a \in Nat \ {0} /\ n.nextSubmission \in Nat /\ n.nextBarrier \in Nat
      /\ m.nextAttempt = a + 1 /\ m.nextSubmission = n.nextSubmission
      /\ m.nextBarrier = n.nextBarrier /\ m.session = n.session
      /\ m.out = <<Event("Started", lb, a), Event("Updated", lb, a)>>
  BY DEF Steady, Counts, Start, Like, Fields
<1>2. "Started" \in AttemptKinds /\ "Updated" \in AttemptKinds
  BY DEF AttemptKinds
<1>3. Said(n, m)
  BY <1>1, <1>2, EventFit, SaidTwo
<1> QED BY <1>1, <1>3 DEF Goes, Grows

\* a canceled one,
LEMMA CancelGoes ==
    ASSUME NEW n, Steady(n), NEW lb \in Leaderboards, n.lboard[lb] = "tracking",
           NEW m, Cancel(n, m, lb)
    PROVE  Goes(n, m)
<1> DEFINE a == n.active[lb]
<1>1. /\ n.nextAttempt \in Nat /\ n.nextSubmission \in Nat /\ n.nextBarrier \in Nat
      /\ m.nextAttempt = n.nextAttempt /\ m.nextSubmission = n.nextSubmission
      /\ m.nextBarrier = n.nextBarrier /\ m.session = n.session
      /\ m.out = <<Event("Canceled", lb, a), Event("Hidden", lb, a)>>
  BY DEF Steady, Counts, Cancel, Like, Fields
<1>2. "Canceled" \in AttemptKinds /\ "Hidden" \in AttemptKinds
  BY DEF AttemptKinds, Results
<1>3. a \in Nat \ {0} /\ a < n.nextAttempt
  BY TrackedAttempt
<1>4. Said(n, m)
  BY <1>1, <1>2, <1>3, EventFit, SaidTwo
<1> QED BY <1>1, <1>4 DEF Goes, Grows

\* a submission,
LEMMA SubmitGoes ==
    ASSUME NEW n, Steady(n), n.session \in Nat \ {0}, NEW lb \in Leaderboards,
           Apart(n, lb), NEW t, NEW answer, NEW m, Submit(n, m, lb, t, answer)
    PROVE  Goes(n, m)
<1> DEFINE a == Entry(n, lb)
           id == n.nextSubmission
           x == IF answer = "unreachable" THEN Addition(n, id, a)
                ELSE Event(EventOf(answer), lb, a)
           y == Event("Submitted", lb, a)
           z == Event("Hidden", lb, a)
<1>1. /\ n.nextAttempt \in Nat /\ id \in Nat \ {0} /\ n.nextBarrier \in Nat
      /\ m.nextAttempt = IF n.lboard[lb] = "tracking" THEN n.nextAttempt
                         ELSE n.nextAttempt + 1
      /\ m.nextSubmission = id + 1
      /\ m.nextBarrier = n.nextBarrier /\ m.session = n.session
  BY DEF Steady, Counts, Submit, Like, Fields
<1>2. a \in Nat \ {0} /\ a < m.nextAttempt
  <2>1. a \in Nat \ {0}
    BY EntryFacts
  <2>2. n.lboard[lb] = "tracking" => a < n.nextAttempt
    BY TrackedAttempt DEF Entry
  <2> QED BY <1>1, <2>1, <2>2 DEF Entry
<1>3. m.out = IF n.lboard[lb] = "tracking" THEN <<x, y, z>> ELSE <<x, y>>
  <2>1. m.out = <<x, y>> \o HiddenOf(n, lb)
    BY DEF Submit
  <2>2. HiddenOf(n, lb) = IF n.lboard[lb] = "tracking" THEN <<z>> ELSE <<>>
    BY DEF HiddenOf
  <2> HIDE DEF x, y, z
  <2>3. <<x, y>> \o <<z>> = <<x, y, z>> /\ <<x, y>> \o <<>> = <<x, y>>
    BY OneMore
  <2> QED BY <2>1, <2>2, <2>3
<1>4. Fit(n, m, x)
  <2>1. CASE answer = "unreachable"
    BY <1>1, <1>2, <2>1, AdditionFit
  <2>2. CASE answer # "unreachable"
    BY <1>2, <2>2, EventFit DEF EventOf, AttemptKinds, Results
  <2> QED BY <2>1, <2>2
<1>5. Fit(n, m, y) /\ Fit(n, m, z)
  BY <1>2, EventFit DEF AttemptKinds
<1> HIDE DEF x, y, z
<1>6. Said(n, m)
  BY <1>3, <1>4, <1>5, SaidTwo, SaidThree
<1> QED BY <1>1, <1>6 DEF Goes, Grows

\* a retry,
LEMMA RetriedGoes ==
    ASSUME NEW n, Steady(n), n.session \in Nat \ {0}, NEW t \in DOMAIN n.scheduled,
           NEW answer \in Answers, NEW m, Retried(n, m, t, answer)
    PROVE  Goes(n, m)
<1> DEFINE a == n.byToken[t]
           lb == n.scheduled[t]
           id == n.pending[t].id
           x == Event(EventOf(answer), lb, a)
           y == Resolution(n, id, ResolutionOf(answer))
<1>1. /\ n.nextAttempt \in Nat /\ n.nextSubmission \in Nat /\ n.nextBarrier \in Nat
      /\ n.out = <<>>
      /\ m.nextAttempt = n.nextAttempt /\ m.nextSubmission = n.nextSubmission
      /\ m.nextBarrier = n.nextBarrier /\ m.session = n.session
  BY DEF Steady, Counts, Retried, Like, Fields
<1>2. Said(n, m)
  <2>1. CASE answer = "unreachable"
    <3>1. m.out = <<>>
      BY <1>1, <2>1 DEF Retried, Like, Fields
    <3> QED BY <3>1 DEF Said
  <2>2. CASE answer # "unreachable"
    <3>1. m.out = <<x, y>>
      BY <2>2 DEF Retried
    <3>2. /\ a \in Nat \ {0} /\ a < n.nextAttempt /\ lb \in Leaderboards
          /\ id \in Nat \ {0} /\ id < n.nextSubmission
      BY DEF Steady, Waiting, Attempts
    <3>3. /\ EventOf(answer) \in AttemptKinds
          /\ ResolutionOf(answer) \in {"accepted", "permanent"}
      BY DEF EventOf, ResolutionOf, AttemptKinds, Results
    <3>4. Fit(n, m, x)
      BY <1>1, <3>2, <3>3, EventFit
    <3>5. Fit(n, m, y)
      BY <1>1, <3>2, <3>3, ResolutionFit
    <3> HIDE DEF x, y
    <3> QED BY <3>1, <3>4, <3>5, SaidTwo
  <2> QED BY <2>1, <2>2
<1> QED BY <1>1, <1>2 DEF Goes, Grows

\* a reset,
LEMMA RestartedGoes ==
    ASSUME NEW n, Steady(n), NEW m, Restarted(n, m)
    PROVE  Goes(n, m)
<1>1. /\ n.nextAttempt \in Nat /\ n.nextSubmission \in Nat /\ n.nextBarrier \in Nat
      /\ m.nextAttempt = n.nextAttempt + 1 /\ m.nextSubmission = n.nextSubmission
      /\ m.nextBarrier = n.nextBarrier /\ m.session = n.session
      /\ m.out = <<ResetMessage(n.nextAttempt)>>
  BY DEF Steady, Counts, Restarted, Like, Fields
<1>2. Said(n, m)
  BY <1>1, ResetMessageFit, SaidOne
<1> QED BY <1>1, <1>2 DEF Goes, Grows

\* a refresh,
LEMMA RefreshedGoes ==
    ASSUME NEW n, Steady(n), n.session \in Nat \ {0}, NEW m, Refreshed(n, m)
    PROVE  Goes(n, m)
<1> DEFINE o == InOrder(Replay(n))
           b == BarrierOf(n)
<1>1. /\ n.nextAttempt \in Nat /\ n.nextSubmission \in Nat /\ n.nextBarrier \in Nat
      /\ m.nextAttempt = n.nextAttempt /\ m.nextSubmission = n.nextSubmission
      /\ m.nextBarrier = n.nextBarrier + 1 /\ m.session = n.session
      /\ m.out = o \o <<b>>
  BY DEF Steady, Counts, Refreshed, Like, Fields
<1>2. ASSUME NEW e \in Replay(n)
      PROVE  Fit(n, m, e)
  <2>1. CASE \E t \in DOMAIN n.scheduled : e = Addition(n, n.pending[t].id, n.pending[t].attempt)
    <3>1. PICK t \in DOMAIN n.scheduled : e = Addition(n, n.pending[t].id, n.pending[t].attempt)
      BY <2>1
    <3>2. /\ Told(n.pending[t], n.byToken[t])
          /\ n.pending[t].id \in Nat \ {0} /\ n.pending[t].id < n.nextSubmission
          /\ n.byToken[t] \in DOMAIN n.attempts
      BY DEF Steady, Waiting
    <3>3. n.byToken[t] \in Nat \ {0} /\ n.byToken[t] < n.nextAttempt
      BY <3>2 DEF Steady, Attempts
    <3>4. n.pending[t].attempt = n.byToken[t]
      BY <3>2 DEF Told
    <3> QED BY <1>1, <3>1, <3>2, <3>3, <3>4, AdditionFit
  <2>2. CASE \E id \in DOMAIN n.settled : \/ e = Addition(n, id, n.settled[id].attempt)
                                          \/ e = Resolution(n, id, n.settled[id].resolution)
    <3>1. PICK id \in DOMAIN n.settled : \/ e = Addition(n, id, n.settled[id].attempt)
                                         \/ e = Resolution(n, id, n.settled[id].resolution)
      BY <2>2
    <3>2. /\ id \in Nat \ {0} /\ id < n.nextSubmission
          /\ n.settled[id].attempt \in Nat \ {0} /\ n.settled[id].attempt < n.nextAttempt
          /\ n.settled[id].resolution \in {"accepted", "permanent"}
      BY DEF Steady, Ended
    <3>3. Fit(n, m, Addition(n, id, n.settled[id].attempt))
      BY <1>1, <3>2, AdditionFit
    <3>4. Fit(n, m, Resolution(n, id, n.settled[id].resolution))
      BY <1>1, <3>2, ResolutionFit
    <3> QED BY <3>1, <3>3, <3>4
  <2> QED BY <2>1, <2>2, ReplayFacts
<1>3. Fit(n, m, b)
  BY <1>1, BarrierFacts DEF Fit, Counted, AttemptKinds, SessionKinds, Results
<1>4. o \in Seq(Replay(n))
  BY ReplayListed
<1> HIDE DEF o, b
<1>5. /\ o \in Seq(Message) /\ <<b>> \in Seq(Message)
      /\ \A i \in DOMAIN o : Fit(n, m, o[i])
  BY <1>2, <1>3, <1>4 DEF Fit
<1>6. Said(n, m)
  BY <1>1, <1>5, Longer, <1>3 DEF Said
<1> QED BY <1>1, <1>6 DEF Goes, Grows

\* and a discard.
LEMMA DiscardsGoes ==
    ASSUME NEW n, Steady(n), NEW m, NEW ids, Discards(n, m, ids)
    PROVE  Goes(n, m)
<1>1. /\ n.nextAttempt \in Nat /\ n.nextSubmission \in Nat /\ n.nextBarrier \in Nat
      /\ n.out = <<>> /\ m.out = n.out
      /\ m.nextAttempt = n.nextAttempt /\ m.nextSubmission = n.nextSubmission
      /\ m.nextBarrier = n.nextBarrier /\ m.session = n.session
  BY DEF Steady, Counts, Discards, Like, Fields
<1>2. Said(n, m)
  BY <1>1 DEF Said
<1> QED BY <1>1, <1>2 DEF Goes, Grows

-----------------------------------------------------------------------------
(* The runtime, the pipe and the session.                                  *)

\* After the step the runtime is m, between two steps.
LEMMA Quieted ==
    ASSUME NEW m, Becomes(m), Resting(m)
    PROVE  /\ Steady(native)' /\ Like(native', m, {"out"})
           /\ native'.session = m.session /\ native'.lboard = m.lboard
           /\ native'.attempts = m.attempts /\ native'.active = m.active
           /\ native'.byToken = m.byToken /\ native'.shown = m.shown
           /\ native'.scheduled = m.scheduled /\ native'.young = m.young
           /\ native'.pending = m.pending /\ native'.settled = m.settled
           /\ native'.nextBarrier = m.nextBarrier
           /\ native'.nextAttempt = m.nextAttempt
           /\ native'.nextSubmission = m.nextSubmission /\ native'.floor = m.floor
<1>1. Steady(Quiet(m)) /\ Like(Quiet(m), m, {"out"})
  BY QuietIsSteady
<1>2. native' = Quiet(m)
  BY DEF Becomes
<1>3. Steady(native')
  BY <1>1, <1>2
<1>4. Like(native', m, {"out"})
  BY <1>1, <1>2
<1>5. Steady(native)'
  BY <1>3
<1> HIDE DEF Steady
<1> QED BY <1>4, <1>5 DEF Like, Fields

\* What was counted stays counted as the counters go up.
LEMMA CountedKept ==
    ASSUME NEW n, NEW m, Grows(n, m), NEW e \in Message, Counted(n, e),
           \/ m.session # n.session
           \/ n.nextBarrier \in Nat /\ m.nextBarrier \in Nat /\ n.nextBarrier <= m.nextBarrier,
           e.kind = "Barrier" /\ e.session = m.session => m.session = n.session
    PROVE  Counted(m, e)
BY MessageFacts DEF Counted, Grows

\* What the runtime tells.
LEMMA PipedGoes ==
    ASSUME Base, NEW m, Becomes(m), Resting(m), Goes(native, m), session' = session,
           \A i \in DOMAIN m.out : m.out[i].kind \in SessionKinds => Live
    PROVE  Steady(native)' /\ Piped' /\ native'.session = native.session
<1>1. /\ Steady(native)' /\ native'.session = m.session
      /\ native'.nextAttempt = m.nextAttempt
      /\ native'.nextSubmission = m.nextSubmission
      /\ native'.nextBarrier = m.nextBarrier
  BY Quieted
<1>2. native'.session = native.session
  BY <1>1 DEF Goes
<1>3. /\ pipe \in Seq(Message) /\ m.out \in Seq(Message) /\ pipe' = pipe \o m.out
      /\ \A i \in DOMAIN pipe : Counted(native, pipe[i]) /\ OfSession(native, session, pipe[i])
      /\ \A i \in DOMAIN m.out : Fit(native, m, m.out[i])
  BY DEF Base, Piped, Goes, Said, Becomes
<1>4. ASSUME NEW e \in Message, Counted(native, e), OfSession(native, session, e)
      PROVE  Counted(native', e) /\ OfSession(native', session', e)
  BY <1>4, CountedKept, <1>1, <1>2 DEF Goes, Counted, OfSession
<1>5. ASSUME NEW e, Fit(native, m, e), e.kind \in SessionKinds => Live
      PROVE  Counted(native', e) /\ OfSession(native', session', e)
  BY <1>1, <1>5, <1>2 DEF Fit, Counted, Base, InSession, OfSession, Live
<1>6. pipe' \in Seq(Message)
  BY <1>3
<1>7. ASSUME NEW i \in DOMAIN pipe'
      PROVE  Counted(native', pipe'[i]) /\ OfSession(native', session', pipe'[i])
  <2>1. \/ i \in DOMAIN pipe /\ pipe'[i] = pipe[i]
        \/ i - Len(pipe) \in DOMAIN m.out /\ pipe'[i] = m.out[i - Len(pipe)]
    BY <1>3, Longer
  <2>2. CASE i \in DOMAIN pipe /\ pipe'[i] = pipe[i]
    BY <1>3, <2>2, <1>4
  <2>3. CASE i - Len(pipe) \in DOMAIN m.out /\ pipe'[i] = m.out[i - Len(pipe)]
    BY <1>3, <1>5, <2>3
  <2> QED BY <2>1, <2>2, <2>3
<1> QED BY <1>1, <1>2, <1>6, <1>7 DEF Piped

\* Reading takes one message from the pipe.
LEMMA PipedRead ==
    ASSUME Piped, pipe # <<>>, pipe' = Tail(pipe), native' = native, session' = session
    PROVE  Piped'
BY Shorter DEF Piped

\* An operation of the runtime within a session.
LEMMA GoesBase ==
    ASSUME Base, Live, NEW m, Becomes(m), Resting(m), Goes(native, m),
           session' = session, store' = store, Shapes',
           resets'.waiting \in Nat, resets'.crossed \in BOOLEAN
    PROVE  Base' /\ Live'
BY PipedGoes DEF Live, Base, InSession

\* A frame is one.
LEMMA FrameBase ==
    ASSUME Base, FrameAround, NEW m, Becomes(m), Resting(m), Goes(native, m)
    PROVE  Base' /\ Live'
BY GoesBase DEF FrameAround, FrameMayRun, Base, Shapes, InSession

\* The runtime, the pipe and the session stay as they are.
LEMMA StillBase ==
    ASSUME Base, UNCHANGED <<native, pipe, session>>, Shapes',
           resets'.waiting \in Nat, resets'.crossed \in BOOLEAN,
           store'.session = store.session, Live \/ UNCHANGED <<store, sync, exit>>
    PROVE  Base'
BY DEF Live, Base, Piped, InSession

\* In a session that is under way the three sides have its number.
LEMMA LiveSession ==
    ASSUME Base, Live
    PROVE  /\ native.session \in Nat \ {0} /\ native.session = session.number
           /\ store.session = native.session /\ session.open
BY DEF Base, InSession, Live, Never, Steady, Counts

\* The mirror is refreshed.
LEMMA RefreshBase ==
    ASSUME Base, RefreshMirror, Shapes', UNCHANGED <<store, session, resets>>
    PROVE  Base' /\ Live'
<1>1. PICK m : Becomes(m) /\ Refreshed(native, m) /\ Resting(m)
  BY RefreshStep DEF Base
<1>2. Live
  BY DEF RefreshMirror
<1>3. Goes(native, m)
  BY <1>1, <1>2, LiveSession, RefreshedGoes DEF Base
<1>4. resets'.waiting \in Nat /\ resets'.crossed \in BOOLEAN
  BY DEF Base, InSession
<1> QED BY <1>1, <1>2, <1>3, <1>4, GoesBase

\* The frames of the emulator,
LEMMA FramesBase ==
    ASSUME Base, Frame, muddled' = {}
    PROVE  Base' /\ Live'
<1>1. FrameAround => native.session \in Nat \ {0}
  BY LiveSession DEF FrameAround, FrameMayRun
<1>2. ASSUME NEW lb \in Leaderboards, StartAttempt(lb)
      PROVE  Base' /\ Live'
  <2>1. PICK m : Becomes(m) /\ Start(native, m, lb) /\ Resting(m)
    BY <1>2, StartStep DEF Base
  <2>2. Goes(native, m)
    BY <2>1, StartGoes DEF Base
  <2>3. FrameAround
    BY <1>2, StartStep DEF Base
  <2> QED BY <2>1, <2>2, <2>3, FrameBase
<1>3. ASSUME NEW lb \in Leaderboards, CancelAttempt(lb)
      PROVE  Base' /\ Live'
  <2>1. PICK m : Becomes(m) /\ Cancel(native, m, lb) /\ Resting(m)
    BY <1>3, CancelStep DEF Base
  <2>3. FrameAround /\ native.lboard[lb] = "tracking"
    BY <1>3, CancelStep DEF Base
  <2>2. Goes(native, m)
    BY <2>1, <2>3, CancelGoes DEF Base
  <2> QED BY <2>1, <2>2, <2>3, FrameBase
<1>4. ASSUME NEW lb \in Leaderboards, SubmitAttempt(lb)
      PROVE  Base' /\ Live'
  <2>1. PICK m, answer, t : Becomes(m) /\ Submit(native, m, lb, t, answer) /\ Resting(m)
    BY <1>4, SubmitStep DEF Base
  <2>3. FrameAround /\ Apart(native, lb)
    BY <1>4, SubmitStep DEF Base
  <2>2. Goes(native, m)
    BY <1>1, <2>1, <2>3, SubmitGoes DEF Base
  <2> QED BY <2>1, <2>2, <2>3, FrameBase
<1>5. ASSUME NEW t \in Tokens, RetryScheduled(t)
      PROVE  Base' /\ Live'
  <2>1. PICK m, answer : /\ answer \in Answers
                         /\ Becomes(m) /\ Retried(native, m, t, answer) /\ Resting(m)
    BY <1>5, RetryStep DEF Base
  <2>3. FrameAround /\ t \in DOMAIN native.scheduled
    BY <1>5, RetryStep DEF Base
  <2>2. Goes(native, m)
    BY <1>1, <2>1, <2>3, RetriedGoes DEF Base
  <2> QED BY <2>1, <2>2, <2>3, FrameBase
<1> QED BY <1>2, <1>3, <1>4, <1>5 DEF Frame

\* the reads of the app,
LEMMA ReadsBase ==
    ASSUME Base, Read
    PROVE  Base' /\ store'.session = store.session
<1>1. /\ pipe # <<>> /\ pipe' = Tail(pipe)
      /\ UNCHANGED <<native, session, resets, sync, exit>>
  BY DEF Read, Reads, ReadRuntimeReset, ReadAttemptEvent, ReadAdded, ReadResolved, ReadBarrier
<1>2. Piped' /\ Steady(native)' /\ (Live' <=> Live)
  BY <1>1, PipedRead DEF Base, Live
<1> DEFINE e == Head(pipe)
<1>3. e \in Message /\ Counted(native, e) /\ OfSession(native, session, e)
  BY <1>1, Shorter DEF Base, Piped
<1>4. e.kind \in SessionKinds /\ ~Live /\ session.number # Never => e.session # store.session
  <2>1. e.kind \in SessionKinds => e.session \in Nat \ {0}
    BY <1>3, MessageFacts
  <2> HIDE DEF e
  <2> QED BY <1>3, <2>1 DEF Base, InSession, OfSession, Live, Never, NoStore
<1>5. /\ Shapes' /\ store'.session = store.session
      /\ Live \/ session.number = Never \/ store' = store
  <2>1. CASE ReadRuntimeReset \/ ReadAttemptEvent
    BY <1>1, <2>1 DEF ReadRuntimeReset, ReadAttemptEvent, Base, Shapes
  <2>2. CASE ReadAdded
    BY <2>2, <1>1, <1>4 DEF ReadAdded, Reads, SessionKinds, Base, Shapes, InSession
  <2>3. CASE ReadResolved
    BY <2>3, <1>1, <1>4 DEF ReadResolved, Reads, SessionKinds, Base, Shapes, InSession
  <2>4. CASE ReadBarrier
    BY <2>4, <1>1, <1>4 DEF ReadBarrier, Reads, SessionKinds, Base, Shapes, InSession
  <2> QED BY <2>1, <2>2, <2>3, <2>4 DEF Read
<1>6. InSession'
  BY <1>1, <1>2, <1>5 DEF Base, InSession
<1> QED BY <1>2, <1>5, <1>6 DEF Base

\* the beginning and the end of sessions,
LEMMA SessionsBase ==
    ASSUME Base, Sessions
    PROVE  Base'
<1> USE DEF Base
<1>1. CASE BeginSession
  <2>1. PICK missed \in 0 .. Len(pipe) : pipe' = SubSeq(pipe, missed + 1, Len(pipe))
    BY <1>1 DEF BeginSession
  <2>2. /\ native' = native /\ sync' = sync /\ exit' = exit /\ store' = NoStore
        /\ session.number = Never
        /\ session' = [number |-> session.next, open |-> FALSE, next |-> session.next + 1]
        /\ resets'.waiting = resets.waiting /\ resets'.crossed \in BOOLEAN
        /\ resets' = [waiting |-> resets.waiting, made |-> resets.made,
                      crossed |-> resets'.crossed]
    BY <1>1 DEF BeginSession, Shapes
  <2>3. ~Live /\ ~Live'
    BY <2>2 DEF InSession, Live
  <2>4. /\ pipe' \in Seq(Message)
        /\ \A i \in DOMAIN pipe' : i + missed \in DOMAIN pipe /\ pipe'[i] = pipe[i + missed]
    BY <2>1, Later DEF Piped
  <2>5. ASSUME NEW i \in DOMAIN pipe'
        PROVE  Counted(native', pipe'[i]) /\ OfSession(native', session', pipe'[i])
    BY <2>4, MessageFacts, <2>2 DEF Piped, InSession, OfSession
  <2>6. Piped'
    BY <2>4, <2>5 DEF Piped
  <2>7. Shapes'
    BY <2>2 DEF Shapes, NoStore
  <2>8. InSession'
    BY <2>2, <2>3 DEF InSession, NoStore, Never
  <2> QED BY <2>2, <2>6, <2>7, <2>8
<1>2. CASE OpenSession
  <2>1. /\ UNCHANGED <<native, pipe, resets, sync, exit>>
        /\ session.number # Never /\ ~session.open
        /\ session' = [session EXCEPT !.open = TRUE]
        /\ store' = [NoStore EXCEPT !.session = session.number]
    BY <1>2 DEF OpenSession
  <2>2. ~Live /\ ~Live'
    BY <2>1 DEF InSession, Live
  <2>3. /\ session'.number = session.number /\ session'.open = TRUE
        /\ session'.next = session.next
        /\ session' = [number |-> session'.number, open |-> session'.open,
                       next |-> session'.next]
    BY <2>1 DEF Shapes
  <2>4. Piped'
    BY <2>1, <2>3 DEF Piped, OfSession
  <2>5. Shapes'
    BY <2>1, <2>3 DEF Shapes, NoStore
  <2>6. InSession'
    BY <2>1, <2>2, <2>3 DEF InSession, NoStore
  <2> QED BY <2>1, <2>4, <2>5, <2>6
<1>3. CASE ActivateSession
  <2>1. /\ UNCHANGED <<store, session, resets, sync, exit>>
        /\ session.open /\ ~Live
    BY <1>3 DEF ActivateSession
  <2>2. PICK m : /\ Becomes(m) /\ Activated(native, m, session.number)
                 /\ Resting(m)
    BY <1>3, ActivateStep DEF InSession
  <2>3. /\ Steady(native)' /\ native'.session = session.number
        /\ native'.nextAttempt = native.nextAttempt + 1
        /\ native'.nextSubmission = native.nextSubmission
        /\ pipe' = pipe \o <<ResetMessage(native.nextAttempt)>>
    BY <2>2, Quieted DEF Activated, Becomes, Empty
  <2>4. native.nextAttempt \in Nat /\ native.nextSubmission \in Nat
    BY DEF Steady, Counts
  <2>5. Live'
    BY <2>1, <2>3 DEF InSession, Live
  <2>6. ResetMessage(native.nextAttempt) \in Message
    BY <2>4, ResetMessageFacts
  <2> DEFINE x == ResetMessage(native.nextAttempt)
  <2>7. Counted(native', x) /\ OfSession(native', session', x)
    BY <2>3, <2>4, ResetMessageFacts
       DEF Counted, OfSession, AttemptKinds, SessionKinds, Results
  <2> HIDE DEF x
  <2>8. ASSUME NEW e \in Message, Counted(native, e), OfSession(native, session, e)
        PROVE  Counted(native', e) /\ OfSession(native', session', e)
    <3>1. Grows(native, native')
      BY <2>3, <2>4 DEF Grows
    <3>2. e.kind = "Barrier" => e.session < session.number /\ e.session \in Nat
      BY <2>1, <2>8, MessageFacts DEF OfSession, SessionKinds, InSession, Live
    <3>3. native'.session # native.session
      BY <2>1, <2>5, <2>3 DEF Live
    <3>4. e.kind = "Barrier" => e.session # native'.session
      BY <2>3, <3>2 DEF InSession
    <3>5. Counted(native', e)
      BY <2>8, <3>1, <3>3, <3>4, CountedKept
    <3>6. native'.session # Never
      BY <2>5 DEF Live
    <3> QED BY <2>1, <2>8, <3>5, <3>6 DEF OfSession
  <2>9. Piped'
    BY <2>6, <2>3, Longer, <2>7, <2>8 DEF Piped, x
  <2>10. Shapes'
    BY <2>1 DEF Shapes
  <2>11. InSession'
    BY <2>1, <2>3, <2>5 DEF InSession, NoStore
  <2> QED BY <2>3, <2>9, <2>10, <2>11
<1>4. CASE StopSession
  <2>1. /\ UNCHANGED <<pipe, store, resets>>
        /\ native' = Cleared(native)
        /\ session' = [session EXCEPT !.number = Never, !.open = FALSE]
        /\ sync' = NoFlight /\ exit' = NoExit
    BY <1>4 DEF StopSession
  <2> DEFINE m == Cleared(native)
  <2>2. /\ Empty(native, m) /\ m.session = Never /\ m.nextAttempt = native.nextAttempt
        /\ m.floor = native.floor /\ m.out = <<>>
        /\ m.nextSubmission = native.nextSubmission /\ m.nextBarrier = 1
    BY ClearFacts DEF Steady, Counts, Empty
  <2>3. /\ native.nextAttempt \in Nat \ {0} /\ native.floor \in Nat
        /\ native.floor < native.nextAttempt /\ native.nextSubmission \in Nat \ {0}
    BY DEF Steady, Counts
  <2> HIDE DEF m
  <2>4. Resting(m)
    BY <2>2, <2>3, EmptyRests DEF Never
  <2>5. Steady(native')
    BY <2>1, <2>2, <2>4, SteadyRests DEF m
  <2>6. native' = m
    BY <2>1 DEF m
  <2>7. session' = [number |-> Never, open |-> FALSE, next |-> session.next]
    BY <2>1 DEF Shapes
  <2>8. Piped'
    BY MessageFacts, <2>2, <2>6, <2>7, <2>1 DEF Piped, SessionKinds, Never, Counted,
       OfSession
  <2>9. Shapes'
    BY <2>1, <2>7 DEF Shapes, NoFlight, NoExit
  <2>10. ~Live'
    BY <2>2, <2>6 DEF Live
  <2>11. InSession'
    BY <2>1, <2>2, <2>6, <2>7, <2>10 DEF InSession, Never
  <2>12. Steady(native)'
    BY <2>5
  <2> QED BY <2>8, <2>9, <2>11, <2>12
<1> QED BY <1>1, <1>2, <1>3, <1>4 DEF Sessions

\* the synchronisation of scores,
LEMMA SynchroniseBase ==
    ASSUME Base, Synchronise, muddled' = {}
    PROVE  Base' /\ Live'
<1>0. /\ resets.waiting \in Nat /\ resets.crossed \in BOOLEAN
      /\ sync.stage # "none" => Live
  BY DEF Base, InSession, NoFlight
<1>1. CASE BeginSync
  <2>1. RefreshMirror /\ UNCHANGED <<store, session, resets>>
    BY <1>1 DEF BeginSync
  <2>2. Shapes'
    BY <1>1 DEF BeginSync, Base, Shapes, NoFlight
  <2> QED BY <2>1, <2>2, RefreshBase
<1>2. CASE VerifySync \/ SyncTimesOut \/ PlanSync
  <2>1. UNCHANGED <<native, pipe, store, session, resets, exit>> /\ sync.stage # "none"
    BY <1>2 DEF VerifySync, SyncTimesOut, PlanSync
  <2>2. Shapes'
    <3>1. \/ sync' = NoFlight
          \/ sync' = [sync EXCEPT !.stage = "ready", !.ids = Retryable]
          \/ sync' = [sync EXCEPT !.stage = "retrying"]
      BY <1>2 DEF VerifySync, SyncTimesOut, PlanSync
    <3>2. sync' = [stage |-> sync'.stage, barrier |-> sync'.barrier, ids |-> sync'.ids,
                   failed |-> sync'.failed, accepted |-> sync'.accepted]
      BY <3>1 DEF Base, Shapes, NoFlight
    <3> QED BY <2>1, <3>2 DEF Base, Shapes
  <2> QED BY <1>0, <2>1, <2>2, StillBase DEF Live
<1>3. CASE RetryRecord
  <2>1. /\ sync.stage = "retrying" /\ UNCHANGED <<coordinator, store, session, resets, exit>>
    BY <1>3, RecordStep DEF Base
  <2>2. ASSUME NEW m, sync' = Reported(m, Min(sync.ids))
        PROVE  Shapes'
    BY <2>1, <2>2 DEF Reported, Base, Shapes
  <2>3. CASE UNCHANGED <<native, pipe>> /\ sync' = Reported(native, Min(sync.ids))
    BY <1>0, <2>1, <2>2, <2>3, StillBase DEF Live
  <2>4. ASSUME NEW m, NEW t \in DOMAIN native.scheduled, NEW answer \in Answers,
               Becomes(m), Retried(native, m, t, answer), Resting(m),
               sync' = Reported(m, Min(sync.ids))
        PROVE  Base' /\ Live'
    BY <1>0, <2>1, <2>4, RetriedGoes, LiveSession, <2>2, GoesBase DEF Base
  <2> QED BY <1>3, <2>3, <2>4, RecordStep DEF Base
<1>4. CASE ApplySync
  BY <1>4, <1>0, StillBase DEF ApplySync, Base, Shapes, NoFlight, Live
<1> QED BY <1>1, <1>2, <1>3, <1>4 DEF Synchronise

\* the exit from the game,
LEMMA LeaveBase ==
    ASSUME Base, Leave
    PROVE  Base' /\ Live'
<1>0. /\ resets.waiting \in Nat /\ resets.crossed \in BOOLEAN
      /\ exit.stage # "none" => Live
  BY DEF Base, InSession, NoExit
<1>1. CASE LeaveGame
  <2>1. RefreshMirror /\ UNCHANGED <<store, session, resets, sync>>
    BY <1>1 DEF LeaveGame
  <2>2. Shapes'
    BY <1>1, <2>1 DEF LeaveGame, Base, Shapes, NoExit
  <2> QED BY <2>1, <2>2, RefreshBase
<1>2. CASE VerifyLeaving \/ LeavingTimesOut \/ ContinuePlaying \/ LeaveSynchronised
  BY <1>2, <1>0, StillBase DEF VerifyLeaving, LeavingTimesOut, ContinuePlaying,
     LeaveSynchronised, Base, Shapes, NoExit, Live
<1>3. CASE DiscardScores
  <2>1. /\ exit.stage = "asked" /\ UNCHANGED <<coordinator, store, session, resets, sync>>
    BY <1>3, DiscardStep DEF Base
  <2>2. ASSUME exit' = [exit EXCEPT !.stage = "discarded", !.ids = DOMAIN store.records],
               NEW m, Becomes(m), Resting(m), Discards(native, m, DOMAIN store.records)
        PROVE  Base' /\ Live'
    BY <2>1, <2>2, DiscardsGoes, <1>0, GoesBase DEF Base, Shapes
  <2>3. CASE RefreshMirror /\ exit' = NoExit
    <3>1. Shapes'
      BY <2>1, <2>3 DEF Base, Shapes, NoExit
    <3> QED BY <2>1, <2>3, <3>1, RefreshBase
  <2> QED BY <1>3, <2>2, <2>3, DiscardStep DEF Base
<1>4. CASE DiscardRecords
  BY <1>4, <1>0, StillBase DEF DiscardRecords, Base, Shapes, NoExit, Live
<1> QED BY <1>1, <1>2, <1>3, <1>4 DEF Leave

\* and the reset of the console.
LEMMA ResetBase ==
    ASSUME Base, ResetEmulator \/ NativeReset
    PROVE  Base'
<1>1. CASE ResetEmulator
  <2>1. UNCHANGED <<native, pipe, store, session, sync, exit>>
    BY <1>1 DEF ResetEmulator
  <2>2. /\ Shapes' /\ resets'.waiting = resets.waiting + 1
        /\ resets'.crossed = (resets.crossed \/ coordinator.awaiting)
    BY <1>1, <2>1 DEF ResetEmulator, Base, Shapes
  <2> QED BY <2>1, <2>2, StillBase DEF Base, InSession
<1>2. CASE NativeReset
  <2>1. UNCHANGED <<store, session, sync, exit>> /\ resets.waiting > 0
    BY <1>2 DEF NativeReset
  <2>2. /\ Shapes' /\ resets'.waiting = resets.waiting - 1
        /\ resets'.crossed = resets.crossed
    BY <1>2, <2>1 DEF NativeReset, Base, Shapes
  <2>3. PICK m : Becomes(m) /\ Restarted(native, m) /\ Resting(m)
    BY <1>2, ResetStep DEF Base
  <2>4. Goes(native, m)
    BY <2>3, RestartedGoes DEF Base
  <2>5. \A i \in DOMAIN m.out : m.out[i].kind \notin SessionKinds
    BY ResetMessageFacts, <2>3 DEF Base, Steady, Counts, SessionKinds, Restarted
  <2>6. Steady(native)' /\ Piped' /\ native'.session = native.session
    BY <2>1, <2>3, <2>4, <2>5, PipedGoes
  <2>7. InSession'
    BY <2>1, <2>2, <2>6 DEF Base, InSession, Live
  <2> QED BY <2>2, <2>6, <2>7 DEF Base
<1> QED BY <1>1, <1>2

\* Every step keeps Base.
LEMMA BaseNext ==
    ASSUME Base, Next, muddled' = {}
    PROVE  Base'
BY FramesBase, ReadsBase, SessionsBase, SynchroniseBase, LeaveBase, ResetBase DEF Next

\* It holds at the start.
LEMMA BaseInit ==
    ASSUME Init
    PROVE  Base
<1>1. /\ native = InitialRuntime /\ pipe = <<>> /\ store = NoStore
      /\ session = [number |-> Never, open |-> FALSE, next |-> 1]
      /\ resets = [waiting |-> 0, made |-> 0, crossed |-> FALSE]
      /\ sync = NoFlight /\ exit = NoExit
  BY DEF Init
<1> DEFINE n == [session |-> Never, lboard |-> NoFunction, attempts |-> NoFunction,
                 active |-> NoFunction, byToken |-> NoFunction, shown |-> {},
                 response |-> Never, scheduled |-> NoFunction, young |-> {},
                 pending |-> NoFunction, settled |-> NoFunction, nextBarrier |-> 1,
                 nextAttempt |-> 1, nextSubmission |-> 1, floor |-> 0, out |-> <<>>]
           m == Cleared(n)
<1>2. Shaped(n)
  BY DEF Shaped, Fields
<1>3. n.nextAttempt = 1 /\ n.nextSubmission = 1 /\ n.floor = 0 /\ n.out = <<>>
  OBVIOUS
<1>4. InitialRuntime = m
  BY DEF InitialRuntime
<1> HIDE DEF n
<1>5. /\ Empty(n, m) /\ m.session = Never /\ m.nextAttempt = 1 /\ m.floor = 0
      /\ m.out = <<>>
  BY <1>2, <1>3, ClearFacts
<1> HIDE DEF m
<1>6. Resting(m)
  BY <1>3, <1>5, EmptyRests DEF Never
<1>7. Steady(native) /\ native.session = Never
  BY <1>1, <1>4, <1>5, <1>6, SteadyRests
<1>8. ~Live
  BY <1>7 DEF Live
<1>9. Shapes
  BY <1>1 DEF Shapes, NoStore, NoFlight, NoExit
<1>10. InSession
  BY <1>1, <1>8 DEF InSession, Never, NoStore
<1>11. Piped
  BY <1>1 DEF Piped
<1> QED BY <1>7, <1>9, <1>10, <1>11 DEF Base

-----------------------------------------------------------------------------
(* Which submissions wait, whatever else an operation does.                *)

\* Runtime m has the queue of n.
SameQueue(m, n) == Shaped(m) /\ m.scheduled = n.scheduled

\* The queue is one of the fields that do not change.
LEMMA LikeQueue ==
    ASSUME NEW n, NEW m, NEW S, Like(m, n, S), "scheduled" \notin S
    PROVE  SameQueue(m, n)
BY DEF Like, Fields, SameQueue

\* Telling of an attempt leaves the queue as it is,
LEMMA SendQueue ==
    ASSUME NEW n, Shaped(n), NEW kind, NEW a
    PROVE  SameQueue(SendEvent(n, kind, a), n)
BY SendEventLike, LikeQueue

\* and so does the attempt of a leaderboard,
LEMMA EnsureQueue ==
    ASSUME NEW n, Shaped(n), NEW lb, NEW new \in BOOLEAN
    PROVE  SameQueue(EnsureAttempt(n, lb, new), n)
BY BeginAttemptLike, LikeQueue DEF SameQueue, EnsureAttempt

\* the end of an attempt,
LEMMA FinishQueue ==
    ASSUME NEW n, Shaped(n), NEW kind, NEW a
    PROVE  SameQueue(Finish(n, kind, a), n)
<1> DEFINE k == [n EXCEPT !.attempts[a].terminal = TRUE]
           s == SendEvent(k, kind, a)
<1>1. SameQueue(k, n)
  BY DEF Shaped, SameQueue, Fields
<1> HIDE DEF k
<1>2. SameQueue(s, k)
  BY <1>1, SendQueue DEF SameQueue
<1> HIDE DEF s
<1>3. SameQueue(ForgetCallbacks(s, a), s)
  BY <1>2 DEF ForgetCallbacks, Shaped, SameQueue, Fields
<1>4. SameQueue(n, n)
  BY DEF SameQueue
<1> QED BY <1>1, <1>2, <1>3, <1>4 DEF Finish, SameQueue, k, s

\* a new submission,
LEMMA PrepareQueue ==
    ASSUME NEW n, Shaped(n), NEW t
    PROVE  SameQueue(PreparePending(n, t), n)
<1>1. t \notin DOMAIN n.pending => SameQueue(PreparePending(n, t), n)
  BY PrepareLike, LikeQueue
<1> QED BY <1>1 DEF PreparePending, SameQueue

\* a request,
LEMMA RequestQueue ==
    ASSUME NEW n, Shaped(n), NEW lb, NEW t, NEW isRetry \in BOOLEAN
    PROVE  SameQueue(Request(n, lb, t, isRetry), n)
<1> DEFINE known == isRetry /\ t \in DOMAIN n.byToken
           m == IF known THEN n ELSE EnsureAttempt(n, lb, TRUE)
           a == IF known THEN n.byToken[t] ELSE m.active[lb]
           k == [m EXCEPT !.byToken = With(@, t, a), !.response = a]
<1>1. SameQueue(m, n)
  BY EnsureQueue DEF SameQueue
<1>2. Request(n, lb, t, isRetry) = PreparePending(k, t)
  BY DEF Request
<1> HIDE DEF m, a
<1>3. SameQueue(k, m)
  BY <1>1 DEF Shaped, SameQueue, Fields
<1> HIDE DEF k
<1>4. SameQueue(PreparePending(k, t), k)
  BY <1>3, PrepareQueue DEF SameQueue
<1> QED BY <1>1, <1>2, <1>3, <1>4 DEF SameQueue

\* the end of a submission,
LEMMA FinalizeQueue ==
    ASSUME NEW n, Shaped(n), NEW t, NEW retry \in BOOLEAN, NEW resolution
    PROVE  SameQueue(FinalizePending(n, t, retry, resolution), n)
<1>0. SameQueue(n, n)
  BY DEF SameQueue
<1>1. CASE t \notin DOMAIN n.pending
  BY <1>0, <1>1 DEF FinalizePending
<1>2. CASE t \in DOMAIN n.pending /\ retry
  <2> DEFINE k == [n EXCEPT !.pending[t].waiting = TRUE]
             j == [k EXCEPT !.pending[t].published = TRUE]
             s == Send(j, Added(k, k.pending[t]))
  <2>1. SameQueue(k, n)
    BY DEF Shaped, SameQueue, Fields
  <2>2. FinalizePending(n, t, retry, resolution) = MaybePublish(k, t)
    BY <1>2 DEF FinalizePending
  <2> HIDE DEF k
  <2>3. SameQueue(j, k)
    BY <2>1 DEF Shaped, SameQueue, Fields
  <2>4. MaybePublish(k, t) = k \/ MaybePublish(k, t) = s
    BY DEF MaybePublish
  <2> HIDE DEF j
  <2>5. SameQueue(s, j)
    BY <2>3, SendLike, LikeQueue DEF SameQueue
  <2> HIDE DEF s
  <2> QED BY <2>1, <2>2, <2>3, <2>4, <2>5 DEF SameQueue
<1>3. CASE t \in DOMAIN n.pending /\ ~retry
  BY <1>3, FinalizePublishedLike, LikeQueue, FinalizeUnpublishedLike
<1> QED BY <1>1, <1>2, <1>3

\* An answer puts the submission into the queue, or leaves the queue as it is.
LEMMA AnsweredQueue ==
    ASSUME NEW n, Shaped(n), NEW lb, NEW t, NEW answer \in Answers, NEW scheduled \in BOOLEAN
    PROVE  LET m == Answered(n, lb, t, answer, scheduled)
           IN  /\ Shaped(m)
               /\ m.scheduled \in {n.scheduled, With(n.scheduled, t, lb)}
<1> DEFINE m == Answered(n, lb, t, answer, scheduled)
<1>0. ASSUME NEW k, Shaped(k)
      PROVE  SameQueue(EndResponse(k), k)
  BY <1>0, EndResponseLike, LikeQueue
<1>1. CASE answer = "accepted"
  <2> DEFINE k == RaiseScoreboard(n, scheduled)
             j == TransportScoreboard(k)
             f == FinalizePending(j, t, FALSE, "accepted")
  <2>1. m = EndResponse(f)
    BY <1>1 DEF Answered, Accepted
  <2>2. SameQueue(k, n)
    BY FinishQueue DEF RaiseScoreboard, SameQueue
  <2> HIDE DEF k
  <2>3. SameQueue(j, k)
    BY <2>2, FinishQueue DEF TransportScoreboard, SameQueue
  <2> HIDE DEF j
  <2>4. SameQueue(f, j)
    BY <2>3, FinalizeQueue DEF SameQueue
  <2> HIDE DEF f
  <2> QED BY <1>0, <2>1, <2>2, <2>3, <2>4 DEF SameQueue
<1>2. CASE answer = "rejected"
  <2> DEFINE k == Finish(n, "Failed", n.response)
             f == FinalizePending(k, t, FALSE, "permanent")
  <2>1. m = EndResponse(f)
    BY <1>2 DEF Answered, Rejected
  <2>2. SameQueue(k, n)
    BY FinishQueue
  <2> HIDE DEF k
  <2>3. SameQueue(f, k)
    BY <2>2, FinalizeQueue DEF SameQueue
  <2> HIDE DEF f
  <2> QED BY <1>0, <2>1, <2>2, <2>3 DEF SameQueue
<1>3. CASE answer = "unreachable"
  <2> DEFINE k == [n EXCEPT !.scheduled = With(n.scheduled, t, lb)]
             f == FinalizePending(k, t, TRUE, "none")
  <2>1. m = EndResponse(f)
    BY <1>3 DEF Answered, Scheduled
  <2>2. Shaped(k) /\ k.scheduled = With(n.scheduled, t, lb)
    BY DEF Shaped, Fields
  <2> HIDE DEF k
  <2>3. SameQueue(f, k)
    BY <2>2, FinalizeQueue
  <2> HIDE DEF f
  <2> QED BY <1>0, <2>1, <2>2, <2>3 DEF SameQueue
<1> QED BY <1>1, <1>2, <1>3 DEF Answers

\* A retry takes nothing but its own submission out of the queue.
LEMMA RetryQueue ==
    ASSUME NEW n, Shaped(n), NEW t, NEW elapsed \in BOOLEAN, NEW answer \in Answers
    PROVE  /\ Shaped(RetryEntry(n, t, elapsed, answer))
           /\ DOMAIN n.scheduled \ {t} \subseteq DOMAIN RetryEntry(n, t, elapsed, answer).scheduled
<1> DEFINE lb == n.scheduled[t]
           young == IF elapsed THEN n.young \ {t} ELSE n.young
           k == [n EXCEPT !.scheduled = Without(n.scheduled, {t}), !.young = young]
           r == Request(k, lb, t, elapsed)
           m == Answered(r, lb, t, answer, TRUE)
<1>1. RetryEntry(n, t, elapsed, answer) = m
  BY DEF RetryEntry
<1> HIDE DEF young
<1>2. Shaped(k) /\ k.scheduled = Without(n.scheduled, {t})
  BY DEF Shaped, Fields
<1> HIDE DEF k, lb
<1>3. SameQueue(r, k)
  BY <1>2, RequestQueue
<1> HIDE DEF r
<1>4. Shaped(m) /\ m.scheduled \in {r.scheduled, With(r.scheduled, t, lb)}
  BY <1>3, AnsweredQueue DEF SameQueue
<1> HIDE DEF m
<1> QED BY <1>1, <1>2, <1>3, <1>4 DEF SameQueue, With, Without

\* A new submission takes nothing out of the queue.
LEMMA SubmitQueue ==
    ASSUME NEW n, Shaped(n), NEW lb, NEW t, NEW answers \in FirstAnswers
    PROVE  /\ Shaped(Submitted(n, lb, t, answers))
           /\ DOMAIN n.scheduled \subseteq DOMAIN Submitted(n, lb, t, answers).scheduled
<1> DEFINE j == [n EXCEPT !.lboard[lb] = "active"]
           k == [j EXCEPT !.young = j.young \cup {t}]
           q == Request(k, lb, t, FALSE)
           r == SubmitEntry(j, lb, t, answers)
           e == EnsureAttempt(r, lb, FALSE)
           a == e.active[lb]
           s == [e EXCEPT !.attempts[a].submitted = TRUE]
           m == MarkReady(s, a)
<1>1. SameQueue(j, n)
  BY DEF Shaped, SameQueue, Fields
<1> HIDE DEF j
<1>2. SameQueue(k, j)
  BY <1>1 DEF Shaped, SameQueue, Fields
<1>3. r = IF answers[1] = "unreachable"
          THEN Answered(Request(q, lb, t, TRUE), lb, t, answers[2], FALSE)
          ELSE Answered(q, lb, t, answers[1], FALSE)
  BY DEF SubmitEntry
<1>4. answers[1] \in Answers /\ (answers[1] = "unreachable" => answers[2] \in Answers)
  BY DEF FirstAnswers, Answers
<1> HIDE DEF k
<1>5. SameQueue(q, k)
  BY <1>2, RequestQueue DEF SameQueue
<1> HIDE DEF q
<1>6. SameQueue(Request(q, lb, t, TRUE), q)
  BY <1>5, RequestQueue DEF SameQueue
<1>7. Shaped(r) /\ DOMAIN n.scheduled \subseteq DOMAIN r.scheduled
  <2>1. ASSUME NEW x, Shaped(x), x.scheduled = n.scheduled, NEW answer \in Answers,
               r = Answered(x, lb, t, answer, FALSE)
        PROVE  Shaped(r) /\ DOMAIN n.scheduled \subseteq DOMAIN r.scheduled
    <3>1. Shaped(r) /\ r.scheduled \in {x.scheduled, With(x.scheduled, t, lb)}
      BY <2>1, AnsweredQueue
    <3> QED BY <2>1, <3>1 DEF With
  <2> HIDE DEF r
  <2> QED BY <1>1, <1>2, <1>3, <1>4, <1>5, <1>6, <2>1 DEF SameQueue
<1>8. Submitted(n, lb, t, answers) =
          IF e.attempts[a].submitted THEN e ELSE SendEvent(m, "Submitted", a)
  BY DEF Submitted, j
<1> HIDE DEF r
<1>9. SameQueue(e, r)
  BY <1>7, EnsureQueue
<1> HIDE DEF e, a
<1>10. SameQueue(s, e)
  BY <1>9 DEF Shaped, SameQueue, Fields
<1> HIDE DEF s
<1>11. SameQueue(m, s)
  BY <1>10, MarkReadyLike, LikeQueue DEF SameQueue
<1> HIDE DEF m
<1>12. SameQueue(SendEvent(m, "Submitted", a), m)
  BY <1>11, SendQueue DEF SameQueue
<1> QED BY <1>7, <1>8, <1>9, <1>10, <1>11, <1>12 DEF SameQueue

\* Nor does the end of a frame.
LEMMA TrackersQueue ==
    ASSUME NEW n, Shaped(n)
    PROVE  SameQueue(PublishTrackers(n), n)
<1>0. SameQueue(n, n)
  BY DEF SameQueue
<1>1. ASSUME NEW lb
      PROVE  SameQueue(PublishTracker(n, lb), n)
  <2> DEFINE m == EnsureAttempt(n, lb, FALSE)
  <2>1. SameQueue(m, n)
    BY EnsureQueue
  <2>2. \/ PublishTracker(n, lb) = n
        \/ PublishTracker(n, lb) =
               SendEvent([m EXCEPT !.shown = m.shown \cup {lb}], "Updated", m.active[lb])
        \/ PublishTracker(n, lb) =
               SendEvent([m EXCEPT !.shown = m.shown \ {lb}], "Hidden", m.active[lb])
    BY DEF PublishTracker
  <2> HIDE DEF m
  <2>3. ASSUME NEW shown
        PROVE  SameQueue([m EXCEPT !.shown = shown], m)
    BY <2>1 DEF Shaped, SameQueue, Fields
  <2>4. ASSUME NEW shown, NEW kind
        PROVE  SameQueue(SendEvent([m EXCEPT !.shown = shown], kind, m.active[lb]), m)
    <3> DEFINE k == [m EXCEPT !.shown = shown]
    <3>1. SameQueue(k, m)
      BY <2>3
    <3> HIDE DEF k
    <3>2. SameQueue(SendEvent(k, kind, m.active[lb]), k)
      BY <3>1, SendQueue DEF SameQueue
    <3>3. SameQueue(SendEvent(k, kind, m.active[lb]), m)
      BY <3>1, <3>2 DEF SameQueue
    <3> QED BY <3>3 DEF k
  <2> QED BY <1>0, <2>1, <2>2, <2>4 DEF SameQueue
<1> QED BY <1>0, <1>1 DEF PublishTrackers

-----------------------------------------------------------------------------
(* The answer to a retry counts for its own attempt.                       *)

\* The result of a retry is that of the attempt whose score was kept.
LEMMA RetriedKeepsAttempt ==
    ASSUME Base, NEW t \in DOMAIN native.scheduled, NEW answer \in Answers,
           NEW m, Becomes(m), Retried(native, m, t, answer), Resting(m),
           NEW u \in DOMAIN native.scheduled \ DOMAIN native'.scheduled,
           NEW i \in Len(pipe) + 1 .. Len(pipe'), pipe'[i].kind \in Results
    PROVE  pipe'[i].attempt = native.pending[u].attempt
<1> DEFINE a == native.byToken[t]
           x == Event(EventOf(answer), native.scheduled[t], a)
           y == Resolution(native, native.pending[t].id, ResolutionOf(answer))
<1>1. native'.scheduled = m.scheduled /\ pipe' = pipe \o m.out
  BY Quieted DEF Becomes
<1>2. answer # "unreachable"
  BY <1>1 DEF Retried, Like, Fields
<1>3. m.scheduled = Without(native.scheduled, {t}) /\ m.out = <<x, y>>
  BY <1>2 DEF Retried
<1>4. u = t
  BY <1>1, <1>3 DEF Without
<1>5. native.pending[t].attempt = a
  <2>1. Told(native.pending[t], a)
    BY DEF Base, Steady, Waiting
  <2>2. native.pending[t] = [id |-> native.pending[t].id, attempt |-> a, ready |-> TRUE,
                             waiting |-> TRUE, published |-> TRUE]
    BY <2>1 DEF Told
  <2> QED BY <2>2
<1>6. x.attempt = a /\ y.kind \notin Results
  BY DEF Event, Resolution, Results
<1>7. pipe \in Seq(Message)
  BY DEF Base, Piped
<1> HIDE DEF x, y
<1>8. pipe'[i] \in {x, y}
  BY <1>1, <1>3, <1>7
<1> QED BY <1>4, <1>5, <1>6, <1>8

\* A step that takes a score out of the queue and tells a result is its retry.
LEMMA RetryKeepsAttemptStep ==
    ASSUME Base, Next, muddled = {},
           NEW t \in DOMAIN native.scheduled \ DOMAIN native'.scheduled,
           Live', native.scheduled[t] \notin muddled',
           NEW i \in Len(pipe) + 1 .. Len(pipe'), pipe'[i].kind \in Results
    PROVE  pipe'[i].attempt = native.pending[t].attempt
<1>0. Steady(native) /\ Shaped(native)
  BY DEF Base, Steady, Counts
<1> DEFINE Same == native'.scheduled = native.scheduled
<1>1. ASSUME NEW m, Becomes(m), Resting(m), Like(m, native, Fields \ {"scheduled"})
      PROVE  Same
  BY <1>1, Quieted DEF Like, Fields
<1>2. ASSUME NEW lb \in Leaderboards, StartAttempt(lb)
      PROVE  FALSE
  <2>1. PICK m : Becomes(m) /\ Start(native, m, lb) /\ Resting(m)
    BY <1>0, <1>2, StartStep
  <2>2. Same
    BY <2>1, Quieted DEF Start, Like, Fields
  <2> QED BY <2>2
<1>3. ASSUME NEW lb \in Leaderboards, CancelAttempt(lb)
      PROVE  FALSE
  <2>1. PICK m : Becomes(m) /\ Cancel(native, m, lb) /\ Resting(m)
    BY <1>0, <1>3, CancelStep
  <2>2. Same
    BY <2>1, Quieted DEF Cancel, Like, Fields
  <2> QED BY <2>2
<1>4. ASSUME NEW lb \in Leaderboards, SubmitAttempt(lb)
      PROVE  FALSE
  <2>1. PICK u \in FreeTokens, answers \in FirstAnswers :
            FrameOf(Submitted(native, lb, u, answers))
    BY <1>4 DEF SubmitAttempt
  <2> DEFINE s == Submitted(native, lb, u, answers)
             p == PublishTrackers(s)
  <2>2. Shaped(s) /\ DOMAIN native.scheduled \subseteq DOMAIN s.scheduled
    BY <1>0, SubmitQueue
  <2>3. native' = [p EXCEPT !.out = <<>>]
    BY <2>1 DEF FrameOf, Native
  <2> HIDE DEF s
  <2>4. SameQueue(p, s)
    BY <2>2, TrackersQueue
  <2> HIDE DEF p
  <2>5. native'.scheduled = p.scheduled
    BY <2>3, <2>4 DEF SameQueue, Shaped, Fields
  <2> QED BY <2>2, <2>4, <2>5 DEF SameQueue
<1>5. ASSUME NEW u \in Tokens, RetryScheduled(u)
      PROVE  pipe'[i].attempt = native.pending[t].attempt
  BY <1>0, <1>5, RetryStep, RetriedKeepsAttempt
<1>6. CASE RetryRecord
  <2>1. CASE muddled' = {}
    BY RetriedKeepsAttempt, <1>0, <1>6, <2>1, RecordStep
  <2>2. CASE muddled' # {}
    <3>0. Min(sync.ids) \notin DOMAIN native.settled
      BY <1>6, <2>2 DEF RetryRecord
    <3>1. PICK u \in DOMAIN native.pending, answer \in Answers, elapsed \in BOOLEAN :
              /\ Native(RetryEntry(native, u, elapsed, answer))
              /\ Muddles(native.scheduled[u],
                         ~elapsed /\ StraysFrom(native.scheduled[u], u))
      BY <1>6, <3>0 DEF RetryRecord
    <3> DEFINE m == RetryEntry(native, u, elapsed, answer)
    <3>2. Shaped(m) /\ DOMAIN native.scheduled \ {u} \subseteq DOMAIN m.scheduled
      BY <1>0, RetryQueue
    <3>3. native.scheduled[u] \in muddled'
      BY <2>2, <3>1 DEF Muddles
    <3>4. t # u
      BY <3>3
    <3>5. native' = [m EXCEPT !.out = <<>>]
      BY <3>1 DEF Native
    <3> HIDE DEF m
    <3>6. native'.scheduled = m.scheduled
      BY <3>2, <3>5 DEF Shaped, Fields
    <3> QED BY <3>2, <3>4, <3>6
  <2> QED BY <2>1, <2>2
<1>7. CASE NativeReset
  <2>1. PICK m : Becomes(m) /\ Restarted(native, m) /\ Resting(m)
    BY <1>0, <1>7, ResetStep
  <2>2. Same
    BY <2>1, Quieted DEF Restarted, Like, Fields
  <2> QED BY <2>2
<1>8. CASE ActivateSession
  <2>1. PICK m : /\ Becomes(m) /\ Activated(native, m, session.number) /\ Resting(m)
    BY <1>0, <1>8, ActivateStep DEF Base, InSession
  <2> DEFINE x == ResetMessage(native.nextAttempt)
  <2>2. pipe' = pipe \o <<x>> /\ x.kind \notin Results
    BY <2>1 DEF Becomes, Activated, ResetMessage, Results
  <2>3. pipe \in Seq(Message)
    BY DEF Base, Piped
  <2> HIDE DEF x
  <2>4. pipe'[i] = x
    BY <2>2, <2>3
  <2> QED BY <2>2, <2>4
<1>9. CASE StopSession
  BY <1>9, <1>0, ClearFacts DEF StopSession, Live
<1>10. CASE RefreshMirror
  <2>1. PICK m : Becomes(m) /\ Refreshed(native, m) /\ Resting(m)
    BY <1>0, <1>10, RefreshStep
  <2>2. Same
    BY <2>1, Quieted DEF Refreshed, Like, Fields
  <2> QED BY <2>2
<1>11. CASE DiscardScores
  <2>1. ASSUME NEW m, Becomes(m), Discards(native, m, DOMAIN store.records)
        PROVE  FALSE
    BY <2>1 DEF Discards, Becomes, Like, Fields, Base, Steady, Piped
  <2> QED BY <1>0, <1>10, <1>11, <2>1, DiscardStep
<1>12. CASE UNCHANGED native
  BY <1>12
<1>13. Read => UNCHANGED native
  BY DEF Read, ReadRuntimeReset, ReadAttemptEvent, ReadAdded, ReadResolved, ReadBarrier
<1>14. ResetEmulator => UNCHANGED native
  BY DEF ResetEmulator
<1>15. Frame => pipe'[i].attempt = native.pending[t].attempt
  BY <1>2, <1>3, <1>4, <1>5 DEF Frame
<1>16. Sessions => pipe'[i].attempt = native.pending[t].attempt
  BY <1>8, <1>9, <1>12 DEF BeginSession, OpenSession, Sessions
<1>17. Synchronise => pipe'[i].attempt = native.pending[t].attempt
  <2>1. BeginSync => RefreshMirror
    BY DEF BeginSync
  <2>2. VerifySync \/ SyncTimesOut \/ PlanSync \/ ApplySync => UNCHANGED native
    BY DEF VerifySync, SyncTimesOut, PlanSync, ApplySync
  <2> QED BY <1>6, <1>10, <1>12, <2>1, <2>2 DEF Synchronise
<1>18. Leave => pipe'[i].attempt = native.pending[t].attempt
  <2>1. LeaveGame => RefreshMirror
    BY DEF LeaveGame
  <2>2. VerifyLeaving \/ LeavingTimesOut \/ ContinuePlaying \/ LeaveSynchronised
            \/ DiscardRecords => UNCHANGED native
    BY DEF VerifyLeaving, LeavingTimesOut, ContinuePlaying, LeaveSynchronised, DiscardRecords
  <2> QED BY <1>10, <1>11, <1>12, <2>1, <2>2 DEF Leave
<1> QED BY <1>7, <1>12, <1>13, <1>14, <1>15, <1>16, <1>17, <1>18 DEF Next

-----------------------------------------------------------------------------
(* The coordinator.                                                        *)

\* The phase of an attempt, or none if the coordinator does not know it.
LEMMA PhaseOf ==
    ASSUME NEW c, Coherent(c), NEW a
    PROVE  /\ Phase(c, a) \in Phases \cup {"none"}
           /\ Phase(c, a) = "TRACKING" => a > c.floor /\ ~c.awaiting
           /\ Phase(c, a) # "none" <=> a \in DOMAIN c.states
BY DEF Coherent, Phase, Phases, TerminalPhases

\* The coordinator forgets everything that does not wait for an answer.
Retained(m, c) ==
    /\ Coherent(m)
    /\ \A a : Phase(m, a) = IF Phase(c, a) = "PENDING" THEN "PENDING" ELSE "none"

\* A coordinator that knows of the pending attempts only.
Forgetful(c, highest, floor, awaiting) ==
    [states |-> Restricted(c.states, {a \in DOMAIN c.states : c.states[a].phase = "PENDING"}),
     latest |-> <<>>, highest |-> highest, floor |-> floor, awaiting |-> awaiting]

\* The provers need the fields of a record one by one.
LEMMA CoordinatorFields ==
    ASSUME NEW m, NEW s, NEW l, NEW h, NEW f, NEW w,
           m = [states |-> s, latest |-> l, highest |-> h, floor |-> f, awaiting |-> w]
    PROVE  /\ m.states = s /\ m.latest = l /\ m.highest = h /\ m.floor = f /\ m.awaiting = w
           /\ m = [states |-> m.states, latest |-> m.latest, highest |-> m.highest,
                   floor |-> m.floor, awaiting |-> m.awaiting]
OBVIOUS

\* A coordinator that keeps what waits keeps nothing else.
LEMMA RetainFacts ==
    ASSUME NEW c, Coherent(c), NEW highest \in Nat, NEW floor \in Nat,
           NEW awaiting \in BOOLEAN, floor <= highest
    PROVE  LET m == Forgetful(c, highest, floor, awaiting)
           IN  /\ Retained(m, c) /\ m.highest = highest /\ m.floor = floor
               /\ m.awaiting = awaiting
<1> DEFINE s == Restricted(c.states, {a \in DOMAIN c.states : c.states[a].phase = "PENDING"})
           none == <<>>
           m == Forgetful(c, highest, floor, awaiting)
<1>1. /\ DOMAIN s = {a \in DOMAIN c.states : c.states[a].phase = "PENDING"}
      /\ \A a \in DOMAIN s : s[a] = c.states[a]
  BY DEF Restricted
<1>2. DOMAIN none = {}
  OBVIOUS
<1>3. m = [states |-> s, latest |-> none, highest |-> highest, floor |-> floor,
           awaiting |-> awaiting]
  BY DEF Forgetful
<1> HIDE DEF m, s, none
<1>4. /\ m.states = s /\ m.latest = none /\ m.highest = highest /\ m.floor = floor
      /\ m.awaiting = awaiting
      /\ m = [states |-> m.states, latest |-> m.latest, highest |-> m.highest,
              floor |-> m.floor, awaiting |-> m.awaiting]
  BY <1>3, CoordinatorFields
<1>5. \A a \in DOMAIN m.states : m.states[a].phase = "PENDING"
  BY <1>1, <1>4
<1>6. Coherent(m)
  BY <1>2, <1>4, <1>5 DEF Coherent, Phases, TerminalPhases
<1>7. ASSUME NEW a
      PROVE  Phase(m, a) = IF Phase(c, a) = "PENDING" THEN "PENDING" ELSE "none"
  BY <1>1, <1>4 DEF Phase
<1> QED BY <1>4, <1>6, <1>7 DEF Retained, m

\* The coordinator with other numbers.
Moved(x, highest, floor, awaiting) ==
    [x EXCEPT !.highest = highest, !.floor = floor, !.awaiting = awaiting]

\* The numbers, and nothing else.
LEMMA MovedFields ==
    ASSUME NEW x, NEW s, NEW l, NEW h, NEW f, NEW w,
           x = [states |-> s, latest |-> l, highest |-> h, floor |-> f, awaiting |-> w],
           NEW highest, NEW floor, NEW awaiting
    PROVE  Moved(x, highest, floor, awaiting)
               = [states |-> s, latest |-> l, highest |-> highest, floor |-> floor,
                  awaiting |-> awaiting]
<1> DEFINE y == [x EXCEPT !.highest = highest]
           z == [y EXCEPT !.floor = floor]
<1>1. y = [states |-> s, latest |-> l, highest |-> highest, floor |-> f, awaiting |-> w]
  OBVIOUS
<1>2. Moved(x, highest, floor, awaiting) = [z EXCEPT !.awaiting = awaiting]
  BY DEF Moved
<1> HIDE DEF y
<1>3. z = [states |-> s, latest |-> l, highest |-> highest, floor |-> floor, awaiting |-> w]
  BY <1>1
<1> HIDE DEF z
<1> QED BY <1>2, <1>3

\* The coordinator without what does not wait for an answer.
Emptied(c) == [RetainPending(c) EXCEPT !.latest = <<>>]

\* Forgetting and then moving is Forgetful.
LEMMA EmptiedFields ==
    ASSUME NEW c, Coherent(c), NEW highest, NEW floor, NEW awaiting
    PROVE  /\ Moved(Emptied(c), highest, floor, awaiting)
                  = Forgetful(c, highest, floor, awaiting)
           /\ Emptied(c) = Forgetful(c, c.highest, c.floor, c.awaiting)
<1> DEFINE s == Restricted(c.states, {a \in DOMAIN c.states : c.states[a].phase = "PENDING"})
           none == <<>>
           r == Emptied(c)
<1>1. c = [states |-> c.states, latest |-> c.latest, highest |-> c.highest,
           floor |-> c.floor, awaiting |-> c.awaiting]
  BY DEF Coherent
<1>2. r = [[c EXCEPT !.states = s] EXCEPT !.latest = none]
  BY DEF RetainPending, Emptied
<1>3. \A h, f, w : Forgetful(c, h, f, w)
          = [states |-> s, latest |-> none, highest |-> h, floor |-> f, awaiting |-> w]
  BY DEF Forgetful
<1> HIDE DEF s, none, r
<1>4. r = [states |-> s, latest |-> none, highest |-> c.highest, floor |-> c.floor,
           awaiting |-> c.awaiting]
  BY <1>1, <1>2
<1>5. Moved(r, highest, floor, awaiting)
          = [states |-> s, latest |-> none, highest |-> highest, floor |-> floor,
             awaiting |-> awaiting]
  BY <1>4, MovedFields
<1> QED BY <1>3, <1>4, <1>5 DEF r

\* beginRuntimeReset waits for the barrier and keeps what is pending.
LEMMA BeginFacts ==
    ASSUME NEW c, Coherent(c)
    PROVE  LET m == BeginRuntimeReset(c)
           IN  /\ Retained(m, c) /\ m.highest = c.highest /\ m.floor = c.floor
               /\ m.awaiting = TRUE
<1> DEFINE r == Emptied(c)
           m == BeginRuntimeReset(c)
           on == TRUE
<1>1. /\ c.highest \in Nat /\ c.floor \in Nat /\ c.floor <= c.highest /\ on \in BOOLEAN
  BY DEF Coherent
<1>2. c = [states |-> c.states, latest |-> c.latest, highest |-> c.highest,
           floor |-> c.floor, awaiting |-> c.awaiting]
  BY DEF Coherent
<1>3. \E s, l : r = [states |-> s, latest |-> l, highest |-> c.highest,
                     floor |-> c.floor, awaiting |-> c.awaiting]
  BY EmptiedFields DEF Forgetful
<1>4. m = [r EXCEPT !.awaiting = on]
  BY <1>2 DEF BeginRuntimeReset, RetainPending, Emptied
<1> HIDE DEF m, on, r
<1>5. PICK s, l : r = [states |-> s, latest |-> l, highest |-> c.highest,
                       floor |-> c.floor, awaiting |-> c.awaiting]
  BY <1>3
<1>6. m = [states |-> s, latest |-> l, highest |-> c.highest, floor |-> c.floor,
           awaiting |-> on]
  BY <1>4, <1>5
<1>7. m = Moved(r, c.highest, c.floor, on)
  BY <1>5, <1>6, MovedFields
<1>8. m = Forgetful(c, c.highest, c.floor, on)
  BY <1>7, EmptiedFields DEF r
<1>9. Retained(m, c) /\ m.highest = c.highest /\ m.floor = c.floor /\ m.awaiting = on
  BY <1>1, <1>8, RetainFacts
<1> QED BY <1>9 DEF m, on

\* The barrier raises the floor and lets events through again.
LEMMA CompleteFacts ==
    ASSUME NEW c, Coherent(c), NEW k \in Nat
    PROVE  LET m == CompleteRuntimeReset(c, k)
           IN  /\ Retained(m, c) /\ m.awaiting = FALSE
               /\ m.highest = Higher(c.highest, k) /\ m.floor = Higher(c.floor, k)
<1> DEFINE m == CompleteRuntimeReset(c, k)
           highest == Higher(c.highest, k)
           floor == Higher(c.floor, k)
           off == FALSE
<1>1. /\ c.highest \in Nat /\ c.floor \in Nat /\ c.floor <= c.highest /\ off \in BOOLEAN
  BY DEF Coherent
<1>2. c = [states |-> c.states, latest |-> c.latest, highest |-> c.highest,
           floor |-> c.floor, awaiting |-> c.awaiting]
  BY DEF Coherent
<1>3. highest \in Nat /\ floor \in Nat /\ floor <= highest
  BY <1>1 DEF Higher
<1>4. m = Moved(Emptied(c), highest, floor, off)
  BY <1>2 DEF RetainPending, CompleteRuntimeReset, Moved, Emptied
<1> HIDE DEF m, off, highest, floor
<1>5. m = Forgetful(c, highest, floor, off)
  BY <1>4, EmptiedFields
<1>6. Retained(m, c) /\ m.highest = highest /\ m.floor = floor /\ m.awaiting = off
  BY <1>1, <1>3, <1>5, RetainFacts
<1> QED BY <1>6 DEF m, off, highest, floor

\* A new session knows of no attempt.
LEMMA ResetCoordinatorFacts ==
    ASSUME NEW c, Coherent(c)
    PROVE  LET m == ResetCoordinator(c)
           IN  /\ Coherent(m) /\ m.highest = c.highest /\ m.floor = c.highest
               /\ m.awaiting = FALSE /\ \A a : Phase(m, a) = "none"
<1> DEFINE m == ResetCoordinator(c)
           k == [InitialCoordinator EXCEPT !.highest = c.highest]
           none == <<>>
           off == FALSE
<1>1. DOMAIN none = {} /\ off \in BOOLEAN /\ c.highest \in Nat
  BY DEF Coherent
<1>0. InitialCoordinator = [states |-> none, latest |-> none, highest |-> 0, floor |-> 0,
                            awaiting |-> off]
  BY DEF InitialCoordinator
<1>3. m = [k EXCEPT !.floor = c.highest]
  BY DEF ResetCoordinator
<1> HIDE DEF m, none, off
<1>2. k = [states |-> none, latest |-> none, highest |-> c.highest, floor |-> 0,
           awaiting |-> off]
  BY <1>0
<1> HIDE DEF k
<1>4. m = [states |-> none, latest |-> none, highest |-> c.highest, floor |-> c.highest,
           awaiting |-> off]
  BY <1>2, <1>3
<1>5. /\ m.states = none /\ m.latest = none /\ m.highest = c.highest /\ m.floor = c.highest
      /\ m.awaiting = off
      /\ m = [states |-> m.states, latest |-> m.latest, highest |-> m.highest,
              floor |-> m.floor, awaiting |-> m.awaiting]
  BY <1>4, CoordinatorFields
<1>6. Coherent(m)
  BY <1>1, <1>5 DEF Coherent
<1>7. \A a : Phase(m, a) = "none"
  BY <1>1, <1>5 DEF Phase
<1> QED BY <1>5, <1>6, <1>7 DEF m, off

\* An event changes the phase of its own attempt, and has the finished ones
\* of its leaderboard forgotten.
Advanced(m, c, e) ==
    LET a == e.attempt
    IN  /\ Coherent(m) /\ m.floor = c.floor /\ m.awaiting = c.awaiting
        /\ c.highest <= m.highest /\ (m.highest = c.highest \/ m.highest = a)
        /\ \A b : b # a =>
               \/ Phase(m, b) = Phase(c, b)
               \/ Phase(c, b) \in TerminalPhases /\ Phase(m, b) = "none"
        /\ Phase(m, a) # Phase(c, a) =>
               /\ Phase(m, a) = PhaseAfter(c, e)
               /\ \/ a > c.floor /\ ~c.awaiting
                  \/ Phase(c, a) = "PENDING"

\* reduce, for every event: late and repeated ones change nothing.
LEMMA ReduceFacts ==
    ASSUME NEW c, Coherent(c), NEW e \in Message, e.kind \in AttemptKinds
    PROVE  LET m == Reduce(c, e)
               a == e.attempt
           IN  /\ Advanced(m, c, e)
               /\ /\ ~AwaitsBarrier(c, e) /\ AcceptsAttempt(c, e) /\ Reduces(c, e)
                  => Phase(m, a) = PhaseAfter(c, e)
<1> DEFINE a == e.attempt
           lb == e.leaderboard
           m == Reduce(c, e)
           top == IF c.highest > a THEN c.highest ELSE a
           latest == [x \in DOMAIN c.latest \cup {lb} |->
                          IF x = lb THEN Higher(Latest(c, lb), a) ELSE c.latest[x]]
           finished == {b \in DOMAIN c.states : /\ e.kind = "Started"
                                                /\ c.states[b].leaderboard = lb
                                                /\ b < a
                                                /\ c.states[b].phase \in TerminalPhases}
           kept == Restricted(c.states, DOMAIN c.states \ finished)
           state == [leaderboard |-> lb, phase |-> PhaseAfter(c, e)]
           states == [x \in DOMAIN kept \cup {a} |-> IF x = a THEN state ELSE kept[x]]
           seen == [c EXCEPT !.latest = latest, !.highest = top]
<1>1. /\ c = [states |-> c.states, latest |-> c.latest, highest |-> c.highest,
              floor |-> c.floor, awaiting |-> c.awaiting]
      /\ c.awaiting \in BOOLEAN
      /\ c.highest \in Nat /\ c.floor \in Nat /\ c.floor <= c.highest
      /\ a \in Nat \ {0}
  BY MessageFacts DEF Coherent
<1>2. m = IF AwaitsBarrier(c, e) \/ ~AcceptsAttempt(c, e) THEN c
          ELSE IF ~Reduces(c, e) THEN seen ELSE [seen EXCEPT !.states = states]
  BY DEF Reduce, Higher
<1>3. /\ \A x \in DOMAIN latest : latest[x] \in Nat /\ latest[x] <= top
  BY <1>1 DEF Coherent, Latest, Higher
<1>4. /\ top \in Nat /\ c.highest <= top /\ (top = c.highest \/ top = a)
  BY <1>1
<1>5. /\ DOMAIN states = (DOMAIN c.states \ finished) \cup {a}
      /\ \A b \in DOMAIN states : b # a => states[b] = c.states[b]
      /\ states[a].phase = PhaseAfter(c, e)
  BY DEF Restricted
<1>6. \A b \in finished : b # a /\ Phase(c, b) \in TerminalPhases
  BY <1>1 DEF Phase
<1> HIDE DEF latest, top, finished, kept, state, states
<1>7. CASE AwaitsBarrier(c, e) \/ ~AcceptsAttempt(c, e)
  BY <1>1, <1>2, <1>7 DEF Advanced
<1>8. CASE ~AwaitsBarrier(c, e) /\ AcceptsAttempt(c, e) /\ ~Reduces(c, e)
  <2>1. m = [states |-> c.states, latest |-> latest, highest |-> top, floor |-> c.floor,
             awaiting |-> c.awaiting]
    BY <1>1, <1>2, <1>8
  <2> HIDE DEF m
  <2>2. /\ m.states = c.states /\ m.latest = latest /\ m.highest = top
        /\ m.floor = c.floor /\ m.awaiting = c.awaiting
    BY <2>1
  <2>3. m = [states |-> m.states, latest |-> m.latest, highest |-> m.highest,
             floor |-> m.floor, awaiting |-> m.awaiting]
    BY <2>1, <2>2
  <2>4. Coherent(m)
    BY <1>1, <1>3, <1>4, <2>2, <2>3 DEF Coherent
  <2>5. \A b : Phase(m, b) = Phase(c, b)
    BY <2>2 DEF Phase
  <2> QED BY <1>4, <1>8, <2>2, <2>4, <2>5 DEF Advanced, m
<1>9. CASE ~AwaitsBarrier(c, e) /\ AcceptsAttempt(c, e) /\ Reduces(c, e)
  <2>1. m = [states |-> states, latest |-> latest, highest |-> top, floor |-> c.floor,
             awaiting |-> c.awaiting]
    BY <1>1, <1>2, <1>9
  <2> HIDE DEF m
  <2>2. /\ m.states = states /\ m.latest = latest /\ m.highest = top
        /\ m.floor = c.floor /\ m.awaiting = c.awaiting
    BY <2>1
  <2>3. m = [states |-> m.states, latest |-> m.latest, highest |-> m.highest,
             floor |-> m.floor, awaiting |-> m.awaiting]
    BY <2>1, <2>2
  <2>4. Phase(m, a) = PhaseAfter(c, e)
    BY <1>5, <2>2 DEF Phase
  <2>5. \A b : b # a => \/ Phase(m, b) = Phase(c, b)
                        \/ Phase(c, b) \in TerminalPhases /\ Phase(m, b) = "none"
    BY <1>5, <1>6, <2>2 DEF Phase
  <2>6. \/ a > c.floor /\ ~c.awaiting
        \/ Phase(c, a) = "PENDING"
    BY <1>9 DEF AwaitsBarrier, AcceptsAttempt
  <2>7. /\ PhaseAfter(c, e) = "TRACKING" => a > c.floor /\ ~c.awaiting
        /\ PhaseAfter(c, e) \in Phases
    BY <1>9, PhaseOf DEF Responses, AwaitsBarrier, AcceptsAttempt, PhaseAfter, Phases,
       Reduces, TerminalPhases, Results, AttemptKinds
  <2>8. Coherent(m)
    BY <1>5, <2>2, <2>7, <1>1, <1>4, <1>3, <2>3 DEF Coherent
  <2> QED BY <1>4, <2>2, <2>4, <2>5, <2>6, <2>8 DEF Advanced, m
<1> QED BY <1>7, <1>8, <1>9

-----------------------------------------------------------------------------
(* What the screen shows, while a session goes on.                         *)

\* What the runtime tells agrees with what it tracks.
Screens(n, m) ==
    /\ m.floor = n.floor
    /\ \A i \in DOMAIN m.out :
           /\ m.out[i].kind # "RuntimeReset"
           /\ m.out[i].kind = "Started" => i = 1 /\ m.out[i].attempt = n.nextAttempt
           /\ m.out[i].kind \in {"Started", "Updated"} => TrackedBy(m, m.out[i].attempt)
    /\ \A a : TrackedBy(m, a) =>
           /\ \A i \in DOMAIN m.out : ~Ending(m.out[i], a)
           /\ \/ TrackedBy(n, a)
              \/ 1 \in DOMAIN m.out /\ m.out[1].kind = "Started" /\ m.out[1].attempt = a
    /\ \A a : TrackedBy(n, a) =>
           TrackedBy(m, a) \/ \E i \in DOMAIN m.out : Ending(m.out[i], a)

\* Messages that are no barriers add none.
LEMMA BarriersLonger ==
    ASSUME NEW p \in Seq(Message), NEW q \in Seq(Message),
           \A i \in DOMAIN q : q[i].kind # "RuntimeReset"
    PROVE  Barriers(p \o q) = Barriers(p)
BY Longer DEF Barriers

\* Numbers given later are higher.
LEMMA NumberedLonger ==
    ASSUME NEW p \in Seq(Message), NEW q \in Seq(Message), NEW n, NEW highest \in Nat,
           NumberedIn(p, highest), highest < n.nextAttempt, n.nextAttempt \in Nat,
           \A i \in DOMAIN p : Counted(n, p[i]),
           \A i \in DOMAIN q, k \in Nat : Fresh(q[i], k) => i = 1 /\ k = n.nextAttempt
    PROVE  NumberedIn(p \o q, highest)
<1> DEFINE r == p \o q
<1>1. \A i \in DOMAIN p : i \in DOMAIN r /\ r[i] = p[i]
  BY Longer
<1>2. \A i \in DOMAIN r :
          \/ i \in DOMAIN p
          \/ i > Len(p) /\ i - Len(p) \in DOMAIN q /\ r[i] = q[i - Len(p)]
  BY Longer
<1>3. DOMAIN p = 1 .. Len(p) /\ Len(p) \in Nat /\ r \in Seq(Message) /\ DOMAIN r = 1 .. Len(r)
      /\ Len(r) \in Nat
  BY Longer
<1> HIDE DEF r
<1>4. SUFFICES ASSUME NEW j \in DOMAIN r, NEW k \in Nat, Fresh(r[j], k)
      PROVE  highest < k /\ \A i \in 1 .. j - 1 : Older(r[i], k)
  BY DEF NumberedIn, r
<1>5. CASE j \in DOMAIN p
  BY <1>1, <1>3, <1>5, <1>4 DEF NumberedIn
<1>6. CASE j \notin DOMAIN p
  <2>1. j - Len(p) \in DOMAIN q /\ r[j] = q[j - Len(p)]
    BY <1>2, <1>6
  <2>2. j - Len(p) = 1 /\ k = n.nextAttempt
    BY <1>4, <2>1
  <2>3. \A i \in 1 .. j - 1 : i \in DOMAIN p /\ r[i] = p[i]
    BY <1>1, <1>3, <2>2
  <2> QED
    BY <2>2, <2>3 DEF Counted, Older
<1> QED
  BY <1>5, <1>6

\* A coordinator that waits goes on waiting.
LEMMA AwaitedLonger ==
    ASSUME NEW p \in Seq(Message), NEW q \in Seq(Message), NEW n, NEW m, NEW c, NEW waiting,
           AwaitedIn(n, p, c, waiting), m.floor = n.floor, m.session = n.session,
           \A i \in DOMAIN q : q[i].kind # "RuntimeReset"
    PROVE  AwaitedIn(m, p \o q, c, waiting)
<1>1. Barriers(p \o q) = Barriers(p)
  BY BarriersLonger
<1>2. \A i \in DOMAIN p : i \in DOMAIN (p \o q) /\ (p \o q)[i] = p[i]
  BY Longer
<1> QED
  BY <1>1, <1>2 DEF AwaitedIn

\* With no reset under way the coordinator heeds what is yet to be told.
LEMMA ShownLonger ==
    ASSUME NEW p \in Seq(Message), NEW n, NEW m, NEW c, NEW waiting,
           m.out \in Seq(Message), Screens(n, m),
           AwaitedIn(n, p, c, waiting), n.session # Never,
           n.nextAttempt \in Nat, n.floor \in Nat, n.floor < n.nextAttempt,
           \A i \in DOMAIN p : Counted(n, p[i]),
           TrackedShown(n, p, c, waiting), ShownTracked(n, p, c), ToBeShown(n, p, c)
    PROVE  LET r == p \o m.out
           IN  /\ TrackedShown(m, r, c, waiting)
               /\ ShownTracked(m, r, c) /\ ToBeShown(m, r, c)
<1> DEFINE r == p \o m.out
<1>1. \A i \in DOMAIN p : i \in DOMAIN r /\ r[i] = p[i]
  BY Longer
<1>2. \A i \in DOMAIN r :
          \/ i \in DOMAIN p
          \/ i > Len(p) /\ i - Len(p) \in DOMAIN m.out /\ r[i] = m.out[i - Len(p)]
  BY Longer
<1>3. \A i \in DOMAIN m.out : i + Len(p) \in DOMAIN r /\ r[i + Len(p)] = m.out[i]
  BY Longer
<1>4. DOMAIN p = 1 .. Len(p) /\ Len(p) \in Nat /\ DOMAIN r = 1 .. Len(r) /\ Len(r) \in Nat
      /\ DOMAIN m.out = 1 .. Len(m.out) /\ Len(m.out) \in Nat
  BY Longer
<1>5. Barriers(r) = Barriers(p)
  BY BarriersLonger DEF Screens
<1> HIDE DEF r
<1>6. \A i \in DOMAIN p : Heeded(r, c, i) <=> Heeded(p, c, i)
  BY <1>1, <1>5 DEF Heeded
<1>7. waiting = 0 => \A i \in DOMAIN m.out : Heeded(r, c, i + Len(p))
  <2> SUFFICES ASSUME waiting = 0, NEW i \in DOMAIN m.out
               PROVE  Heeded(r, c, i + Len(p))
    OBVIOUS
  <2>1. CASE c.awaiting
    <3>1. PICK j \in DOMAIN p : Barriers(p) = {j}
      BY <2>1 DEF AwaitedIn
    <3>2. j \in Barriers(r) /\ j < i + Len(p)
      BY <3>1, <1>4, <1>5
    <3> QED
      BY <3>2, <1>3 DEF Heeded
  <2>2. CASE ~c.awaiting
    BY <2>2, <1>3 DEF Heeded
  <2> QED
    BY <2>1, <2>2
<1>8. TrackedShown(m, r, c, waiting)
  <2> SUFFICES ASSUME NEW a, TrackedBy(m, a)
               PROVE  /\ \A i \in DOMAIN r : ~Ending(r[i], a)
                      /\ waiting = 0 =>
                             \/ Phase(c, a) = "TRACKING"
                             \/ \E i : Heeded(r, c, i) /\ r[i].kind = "Started" /\ r[i].attempt = a
    BY DEF TrackedShown
  <2>1. \A i \in DOMAIN m.out : ~Ending(m.out[i], a)
    BY DEF Screens
  <2>2. CASE TrackedBy(n, a)
    BY <2>2, <1>1, <1>6, <2>1, <1>2 DEF TrackedShown, Heeded
  <2>3. CASE 1 \in DOMAIN m.out /\ m.out[1].kind = "Started" /\ m.out[1].attempt = a
    <3>1. a = n.nextAttempt
      BY <2>3 DEF Screens
    <3>2. \A i \in DOMAIN p : ~Ending(p[i], a)
      BY <3>1 DEF Counted, Ending, AttemptKinds
    <3>3. \A i \in DOMAIN r : ~Ending(r[i], a)
      BY <3>2, <2>1, <1>1, <1>2
    <3>4. waiting = 0 => Heeded(r, c, 1 + Len(p))
      BY <2>3, <1>7
    <3>5. r[1 + Len(p)] = m.out[1]
      BY <2>3, <1>3
    <3> QED
      BY <3>3, <3>4, <3>5, <2>3
  <2> QED
    BY <2>2, <2>3 DEF Screens
<1>9. ShownTracked(m, r, c)
  <2> SUFFICES ASSUME NEW a, Phase(c, a) = "TRACKING", ~TrackedBy(m, a)
               PROVE  \E i \in DOMAIN r : Ending(r[i], a)
    BY DEF ShownTracked
  <2>1. CASE \E i \in DOMAIN p : Ending(p[i], a)
    BY <2>1, <1>1
  <2>2. CASE TrackedBy(n, a)
    <3>1. PICK i \in DOMAIN m.out : Ending(m.out[i], a)
      BY <2>2 DEF Screens
    <3> QED
      BY <3>1, <1>3
  <2> QED
    BY <2>1, <2>2 DEF ShownTracked
<1>10. ToBeShown(m, r, c)
  <2> SUFFICES ASSUME NEW i, Heeded(r, c, i), r[i].kind \in {"Started", "Updated"}
               PROVE  /\ \/ TrackedBy(m, r[i].attempt)
                         \/ \E j \in DOMAIN r : j > i /\ Ending(r[j], r[i].attempt)
                      /\ r[i].kind = "Started" => r[i].attempt > m.floor
    BY DEF ToBeShown
  <2>1. CASE i \in DOMAIN p
    <3> DEFINE a == p[i].attempt
    <3>1. /\ \/ TrackedBy(n, a)
             \/ \E j \in DOMAIN p : j > i /\ Ending(p[j], a)
          /\ p[i].kind = "Started" => a > n.floor
      BY <2>1, <1>1, <1>6 DEF ToBeShown
    <3>2. r[i] = p[i] /\ r[i].attempt = a
      BY <2>1, <1>1
    <3> HIDE DEF a
    <3>3. CASE \E j \in DOMAIN p : j > i /\ Ending(p[j], a)
      BY <3>1, <3>2, <3>3, <1>1 DEF Screens
    <3>4. CASE TrackedBy(n, a) /\ ~TrackedBy(m, a)
      <4>1. PICK j \in DOMAIN m.out : Ending(m.out[j], a)
        BY <3>4 DEF Screens
      <4>2. j + Len(p) > i
        BY <2>1, <1>4
      <4> QED
        BY <4>1, <4>2, <3>1, <3>2, <1>3 DEF Screens
    <3> QED
      BY <3>1, <3>2, <3>3, <3>4 DEF Screens
  <2>2. CASE i \notin DOMAIN p
    BY <2>2, <1>2 DEF Heeded, Screens
  <2> QED
    BY <2>1, <2>2
<1> QED
  BY <1>8, <1>9, <1>10 DEF r

\* What each operation tells is what the screen should show: a started attempt,
LEMMA StartScreens ==
    ASSUME NEW n, Steady(n), NEW lb \in Leaderboards, n.lboard[lb] = "active",
           NEW m, Start(n, m, lb)
    PROVE  Screens(n, m)
<1> DEFINE a == n.nextAttempt
           x == Event("Started", lb, a)
           y == Event("Updated", lb, a)
<1>1. /\ m.out = <<x, y>> /\ m.floor = n.floor
      /\ m.lboard = [n.lboard EXCEPT ![lb] = "tracking"]
      /\ m.active = [n.active EXCEPT ![lb] = a]
  BY DEF Start, Like, Fields
<1>2. x.kind = "Started" /\ y.kind = "Updated" /\ x.attempt = a /\ y.attempt = a
  BY DEF Event
<1>3. n.lboard \in [Leaderboards -> {"active", "tracking"}] /\ n.active \in [Leaderboards -> Nat]
  BY DEF Steady, Counts
<1>4. TrackedBy(m, a)
  BY <1>1, <1>3 DEF TrackedBy
<1>5. \A b : TrackedBy(m, b) => b = a \/ TrackedBy(n, b)
  BY <1>1, <1>3 DEF TrackedBy
<1>6. \A b : TrackedBy(n, b) => TrackedBy(m, b)
  BY <1>1, <1>3 DEF TrackedBy
<1> HIDE DEF x, y
<1>7. /\ DOMAIN m.out = {1, 2} /\ m.out[1] = x /\ m.out[2] = y
  BY <1>1
<1>8. \A b : ~Ending(x, b) /\ ~Ending(y, b)
  BY <1>2 DEF Ending, Results
<1> QED
  BY <1>1, <1>2, <1>4, <1>5, <1>6, <1>7, <1>8 DEF Screens

\* a canceled one,
LEMMA CancelScreens ==
    ASSUME NEW n, Steady(n), NEW lb \in Leaderboards, n.lboard[lb] = "tracking",
           NEW m, Cancel(n, m, lb)
    PROVE  Screens(n, m)
<1> DEFINE a == n.active[lb]
           x == Event("Canceled", lb, a)
           y == Event("Hidden", lb, a)
<1>1. /\ m.out = <<x, y>> /\ m.floor = n.floor /\ m.active = n.active
      /\ m.lboard = [n.lboard EXCEPT ![lb] = "active"]
  BY DEF Cancel, Like, Fields
<1>2. x.kind = "Canceled" /\ y.kind = "Hidden" /\ x.attempt = a /\ y.attempt = a
  BY DEF Event
<1>3. n.lboard \in [Leaderboards -> {"active", "tracking"}] /\ n.active \in [Leaderboards -> Nat]
  BY DEF Steady, Counts
<1>4. \A b : TrackedBy(m, b) => b # a /\ TrackedBy(n, b)
  <2> SUFFICES ASSUME NEW u \in Leaderboards, m.lboard[u] = "tracking"
               PROVE  n.active[u] # a /\ n.lboard[u] = "tracking" /\ m.active[u] = n.active[u]
    BY DEF TrackedBy
  <2>1. u # lb /\ n.lboard[u] = "tracking"
    BY <1>1, <1>3
  <2>2. n.attempts[n.active[u]] = [leaderboard |-> u, submitted |-> FALSE, terminal |-> FALSE]
    BY <2>1, TrackedAttempt
  <2>3. n.attempts[a] = [leaderboard |-> lb, submitted |-> FALSE, terminal |-> FALSE]
    BY TrackedAttempt
  <2> QED
    BY <1>1, <2>1, <2>2, <2>3
<1>5. \A b : TrackedBy(n, b) => b = a \/ TrackedBy(m, b)
  BY <1>1, <1>3 DEF TrackedBy
<1> HIDE DEF x, y
<1>6. /\ DOMAIN m.out = {1, 2} /\ m.out[1] = x /\ m.out[2] = y
  BY <1>1
<1>7. Ending(x, a) /\ \A b : b # a => ~Ending(x, b) /\ ~Ending(y, b)
  BY <1>2 DEF Ending, Results
<1> QED
  BY <1>1, <1>2, <1>4, <1>5, <1>6, <1>7 DEF Screens

\* a submission,
LEMMA SubmitScreens ==
    ASSUME NEW n, Steady(n), n.session \in Nat \ {0}, NEW lb \in Leaderboards,
           Apart(n, lb), NEW t, NEW answer, NEW m, Submit(n, m, lb, t, answer)
    PROVE  Screens(n, m)
<1> DEFINE a == Entry(n, lb)
           x == IF answer = "unreachable" THEN Addition(n, n.nextSubmission, a)
                ELSE Event(EventOf(answer), lb, a)
           y == Event("Submitted", lb, a)
           z == Event("Hidden", lb, a)
<1>1. /\ m.floor = n.floor
      /\ m.lboard = [n.lboard EXCEPT ![lb] = "active"]
      /\ m.active = [n.active EXCEPT ![lb] = a]
  BY DEF Submit, Like, Fields
<1>2. m.out = <<x, y>> \o HiddenOf(n, lb)
  BY DEF Submit
<1>3. /\ x.kind \in {"Added", "Scoreboard", "Failed"}
      /\ x.kind # "Added" => x.attempt = a
      /\ y.kind = "Submitted" /\ z.kind = "Hidden" /\ y.attempt = a
  BY DEF Event, Addition, EventOf
<1>4. n.lboard \in [Leaderboards -> {"active", "tracking"}] /\ n.active \in [Leaderboards -> Nat]
  BY DEF Steady, Counts
<1>5. \A b : TrackedBy(m, b) => b # a /\ TrackedBy(n, b)
  <2> SUFFICES ASSUME NEW u \in Leaderboards, m.lboard[u] = "tracking"
               PROVE  n.active[u] # a /\ n.lboard[u] = "tracking" /\ m.active[u] = n.active[u]
    BY DEF TrackedBy
  <2>1. u # lb /\ n.lboard[u] = "tracking" /\ m.active[u] = n.active[u]
    BY <1>1, <1>4
  <2>2. /\ n.attempts[n.active[u]] = [leaderboard |-> u, submitted |-> FALSE, terminal |-> FALSE]
        /\ n.active[u] \in DOMAIN n.attempts
    BY <2>1, TrackedAttempt
  <2>3. /\ n.lboard[lb] = "tracking" =>
               n.attempts[a] = [leaderboard |-> lb, submitted |-> FALSE, terminal |-> FALSE]
        /\ n.lboard[lb] # "tracking" => a \notin DOMAIN n.attempts
    BY EntryFacts
  <2> QED
    BY <2>1, <2>2, <2>3
<1>6. \A b : TrackedBy(n, b) => b = a \/ TrackedBy(m, b)
  BY <1>1, <1>4 DEF TrackedBy, Entry
<1> HIDE DEF x, y, z, a
<1>7. m.out = <<x, y>> \/ m.out = <<x, y, z>>
  <2>1. HiddenOf(n, lb) = <<>> \/ HiddenOf(n, lb) = <<z>>
    BY DEF HiddenOf, z, a
  <2>2. CASE HiddenOf(n, lb) = <<>>
    BY <1>2, <2>2
  <2>3. CASE HiddenOf(n, lb) = <<z>>
    BY <1>2, <2>3, OneMore
  <2> QED
    BY <2>1, <2>2, <2>3
<1>8. /\ DOMAIN m.out \in {{1, 2}, {1, 2, 3}} /\ m.out[1] = x /\ m.out[2] = y
      /\ 3 \in DOMAIN m.out => m.out[3] = z
  BY <1>7
<1>9. Ending(y, a) /\ \A b : b # a => ~Ending(x, b) /\ ~Ending(y, b) /\ ~Ending(z, b)
  BY <1>3 DEF Ending, Results
<1>10. \A i \in DOMAIN m.out :
           /\ m.out[i].kind \notin {"RuntimeReset", "Started", "Updated"}
           /\ \A b : b # a => ~Ending(m.out[i], b)
  BY <1>3, <1>8, <1>9
<1>11. \E i \in DOMAIN m.out : Ending(m.out[i], a)
  BY <1>8, <1>9
<1> QED
  BY <1>1, <1>5, <1>6, <1>10, <1>11 DEF Screens

\* a retry,
LEMMA RetriedScreens ==
    ASSUME NEW n, Steady(n), NEW t \in DOMAIN n.scheduled,
           NEW answer \in Answers, NEW m, Retried(n, m, t, answer)
    PROVE  Screens(n, m)
<1> DEFINE a == n.byToken[t]
           x == Event(EventOf(answer), n.scheduled[t], a)
           y == Resolution(n, n.pending[t].id, ResolutionOf(answer))
<1>1. m.floor = n.floor /\ m.lboard = n.lboard /\ m.active = n.active
  BY DEF Retried, Like, Fields
<1>2. \A b : TrackedBy(m, b) <=> TrackedBy(n, b)
  BY <1>1 DEF TrackedBy
<1>3. \A b : TrackedBy(n, b) => b # a
  <2> SUFFICES ASSUME NEW u \in Leaderboards, n.lboard[u] = "tracking"
               PROVE  n.active[u] # a
    BY DEF TrackedBy
  <2> QED
    BY TrackedAttempt
<1>4. /\ x.kind \in {"Scoreboard", "Failed"} /\ x.attempt = a
      /\ y.kind = "Resolved"
  BY DEF Event, Resolution, EventOf
<1>5. m.out = <<>> \/ m.out = <<x, y>>
  BY DEF Retried, Like, Fields, Steady
<1> HIDE DEF x, y, a
<1>6. \A i \in DOMAIN m.out : m.out[i] \in {x, y}
  BY <1>5
<1>7. \A b : b # a => ~Ending(x, b) /\ ~Ending(y, b)
  BY <1>4 DEF Ending, Results
<1> QED
  BY <1>1, <1>2, <1>3, <1>4, <1>6, <1>7 DEF Screens

\* an operation that tells of submissions only,
LEMMA SilentScreens ==
    ASSUME NEW n, NEW m, m.floor = n.floor, m.lboard = n.lboard, m.active = n.active,
           \A i \in DOMAIN m.out : m.out[i].kind \in SessionKinds
    PROVE  Screens(n, m)
BY DEF TrackedBy, Screens, SessionKinds, Ending, Results

\* such as a refresh,
LEMMA RefreshedScreens ==
    ASSUME NEW n, Steady(n), NEW m, Refreshed(n, m)
    PROVE  Screens(n, m)
<1> DEFINE o == InOrder(Replay(n))
           x == BarrierOf(n)
<1>1. m.floor = n.floor /\ m.lboard = n.lboard /\ m.active = n.active /\ m.out = o \o <<x>>
  BY DEF Refreshed, Like, Fields
<1>2. o \in Seq(Replay(n)) /\ x.kind = "Barrier"
  BY ReplayListed DEF BarrierOf
<1>3. \A y \in Replay(n) : y.kind \in {"Added", "Resolved"}
  BY ReplayWeights
<1> HIDE DEF o, x
<1>4. \A i \in DOMAIN m.out : m.out[i] = x \/ m.out[i] \in Replay(n)
  BY <1>1, <1>2
<1> QED
  BY <1>1, <1>2, <1>3, <1>4, SilentScreens DEF SessionKinds

\* or a discard.
LEMMA DiscardsScreens ==
    ASSUME NEW n, Steady(n), NEW m, NEW ids, Discards(n, m, ids)
    PROVE  Screens(n, m)
BY SilentScreens DEF Discards, Like, Fields, Steady

\* What a step of the runtime within a session does for the screen.
LEMMA GoesScreen ==
    ASSUME Base, Screen, Live, NEW m, Becomes(m), Resting(m), Goes(native, m),
           Screens(native, m), UNCHANGED <<coordinator, resets>>,
           session'.number = session.number
    PROVE  Screen'
<1>1. /\ pipe' = pipe \o m.out /\ pipe \in Seq(Message) /\ m.out \in Seq(Message)
      /\ \A i \in DOMAIN pipe : Counted(native, pipe[i])
  BY DEF Becomes, Base, Piped, Goes, Said
<1>2. /\ native'.session = native.session /\ native'.floor = native.floor
      /\ native'.lboard = m.lboard /\ native'.active = m.active
      /\ native'.nextAttempt = m.nextAttempt
  BY Quieted DEF Goes, Screens
<1>3. \A a : TrackedBy(native', a) <=> TrackedBy(m, a)
  BY <1>2 DEF TrackedBy
<1>4. /\ native.nextAttempt \in Nat /\ native.floor \in Nat /\ native.floor < native.nextAttempt
      /\ m.nextAttempt \in Nat /\ native.nextAttempt <= m.nextAttempt
  BY DEF Base, Steady, Counts, Goes, Grows
<1>5. Coherent(coordinator) /\ coordinator.highest < native.nextAttempt
      /\ coordinator.highest \in Nat
  BY DEF Screen, Coordinated, Coherent
<1>6. Coordinated'
  BY <1>2, <1>4, <1>5 DEF Coordinated
<1>7. Numbered'
  <2>1. \A i \in DOMAIN m.out, k \in Nat :
            Fresh(m.out[i], k) => i = 1 /\ k = native.nextAttempt
    BY DEF Screens, Fresh
  <2>2. NumberedIn(pipe, coordinator.highest)
    BY DEF Screen, Numbered
  <2>3. NumberedIn(pipe \o m.out, coordinator.highest)
    BY <1>1, <1>4, <1>5, <2>1, <2>2, NumberedLonger
  <2> QED
    BY <2>3, <1>1 DEF Numbered
<1>8. ASSUME ~resets.crossed
      PROVE  Awaited' /\ Shown'
  <2>1. session.number # Never
    BY DEF Base, InSession
  <2>2. AwaitedIn(native, pipe, coordinator, resets.waiting)
    BY <1>8, <2>1 DEF Screen, Awaited
  <2>3. \A i \in DOMAIN m.out : m.out[i].kind # "RuntimeReset"
    BY DEF Screens
  <2>4. AwaitedIn(native', pipe \o m.out, coordinator, resets.waiting)
    BY <1>1, <1>2, <2>2, <2>3, AwaitedLonger
  <2>5. Awaited'
    BY <2>4, <1>1 DEF Awaited
  <2>6. /\ TrackedShown(native, pipe, coordinator, resets.waiting)
        /\ ShownTracked(native, pipe, coordinator)
        /\ ToBeShown(native, pipe, coordinator)
    BY <1>8 DEF Screen, Shown
  <2>7. native.session # Never
    BY DEF Live
  <2>8. /\ TrackedShown(m, pipe \o m.out, coordinator, resets.waiting)
        /\ ShownTracked(m, pipe \o m.out, coordinator)
        /\ ToBeShown(m, pipe \o m.out, coordinator)
    BY <1>1, <1>4, <2>2, <2>6, <2>7, ShownLonger
  <2>9. /\ TrackedShown(native', pipe \o m.out, coordinator, resets.waiting)
        /\ ShownTracked(native', pipe \o m.out, coordinator)
        /\ ToBeShown(native', pipe \o m.out, coordinator)
    BY <1>2, <2>8, <1>3 DEF Screens, TrackedShown, ShownTracked, ToBeShown
  <2> QED
    BY <2>5, <2>9, <1>1 DEF Shown
<1> QED
  BY <1>6, <1>7, <1>8 DEF Screen

-----------------------------------------------------------------------------
(* What the screen shows, when the app reads.                              *)

\* Coordinator d is what c makes of event e, or of a message that it ignores.
Follows(d, c, e) ==
    /\ Coherent(d) /\ d.floor = c.floor /\ d.awaiting = c.awaiting
    /\ d.highest = c.highest \/ (e.kind \in AttemptKinds /\ d.highest = e.attempt)
    /\ c.highest <= d.highest

\* It takes notice of it.
Reacts(d, c, e) ==
    /\ \A a : Phase(c, a) = "TRACKING" =>
           (Phase(d, a) = "TRACKING" <=> ~Ending(e, a))
    /\ \A a : Phase(d, a) = "TRACKING" /\ Phase(c, a) # "TRACKING" =>
           e.kind \in {"Started", "Updated"} /\ e.attempt = a
    /\ e.kind = "Started" /\ ~c.awaiting /\ e.attempt > c.floor /\ e.attempt > c.highest =>
           Phase(d, e.attempt) = "TRACKING"

\* The coordinator takes notice of every event it accepts.
LEMMA ReduceFollows ==
    ASSUME NEW c, Coherent(c), NEW e \in Message, e.kind \in AttemptKinds
    PROVE  Follows(Reduce(c, e), c, e) /\ Reacts(Reduce(c, e), c, e)
<1> DEFINE d == Reduce(c, e)
           a == e.attempt
           lb == e.leaderboard
<1>1. Advanced(d, c, e)
  BY ReduceFacts
<1>2. /\ ~AwaitsBarrier(c, e) /\ AcceptsAttempt(c, e) /\ Reduces(c, e)
         => Phase(d, a) = PhaseAfter(c, e)
  BY ReduceFacts
<1>3. a \in Nat \ {0}
  BY MessageFacts
<1>4. c.highest \in Nat /\ c.floor \in Nat /\ c.floor <= c.highest /\ c.awaiting \in BOOLEAN
  BY DEF Coherent
<1> HIDE DEF d
<1>5. \A b : Phase(c, b) = "TRACKING" => b > c.floor /\ ~c.awaiting /\ b \in DOMAIN c.states
  BY PhaseOf
<1>6. \A b : Phase(d, b) = "TRACKING" => ~d.awaiting
  BY <1>1, PhaseOf DEF Advanced
<1>7. Follows(d, c, e)
  BY <1>1 DEF Advanced, Follows
<1>8. ASSUME NEW b, Phase(c, b) = "TRACKING"
      PROVE  Phase(d, b) = "TRACKING" <=> ~Ending(e, b)
  BY <1>1, <1>8, <1>5, <1>2 DEF Advanced, Ending, TerminalPhases, AwaitsBarrier,
     AcceptsAttempt, Reduces, Results, PhaseAfter, AttemptKinds
<1>9. ASSUME NEW b, Phase(d, b) = "TRACKING", Phase(c, b) # "TRACKING"
      PROVE  e.kind \in {"Started", "Updated"} /\ a = b
  BY <1>1, <1>9 DEF Advanced, PhaseAfter, AttemptKinds, Results
<1>10. ASSUME e.kind = "Started", ~c.awaiting, a > c.floor, a > c.highest
       PROVE  Phase(d, a) = "TRACKING"
  BY <1>4, <1>3, <1>10, <1>2 DEF Latest, Coherent, AwaitsBarrier, AcceptsAttempt,
     Reduces, PhaseAfter
<1> QED
  BY <1>7, <1>8, <1>9, <1>10 DEF Reacts, d

\* A message that is for the mirror leaves the screen as it is.
LEMMA SameFollows ==
    ASSUME NEW c, Coherent(c), NEW e
    PROVE  /\ Follows(c, c, e)
           /\ e.kind \notin AttemptKinds => Reacts(c, c, e)
BY DEF Coherent, Follows, Reacts, Ending, AttemptKinds

\* The messages that are left.
LEMMA Rest ==
    ASSUME NEW p \in Seq(Message), p # <<>>
    PROVE  /\ Tail(p) \in Seq(Message) /\ Head(p) \in Message
           /\ 1 \in DOMAIN p /\ Head(p) = p[1]
           /\ \A i : i \in DOMAIN Tail(p) => i \in Nat /\ i + 1 \in DOMAIN p /\ Tail(p)[i] = p[i + 1]
           /\ \A i \in DOMAIN p : i \in Nat /\ (i # 1 =>
                  i - 1 \in DOMAIN Tail(p) /\ p[i] = Tail(p)[i - 1])
           /\ \A i : i \in Barriers(Tail(p)) <=> i \in Nat \ {0} /\ i + 1 \in Barriers(p)
BY Shorter DEF Barriers

\* Numbers stay in order,
LEMMA NumberedRest ==
    ASSUME NEW p \in Seq(Message), p # <<>>, NEW highest, NumberedIn(p, highest),
           NEW above,
           \A k \in Nat : highest < k /\ Older(Head(p), k) => above < k
    PROVE  NumberedIn(Tail(p), above)
<1> SUFFICES ASSUME NEW j \in DOMAIN Tail(p), NEW k \in Nat, Fresh(Tail(p)[j], k)
             PROVE  above < k /\ \A i \in 1 .. j - 1 : Older(Tail(p)[i], k)
  BY DEF NumberedIn
<1>1. /\ 1 \in DOMAIN p /\ Head(p) = p[1]
      /\ \A i : i \in DOMAIN Tail(p) => i \in Nat /\ i + 1 \in DOMAIN p /\ Tail(p)[i] = p[i + 1]
  BY Rest
<1>2. DOMAIN Tail(p) = 1 .. Len(Tail(p)) /\ Len(Tail(p)) \in Nat
  BY Rest
<1>3. highest < k /\ \A i \in 1 .. (j + 1) - 1 : Older(p[i], k)
  BY <1>1 DEF NumberedIn
<1>4. 1 \in 1 .. (j + 1) - 1 /\ \A i \in 1 .. j - 1 : i + 1 \in 1 .. (j + 1) - 1
                                                     /\ i \in DOMAIN Tail(p)
  BY <1>2
<1> QED
  BY <1>1, <1>3, <1>4

\* a barrier stays awaited,
LEMMA AwaitedRest ==
    ASSUME NEW p \in Seq(Message), p # <<>>, Head(p).kind # "RuntimeReset",
           NEW n, NEW c, NEW d, NEW waiting, d.floor = c.floor, d.awaiting = c.awaiting,
           AwaitedIn(n, p, c, waiting)
    PROVE  AwaitedIn(n, Tail(p), d, waiting)
<1>1. /\ 1 \in DOMAIN p /\ Head(p) = p[1]
      /\ \A i \in DOMAIN p : i \in Nat /\ (i # 1 =>
             i - 1 \in DOMAIN Tail(p) /\ p[i] = Tail(p)[i - 1])
      /\ \A i : i \in Barriers(Tail(p)) <=> i \in Nat \ {0} /\ i + 1 \in Barriers(p)
  BY Rest
<1>2. Barriers(p) = {} => Barriers(Tail(p)) = {}
  BY <1>1
<1>3. ASSUME NEW i \in DOMAIN p, Barriers(p) = {i}
      PROVE  i - 1 \in DOMAIN Tail(p) /\ Barriers(Tail(p)) = {i - 1} /\ p[i] = Tail(p)[i - 1]
  BY <1>1, <1>3 DEF Barriers
<1> QED
  BY <1>2, <1>3 DEF AwaitedIn

\* and what will be heeded is still heeded.
LEMMA HeededRest ==
    ASSUME NEW p \in Seq(Message), p # <<>>, Head(p).kind # "RuntimeReset",
           NEW c, NEW d, d.awaiting = c.awaiting
    PROVE  /\ \A i : Heeded(Tail(p), d, i) => i \in Nat /\ Heeded(p, c, i + 1)
           /\ \A i : Heeded(p, c, i) /\ i # 1 => Heeded(Tail(p), d, i - 1)
<1>1. /\ 1 \in DOMAIN p /\ Head(p) = p[1]
      /\ \A i : i \in DOMAIN Tail(p) => i \in Nat /\ i + 1 \in DOMAIN p /\ Tail(p)[i] = p[i + 1]
      /\ \A i \in DOMAIN p : i \in Nat /\ (i # 1 =>
             i - 1 \in DOMAIN Tail(p) /\ p[i] = Tail(p)[i - 1])
      /\ \A i : i \in Barriers(Tail(p)) <=> i \in Nat \ {0} /\ i + 1 \in Barriers(p)
  BY Rest
<1>2. 1 \notin Barriers(p) /\ \A i \in Barriers(p) : i \in Nat \ {0}
  BY <1>1 DEF Barriers
<1>3. ASSUME NEW i, Heeded(Tail(p), d, i)
      PROVE  i \in Nat /\ Heeded(p, c, i + 1)
  BY <1>1, <1>3 DEF Heeded
<1>4. ASSUME NEW i, Heeded(p, c, i), i # 1
      PROVE  Heeded(Tail(p), d, i - 1)
  <2>1. i \in Nat /\ i - 1 \in DOMAIN Tail(p)
    BY <1>1, <1>4 DEF Heeded
  <2>2. \A j \in Barriers(p) : j - 1 \in Nat \ {0} /\ (j - 1) + 1 = j /\ (j < i => j - 1 < i - 1)
    BY <1>2, <2>1
  <2>3. \A j \in Barriers(p) : j < i => j - 1 \in Barriers(Tail(p)) /\ j - 1 < i - 1
    BY <1>1, <2>2
  <2> QED
    BY <1>4, <2>1, <2>3 DEF Heeded
<1> QED
  BY <1>3, <1>4

\* The app reads a message that is no barrier.
LEMMA ShownRest ==
    ASSUME NEW p \in Seq(Message), p # <<>>, Head(p).kind # "RuntimeReset",
           NEW n, NEW c, NEW d, NEW waiting, Coherent(c),
           Follows(d, c, Head(p)), Reacts(d, c, Head(p)),
           AwaitedIn(n, p, c, waiting), NumberedIn(p, c.highest),
           TrackedShown(n, p, c, waiting), ShownTracked(n, p, c), ToBeShown(n, p, c)
    PROVE  /\ TrackedShown(n, Tail(p), d, waiting)
           /\ ShownTracked(n, Tail(p), d) /\ ToBeShown(n, Tail(p), d)
<1> DEFINE q == Tail(p)
           e == Head(p)
<1>1. /\ 1 \in DOMAIN p /\ e = p[1] /\ e \in Message
      /\ \A i : i \in DOMAIN q => i \in Nat /\ i + 1 \in DOMAIN p /\ q[i] = p[i + 1]
      /\ \A i \in DOMAIN p : i \in Nat /\ (i # 1 => i - 1 \in DOMAIN q /\ p[i] = q[i - 1])
  BY Rest
<1>2. /\ \A i : Heeded(q, d, i) => i \in Nat /\ Heeded(p, c, i + 1)
      /\ \A i : Heeded(p, c, i) /\ i # 1 => Heeded(q, d, i - 1)
  BY HeededRest DEF Follows
<1>3. \A i : Heeded(p, c, i) => i \in DOMAIN p
  BY DEF Heeded
<1>4. Heeded(p, c, 1) => ~c.awaiting
  BY DEF Barriers, Heeded
<1>5. ~c.awaiting => Heeded(p, c, 1)
  BY <1>1 DEF Heeded
<1>6. /\ c.awaiting = d.awaiting
      /\ \A a : Phase(d, a) = "TRACKING" => ~d.awaiting
  BY PhaseOf DEF Follows
<1> HIDE DEF q
<1>7. TrackedShown(n, q, d, waiting)
  <2> SUFFICES ASSUME NEW a, TrackedBy(n, a)
               PROVE  /\ \A i \in DOMAIN q : ~Ending(q[i], a)
                      /\ waiting = 0 =>
                             \/ Phase(d, a) = "TRACKING"
                             \/ \E i : Heeded(q, d, i) /\ q[i].kind = "Started" /\ q[i].attempt = a
    BY DEF TrackedShown
  <2>1. \A i \in DOMAIN p : ~Ending(p[i], a)
    BY DEF TrackedShown
  <2>4. \A i \in DOMAIN q : ~Ending(q[i], a)
    BY <2>1, <1>1
  <2>2. CASE waiting = 0 /\ Phase(c, a) = "TRACKING"
    BY <2>1, <2>2, <2>4, <1>1 DEF Reacts
  <2>3. CASE /\ waiting = 0
             /\ \E i : Heeded(p, c, i) /\ p[i].kind = "Started" /\ p[i].attempt = a
    <3>1. PICK i : Heeded(p, c, i) /\ p[i].kind = "Started" /\ p[i].attempt = a
      BY <2>3
    <3>2. CASE i # 1
      BY <3>1, <3>2, <1>1, <1>2, <1>3, <2>4
    <3>3. CASE i = 1
      <4>1. ~c.awaiting /\ a > n.floor
        BY <3>1, <3>3, <1>4 DEF ToBeShown
      <4>2. c.floor = n.floor
        BY <4>1 DEF AwaitedIn
      <4>3. e.kind = "Started" /\ e.attempt = a /\ a \in Nat
        BY <3>1, <3>3, <1>1, MessageFacts DEF AttemptKinds
      <4>4. c.highest < a
        BY <4>3, <1>1 DEF NumberedIn, Fresh
      <4>5. a > c.highest
        BY <4>3, <4>4 DEF Coherent
      <4> QED
        BY <4>1, <4>2, <4>3, <4>5, <2>4 DEF Reacts
    <3> QED
      BY <3>2, <3>3
  <2> QED
    BY <2>2, <2>3, <2>4 DEF TrackedShown
<1>8. ShownTracked(n, q, d)
  <2> SUFFICES ASSUME NEW a, Phase(d, a) = "TRACKING", ~TrackedBy(n, a)
               PROVE  \E i \in DOMAIN q : Ending(q[i], a)
    BY DEF ShownTracked
  <2>1. CASE Phase(c, a) = "TRACKING"
    <3>1. PICK i \in DOMAIN p : Ending(p[i], a)
      BY <2>1 DEF ShownTracked
    <3>2. ~Ending(e, a)
      BY <2>1 DEF Reacts
    <3> QED
      BY <3>1, <3>2, <1>1
  <2>2. CASE Phase(c, a) # "TRACKING"
    <3>1. e.kind \in {"Started", "Updated"} /\ e.attempt = a
      BY <2>2 DEF Reacts
    <3>2. Heeded(p, c, 1)
      BY <1>5, <1>6
    <3>3. PICK j \in DOMAIN p : j > 1 /\ Ending(p[j], a)
      BY <3>1, <3>2, <1>1 DEF ToBeShown
    <3>4. j \in Nat /\ j # 1 /\ j - 1 \in DOMAIN q /\ p[j] = q[j - 1]
      BY <3>3, <1>1
    <3> QED
      BY <3>3, <3>4
  <2> QED
    BY <2>1, <2>2
<1>9. ToBeShown(n, q, d)
  <2> SUFFICES ASSUME NEW i, Heeded(q, d, i), q[i].kind \in {"Started", "Updated"}
               PROVE  /\ \/ TrackedBy(n, q[i].attempt)
                         \/ \E j \in DOMAIN q : j > i /\ Ending(q[j], q[i].attempt)
                      /\ q[i].kind = "Started" => q[i].attempt > n.floor
    BY DEF ToBeShown
  <2>1. i \in Nat /\ Heeded(p, c, i + 1) /\ q[i] = p[i + 1] /\ i \in DOMAIN q
    BY <1>1, <1>2 DEF Heeded
  <2>2. /\ \/ TrackedBy(n, q[i].attempt)
           \/ \E j \in DOMAIN p : j > i + 1 /\ Ending(p[j], q[i].attempt)
        /\ q[i].kind = "Started" => q[i].attempt > n.floor
    BY <2>1 DEF ToBeShown
  <2>3. \A j \in DOMAIN p : j > i + 1 => j - 1 \in DOMAIN q /\ p[j] = q[j - 1] /\ j - 1 > i
    BY <1>1, <2>1
  <2> QED
    BY <2>2, <2>3
<1> QED
  BY <1>7, <1>8, <1>9 DEF q

\* The app reads the barrier that the coordinator waits for.
LEMMA ShownReset ==
    ASSUME NEW p \in Seq(Message), p # <<>>, Head(p).kind = "RuntimeReset",
           NEW n, NEW c, NEW waiting, Coherent(c), n.session # Never,
           AwaitedIn(n, p, c, waiting), NumberedIn(p, c.highest),
           TrackedShown(n, p, c, waiting), ShownTracked(n, p, c), ToBeShown(n, p, c)
    PROVE  LET d == CompleteRuntimeReset(c, Head(p).floor)
           IN  /\ AwaitedIn(n, Tail(p), d, waiting)
               /\ TrackedShown(n, Tail(p), d, waiting)
               /\ ShownTracked(n, Tail(p), d) /\ ToBeShown(n, Tail(p), d)
<1> DEFINE q == Tail(p)
           e == Head(p)
           d == CompleteRuntimeReset(c, Head(p).floor)
<1>1. /\ 1 \in DOMAIN p /\ e = p[1] /\ e \in Message
      /\ \A i : i \in DOMAIN q => i \in Nat /\ i + 1 \in DOMAIN p /\ q[i] = p[i + 1]
      /\ \A i \in DOMAIN p : i \in Nat /\ (i # 1 => i - 1 \in DOMAIN q /\ p[i] = q[i - 1])
      /\ \A i : i \in Barriers(q) <=> i \in Nat \ {0} /\ i + 1 \in Barriers(p)
  BY Rest
<1>2. 1 \in Barriers(p)
  BY <1>1 DEF Barriers
<1>3. c.awaiting /\ waiting = 0 /\ \E i \in DOMAIN p : Barriers(p) = {i} /\ p[i].floor = n.floor
  BY <1>2 DEF AwaitedIn
<1>4. Barriers(p) = {1} /\ e.floor = n.floor
  BY <1>1, <1>2, <1>3
<1>5. n.floor \in Nat
  BY <1>1, <1>4, MessageFacts
<1>6. Retained(d, c) /\ d.awaiting = FALSE /\ d.floor = Higher(c.floor, n.floor)
  BY ZenonT(60), <1>4, <1>5, CompleteFacts
<1>7. c.highest < n.floor /\ c.highest \in Nat /\ c.floor \in Nat /\ c.floor <= c.highest
  BY <1>1, <1>4, <1>5 DEF NumberedIn, Fresh, Coherent
<1>8. d.floor = n.floor
  BY <1>5, <1>6, <1>7 DEF Higher
<1>9. Barriers(q) = {}
  BY <1>1, <1>4
<1>10. /\ \A i : Heeded(q, d, i) => i \in Nat /\ i \in DOMAIN q /\ Heeded(p, c, i + 1)
       /\ \A i : Heeded(p, c, i) => i \in DOMAIN p /\ i # 1 /\ Heeded(q, d, i - 1)
  <2>1. \A i : Heeded(q, d, i) <=> i \in DOMAIN q
    BY <1>6 DEF Heeded
  <2>2. \A i : Heeded(p, c, i) <=> i \in DOMAIN p /\ 1 < i
    BY <1>3, <1>4 DEF Heeded
  <2>3. \A i \in DOMAIN q : i \in Nat /\ 1 < i + 1
    BY Rest, <1>1
  <2> QED
    BY <2>1, <2>2, <2>3, <1>1
<1>11. \A a : Phase(c, a) # "TRACKING" /\ Phase(d, a) # "TRACKING"
  BY <1>3, <1>6, PhaseOf DEF Retained
<1> HIDE DEF q, d
<1>12. AwaitedIn(n, q, d, waiting)
  BY <1>3, <1>6, <1>8, <1>9 DEF AwaitedIn
<1>13. TrackedShown(n, q, d, waiting)
  <2> SUFFICES ASSUME NEW a, TrackedBy(n, a)
               PROVE  /\ \A i \in DOMAIN q : ~Ending(q[i], a)
                      /\ waiting = 0 =>
                             \/ Phase(d, a) = "TRACKING"
                             \/ \E i : Heeded(q, d, i) /\ q[i].kind = "Started" /\ q[i].attempt = a
    BY DEF TrackedShown
  <2>1. \A i \in DOMAIN p : ~Ending(p[i], a)
    BY DEF TrackedShown
  <2>2. PICK i : Heeded(p, c, i) /\ p[i].kind = "Started" /\ p[i].attempt = a
    BY <1>3, <1>11 DEF TrackedShown
  <2> QED
    BY <2>1, <2>2, <1>1, <1>10
<1>14. ShownTracked(n, q, d)
  BY <1>11 DEF ShownTracked
<1>15. ToBeShown(n, q, d)
  <2> SUFFICES ASSUME NEW i, Heeded(q, d, i), q[i].kind \in {"Started", "Updated"}
               PROVE  /\ \/ TrackedBy(n, q[i].attempt)
                         \/ \E j \in DOMAIN q : j > i /\ Ending(q[j], q[i].attempt)
                      /\ q[i].kind = "Started" => q[i].attempt > n.floor
    BY DEF ToBeShown
  <2>1. i \in Nat /\ Heeded(p, c, i + 1) /\ q[i] = p[i + 1]
    BY <1>1, <1>10
  <2>2. /\ \/ TrackedBy(n, q[i].attempt)
           \/ \E j \in DOMAIN p : j > i + 1 /\ Ending(p[j], q[i].attempt)
        /\ q[i].kind = "Started" => q[i].attempt > n.floor
    BY <2>1 DEF ToBeShown
  <2>3. \A j \in DOMAIN p : j > i + 1 => j - 1 \in DOMAIN q /\ p[j] = q[j - 1] /\ j - 1 > i
    BY <1>1, <2>1
  <2> QED
    BY <2>2, <2>3
<1> QED
  BY <1>12, <1>13, <1>14, <1>15 DEF q, d

\* A barrier that is awaited comes.
LEMMA BarrierAdded ==
    ASSUME NEW p \in Seq(Message), NEW x \in Message, x.kind = "RuntimeReset",
           NEW n, NEW m, NEW c, Coherent(c), c.awaiting, Barriers(p) = {},
           n.nextAttempt \in Nat, c.highest < n.nextAttempt,
           \A i \in DOMAIN p : Counted(n, p[i]), NumberedIn(p, c.highest),
           x.floor = n.nextAttempt, m.session # Never, m.floor = n.nextAttempt,
           \A a : ~TrackedBy(m, a)
    PROVE  LET r == p \o <<x>>
           IN  /\ AwaitedIn(m, r, c, 0)
               /\ TrackedShown(m, r, c, 0) /\ ShownTracked(m, r, c) /\ ToBeShown(m, r, c)
<1> DEFINE r == p \o <<x>>
           l == Len(p) + 1
<1>1. /\ DOMAIN p = 1 .. Len(p) /\ Len(p) \in Nat
      /\ DOMAIN r = 1 .. l
      /\ r[l] = x /\ \A i \in DOMAIN p : r[i] = p[i]
  OBVIOUS
<1> HIDE DEF r
<1>2. Barriers(r) = {l}
  BY <1>1 DEF Barriers
<1>3. AwaitedIn(m, r, c, 0)
  BY <1>1, <1>2 DEF AwaitedIn
<1>4. \A a : Phase(c, a) # "TRACKING"
  BY PhaseOf
<1>5. \A i : ~Heeded(r, c, i)
  BY <1>1, <1>2 DEF Heeded
<1> QED
  BY <1>3, <1>4, <1>5 DEF TrackedShown, ShownTracked, ToBeShown, r

\* The barrier has a number of its own.
LEMMA BarrierNumbered ==
    ASSUME NEW p \in Seq(Message), NEW x \in Message, x.kind = "RuntimeReset",
           NEW n, NEW highest \in Nat, n.nextAttempt \in Nat, highest < n.nextAttempt,
           \A i \in DOMAIN p : Counted(n, p[i]), NumberedIn(p, highest),
           x.floor = n.nextAttempt
    PROVE  NumberedIn(p \o <<x>>, highest)
<1> DEFINE q == <<x>>
<1>1. q \in Seq(Message) /\ \A i \in DOMAIN q : i = 1 /\ q[i] = x
  OBVIOUS
<1>2. \A i \in DOMAIN q, k \in Nat : Fresh(q[i], k) => i = 1 /\ k = n.nextAttempt
  BY <1>1 DEF Fresh
<1> HIDE DEF q
<1>3. NumberedIn(p \o q, highest)
  BY <1>1, <1>2, NumberedLonger
<1> QED
  BY <1>3 DEF q

\* The runtime is reset, and its barrier is on the way.
LEMMA NativeResetScreen ==
    ASSUME Base, Screen, ~resets.crossed, NativeReset
    PROVE  Screen'
<1>1. PICK m : Becomes(m) /\ Restarted(native, m) /\ Resting(m)
  BY ResetStep DEF Base
<1> DEFINE x == ResetMessage(native.nextAttempt)
<1>2. /\ native.nextAttempt \in Nat /\ coordinator.highest < native.nextAttempt
      /\ Coherent(coordinator) /\ coordinator.highest \in Nat
      /\ NumberedIn(pipe, coordinator.highest)
  BY DEF Base, Steady, Counts, Screen, Coordinated, Coherent, Numbered
<1>3. /\ m.out = <<x>> /\ m.floor = native.nextAttempt /\ m.session = native.session
      /\ m.nextAttempt = native.nextAttempt + 1 /\ m.lboard = [lb \in Leaderboards |-> "active"]
  BY <1>1 DEF Restarted, Like, Fields
<1>4. x \in Message /\ x.kind = "RuntimeReset" /\ x.floor = native.nextAttempt
  BY <1>2, ResetMessageFacts
<1>5. /\ pipe' = pipe \o <<x>> /\ pipe \in Seq(Message)
      /\ \A i \in DOMAIN pipe : Counted(native, pipe[i])
  BY <1>1, <1>3 DEF Becomes, Base, Piped
<1>6. /\ native'.session = native.session /\ native'.floor = native.nextAttempt
      /\ native'.nextAttempt = native.nextAttempt + 1
      /\ native'.lboard = [lb \in Leaderboards |-> "active"]
  BY <1>1, <1>3, Quieted
<1>7. \A a : ~TrackedBy(native', a)
  BY <1>6 DEF TrackedBy
<1> HIDE DEF x
<1>8. /\ UNCHANGED <<coordinator, session>> /\ resets.waiting > 0
      /\ resets'.waiting = resets.waiting - 1 /\ resets'.crossed = resets.crossed
  BY DEF NativeReset, Base, Shapes
<1>9. Coordinated' /\ Numbered'
  BY <1>2, <1>4, <1>5, BarrierNumbered, <1>8, <1>6 DEF Numbered, Coordinated
<1>10. CASE session.number = Never
  BY <1>6, <1>10, <1>8, <1>9 DEF Live, Base, InSession, Screen, Awaited, Shown
<1>11. CASE session.number # Never
  <2>1. AwaitedIn(native, pipe, coordinator, resets.waiting)
    BY <1>11 DEF Screen, Awaited
  <2>2. /\ coordinator.awaiting /\ resets.waiting = 1 /\ Barriers(pipe) = {}
        /\ native.session # Never
    BY <1>8, <2>1 DEF AwaitedIn
  <2>3. resets'.waiting = 0
    BY <1>8, <2>2
  <2>4. /\ AwaitedIn(native', pipe \o <<x>>, coordinator, 0)
        /\ TrackedShown(native', pipe \o <<x>>, coordinator, 0)
        /\ ShownTracked(native', pipe \o <<x>>, coordinator)
        /\ ToBeShown(native', pipe \o <<x>>, coordinator)
    BY <1>2, <1>4, <1>5, <1>6, <1>7, <2>2, BarrierAdded
  <2> QED
    BY <1>5, <1>8, <1>9, <2>3, <2>4 DEF Screen, Awaited, Shown
<1> QED
  BY <1>10, <1>11

\* A session becomes the runtime's.
LEMMA ActivateScreen ==
    ASSUME Base, Screen, ActivateSession
    PROVE  Screen'
<1>0. session.number \in Nat /\ session.number # Never /\ ~Live
  BY DEF Base, InSession, ActivateSession
<1>1. PICK m : Becomes(m) /\ Activated(native, m, session.number) /\ Resting(m)
  BY <1>0, ActivateStep DEF Base
<1> DEFINE x == ResetMessage(native.nextAttempt)
<1>2. /\ native.nextAttempt \in Nat /\ coordinator.highest < native.nextAttempt
      /\ Coherent(coordinator) /\ coordinator.highest \in Nat
      /\ NumberedIn(pipe, coordinator.highest)
  BY DEF Base, Steady, Counts, Screen, Coordinated, Coherent, Numbered
<1>3. /\ m.out = <<x>> /\ m.floor = native.nextAttempt /\ m.session = session.number
      /\ m.nextAttempt = native.nextAttempt + 1 /\ m.lboard = [lb \in Leaderboards |-> "active"]
  BY <1>1 DEF Activated, Empty
<1>4. x \in Message /\ x.kind = "RuntimeReset" /\ x.floor = native.nextAttempt
  BY <1>2, ResetMessageFacts
<1>5. /\ pipe' = pipe \o <<x>> /\ pipe \in Seq(Message)
      /\ \A i \in DOMAIN pipe : Counted(native, pipe[i])
  BY <1>1, <1>3 DEF Becomes, Base, Piped
<1>6. /\ native'.session = session.number /\ native'.floor = native.nextAttempt
      /\ native'.nextAttempt = native.nextAttempt + 1
      /\ native'.lboard = [lb \in Leaderboards |-> "active"]
  BY <1>1, <1>3, Quieted
<1>7. \A a : ~TrackedBy(native', a)
  BY <1>6 DEF TrackedBy
<1> HIDE DEF x
<1>8. UNCHANGED <<coordinator, session, resets>>
  BY DEF ActivateSession
<1>9. Coordinated' /\ Numbered'
  BY <1>2, <1>4, <1>5, <1>6, <1>8, BarrierNumbered DEF Coordinated, Numbered
<1>10. ASSUME ~resets.crossed
       PROVE  Awaited' /\ Shown'
  <2>1. AwaitedIn(native, pipe, coordinator, resets.waiting)
    BY <1>0, <1>10 DEF Screen, Awaited
  <2>2. coordinator.awaiting /\ resets.waiting = 0 /\ Barriers(pipe) = {}
    BY <1>0, <2>1 DEF AwaitedIn, Live
  <2>4. /\ AwaitedIn(native', pipe \o <<x>>, coordinator, 0)
        /\ TrackedShown(native', pipe \o <<x>>, coordinator, 0)
        /\ ShownTracked(native', pipe \o <<x>>, coordinator)
        /\ ToBeShown(native', pipe \o <<x>>, coordinator)
    BY <1>0, <1>2, <1>4, <1>5, <1>6, <1>7, <2>2, BarrierAdded
  <2> QED
    BY <1>5, <1>8, <2>2, <2>4 DEF Awaited, Shown
<1> QED
  BY <1>8, <1>9, <1>10 DEF Screen

\* The app asks for a reset and begins to wait.
LEMMA ResetEmulatorScreen ==
    ASSUME Base, Screen, ResetEmulator
    PROVE  Screen'
<1> DEFINE d == BeginRuntimeReset(coordinator)
<1>1. /\ coordinator' = d /\ UNCHANGED <<native, pipe, session>> /\ session.number # Never
      /\ resets'.waiting = resets.waiting + 1
      /\ resets'.crossed = (resets.crossed \/ coordinator.awaiting)
  BY DEF ResetEmulator, Base, Shapes
<1>2. Retained(d, coordinator) /\ d.highest = coordinator.highest /\ d.awaiting = TRUE
  BY BeginFacts DEF Screen, Coordinated
<1> HIDE DEF d
<1>3. Coordinated' /\ Numbered'
  BY <1>1, <1>2 DEF Screen, Coordinated, Numbered, Retained
<1>4. ASSUME ~resets'.crossed
      PROVE  Awaited' /\ Shown'
  <2>1. ~coordinator.awaiting /\ ~resets.crossed
    BY <1>1, <1>4
  <2>2. resets.waiting = 0 /\ Barriers(pipe) = {} /\ native.session # Never
    BY <1>1, <2>1 DEF Screen, Awaited, AwaitedIn
  <2>3. resets'.waiting = 1
    BY <1>1, <2>2
  <2>4. AwaitedIn(native, pipe, d, 1)
    BY <1>2, <2>2 DEF AwaitedIn
  <2>5. \A i : ~Heeded(pipe, d, i)
    BY <1>2, <2>2 DEF Heeded
  <2>6. \A a : Phase(d, a) # "TRACKING"
    BY <1>2 DEF Retained
  <2>7. TrackedShown(native, pipe, coordinator, 0)
    BY <2>1, <2>2 DEF Screen, Shown, Live
  <2>8. /\ TrackedShown(native, pipe, d, 1)
        /\ ShownTracked(native, pipe, d) /\ ToBeShown(native, pipe, d)
    BY <2>5, <2>6, <2>7 DEF TrackedShown, ShownTracked, ToBeShown
  <2> QED
    BY <1>1, <2>3, <2>4, <2>8 DEF Awaited, Shown
<1> QED
  BY <1>3, <1>4 DEF Screen

\* A session begins: the coordinator is new.
LEMMA BeginSessionScreen ==
    ASSUME Base, Screen, BeginSession
    PROVE  Screen'
<1> DEFINE b == ResetCoordinator(coordinator)
           d == BeginRuntimeReset(b)
<1>1. PICK k \in 0 .. Len(pipe) : pipe' = SubSeq(pipe, k + 1, Len(pipe))
  BY DEF BeginSession
<1>2. /\ coordinator' = d /\ UNCHANGED native /\ session.number = Never
      /\ resets'.waiting = resets.waiting
      /\ resets'.crossed =
             (resets.waiting > 0 \/ \E i \in DOMAIN pipe' : pipe'[i].kind = "RuntimeReset")
  BY DEF BeginSession, Base, Shapes
<1>3. Coherent(b) /\ b.highest = coordinator.highest
  BY ResetCoordinatorFacts DEF Screen, Coordinated
<1>4. Retained(d, b) /\ d.highest = coordinator.highest /\ d.awaiting = TRUE
  BY <1>3, BeginFacts
<1> HIDE DEF d, b
<1>5. Coordinated'
  BY <1>2, <1>4 DEF Screen, Coordinated, Retained
<1>6. Numbered'
  <2> DEFINE r == SubSeq(pipe, k + 1, Len(pipe))
  <2>1. pipe \in Seq(Message) /\ Len(pipe) \in Nat /\ k \in Nat
    BY DEF Base, Piped
  <2>2. \A i \in DOMAIN r : i + k \in DOMAIN pipe /\ r[i] = pipe[i + k]
    BY <2>1, Later
  <2>3. r \in Seq(Message)
    BY <2>1, Later
  <2>4. DOMAIN r = 1 .. Len(r) /\ Len(r) \in Nat
    BY <2>3
  <2> HIDE DEF r
  <2> SUFFICES ASSUME NEW j \in DOMAIN r, NEW h \in Nat, Fresh(r[j], h)
               PROVE  coordinator.highest < h /\ \A i \in 1 .. j - 1 : Older(r[i], h)
    BY <1>1, <1>2, <1>4 DEF Numbered, NumberedIn, r
  <2>5. coordinator.highest < h /\ \A i \in 1 .. (j + k) - 1 : Older(pipe[i], h)
    BY <2>2 DEF Screen, Numbered, NumberedIn
  <2>6. \A i \in 1 .. j - 1 : i \in DOMAIN r /\ i + k \in 1 .. (j + k) - 1
    BY <2>1, <2>4
  <2> QED
    BY <2>2, <2>5, <2>6
<1>7. ASSUME ~resets'.crossed
      PROVE  Awaited' /\ Shown'
  <2>1. Barriers(pipe') = {}
    BY <1>2, <1>7 DEF Barriers
  <2>2. resets'.waiting = 0
    <3>1. resets.waiting \in Nat
      BY DEF Base, InSession
    <3>2. ~(resets.waiting > 0)
      BY <1>2, <1>7
    <3>3. resets'.waiting = resets.waiting
      BY <1>2
    <3> HIDE DEF d, b
    <3> QED
      BY <3>1, <3>2, <3>3
  <2>3. native.session = Never
    BY <1>2 DEF Base, InSession, Live
  <2>4. AwaitedIn(native', pipe', coordinator', resets'.waiting)
    BY <1>2, <1>4, <2>1, <2>2, <2>3 DEF AwaitedIn
  <2> QED
    BY <1>2, <2>3, <2>4 DEF Awaited, Shown, Live
<1> QED
  BY <1>5, <1>6, <1>7 DEF Screen

\* A session ends.
LEMMA StopSessionScreen ==
    ASSUME Base, Screen, StopSession
    PROVE  Screen'
<1> DEFINE d == ResetCoordinator(coordinator)
           m == Cleared(native)
<1>1. /\ coordinator' = d /\ native' = m /\ UNCHANGED <<pipe, resets>>
      /\ session'.number = Never
  BY DEF StopSession, Base, Shapes
<1>2. Coherent(d) /\ d.highest = coordinator.highest
  BY ResetCoordinatorFacts DEF Screen, Coordinated
<1>3. m.session = Never /\ m.nextAttempt = native.nextAttempt
  BY ClearFacts DEF Base, Steady, Counts
<1> HIDE DEF d, m
<1> QED
  BY <1>1, <1>2, <1>3 DEF Screen, Coordinated, Numbered, Awaited, Shown, Live

\* Steps that leave the screen and what it depends on alone.
LEMMA StillScreen ==
    ASSUME Screen, UNCHANGED <<native, pipe, coordinator, resets>>,
           session'.number = session.number
    PROVE  Screen'
BY DEF Screen, Coordinated, Numbered, Awaited, Shown, Live

\* The app reads the barrier.
LEMMA ResetReadScreen ==
    ASSUME Base, Screen, ReadRuntimeReset
    PROVE  Screen'
<1> DEFINE e == Head(pipe)
           d == CompleteRuntimeReset(coordinator, e.floor)
<1>1. /\ pipe # <<>> /\ e.kind = "RuntimeReset" /\ pipe' = Tail(pipe) /\ coordinator' = d
      /\ UNCHANGED <<native, session, resets>>
  BY DEF ReadRuntimeReset, Reads
<1>2. /\ pipe \in Seq(Message) /\ e \in Message /\ e = pipe[1] /\ 1 \in DOMAIN pipe
  BY <1>1, Rest DEF Base, Piped
<1>3. e.floor \in Nat /\ e.floor < native.nextAttempt
  BY <1>1, <1>2, MessageFacts DEF Base, Piped, Counted
<1>4. /\ Coherent(coordinator) /\ coordinator.highest \in Nat
      /\ coordinator.highest < native.nextAttempt /\ NumberedIn(pipe, coordinator.highest)
  BY DEF Screen, Coordinated, Coherent, Numbered
<1>5. Coherent(d) /\ d.highest = Higher(coordinator.highest, e.floor)
  BY <1>3, <1>4, CompleteFacts DEF Retained
<1>6. Coordinated'
  <2>1. d.highest < native.nextAttempt
    BY <1>3, <1>4, <1>5 DEF Higher
  <2> HIDE DEF d
  <2> QED
    BY <1>1, <1>5, <2>1 DEF Coordinated
<1>7. Numbered'
  <2>1. \A k \in Nat : coordinator.highest < k /\ Older(e, k) => d.highest < k
    BY <1>1, <1>5 DEF Older, Higher
  <2>2. NumberedIn(Tail(pipe), d.highest)
    BY <1>1, <1>2, <1>4, <2>1, NumberedRest
  <2> HIDE DEF d
  <2> QED
    BY <1>1, <2>2 DEF Numbered
<1>8. ASSUME ~resets.crossed
      PROVE  Awaited' /\ Shown'
  <2>1. CASE session.number = Never
    BY <1>1, <2>1 DEF Awaited, Shown, Live, Base, InSession
  <2>2. CASE session.number # Never
    <3>1. AwaitedIn(native, pipe, coordinator, resets.waiting)
      BY <1>8, <2>2 DEF Screen, Awaited
    <3>2. 1 \in Barriers(pipe)
      BY <1>1, <1>2 DEF Barriers
    <3>3. native.session # Never
      BY <3>1, <3>2 DEF AwaitedIn
    <3>4. /\ TrackedShown(native, pipe, coordinator, resets.waiting)
          /\ ShownTracked(native, pipe, coordinator)
          /\ ToBeShown(native, pipe, coordinator)
      BY <1>8, <3>3 DEF Screen, Shown, Live
    <3>5. /\ AwaitedIn(native, Tail(pipe), d, resets.waiting)
          /\ TrackedShown(native, Tail(pipe), d, resets.waiting)
          /\ ShownTracked(native, Tail(pipe), d) /\ ToBeShown(native, Tail(pipe), d)
      BY <1>1, <1>2, <1>4, <3>1, <3>3, <3>4, ShownReset
    <3> HIDE DEF d
    <3> QED
      BY <1>1, <3>5 DEF Awaited, Shown
  <2> QED
    BY <2>1, <2>2
<1> QED
  BY <1>1, <1>6, <1>7, <1>8 DEF Screen

\* The app reads another message.
LEMMA MessageReadScreen ==
    ASSUME Base, Screen, pipe # <<>>, Head(pipe).kind # "RuntimeReset",
           pipe' = Tail(pipe), UNCHANGED <<native, session, resets>>,
           Follows(coordinator', coordinator, Head(pipe)),
           Live => Reacts(coordinator', coordinator, Head(pipe))
    PROVE  Screen'
<1> DEFINE e == Head(pipe)
<1>2. /\ pipe \in Seq(Message) /\ e \in Message /\ e = pipe[1] /\ 1 \in DOMAIN pipe
  BY Rest DEF Base, Piped
<1>3. e.kind \in AttemptKinds => e.attempt \in Nat /\ e.attempt < native.nextAttempt
  BY <1>2, MessageFacts DEF Base, Piped, Counted
<1>4. /\ Coherent(coordinator) /\ coordinator.highest \in Nat
      /\ coordinator.highest < native.nextAttempt /\ NumberedIn(pipe, coordinator.highest)
  BY DEF Screen, Coordinated, Coherent, Numbered
<1>6. Coordinated'
  BY <1>3, <1>4 DEF Coordinated, Follows
<1>7. Numbered'
  BY <1>2, <1>4, NumberedRest DEF Older, Follows, Numbered
<1>8. ASSUME ~resets.crossed
      PROVE  Awaited' /\ Shown'
  BY <1>8, <1>2, AwaitedRest, <1>4, ShownRest DEF Awaited, Shown, Live, Base, InSession,
     Screen, Follows
<1> QED
  BY <1>6, <1>7, <1>8 DEF Screen

\* Whatever the app reads keeps Screen,
LEMMA ReadsScreen ==
    ASSUME Base, Screen, Read
    PROVE  Screen'
<1> DEFINE e == Head(pipe)
<1>1. CASE ReadRuntimeReset
  BY <1>1, ResetReadScreen
<1>2. Coherent(coordinator)
  BY DEF Screen, Coordinated
<1>3. CASE ReadAttemptEvent
  <2>1. /\ pipe # <<>> /\ e.kind \in AttemptKinds /\ pipe' = Tail(pipe)
        /\ UNCHANGED <<native, session, resets>>
        /\ coordinator' = IF session.open THEN Reduce(coordinator, e) ELSE coordinator
    BY <1>3 DEF ReadAttemptEvent, Reads, AttemptKinds
  <2>2. e \in Message
    BY <2>1, Rest DEF Base, Piped
  <2>3. e.kind # "RuntimeReset"
    BY <2>1 DEF AttemptKinds, Results
  <2> HIDE DEF e
  <2>4. Follows(coordinator', coordinator, e) /\ (session.open => Reacts(coordinator', coordinator, e))
    BY <1>2, <2>1, <2>2, ReduceFollows, SameFollows
  <2>5. Live => Reacts(coordinator', coordinator, e)
    BY <2>4 DEF Base, InSession
  <2> QED
    BY <2>1, <2>3, <2>4, <2>5, MessageReadScreen DEF e
<1>4. CASE ReadAdded \/ ReadResolved \/ ReadBarrier
  <2>1. /\ pipe # <<>> /\ e.kind \in SessionKinds /\ pipe' = Tail(pipe)
        /\ UNCHANGED <<native, session, resets, coordinator>>
    BY <1>4 DEF ReadAdded, ReadResolved, ReadBarrier, Reads, SessionKinds
  <2>2. e.kind # "RuntimeReset" /\ e.kind \notin AttemptKinds
    BY <2>1 DEF AttemptKinds, SessionKinds, Results
  <2> HIDE DEF e
  <2>3. Follows(coordinator, coordinator, e) /\ Reacts(coordinator, coordinator, e)
    BY <1>2, <2>2, SameFollows
  <2> QED
    BY <2>1, <2>2, <2>3, MessageReadScreen DEF e
<1> QED
  BY <1>1, <1>3, <1>4 DEF Read

\* and so do a refresh,
LEMMA RefreshScreen ==
    ASSUME Base, Screen, RefreshMirror, UNCHANGED <<coordinator, session, resets>>
    PROVE  Screen'
<1>1. Live
  BY DEF RefreshMirror
<1>2. PICK m : Becomes(m) /\ Refreshed(native, m) /\ Resting(m)
  BY RefreshStep DEF Base
<1>3. Goes(native, m) /\ Screens(native, m)
  BY <1>1, <1>2, LiveSession, RefreshedGoes, RefreshedScreens DEF Base
<1> QED
  BY <1>1, <1>2, <1>3, GoesScreen

\* a frame,
LEMMA FramesScreen ==
    ASSUME Base, Screen, Frame, muddled' = {}
    PROVE  Screen'
<1>1. FrameAround => /\ Live /\ native.session \in Nat \ {0}
                     /\ UNCHANGED <<coordinator, session, resets>>
  BY LiveSession DEF FrameAround, FrameMayRun
<1>2. ASSUME NEW lb \in Leaderboards, StartAttempt(lb)
      PROVE  Screen'
  <2>1. PICK m : Becomes(m) /\ Start(native, m, lb) /\ Resting(m)
    BY <1>2, StartStep DEF Base
  <2>2. FrameAround /\ native.lboard[lb] = "active"
    BY <1>2, StartStep DEF Base
  <2>3. Goes(native, m) /\ Screens(native, m)
    BY <2>1, <2>2, StartGoes, StartScreens DEF Base
  <2> QED
    BY <1>1, <2>1, <2>2, <2>3, GoesScreen
<1>3. ASSUME NEW lb \in Leaderboards, CancelAttempt(lb)
      PROVE  Screen'
  <2>1. PICK m : Becomes(m) /\ Cancel(native, m, lb) /\ Resting(m)
    BY <1>3, CancelStep DEF Base
  <2>2. FrameAround /\ native.lboard[lb] = "tracking"
    BY <1>3, CancelStep DEF Base
  <2>3. Goes(native, m) /\ Screens(native, m)
    BY <2>1, <2>2, CancelGoes, CancelScreens DEF Base
  <2> QED
    BY <1>1, <2>1, <2>2, <2>3, GoesScreen
<1>4. ASSUME NEW lb \in Leaderboards, SubmitAttempt(lb)
      PROVE  Screen'
  <2>1. PICK m, answer, t : Becomes(m) /\ Submit(native, m, lb, t, answer) /\ Resting(m)
    BY <1>4, SubmitStep DEF Base
  <2>2. FrameAround /\ Apart(native, lb)
    BY <1>4, SubmitStep DEF Base
  <2>3. Goes(native, m) /\ Screens(native, m)
    BY <1>1, <2>1, <2>2, SubmitGoes, SubmitScreens DEF Base
  <2> QED
    BY <1>1, <2>1, <2>2, <2>3, GoesScreen
<1>5. ASSUME NEW t \in Tokens, RetryScheduled(t)
      PROVE  Screen'
  <2>1. PICK m, answer : /\ answer \in Answers
                         /\ Becomes(m) /\ Retried(native, m, t, answer) /\ Resting(m)
    BY <1>5, RetryStep DEF Base
  <2>2. FrameAround /\ t \in DOMAIN native.scheduled
    BY <1>5, RetryStep DEF Base
  <2>3. Goes(native, m) /\ Screens(native, m)
    BY <1>1, <2>1, <2>2, RetriedGoes, RetriedScreens DEF Base
  <2> QED
    BY <1>1, <2>1, <2>2, <2>3, GoesScreen
<1> QED
  BY <1>2, <1>3, <1>4, <1>5 DEF Frame

\* a synchronisation
LEMMA SynchroniseScreen ==
    ASSUME Base, Screen, Synchronise, muddled' = {}
    PROVE  Screen'
<1>1. CASE BeginSync
  <2>1. RefreshMirror /\ UNCHANGED <<coordinator, session, resets>>
    BY <1>1 DEF BeginSync
  <2> QED
    BY <2>1, RefreshScreen
<1>2. CASE VerifySync \/ SyncTimesOut \/ PlanSync \/ ApplySync
  BY <1>2, StillScreen DEF VerifySync, SyncTimesOut, PlanSync, ApplySync
<1>3. CASE RetryRecord
  BY <1>3, RecordStep, StillScreen, LiveSession, RetriedGoes, RetriedScreens, GoesScreen
     DEF Base, InSession, NoFlight
<1> QED
  BY <1>1, <1>2, <1>3 DEF Synchronise

\* and the exit.
LEMMA LeaveScreen ==
    ASSUME Base, Screen, Leave
    PROVE  Screen'
<1>1. CASE LeaveGame
  <2>1. RefreshMirror /\ UNCHANGED <<coordinator, session, resets>>
    BY <1>1 DEF LeaveGame
  <2> QED
    BY <2>1, RefreshScreen
<1>2. CASE VerifyLeaving \/ LeavingTimesOut \/ ContinuePlaying \/ LeaveSynchronised
               \/ DiscardRecords
  BY <1>2, StillScreen DEF VerifyLeaving, LeavingTimesOut, ContinuePlaying,
     LeaveSynchronised, DiscardRecords
<1>3. CASE DiscardScores
  <2>1. /\ exit.stage = "asked" /\ UNCHANGED <<coordinator, session, resets>>
        /\ \/ \E m : Becomes(m) /\ Resting(m) /\ Discards(native, m, DOMAIN store.records)
           \/ RefreshMirror
    BY <1>3, DiscardStep DEF Base
  <2>2. CASE RefreshMirror
    BY <2>1, <2>2, RefreshScreen
  <2>3. ASSUME NEW m, Becomes(m), Resting(m), Discards(native, m, DOMAIN store.records)
        PROVE  Screen'
    <3>1. Live
      BY <2>1 DEF Base, InSession, NoExit
    <3>2. Goes(native, m) /\ Screens(native, m)
      BY <2>3, DiscardsGoes, DiscardsScreens DEF Base
    <3> QED
      BY <2>1, <2>3, <3>1, <3>2, GoesScreen
  <2> QED
    BY <2>1, <2>2, <2>3
<1> QED
  BY <1>1, <1>2, <1>3 DEF Leave

\* Every step keeps Screen.
LEMMA ScreenNext ==
    ASSUME Base, Screen, Next, muddled' = {}
    PROVE  Screen'
BY BeginSessionScreen, StillScreen, ActivateScreen, StopSessionScreen, FramesScreen,
   ReadsScreen, ResetEmulatorScreen, NativeResetScreen, SynchroniseScreen, LeaveScreen
   DEF Next, Sound, OpenSession, Base, Shapes, Sessions

\* It holds at the start.
LEMMA ScreenInit ==
    ASSUME Init
    PROVE  Screen
<1>1. /\ native = InitialRuntime /\ pipe = <<>> /\ coordinator = InitialCoordinator
      /\ session.number = Never /\ native.session = Never
  BY DEF Init, InitialRuntime, Cleared
<1>2. Base
  BY BaseInit
<1>3. Coordinated
  <2>1. native.nextAttempt \in Nat \ {0}
    BY <1>2 DEF Base, Steady, Counts
  <2>2. Coherent(coordinator) /\ coordinator.highest = 0
    <3> DEFINE none == <<>>
               no == FALSE
    <3>1. DOMAIN none = {} /\ no \in BOOLEAN
      OBVIOUS
    <3> HIDE DEF none, no
    <3>2. coordinator = [states |-> none, latest |-> none, highest |-> 0, floor |-> 0,
                         awaiting |-> no]
      BY <1>1 DEF InitialCoordinator, none, no
    <3>3. /\ coordinator.states = none /\ coordinator.latest = none
          /\ coordinator.highest = 0 /\ coordinator.floor = 0 /\ coordinator.awaiting = no
      BY <3>2
    <3> QED
      BY <3>1, <3>2, <3>3 DEF Coherent
  <2> QED
    BY <2>1, <2>2 DEF Coordinated
<1>4. Numbered
  BY <1>1 DEF Numbered, NumberedIn
<1> QED
  BY <1>1, <1>3, <1>4 DEF Screen, Awaited, Shown, Live

\* What may change in the coordinator, and when.
LEMMA NothingFromBeforeResetStep ==
    ASSUME Base, Screen, Next, ~resets.crossed,
           NEW a \in DOMAIN coordinator'.states,
           Phase(coordinator', a) # Phase(coordinator, a)
    PROVE  (a > native.floor /\ resets.waiting = 0) \/ Phase(coordinator, a) = "PENDING"
<1>1. Coherent(coordinator)
  BY DEF Screen, Coordinated
<1>2. CASE ReadAttemptEvent
  <2> DEFINE e == Head(pipe)
  <2>1. /\ pipe # <<>> /\ e.kind \in AttemptKinds /\ session.open
        /\ coordinator' = Reduce(coordinator, e)
    BY <1>2 DEF ReadAttemptEvent, Reads, AttemptKinds
  <2>2. e \in Message
    BY <2>1, Rest DEF Base, Piped
  <2>3. Advanced(coordinator', coordinator, e)
    BY <1>1, <2>1, <2>2, ReduceFacts
  <2>4. Coherent(coordinator') => Phase(coordinator', a) # "none"
    BY PhaseOf
  <2>5. a = e.attempt
    BY <2>3, <2>4 DEF Advanced
  <2>6. \/ a > coordinator.floor /\ ~coordinator.awaiting
        \/ Phase(coordinator, a) = "PENDING"
    BY <2>3, <2>5 DEF Advanced
  <2>7. session.number # Never
    BY <2>1 DEF Base, InSession
  <2>8. ~coordinator.awaiting => resets.waiting = 0 /\ coordinator.floor = native.floor
    BY <2>7 DEF Screen, Awaited, AwaitedIn
  <2> QED
    BY <2>6, <2>8
<1>3. ASSUME NEW m, NEW c, Retained(m, c), coordinator' = m,
             \/ c = coordinator
             \/ \A b : Phase(c, b) = "none"
      PROVE  FALSE
  BY <1>3, PhaseOf DEF Retained
<1>4. CASE ReadRuntimeReset
  <2> DEFINE e == Head(pipe)
  <2>1. /\ pipe # <<>> /\ e.kind = "RuntimeReset"
        /\ coordinator' = CompleteRuntimeReset(coordinator, e.floor)
    BY <1>4 DEF ReadRuntimeReset, Reads
  <2>2. e.floor \in Nat
    BY <2>1, Rest, MessageFacts DEF Base, Piped
  <2>3. Retained(coordinator', coordinator)
    BY <1>1, <2>1, <2>2, CompleteFacts
  <2> QED
    BY <1>3, <2>3
<1>5. CASE ResetEmulator
  BY <1>1, <1>5, BeginFacts, <1>3 DEF ResetEmulator
<1>6. CASE BeginSession
  <2> DEFINE b == ResetCoordinator(coordinator)
  <2>1. Coherent(b) /\ \A x : Phase(b, x) = "none"
    BY <1>1, ResetCoordinatorFacts
  <2>2. coordinator' = BeginRuntimeReset(b)
    BY <1>6 DEF BeginSession
  <2> HIDE DEF b
  <2>3. Retained(coordinator', b)
    BY <2>1, <2>2, BeginFacts
  <2> QED
    BY <1>3, <2>1, <2>3
<1>7. CASE StopSession
  BY <1>1, <1>7, ResetCoordinatorFacts, PhaseOf DEF StopSession
<1>8. CASE UNCHANGED coordinator
  BY <1>8
<1>9. Frame => UNCHANGED coordinator
  BY DEF Frame, StartAttempt, CancelAttempt, SubmitAttempt, RetryScheduled, FrameOf
<1>10. NativeReset => UNCHANGED coordinator
  BY DEF NativeReset
<1>11. Synchronise => UNCHANGED coordinator
  BY DEF Synchronise, BeginSync, VerifySync, SyncTimesOut, PlanSync, RetryRecord, ApplySync
<1>12. Leave => UNCHANGED coordinator
  BY DEF Leave, LeaveGame, VerifyLeaving, LeavingTimesOut, ContinuePlaying,
         LeaveSynchronised, DiscardScores, DiscardRecords
<1>13. ReadAdded \/ ReadResolved \/ ReadBarrier \/ OpenSession \/ ActivateSession
           => UNCHANGED coordinator
  BY DEF ReadAdded, ReadResolved, ReadBarrier, OpenSession, ActivateSession
<1> QED
  BY <1>2, <1>4, <1>5, <1>6, <1>7, <1>8, <1>9, <1>10, <1>11, <1>12, <1>13
     DEF Next, Read, Sessions

-----------------------------------------------------------------------------
(* What the pipe is about to say of a submission, when it gets longer...    *)

\* With q told after p.
LEMMA SaysLonger ==
    ASSUME NEW p \in Seq(Message), NEW q \in Seq(Message), NEW n, NEW id, NEW r
    PROVE  LET o == p \o q
           IN  /\ WillAdd(n, o, id) <=> WillAdd(n, p, id) \/ WillAdd(n, q, id)
               /\ WillResolve(n, o, id, r) <=> WillResolve(n, p, id, r) \/ WillResolve(n, q, id, r)
               /\ WillComeAndGo(n, o, id, r) <=>
                      \/ WillComeAndGo(n, p, id, r) \/ WillComeAndGo(n, q, id, r)
                      \/ WillAdd(n, p, id) /\ WillResolve(n, q, id, r)
               /\ MustGo(n, o, id, r) <=>
                      /\ MustGo(n, p, id, r) \/ WillResolve(n, q, id, r)
                      /\ MustGo(n, q, id, r)
<1> DEFINE o == p \o q
<1>1. \A i \in DOMAIN p : i \in DOMAIN o /\ o[i] = p[i]
  BY Longer
<1>2. \A i \in DOMAIN q : i + Len(p) \in DOMAIN o /\ o[i + Len(p)] = q[i]
  BY Longer
<1>3. \A i \in DOMAIN o :
          \/ i \in DOMAIN p
          \/ i > Len(p) /\ i - Len(p) \in DOMAIN q /\ o[i] = q[i - Len(p)]
  BY Longer
<1>4. /\ Len(p) \in Nat /\ \A i \in DOMAIN p : i \in Nat /\ i <= Len(p)
      /\ \A i \in DOMAIN q : i \in Nat /\ i > 0
      /\ \A i \in DOMAIN o : i \in Nat
  BY Longer
<1> HIDE DEF o
<1>5. WillAdd(n, o, id) <=> WillAdd(n, p, id) \/ WillAdd(n, q, id)
  BY <1>1, <1>2, <1>3 DEF WillAdd
<1>6. WillResolve(n, o, id, r) <=> WillResolve(n, p, id, r) \/ WillResolve(n, q, id, r)
  BY <1>1, <1>2, <1>3 DEF WillResolve
<1>7. WillComeAndGo(n, o, id, r) =>
          \/ WillComeAndGo(n, p, id, r) \/ WillComeAndGo(n, q, id, r)
          \/ WillAdd(n, p, id) /\ WillResolve(n, q, id, r)
  BY <1>1, <1>3, <1>4 DEF WillComeAndGo, WillAdd, WillResolve
<1>8. WillComeAndGo(n, p, id, r) => WillComeAndGo(n, o, id, r)
  BY <1>1 DEF WillComeAndGo
<1>9. WillComeAndGo(n, q, id, r) => WillComeAndGo(n, o, id, r)
  BY <1>4, <1>2 DEF WillComeAndGo
<1>10. WillAdd(n, p, id) /\ WillResolve(n, q, id, r) => WillComeAndGo(n, o, id, r)
  BY <1>4, <1>1, <1>2 DEF WillAdd, WillResolve, WillComeAndGo
<1>11. ASSUME MustGo(n, o, id, r)
       PROVE  MustGo(n, p, id, r) \/ WillResolve(n, q, id, r)
  <2> SUFFICES ASSUME ~WillResolve(n, q, id, r), NEW i \in DOMAIN p, Adds(n, p[i], id)
               PROVE  \E j \in DOMAIN p : i < j /\ Resolves(n, p[j], id, r)
    BY DEF MustGo
  <2>1. PICK j \in DOMAIN o : i < j /\ Resolves(n, o[j], id, r)
    BY <1>1, <1>11 DEF MustGo
  <2> QED
    BY <2>1, <1>1, <1>3 DEF WillResolve
<1>12. ASSUME MustGo(n, o, id, r)
       PROVE  MustGo(n, q, id, r)
  <2> SUFFICES ASSUME NEW i \in DOMAIN q, Adds(n, q[i], id)
               PROVE  \E j \in DOMAIN q : i < j /\ Resolves(n, q[j], id, r)
    BY DEF MustGo
  <2>1. i + Len(p) \in DOMAIN o /\ o[i + Len(p)] = q[i]
    BY <1>2
  <2>2. PICK j \in DOMAIN o : i + Len(p) < j /\ Resolves(n, o[j], id, r)
    BY <1>12, <2>1 DEF MustGo
  <2>3. j \notin DOMAIN p
    BY <1>4, <2>2
  <2>4. j - Len(p) \in DOMAIN q /\ o[j] = q[j - Len(p)]
    BY <1>3, <2>3
  <2>5. i < j - Len(p)
    BY <1>4, <2>2
  <2> QED
    BY <2>2, <2>4, <2>5
<1>13. ASSUME MustGo(n, p, id, r) \/ WillResolve(n, q, id, r), MustGo(n, q, id, r)
       PROVE  MustGo(n, o, id, r)
  <2> SUFFICES ASSUME NEW i \in DOMAIN o, Adds(n, o[i], id)
               PROVE  \E j \in DOMAIN o : i < j /\ Resolves(n, o[j], id, r)
    BY DEF MustGo
  <2>1. CASE i \in DOMAIN p
    <3>1. CASE MustGo(n, p, id, r)
      BY <2>1, <3>1, <1>1 DEF MustGo
    <3>2. CASE WillResolve(n, q, id, r)
      <4>1. PICK j \in DOMAIN q : Resolves(n, q[j], id, r)
        BY <3>2 DEF WillResolve
      <4>2. i < j + Len(p)
        BY <2>1, <1>4
      <4> QED
        BY <4>1, <4>2, <1>2
    <3> QED
      BY <1>13, <3>1, <3>2
  <2>2. CASE i \notin DOMAIN p
    <3>1. i - Len(p) \in DOMAIN q /\ o[i] = q[i - Len(p)]
      BY <2>2, <1>3
    <3>2. PICK j \in DOMAIN q : i - Len(p) < j /\ Resolves(n, q[j], id, r)
      BY <1>13, <3>1 DEF MustGo
    <3>3. i < j + Len(p)
      BY <3>2, <1>4
    <3> QED
      BY <3>2, <3>3, <1>2
  <2> QED
    BY <2>1, <2>2
<1> QED
  BY <1>5, <1>6, <1>7, <1>8, <1>9, <1>10, <1>11, <1>12, <1>13 DEF o

\* With the first message read.
(* ... and when its first message is read.                                 *)
LEMMA SaysRest ==
    ASSUME NEW p \in Seq(Message), p # <<>>, NEW n, NEW id, NEW r
    PROVE  LET e == Head(p)
               q == Tail(p)
           IN  /\ WillAdd(n, p, id) <=> Adds(n, e, id) \/ WillAdd(n, q, id)
               /\ WillResolve(n, p, id, r) <=> Resolves(n, e, id, r) \/ WillResolve(n, q, id, r)
               /\ WillComeAndGo(n, p, id, r) <=>
                      WillComeAndGo(n, q, id, r) \/ (Adds(n, e, id) /\ WillResolve(n, q, id, r))
               /\ MustGo(n, p, id, r) <=>
                      MustGo(n, q, id, r) /\ (Adds(n, e, id) => WillResolve(n, q, id, r))
<1> DEFINE e == Head(p)
           q == Tail(p)
           h == <<e>>
<1>1. h \in Seq(Message) /\ q \in Seq(Message) /\ p = h \o q /\ DOMAIN h = {1} /\ h[1] = e
  BY Shorter
<1> HIDE DEF e, q, h
<1>2. WillAdd(n, h, id) <=> Adds(n, e, id)
  BY <1>1 DEF WillAdd
<1>3. WillResolve(n, h, id, r) <=> Resolves(n, e, id, r)
  BY <1>1 DEF WillResolve
<1>4. ~WillComeAndGo(n, h, id, r)
  BY <1>1 DEF WillComeAndGo
<1>5. MustGo(n, h, id, r) <=> ~Adds(n, e, id)
  BY <1>1 DEF MustGo
<1>6. /\ WillAdd(n, h \o q, id) <=> WillAdd(n, h, id) \/ WillAdd(n, q, id)
      /\ WillResolve(n, h \o q, id, r) <=> WillResolve(n, h, id, r) \/ WillResolve(n, q, id, r)
      /\ WillComeAndGo(n, h \o q, id, r) <=>
             \/ WillComeAndGo(n, h, id, r) \/ WillComeAndGo(n, q, id, r)
             \/ WillAdd(n, h, id) /\ WillResolve(n, q, id, r)
      /\ MustGo(n, h \o q, id, r) <=>
             /\ MustGo(n, h, id, r) \/ WillResolve(n, q, id, r)
             /\ MustGo(n, q, id, r)
  BY <1>1, SaysLonger
<1>7. /\ WillAdd(n, p, id) <=> Adds(n, e, id) \/ WillAdd(n, q, id)
      /\ WillResolve(n, p, id, r) <=> Resolves(n, e, id, r) \/ WillResolve(n, q, id, r)
      /\ WillComeAndGo(n, p, id, r) <=>
             WillComeAndGo(n, q, id, r) \/ (Adds(n, e, id) /\ WillResolve(n, q, id, r))
      /\ MustGo(n, p, id, r) <=>
             MustGo(n, q, id, r) /\ (Adds(n, e, id) => WillResolve(n, q, id, r))
  BY <1>1, <1>2, <1>3, <1>4, <1>5, <1>6
<1> QED
  BY <1>7 DEF e, q

\* What is told before a barrier, as the pipe gets longer,
LEMMA ToldBeforeLonger ==
    ASSUME NEW p \in Seq(Message), NEW q \in Seq(Message), NEW n, NEW id, NEW b,
           ToldBefore(n, p, b, id), WillAdd(n, p, id) \/ ToldBefore(n, q, b, id)
    PROVE  ToldBefore(n, p \o q, b, id)
<1> DEFINE o == p \o q
<1>1. \A i \in DOMAIN p : i \in DOMAIN o /\ o[i] = p[i]
  BY Longer
<1>2. \A i \in DOMAIN q : i + Len(p) \in DOMAIN o /\ o[i + Len(p)] = q[i]
  BY Longer
<1>3. \A i \in DOMAIN o :
          \/ i \in DOMAIN p
          \/ i > Len(p) /\ i - Len(p) \in DOMAIN q /\ o[i] = q[i - Len(p)]
  BY Longer
<1>4. /\ Len(p) \in Nat /\ \A i \in DOMAIN p : i \in Nat /\ i <= Len(p)
      /\ \A i \in DOMAIN q : i \in Nat /\ i > 0
      /\ \A i \in DOMAIN o : i \in Nat
  BY Longer
<1> HIDE DEF o
<1>5. SUFFICES ASSUME NEW j \in DOMAIN o, IsBarrier(n, o[j], b)
               PROVE  \E i \in DOMAIN o : i < j /\ Adds(n, o[i], id)
  BY DEF ToldBefore, o
<1>6. CASE j \in DOMAIN p
  BY <1>1, <1>5, <1>6 DEF ToldBefore
<1>7. CASE j \notin DOMAIN p
  <2>1. j > Len(p) /\ j - Len(p) \in DOMAIN q /\ o[j] = q[j - Len(p)]
    BY <1>3, <1>7
  <2>2. CASE WillAdd(n, p, id)
    <3>1. PICK i \in DOMAIN p : Adds(n, p[i], id)
      BY <2>2 DEF WillAdd
    <3>2. i < j
      BY <2>1, <1>4
    <3> QED
      BY <3>1, <3>2, <1>1
  <2>3. CASE ToldBefore(n, q, b, id)
    <3>1. PICK i \in DOMAIN q : i < j - Len(p) /\ Adds(n, q[i], id)
      BY <1>5, <2>1, <2>3 DEF ToldBefore
    <3>2. i + Len(p) < j
      BY <3>1, <1>4
    <3> QED
      BY <3>1, <3>2, <1>2
  <2> QED
    BY <2>2, <2>3
<1> QED
  BY <1>6, <1>7

\* and as it is read.
LEMMA ToldBeforeRest ==
    ASSUME NEW p \in Seq(Message), p # <<>>, NEW n, NEW id, NEW b,
           ToldBefore(n, p, b, id)
    PROVE  /\ ~IsBarrier(n, Head(p), b)
           /\ Adds(n, Head(p), id) \/ ToldBefore(n, Tail(p), b, id)
<1> DEFINE q == Tail(p)
<1>1. /\ 1 \in DOMAIN p /\ Head(p) = p[1]
      /\ \A i : i \in DOMAIN q => i \in Nat /\ i + 1 \in DOMAIN p /\ q[i] = p[i + 1]
      /\ \A i \in DOMAIN p : i \in Nat /\ (i # 1 => i - 1 \in DOMAIN q /\ p[i] = q[i - 1])
  BY Rest
<1>2. \A i \in DOMAIN p : ~(i < 1)
  OBVIOUS
<1> HIDE DEF q
<1>3. ~IsBarrier(n, Head(p), b)
  BY <1>1, <1>2 DEF ToldBefore
<1>4. ASSUME ~Adds(n, Head(p), id), NEW j \in DOMAIN q, IsBarrier(n, q[j], b)
      PROVE  \E i \in DOMAIN q : i < j /\ Adds(n, q[i], id)
  <2>1. PICK i \in DOMAIN p : i < j + 1 /\ Adds(n, p[i], id)
    BY <1>1, <1>4 DEF ToldBefore
  <2>2. i # 1 /\ i - 1 \in DOMAIN q /\ p[i] = q[i - 1]
    BY <1>1, <1>4, <2>1
  <2>3. i - 1 < j
    BY <1>1, <2>1
  <2> QED
    BY <2>1, <2>2, <2>3
<1> QED
  BY <1>3, <1>4 DEF ToldBefore, q

-----------------------------------------------------------------------------
(* The mirror, while a session goes on.                                    *)

\* What the runtime tells of submissions is what becomes of them.
Tells(n, m) ==
    /\ \A id, a : HasAttempt(n, id, a) => HasAttempt(m, id, a)
    /\ \A id, a : HasAttempt(m, id, a) /\ ~HasAttempt(n, id, a) =>
           /\ id = n.nextSubmission /\ ~TrackedBy(m, a)
           /\ TrackedBy(n, a) \/ a = n.nextAttempt
    /\ \A a : TrackedBy(m, a) => TrackedBy(n, a) \/ a = n.nextAttempt
    /\ \A id \in PendingIds(m) \ PendingIds(n) :
           id = n.nextSubmission /\ WillAdd(n, m.out, id)
    /\ \A id, r : id \in EndedAs(n, r) => id \in EndedAs(m, r)
    /\ \A id, r : id \in EndedAs(m, r) /\ id \notin EndedAs(n, r) =>
           id \in PendingIds(n) /\ WillResolve(n, m.out, id, r)
    /\ \A i \in DOMAIN m.out : \A id : Adds(n, m.out[i], id) =>
           HasAttempt(m, id, m.out[i].attempt)
    /\ \A id \in EndedAs(m, "accepted") : MustGo(n, m.out, id, "accepted")
    /\ \A id, r : WillResolve(n, m.out, id, r) => id \in EndedAs(m, r)

\* A submission waits or is settled, never both.
LEMMA Status ==
    ASSUME NEW n, Steady(n)
    PROVE  /\ \A id \in PendingIds(n) : id \notin DOMAIN n.settled /\ id \in Nat \ {0}
                                        /\ id < n.nextSubmission
           /\ \A id \in DOMAIN n.settled : /\ id \in Nat \ {0} /\ id < n.nextSubmission
                                           /\ id \in EndedAs(n, "accepted")
                                              \/ id \in EndedAs(n, "permanent")
           /\ \A id : ~(id \in EndedAs(n, "accepted") /\ id \in EndedAs(n, "permanent"))
           /\ \A id, r : id \in EndedAs(n, r) => id \in DOMAIN n.settled
           /\ \A id, a : HasAttempt(n, id, a) => a \in Nat \ {0} /\ a < n.nextAttempt
           /\ \A id : (\E a : HasAttempt(n, id, a)) <=> ~IsGone(n, id)
           /\ DOMAIN n.pending = DOMAIN n.scheduled
<1>1. /\ DOMAIN n.pending = DOMAIN n.scheduled
      /\ \A t \in DOMAIN n.scheduled :
             /\ n.pending[t].id \in Nat \ {0} /\ n.pending[t].id < n.nextSubmission
             /\ n.pending[t].id \notin DOMAIN n.settled
  BY DEF Steady, Waiting
<1>2. \A id \in PendingIds(n) : id \notin DOMAIN n.settled /\ id \in Nat \ {0}
                                /\ id < n.nextSubmission
  BY <1>1 DEF PendingIds
<1>3. \A id \in DOMAIN n.settled : /\ id \in Nat \ {0} /\ id < n.nextSubmission
                                   /\ id \in EndedAs(n, "accepted")
                                      \/ id \in EndedAs(n, "permanent")
  BY DEF Steady, Ended, EndedAs
<1>4. \A id : ~(id \in EndedAs(n, "accepted") /\ id \in EndedAs(n, "permanent"))
  BY DEF EndedAs
<1>5. \A id, r : id \in EndedAs(n, r) => id \in DOMAIN n.settled
  BY DEF EndedAs
<1>6. ASSUME NEW t \in DOMAIN n.pending
      PROVE  n.pending[t].attempt \in Nat \ {0} /\ n.pending[t].attempt < n.nextAttempt
  <2>1. Told(n.pending[t], n.byToken[t]) /\ n.byToken[t] \in DOMAIN n.attempts
    BY <1>1, <1>6 DEF Steady, Waiting
  <2>2. n.byToken[t] \in Nat \ {0} /\ n.byToken[t] < n.nextAttempt
    BY <2>1 DEF Steady, Attempts
  <2>3. n.pending[t].attempt = n.byToken[t]
    <3> DEFINE p == n.pending[t]
    <3> HIDE DEF p
    <3>1. Told(p, n.byToken[t])
      BY <2>1 DEF p
    <3>2. p.attempt = n.byToken[t]
      BY <3>1 DEF Told
    <3> QED
      BY <3>2 DEF p
  <2> QED
    BY <2>2, <2>3
<1>7. ASSUME NEW id \in DOMAIN n.settled
      PROVE  n.settled[id].attempt \in Nat \ {0} /\ n.settled[id].attempt < n.nextAttempt
  BY DEF Steady, Ended
<1>8. \A id, a : HasAttempt(n, id, a) => a \in Nat \ {0} /\ a < n.nextAttempt
  BY <1>6, <1>7 DEF HasAttempt
<1>9. \A id : (\E a : HasAttempt(n, id, a)) <=> ~IsGone(n, id)
  BY DEF HasAttempt, IsGone, PendingIds
<1> QED
  BY <1>1, <1>2, <1>3, <1>4, <1>5, <1>8, <1>9

\* What the pipe says depends on the session only.
LEMMA SaysSame ==
    ASSUME NEW n, NEW m, m.session = n.session, NEW p, NEW id, NEW r
    PROVE  /\ WillAdd(m, p, id) <=> WillAdd(n, p, id)
           /\ WillResolve(m, p, id, r) <=> WillResolve(n, p, id, r)
           /\ WillComeAndGo(m, p, id, r) <=> WillComeAndGo(n, p, id, r)
           /\ MustGo(m, p, id, r) <=> MustGo(n, p, id, r)
BY DEF WillAdd, WillResolve, WillComeAndGo, MustGo, Adds, Resolves

\* A score belongs to one attempt, and goes on doing so.
LEMMA TellsOnce ==
    ASSUME NEW n, Steady(n), NEW m, Tells(n, m), Once(n)
    PROVE  Once(m)
<1>1. \A id, a : HasAttempt(n, id, a) => a \in Nat \ {0} /\ a < n.nextAttempt
  BY Status
<1>2. /\ \A id, a : HasAttempt(m, id, a) /\ ~HasAttempt(n, id, a) =>
             /\ id = n.nextSubmission /\ ~TrackedBy(m, a)
             /\ TrackedBy(n, a) \/ a = n.nextAttempt
      /\ \A a : TrackedBy(m, a) => TrackedBy(n, a) \/ a = n.nextAttempt
  BY DEF Tells
<1>3. \A id, a : HasAttempt(n, id, a) => ~TrackedBy(n, a) /\ a # n.nextAttempt
  BY <1>1 DEF Once, TrackedBy
<1>4. ASSUME NEW id1, NEW id2, NEW a, HasAttempt(m, id1, a), HasAttempt(m, id2, a)
      PROVE  id1 = id2
  BY <1>2, <1>3, <1>4 DEF Once
<1>5. \A id, a : HasAttempt(m, id, a) => ~TrackedBy(m, a)
  BY <1>2, <1>3
<1> QED
  BY <1>4, <1>5 DEF Once, TrackedBy

\* The store has nothing that the runtime has not counted.
LEMMA TellsRecords ==
    ASSUME NEW n, Steady(n), NEW m, Tells(n, m), Goes(n, m), NEW s, Records(n, s)
    PROVE  Records(m, s)
BY DEF Goes, Grows, Records, Tells

\* What a synchronisation has found out stays true.
LEMMA TellsApplied ==
    ASSUME NEW n, Steady(n), NEW m, Tells(n, m), Goes(n, m), NEW y, Applied(n, y)
    PROVE  Applied(m, y)
<1>1. /\ n.nextSubmission \in Nat /\ m.nextSubmission \in Nat
      /\ n.nextSubmission <= m.nextSubmission
  BY DEF Goes, Grows
<1>2. \A id : id < n.nextSubmission /\ id \notin PendingIds(n) => id \notin PendingIds(m)
  BY <1>1 DEF Tells
<1>3. \A id \in y.failed : id \in Nat /\ id < m.nextSubmission
  BY <1>1 DEF Applied
<1>4. \A id : id \notin PendingIds(n) /\ id \notin EndedAs(n, "accepted")
                  => id \notin EndedAs(m, "accepted")
  BY DEF Tells
<1>5. EndedAs(n, "accepted") \subseteq EndedAs(m, "accepted")
  BY DEF Tells
<1> QED
  BY <1>2, <1>3, <1>4, <1>5 DEF Applied

\* The mirror with what is in the pipe still agrees with the runtime.
LEMMA TellsReflects ==
    ASSUME NEW n, Steady(n), NEW m, Resting(m), Tells(n, m), Goes(n, m), NEW p \in Seq(Message),
           \A i \in DOMAIN p : Counted(n, p[i]),
           NEW s, Once(n), Records(n, s), NEW x, Reflects(n, p, s, x),
           NEW z, z.stage = x.stage, z.ids = x.ids
    PROVE  Reflects(m, p \o m.out, s, z)
<1> DEFINE q == m.out
           o == p \o q
<1>1. q \in Seq(Message) /\ m.session = n.session
  BY DEF Goes, Said
<1>2. \A id, r :
          /\ WillAdd(n, o, id) <=> WillAdd(n, p, id) \/ WillAdd(n, q, id)
          /\ WillResolve(n, o, id, r) <=> WillResolve(n, p, id, r) \/ WillResolve(n, q, id, r)
          /\ WillComeAndGo(n, o, id, r) <=>
                 \/ WillComeAndGo(n, p, id, r) \/ WillComeAndGo(n, q, id, r)
                 \/ WillAdd(n, p, id) /\ WillResolve(n, q, id, r)
          /\ MustGo(n, o, id, r) <=>
                 /\ MustGo(n, p, id, r) \/ WillResolve(n, q, id, r)
                 /\ MustGo(n, q, id, r)
  BY <1>1, SaysLonger
<1>3. \A id, r :
          /\ WillAdd(m, o, id) <=> WillAdd(n, o, id)
          /\ WillResolve(m, o, id, r) <=> WillResolve(n, o, id, r)
          /\ WillComeAndGo(m, o, id, r) <=> WillComeAndGo(n, o, id, r)
          /\ MustGo(m, o, id, r) <=> MustGo(n, o, id, r)
  BY <1>1, SaysSame
<1>4. /\ \A id, a : HasAttempt(n, id, a) => HasAttempt(m, id, a)
      /\ \A id, a : HasAttempt(m, id, a) /\ ~HasAttempt(n, id, a) =>
             /\ id = n.nextSubmission /\ ~TrackedBy(m, a)
             /\ TrackedBy(n, a) \/ a = n.nextAttempt
      /\ \A a : TrackedBy(m, a) => TrackedBy(n, a) \/ a = n.nextAttempt
      /\ \A id \in PendingIds(m) \ PendingIds(n) :
             id = n.nextSubmission /\ WillAdd(n, q, id)
      /\ \A id, r : id \in EndedAs(n, r) => id \in EndedAs(m, r)
      /\ \A id, r : id \in EndedAs(m, r) /\ id \notin EndedAs(n, r) =>
             id \in PendingIds(n) /\ WillResolve(n, q, id, r)
      /\ \A i \in DOMAIN q : \A id : Adds(n, q[i], id) => HasAttempt(m, id, q[i].attempt)
      /\ \A id \in EndedAs(m, "accepted") : MustGo(n, q, id, "accepted")
      /\ \A id, r : WillResolve(n, q, id, r) => id \in EndedAs(m, r)
  BY DEF Tells
<1>5. /\ n.nextSubmission \in Nat /\ n.nextAttempt \in Nat /\ m.nextAttempt \in Nat
      /\ n.nextAttempt <= m.nextAttempt
  BY DEF Goes, Grows
<1>6. DOMAIN s.records \subseteq s.seen /\ \A id \in s.seen : id \in Nat \ {0} /\ id < n.nextSubmission
  BY DEF Records
<1>7. \A id, a : HasAttempt(n, id, a) => a \in Nat \ {0} /\ a < n.nextAttempt
  BY Status
<1>8. \A id : (\E a : HasAttempt(n, id, a)) <=> ~IsGone(n, id)
  BY Status
<1>9. \A id : (\E a : HasAttempt(m, id, a)) <=> ~IsGone(m, id)
  BY DEF HasAttempt, IsGone, PendingIds
<1>10. \A id \in PendingIds(m) : id \notin DOMAIN m.settled
  BY DEF PendingIds, Resting, Waiting
<1>11. \A id, r : WillResolve(n, p, id, r) => id < n.nextSubmission
  BY DEF WillResolve, Resolves, Counted
<1> HIDE DEF q, o
<1>12. WaitingTold(m, o, s)
  <2> SUFFICES ASSUME NEW id \in PendingIds(m)
               PROVE  Recorded(s, id, "retryable") \/ (id \notin s.seen /\ WillAdd(n, o, id))
    BY <1>3 DEF WaitingTold
  <2>1. CASE id \in PendingIds(n)
    BY <2>1, <1>2 DEF Reflects, WaitingTold
  <2>2. CASE id \notin PendingIds(n)
    <3>1. id = n.nextSubmission /\ WillAdd(n, q, id)
      BY <2>2, <1>4
    <3>2. n.nextSubmission \notin s.seen
      BY <1>5, <1>6
    <3> QED
      BY <3>1, <3>2, <1>2
  <2> QED
    BY <2>1, <2>2
<1>13. AcceptedTold(m, o, s)
  BY <1>3, <1>2, <1>4 DEF AcceptedTold, Reflects
<1>14. RejectedTold(m, o, s)
  BY <1>3, <1>2, <1>4 DEF RejectedTold, Reflects, WaitingTold, Recorded
<1>15. GoneTold(m, o, s, z)
  BY <1>3, <1>4, <1>8, <1>9, <1>2 DEF GoneTold, WillAdd, Reflects
<1>16. TruthTold(m, o)
  BY <1>3, <1>11, <1>5, <1>4, <1>10, <1>2 DEF TruthTold, Reflects, EndedAs
<1>17. OncePerAttempt(m, o, s)
  <2>1. ASSUME NEW i \in DOMAIN o, NEW id, Adds(m, o[i], id), id \notin s.seen
        PROVE  HasAttempt(m, id, o[i].attempt)
    <3>1. Adds(n, o[i], id)
      BY <2>1, <1>1 DEF Adds
    <3>2. \/ i \in DOMAIN p /\ o[i] = p[i]
          \/ i - Len(p) \in DOMAIN q /\ o[i] = q[i - Len(p)]
      BY <1>1, Longer DEF o
    <3>3. i \in DOMAIN p /\ o[i] = p[i] => HasAttempt(n, id, o[i].attempt)
      BY <2>1, <3>1 DEF Reflects, OncePerAttempt
    <3> QED
      BY <3>1, <3>2, <3>3, <1>4
  <2>2. ASSUME NEW id, NEW a, HasAttempt(m, id, a), id \notin s.seen
        PROVE  a \notin s.attempts
    BY <1>5, <2>2, <1>4 DEF Reflects, OncePerAttempt
  <2>3. ASSUME NEW a \in s.attempts
        PROVE  a \in Nat \ {0} /\ a < m.nextAttempt /\ ~TrackedBy(m, a)
    BY <1>4, <1>5 DEF Reflects, OncePerAttempt
  <2> QED
    BY <2>1, <2>2, <2>3 DEF OncePerAttempt
<1>18. Discarded(m, s, z)
  BY <1>5, <1>6, <1>4, <1>8, <1>9 DEF Discarded, Reflects
<1> QED
  BY <1>12, <1>13, <1>14, <1>15, <1>16, <1>17, <1>18 DEF Reflects, o, q

\* Nothing becomes of any submission.
LEMMA SilentTells ==
    ASSUME NEW n, NEW m, m.pending = n.pending, m.settled = n.settled,
           \A i \in DOMAIN m.out : m.out[i].kind \notin {"Added", "Resolved"},
           \A a : TrackedBy(m, a) => TrackedBy(n, a) \/ a = n.nextAttempt
    PROVE  Tells(n, m)
BY DEF HasAttempt, PendingIds, EndedAs, Adds, Resolves, Tells, MustGo, WillResolve

\* What each operation tells of submissions is what becomes of them: a started attempt,
LEMMA StartTells ==
    ASSUME NEW n, Steady(n), NEW lb \in Leaderboards, n.lboard[lb] = "active",
           NEW m, Start(n, m, lb)
    PROVE  Tells(n, m)
<1> DEFINE x == Event("Started", lb, n.nextAttempt)
           y == Event("Updated", lb, n.nextAttempt)
<1>1. m.out = <<x, y>> /\ m.pending = n.pending /\ m.settled = n.settled
  BY DEF Start, Like, Fields
<1>2. x.kind = "Started" /\ y.kind = "Updated" /\ x.attempt = n.nextAttempt
  BY DEF Event
<1> HIDE DEF x, y
<1>3. \A i \in DOMAIN m.out : m.out[i] \in {x, y}
  BY <1>1
<1>4. 1 \in DOMAIN m.out => m.out[1] = x
  BY <1>1
<1>5. \A a : TrackedBy(m, a) => TrackedBy(n, a) \/ a = n.nextAttempt
  BY <1>2, <1>4, StartScreens DEF Screens
<1> QED
  BY <1>1, <1>2, <1>3, <1>5, SilentTells

\* What is tracked was tracked, if no attempt starts.
LEMMA ScreensTracked ==
    ASSUME NEW n, NEW m, Screens(n, m), \A i \in DOMAIN m.out : m.out[i].kind # "Started"
    PROVE  \A a : TrackedBy(m, a) => TrackedBy(n, a)
BY DEF Screens

\* a canceled one,
LEMMA CancelTells ==
    ASSUME NEW n, Steady(n), NEW lb \in Leaderboards, n.lboard[lb] = "tracking",
           NEW m, Cancel(n, m, lb)
    PROVE  Tells(n, m)
<1> DEFINE x == Event("Canceled", lb, n.active[lb])
           y == Event("Hidden", lb, n.active[lb])
<1>1. m.out = <<x, y>> /\ m.pending = n.pending /\ m.settled = n.settled
  BY DEF Cancel, Like, Fields
<1>2. x.kind = "Canceled" /\ y.kind = "Hidden"
  BY DEF Event
<1> HIDE DEF x, y
<1>3. \A i \in DOMAIN m.out : m.out[i] \in {x, y}
  BY <1>1
<1>5. \A a : TrackedBy(m, a) => TrackedBy(n, a)
  BY <1>2, <1>3, CancelScreens, ScreensTracked
<1> QED
  BY <1>1, <1>2, <1>3, <1>5, SilentTells

\* a reset,
LEMMA RestartedTells ==
    ASSUME NEW n, Steady(n), NEW m, Restarted(n, m)
    PROVE  Tells(n, m)
<1> DEFINE x == ResetMessage(n.nextAttempt)
<1>1. /\ m.out = <<x>> /\ m.pending = n.pending /\ m.settled = n.settled
      /\ m.lboard = [lb \in Leaderboards |-> "active"]
  BY DEF Restarted, Like, Fields
<1>2. x.kind = "RuntimeReset"
  BY DEF ResetMessage
<1> HIDE DEF x
<1>3. \A i \in DOMAIN m.out : m.out[i] = x
  BY <1>1
<1>4. \A a : ~TrackedBy(m, a)
  BY <1>1 DEF TrackedBy
<1> QED
  BY <1>1, <1>2, <1>3, <1>4, SilentTells

\* a submission,
LEMMA SubmitTells ==
    ASSUME NEW n, Steady(n), n.session \in Nat \ {0}, NEW lb \in Leaderboards,
           Apart(n, lb), NEW t, t \notin DOMAIN n.scheduled, NEW answer,
           NEW m, Submit(n, m, lb, t, answer)
    PROVE  Tells(n, m)
<1> DEFINE a == Entry(n, lb)
           k == n.nextSubmission
           x == IF answer = "unreachable" THEN Addition(n, k, a)
                ELSE Event(EventOf(answer), lb, a)
           y == Event("Submitted", lb, a)
           z == Event("Hidden", lb, a)
<1>1. m.settled = n.settled
  BY DEF Submit, Like, Fields
<1>2. m.out = <<x, y>> \o HiddenOf(n, lb)
  BY DEF Submit
<1>3. a \in Nat \ {0} /\ k \in Nat \ {0}
  BY EntryFacts DEF Steady, Counts
<1>4. /\ y.kind = "Submitted" /\ z.kind = "Hidden" /\ y.attempt = a
      /\ answer # "unreachable" => x.kind \in {"Scoreboard", "Failed"}
      /\ answer = "unreachable" => /\ x.kind = "Added" /\ x.session = n.session
                                   /\ x.id = k /\ x.attempt = a
  BY <1>3, AdditionFacts DEF Event, EventOf
<1>5. TrackedBy(n, a) \/ a = n.nextAttempt
  BY DEF Steady, Counts, Entry, TrackedBy
<1>6. answer = "unreachable" =>
          m.pending = With(n.pending, t, [id |-> k, attempt |-> a,
                           ready |-> TRUE, waiting |-> TRUE, published |-> TRUE])
  BY DEF Submit
<1>7. answer # "unreachable" => m.pending = n.pending
  BY DEF Submit
<1>8. Screens(n, m)
  BY SubmitScreens
<1> HIDE DEF x, y, z, a
<1>9. m.out = <<x, y>> \/ m.out = <<x, y, z>>
  <2>1. HiddenOf(n, lb) = <<>> \/ HiddenOf(n, lb) = <<z>>
    BY DEF HiddenOf, z, a
  <2>2. CASE HiddenOf(n, lb) = <<>>
    BY <1>2, <2>2
  <2>3. CASE HiddenOf(n, lb) = <<z>>
    BY <1>2, <2>3, OneMore
  <2> QED
    BY <2>1, <2>2, <2>3
<1>10. /\ \A i \in DOMAIN m.out : m.out[i] \in {x, y, z}
       /\ 1 \in DOMAIN m.out /\ 2 \in DOMAIN m.out /\ m.out[1] = x /\ m.out[2] = y
  BY <1>9
<1>11. \A i \in DOMAIN m.out : m.out[i].kind # "Started"
  BY <1>4, <1>10
<1>12. \A b : TrackedBy(m, b) => TrackedBy(n, b)
  BY <1>8, <1>11, ScreensTracked
<1>13. CASE answer # "unreachable"
  BY <1>4, <1>10, <1>13, <1>1, <1>7, <1>12, SilentTells
<1>14. CASE answer = "unreachable"
  <2> DEFINE p == [id |-> k, attempt |-> a, ready |-> TRUE, waiting |-> TRUE,
                   published |-> TRUE]
  <2>1. p.id = k /\ p.attempt = a
    OBVIOUS
  <2> HIDE DEF p
  <2>2. m.pending = With(n.pending, t, p)
    BY <1>6, <1>14 DEF p
  <2>3. DOMAIN n.pending = DOMAIN n.scheduled
    BY Status
  <2>4. /\ DOMAIN m.pending = DOMAIN n.pending \cup {t} /\ m.pending[t] = p
        /\ \A u \in DOMAIN n.pending : u # t /\ m.pending[u] = n.pending[u]
    BY <2>2, <2>3 DEF With
  <2>5. \A id, b : HasAttempt(m, id, b) <=> HasAttempt(n, id, b) \/ (id = k /\ b = a)
    BY <1>1, <2>1, <2>4 DEF HasAttempt
  <2>6. PendingIds(m) = PendingIds(n) \cup {k}
    BY <2>1, <2>4 DEF PendingIds
  <2>7. \A r : EndedAs(m, r) = EndedAs(n, r)
    BY <1>1 DEF EndedAs
  <2>8. ~TrackedBy(m, a)
    BY <1>4, <1>10, <1>8 DEF Ending, Screens
  <2>9. \A i \in DOMAIN m.out : \A id : Adds(n, m.out[i], id) =>
            id = k /\ m.out[i].attempt = a
    BY <1>4, <1>10, <1>14 DEF Adds
  <2>10. WillAdd(n, m.out, k)
    BY <1>4, <1>10, <1>14 DEF WillAdd, Adds
  <2>11. \A id, r : ~WillResolve(n, m.out, id, r)
    BY <1>4, <1>10, <1>14 DEF WillResolve, Resolves
  <2>12. \A id \in EndedAs(m, "accepted") : MustGo(n, m.out, id, "accepted")
    <3>1. \A r : k \notin EndedAs(n, r)
      BY <1>3, Status
    <3> QED
      BY <2>7, <2>9, <3>1 DEF MustGo
  <2>13. \A i \in DOMAIN m.out : \A id : Adds(n, m.out[i], id) => HasAttempt(m, id, m.out[i].attempt)
    BY <2>5, <2>9
  <2> QED
    BY <1>5, <1>12, <2>5, <2>6, <2>7, <2>8, <2>10, <2>11, <2>12, <2>13 DEF Tells
<1> QED
  BY <1>13, <1>14

\* a retry,
LEMMA RetriedTells ==
    ASSUME NEW n, Steady(n), n.session \in Nat \ {0}, NEW t \in DOMAIN n.scheduled,
           NEW answer \in Answers, NEW m, Retried(n, m, t, answer)
    PROVE  Tells(n, m)
<1>1. CASE answer = "unreachable"
  BY <1>1, SilentTells DEF Retried, Like, Fields, Steady, TrackedBy
<1>2. CASE answer # "unreachable"
  <2> DEFINE a == n.byToken[t]
             k == n.pending[t].id
             r0 == ResolutionOf(answer)
             x == Event(EventOf(answer), n.scheduled[t], a)
             y == Resolution(n, k, r0)
             v == [attempt |-> a, resolution |-> r0]
  <2>1. /\ m.pending = Without(n.pending, {t}) /\ m.settled = With(n.settled, k, v)
        /\ m.out = <<x, y>> /\ m.lboard = n.lboard /\ m.active = n.active
    BY <1>2 DEF Retried, Like, Fields
  <2>2. /\ Told(n.pending[t], a) /\ k \in Nat \ {0} /\ k \notin DOMAIN n.settled
        /\ DOMAIN n.pending = DOMAIN n.scheduled
    BY DEF Steady, Waiting
  <2>3. r0 \in {"accepted", "permanent"}
    BY DEF ResolutionOf
  <2>4. /\ x.kind \in {"Scoreboard", "Failed"}
        /\ y.kind = "Resolved" /\ y.session = n.session /\ y.id = k /\ y.resolution = r0
    BY <2>2, <2>3, ResolutionFacts DEF Event, EventOf
  <2>5. v.attempt = a /\ v.resolution = r0
    OBVIOUS
  <2>6. n.pending[t].attempt = a
    <3> DEFINE p == n.pending[t]
    <3> HIDE DEF p, a
    <3>1. Told(p, a)
      BY <2>2 DEF p
    <3> QED
      BY <3>1 DEF Told, p
  <2> HIDE DEF a, x, y, v, r0
  <2>7. /\ DOMAIN m.pending = DOMAIN n.pending \ {t}
        /\ \A u \in DOMAIN m.pending : m.pending[u] = n.pending[u]
    BY <2>1 DEF Without
  <2>8. /\ DOMAIN m.settled = DOMAIN n.settled \cup {k} /\ m.settled[k] = v
        /\ \A id \in DOMAIN n.settled : id # k /\ m.settled[id] = n.settled[id]
    BY <2>1, <2>2 DEF With
  <2>9. \A id, b : HasAttempt(m, id, b) <=> HasAttempt(n, id, b)
    BY <2>2, <2>5, <2>6, <2>7, <2>8 DEF HasAttempt
  <2>10. PendingIds(m) \subseteq PendingIds(n) /\ k \in PendingIds(n)
    BY <2>2, <2>7 DEF PendingIds
  <2>11. \A id, r : id \in EndedAs(m, r) <=> id \in EndedAs(n, r) \/ (id = k /\ r = r0)
    BY <2>5, <2>8 DEF EndedAs
  <2>12. \A b : TrackedBy(m, b) => TrackedBy(n, b)
    BY <2>1 DEF TrackedBy
  <2>13. DOMAIN m.out = {1, 2} /\ m.out[1] = x /\ m.out[2] = y
    BY <2>1
  <2>14. \A i \in DOMAIN m.out : \A id : ~Adds(n, m.out[i], id)
    BY <2>4, <2>13 DEF Adds
  <2>15. \A id, r : WillResolve(n, m.out, id, r) <=> id = k /\ r = r0
    BY <2>4, <2>13 DEF WillResolve, Resolves
  <2> QED
    BY <2>9, <2>10, <2>11, <2>12, <2>14, <2>15 DEF Tells, MustGo
<1> QED
  BY <1>1, <1>2

\* and a refresh, which tells everything again.
LEMMA RefreshedTells ==
    ASSUME NEW n, Steady(n), n.session \in Nat \ {0}, NEW m, Refreshed(n, m)
    PROVE  Tells(n, m)
<1> DEFINE o == InOrder(Replay(n))
           y == BarrierOf(n)
<1>1. /\ m.pending = n.pending /\ m.settled = n.settled
      /\ m.lboard = n.lboard /\ m.active = n.active /\ m.out = o \o <<y>>
  BY DEF Refreshed, Like, Fields
<1>2. /\ o \in Seq(Replay(n))
      /\ \A x \in Replay(n) : \E i \in DOMAIN o : o[i] = x
      /\ \A i, j \in DOMAIN o : i < j => Precedes(o[i], o[j])
  BY ReplayListed
<1>3. y.kind = "Barrier"
  BY DEF BarrierOf
<1>4. \A x \in Replay(n) : x.id \in Nat
  BY ReplayWeights
<1>5. ASSUME NEW x \in Replay(n), x.kind = "Added"
      PROVE  HasAttempt(n, x.id, x.attempt)
  BY Status, <1>5, ReplayFacts DEF Addition, HasAttempt, Resolution
<1>6. ASSUME NEW x \in Replay(n), x.kind = "Resolved"
      PROVE  x.id \in EndedAs(n, x.resolution)
  <2>1. ASSUME NEW id, NEW a, x = Addition(n, id, a)
        PROVE  FALSE
    BY <1>6, <2>1 DEF Addition
  <2>2. PICK id \in DOMAIN n.settled : x = Resolution(n, id, n.settled[id].resolution)
    BY <2>1, ReplayFacts
  <2>3. x.id = id /\ x.resolution = n.settled[id].resolution
    BY <2>2 DEF Resolution
  <2> QED
    BY <2>3 DEF EndedAs
<1> HIDE DEF o, y
<1>7. /\ \A i \in DOMAIN o : i \in DOMAIN m.out /\ m.out[i] = o[i]
      /\ \A i \in DOMAIN m.out : i \in DOMAIN o \/ m.out[i] = y
      /\ \A i \in DOMAIN o : i \in Nat /\ o[i] \in Replay(n)
  BY <1>1, <1>2
<1>8. \A i \in DOMAIN m.out : \A id : Adds(n, m.out[i], id) => HasAttempt(n, id, m.out[i].attempt)
  BY <1>3, <1>5, <1>7 DEF Adds
<1>9. \A id, r : WillResolve(n, m.out, id, r) => id \in EndedAs(n, r)
  BY <1>3, <1>6, <1>7 DEF WillResolve, Resolves
<1>10. ASSUME NEW id \in EndedAs(n, "accepted")
       PROVE  MustGo(n, m.out, id, "accepted")
  <2>1. SUFFICES ASSUME NEW i \in DOMAIN m.out, Adds(n, m.out[i], id)
        PROVE  \E j \in DOMAIN m.out : i < j /\ Resolves(n, m.out[j], id, "accepted")
    BY DEF MustGo
  <2>2. i \in DOMAIN o /\ m.out[i] = o[i] /\ o[i].kind = "Added" /\ o[i].id = id
    BY <1>3, <1>7, <2>1 DEF Adds
  <2> DEFINE x == Resolution(n, id, "accepted")
  <2>3. x \in Replay(n)
    BY ReplayFacts DEF EndedAs
  <2>4. x.kind = "Resolved" /\ x.session = n.session /\ x.id = id /\ x.resolution = "accepted"
    BY DEF Resolution
  <2> HIDE DEF x
  <2>5. PICK j \in DOMAIN o : o[j] = x
    BY <1>2, <2>3
  <2>6. id \in Nat
    BY <1>4, <2>3, <2>4
  <2>7. ~Precedes(o[j], o[i])
    BY <2>2, <2>4, <2>5, <2>6 DEF Precedes
  <2>8. i # j
    BY <2>2, <2>4, <2>5
  <2>9. i < j
    BY <1>2, <1>7, <2>2, <2>7, <2>8
  <2> QED
    BY <1>7, <2>4, <2>5, <2>9 DEF Resolves
<1>11. \A b : TrackedBy(m, b) => TrackedBy(n, b)
  BY <1>1 DEF TrackedBy
<1>12. \A id, a : HasAttempt(m, id, a) <=> HasAttempt(n, id, a)
  BY <1>1 DEF HasAttempt
<1>13. PendingIds(m) = PendingIds(n) /\ \A r : EndedAs(m, r) = EndedAs(n, r)
  BY <1>1 DEF PendingIds, EndedAs
<1> QED
  BY <1>8, <1>9, <1>10, <1>11, <1>12, <1>13 DEF Tells

\* The mirror is judged by what the runtime knows, not by what it has sent.
LEMMA SameReflects ==
    ASSUME NEW n, NEW m, m.session = n.session, m.pending = n.pending,
           m.settled = n.settled, m.lboard = n.lboard, m.active = n.active,
           m.nextAttempt = n.nextAttempt, m.nextSubmission = n.nextSubmission,
           m.nextBarrier = n.nextBarrier, NEW p, NEW s, NEW x, NEW y
    PROVE  /\ Once(n) => Once(m)
           /\ Records(n, s) => Records(m, s)
           /\ Reflects(n, p, s, x) => Reflects(m, p, s, x)
           /\ Applied(n, y) => Applied(m, y)
<1>1. /\ \A id, a : HasAttempt(m, id, a) <=> HasAttempt(n, id, a)
      /\ \A a : TrackedBy(m, a) <=> TrackedBy(n, a)
      /\ PendingIds(m) = PendingIds(n)
      /\ \A r : EndedAs(m, r) = EndedAs(n, r)
      /\ \A i, id : Adds(m, p[i], id) <=> Adds(n, p[i], id)
  BY DEF HasAttempt, TrackedBy, PendingIds, EndedAs, Adds
<1>2. \A id : IsGone(m, id) <=> IsGone(n, id)
  BY <1>1 DEF IsGone
<1>3. \A id, r :
          /\ WillAdd(m, p, id) <=> WillAdd(n, p, id)
          /\ WillResolve(m, p, id, r) <=> WillResolve(n, p, id, r)
          /\ WillComeAndGo(m, p, id, r) <=> WillComeAndGo(n, p, id, r)
          /\ MustGo(m, p, id, r) <=> MustGo(n, p, id, r)
  BY SaysSame
<1>4. Once(n) => Once(m)
  BY <1>1 DEF Once
<1>5. Records(n, s) => Records(m, s)
  BY <1>1 DEF Records
<1>6. Applied(n, y) => Applied(m, y)
  BY <1>1 DEF Applied
<1>7. /\ WaitingTold(n, p, s) => WaitingTold(m, p, s)
      /\ AcceptedTold(n, p, s) => AcceptedTold(m, p, s)
      /\ RejectedTold(n, p, s) => RejectedTold(m, p, s)
  BY <1>1, <1>3 DEF WaitingTold, AcceptedTold, RejectedTold
<1>8. /\ GoneTold(n, p, s, x) => GoneTold(m, p, s, x)
      /\ Discarded(n, s, x) => Discarded(m, s, x)
  BY <1>2, <1>3 DEF GoneTold, Discarded
<1>9. TruthTold(n, p) => TruthTold(m, p)
  BY <1>1, <1>3 DEF TruthTold
<1>10. OncePerAttempt(n, p, s) => OncePerAttempt(m, p, s)
  BY <1>1 DEF OncePerAttempt
<1> QED
  BY <1>4, <1>5, <1>6, <1>7, <1>8, <1>9, <1>10 DEF Reflects

\* Nor by where the exit is, unless scores have been discarded.
ExitKept(x, z) ==
    \/ z.stage = x.stage /\ z.ids = x.ids
    \/ x.stage # "discarded" /\ z.stage # "discarded"

\* The exit may go on.
LEMMA ExitReflects ==
    ASSUME NEW n, NEW p, NEW s, NEW x, Reflects(n, p, s, x), NEW z, ExitKept(x, z)
    PROVE  Reflects(n, p, s, z)
BY DEF Reflects, ExitKept, GoneTold, Discarded

\* Only the barrier of the store changes.
LEMMA StoreReflects ==
    ASSUME NEW n, NEW p, NEW s, NEW x, Reflects(n, p, s, x), NEW t,
           t.records = s.records, t.seen = s.seen, t.attempts = s.attempts
    PROVE  Reflects(n, p, t, x)
BY DEF Reflects, WaitingTold, AcceptedTold, RejectedTold, GoneTold, OncePerAttempt,
       Discarded, Recorded

\* The operations of the runtime.
LEMMA GoesMirror ==
    ASSUME Base, Mirrored, Live, NEW m, Becomes(m), Resting(m), Goes(native, m),
           Tells(native, m), store' = store, ExitKept(exit, exit'), Applied(m, sync')
    PROVE  Mirrored'
<1>1. /\ Steady(native) /\ pipe \in Seq(Message)
      /\ \A i \in DOMAIN pipe : Counted(native, pipe[i])
      /\ pipe' = pipe \o m.out
  BY DEF Base, Piped, Becomes
<1>2. /\ Once(native) /\ Records(native, store) /\ Reflects(native, pipe, store, exit)
  BY DEF Mirrored
<1>3. Once(m)
  BY <1>1, <1>2, TellsOnce
<1>4. Records(m, store)
  BY <1>1, <1>2, TellsRecords
<1>5. Reflects(m, pipe', store, exit)
  BY <1>1, <1>2, TellsReflects
<1>6. Reflects(m, pipe', store, exit')
  BY <1>5, ExitReflects
<1>7. /\ native'.session = m.session /\ native'.pending = m.pending
      /\ native'.settled = m.settled /\ native'.lboard = m.lboard
      /\ native'.active = m.active /\ native'.nextAttempt = m.nextAttempt
      /\ native'.nextSubmission = m.nextSubmission /\ native'.nextBarrier = m.nextBarrier
  BY Quieted
<1>8. /\ Once(native') /\ Records(native', store) /\ Reflects(native', pipe', store, exit')
      /\ Applied(native', sync')
  BY <1>3, <1>4, <1>6, <1>7, SameReflects
<1> QED
  BY <1>8 DEF Mirrored

\* A frame.
LEMMA FrameMirror ==
    ASSUME Base, Mirrored, FrameAround, NEW m, Becomes(m), Resting(m), Goes(native, m),
           Tells(native, m)
    PROVE  Mirrored'
BY TellsApplied, GoesMirror DEF FrameAround, FrameMayRun, Base, Shapes, ExitKept,
   Mirrored

\* A refresh, as part of a step that leaves the store alone.
LEMMA RefreshMirrored ==
    ASSUME Base, Mirrored, RefreshMirror, store' = store, ExitKept(exit, exit'),
           sync'.accepted \subseteq sync.accepted, sync'.failed \subseteq sync.failed
    PROVE  Mirrored'
<1>1. Live
  BY DEF RefreshMirror
<1>2. PICK m : Becomes(m) /\ Refreshed(native, m) /\ Resting(m)
  BY RefreshStep DEF Base
<1>3. Goes(native, m) /\ Tells(native, m)
  BY <1>1, <1>2, LiveSession, RefreshedGoes, RefreshedTells DEF Base
<1>4. Applied(m, sync)
  BY <1>1, <1>3, TellsApplied DEF Base, Mirrored
<1>5. Applied(m, sync')
  BY <1>4 DEF Applied
<1> QED
  BY <1>1, <1>2, <1>3, <1>5, GoesMirror

\* The runtime and the mirror stay as they are.
LEMMA StillMirror ==
    ASSUME Mirrored, UNCHANGED <<native, pipe, store>>, ExitKept(exit, exit'),
           Live => Applied(native, sync')
    PROVE  Mirrored'
BY ExitReflects DEF Mirrored, Live

\* What a retry reports is what the runtime has settled.
LEMMA ReportedApplied ==
    ASSUME Shapes, NEW m, Resting(m), Applied(m, sync), NEW id
    PROVE  Applied(m, Reported(m, id))
<1> DEFINE y == Reported(m, id)
<1>1. /\ y.accepted = sync.accepted \cup {x \in {id} \cap DOMAIN m.settled :
                                              m.settled[x].resolution = "accepted"}
      /\ y.failed = sync.failed \cup ({id} \cap FailedIds(m))
  BY DEF Reported, Shapes
<1> HIDE DEF y
<1>2. \A x \in FailedIds(m) : /\ x \in Nat /\ x < m.nextSubmission
                              /\ x \notin PendingIds(m) /\ x \notin EndedAs(m, "accepted")
  BY ZenonT(60) DEF FailedIds, Resting, Ended, Waiting, PendingIds, EndedAs
<1>3. y.accepted \subseteq EndedAs(m, "accepted")
  BY <1>1 DEF Applied, EndedAs
<1> QED
  BY <1>1, <1>2, <1>3 DEF Applied, y

\* The store with other records.
LEMMA SettleReflects ==
    ASSUME NEW n, Steady(n), NEW p, NEW s, NEW x, Records(n, s), Reflects(n, p, s, x),
           NEW A, A \subseteq EndedAs(n, "accepted"),
           NEW F, \A id \in F : id \notin PendingIds(n) /\ id \notin EndedAs(n, "accepted"),
           NEW t, t.records = Settle(s.records, A, F), t.seen = s.seen,
           t.attempts = s.attempts, t.barrier = s.barrier
    PROVE  Records(n, t) /\ Reflects(n, p, t, x)
<1>1. /\ DOMAIN t.records = DOMAIN s.records \ A
      /\ \A id \in DOMAIN t.records :
             t.records[id] = IF id \in F THEN "failed" ELSE s.records[id]
  BY DEF Settle
<1>2. \A id : id \in EndedAs(n, "accepted") => /\ id \notin PendingIds(n) /\ ~IsGone(n, id)
                                               /\ id \notin EndedAs(n, "permanent")
  BY Status DEF IsGone
<1>3. Records(n, t)
  BY <1>1 DEF Records
<1>4. WaitingTold(n, p, t) /\ RejectedTold(n, p, t)
  BY <1>1, <1>2 DEF Reflects, WaitingTold, RejectedTold, Recorded
<1>5. AcceptedTold(n, p, t) /\ GoneTold(n, p, t, x)
  BY <1>1 DEF Reflects, AcceptedTold, GoneTold
<1>6. OncePerAttempt(n, p, t)
  BY DEF Reflects, OncePerAttempt
<1>7. Discarded(n, t, x)
  BY <1>1, <1>2 DEF Reflects, Discarded
<1> QED
  BY <1>3, <1>4, <1>5, <1>6, <1>7 DEF Reflects

\* A message that makes no difference any more is read.
LEMMA RestReflects ==
    ASSUME NEW n, NEW p \in Seq(Message), p # <<>>, NEW s, NEW x, Reflects(n, p, s, x),
           \A id : Adds(n, Head(p), id) => id \in s.seen,
           \A id : Resolves(n, Head(p), id, "accepted") => id \notin DOMAIN s.records,
           \A id : Resolves(n, Head(p), id, "permanent") /\ id \in DOMAIN s.records =>
                       s.records[id] = "failed"
    PROVE  Reflects(n, Tail(p), s, x)
<1> DEFINE e == Head(p)
           q == Tail(p)
<1>1. \A id, r :
          /\ WillAdd(n, p, id) <=> Adds(n, e, id) \/ WillAdd(n, q, id)
          /\ WillResolve(n, p, id, r) <=> Resolves(n, e, id, r) \/ WillResolve(n, q, id, r)
          /\ WillComeAndGo(n, p, id, r) <=>
                 WillComeAndGo(n, q, id, r) \/ (Adds(n, e, id) /\ WillResolve(n, q, id, r))
          /\ MustGo(n, p, id, r) <=>
                 MustGo(n, q, id, r) /\ (Adds(n, e, id) => WillResolve(n, q, id, r))
  BY SaysRest
<1>2. \A i : i \in DOMAIN q => i + 1 \in DOMAIN p /\ q[i] = p[i + 1]
  BY Shorter
<1>3. /\ \A id : Adds(n, e, id) => id \in s.seen
      /\ \A id : Resolves(n, e, id, "accepted") => id \notin DOMAIN s.records
      /\ \A id : Resolves(n, e, id, "permanent") /\ id \in DOMAIN s.records =>
                     s.records[id] = "failed"
  OBVIOUS
<1> HIDE DEF e, q
<1>4. WaitingTold(n, q, s) /\ AcceptedTold(n, q, s)
  BY <1>1, <1>3 DEF Reflects, WaitingTold, AcceptedTold
<1>5. RejectedTold(n, q, s)
  BY <1>1, <1>3 DEF Reflects, RejectedTold, Recorded
<1>6. GoneTold(n, q, s, x) /\ TruthTold(n, q)
  BY <1>1 DEF Reflects, GoneTold, TruthTold
<1>7. OncePerAttempt(n, q, s)
  BY <1>2 DEF Reflects, OncePerAttempt
<1> QED
  BY <1>4, <1>5, <1>6, <1>7 DEF Reflects, q

\* A submission is added to the store.
LEMMA AddReflects ==
    ASSUME NEW n, Steady(n), Once(n), NEW p \in Seq(Message), p # <<>>, NEW s, NEW x,
           Records(n, s), Reflects(n, p, s, x),
           NEW id, Adds(n, Head(p), id), id \notin s.seen,
           NEW t, t.records = With(s.records, id, "retryable"), t.seen = s.seen \cup {id},
           t.attempts = s.attempts \cup {Head(p).attempt}, t.barrier = s.barrier
    PROVE  Records(n, t) /\ Reflects(n, p, t, x)
<1> DEFINE e == Head(p)
           a == e.attempt
<1>1. /\ DOMAIN t.records = DOMAIN s.records \cup {id} /\ t.records[id] = "retryable"
      /\ \A j \in DOMAIN s.records : j # id => t.records[j] = s.records[j]
  BY DEF With
<1>2. id \notin DOMAIN s.records
  BY DEF Records
<1>3. 1 \in DOMAIN p /\ p[1] = e
  BY Shorter
<1>4. HasAttempt(n, id, a)
  BY <1>3 DEF Reflects, OncePerAttempt
<1>5. /\ ~IsGone(n, id) /\ a \in Nat \ {0} /\ a < n.nextAttempt
      /\ id \in Nat \ {0} /\ id < n.nextSubmission
  BY <1>4, Status DEF IsGone
<1>6. ~TrackedBy(n, a)
  BY <1>4 DEF Once, TrackedBy
<1>7. Records(n, t)
  BY <1>1, <1>2, <1>5 DEF Records
<1>8. WaitingTold(n, p, t)
  BY <1>1, <1>2 DEF Reflects, WaitingTold, Recorded
<1>9. AcceptedTold(n, p, t)
  BY <1>3, <1>1, <1>2 DEF MustGo, WillResolve, Reflects, AcceptedTold
<1>10. RejectedTold(n, p, t)
  BY <1>1, <1>2 DEF WillComeAndGo, WillResolve, Reflects, RejectedTold, Recorded
<1>11. GoneTold(n, p, t, x) /\ Discarded(n, t, x)
  BY <1>1, <1>5 DEF Reflects, GoneTold, Discarded
<1> HIDE DEF a, e
<1>12. OncePerAttempt(n, p, t)
  BY <1>4, <1>5, <1>6 DEF Reflects, OncePerAttempt, Once, a, e
<1> QED
  BY <1>7, <1>8, <1>9, <1>10, <1>11, <1>12 DEF Reflects

\* What is waiting or was rejected is discarded.
LEMMA DiscardsMirror ==
    ASSUME NEW n, Steady(n), Once(n), NEW s, NEW x, NEW y, NEW p,
           Records(n, s), Reflects(n, p, s, x), Applied(n, y),
           DOMAIN s.records = PendingIds(n) \cup FailedIds(n),
           NEW m, Discards(n, m, DOMAIN s.records),
           NEW z, z.stage = "discarded", z.ids = DOMAIN s.records
    PROVE  Once(m) /\ Records(m, s) /\ Reflects(m, p, s, z) /\ Applied(m, y)
<1> DEFINE ids == DOMAIN s.records
<1>1. /\ DOMAIN m.pending = {} /\ m.settled = Without(n.settled, ids)
      /\ m.session = n.session /\ m.lboard = n.lboard /\ m.active = n.active
      /\ m.nextAttempt = n.nextAttempt /\ m.nextSubmission = n.nextSubmission
      /\ m.nextBarrier = n.nextBarrier
  BY DEF Discards, Like, Fields
<1>2. /\ DOMAIN m.settled = DOMAIN n.settled \ ids
      /\ \A id \in DOMAIN m.settled : m.settled[id] = n.settled[id]
  BY <1>1 DEF Without
<1>3. FailedIds(n) = EndedAs(n, "permanent")
  BY DEF FailedIds, EndedAs
<1>4. /\ PendingIds(m) = {} /\ EndedAs(m, "permanent") = {}
      /\ EndedAs(m, "accepted") = EndedAs(n, "accepted")
  <2>1. PendingIds(m) = {}
    BY <1>1 DEF PendingIds
  <2>2. EndedAs(m, "permanent") = {}
    BY <1>2, <1>3 DEF EndedAs
  <2>3. \A id \in ids : id \notin EndedAs(n, "accepted")
    BY <1>3, Status
  <2>4. EndedAs(m, "accepted") = EndedAs(n, "accepted")
    BY <1>2, <2>3 DEF EndedAs
  <2> QED
    BY <2>1, <2>2, <2>4
<1>5. \A id, a : HasAttempt(m, id, a) <=> HasAttempt(n, id, a) /\ id \notin ids
  BY <1>1, <1>2 DEF HasAttempt, PendingIds
<1>6. \A id : IsGone(m, id) <=> IsGone(n, id) \/ id \in ids
  BY <1>2, <1>4 DEF IsGone, PendingIds
<1>7. \A a : TrackedBy(m, a) <=> TrackedBy(n, a)
  BY <1>1 DEF TrackedBy
<1>8. \A id, r :
          /\ WillAdd(m, p, id) <=> WillAdd(n, p, id)
          /\ WillResolve(m, p, id, r) <=> WillResolve(n, p, id, r)
          /\ MustGo(m, p, id, r) <=> MustGo(n, p, id, r)
  BY <1>1, SaysSame
<1>9. ids \subseteq s.seen
  BY DEF Records
<1> HIDE DEF ids
<1>10. Once(m)
  BY <1>1, <1>5 DEF Once
<1>11. Records(m, s)
  BY <1>1, <1>4 DEF Records
<1>12. Applied(m, y)
  BY <1>1, <1>4 DEF Applied
<1>13. WaitingTold(m, p, s) /\ RejectedTold(m, p, s)
  BY <1>4 DEF WaitingTold, RejectedTold
<1>14. AcceptedTold(m, p, s)
  BY <1>4, <1>8 DEF Reflects, AcceptedTold
<1>15. GoneTold(m, p, s, z)
  BY <1>6, <1>8, <1>9 DEF Reflects, GoneTold, ids
<1>16. TruthTold(m, p)
  BY <1>4, <1>8 DEF Reflects, TruthTold
<1>17. OncePerAttempt(m, p, s)
  BY <1>1, <1>5, <1>9, <1>7 DEF Adds, Reflects, OncePerAttempt
<1>18. Discarded(m, s, z)
  BY <1>6 DEF Discarded, ids
<1> QED
  BY <1>10, <1>11, <1>12, <1>13, <1>14, <1>15, <1>16, <1>17, <1>18 DEF Reflects

\* The provers need the fields of the store one by one.
LEMMA StoreShape ==
    ASSUME Shapes, NEW records, NEW seen, NEW attempts, NEW barrier
    PROVE  LET t == [store EXCEPT !.records = records, !.seen = seen, !.attempts = attempts]
               u == [store EXCEPT !.barrier = barrier]
               v == [store EXCEPT !.records = records]
           IN  /\ t.records = records /\ t.seen = seen /\ t.attempts = attempts
               /\ t.session = store.session /\ t.barrier = store.barrier
               /\ u.records = store.records /\ u.seen = store.seen
               /\ u.attempts = store.attempts /\ u.barrier = barrier
               /\ v.records = records /\ v.seen = store.seen
               /\ v.attempts = store.attempts /\ v.barrier = store.barrier
BY DEF Shapes

\* The app reads an addition: it is new, or the store has seen it,
LEMMA ReadAddedMirror ==
    ASSUME Base, Mirrored, ReadAdded, Live
    PROVE  Mirrored'
<1> DEFINE e == Head(pipe)
           t == [store EXCEPT !.records = With(store.records, e.id, "retryable"),
                              !.seen = store.seen \cup {e.id},
                              !.attempts = store.attempts \cup {e.attempt}]
           new == /\ session.open /\ e.session = store.session
                  /\ e.id \notin store.seen /\ e.attempt \notin store.attempts
<1>1. /\ pipe # <<>> /\ e.kind = "Added" /\ pipe' = Tail(pipe)
      /\ store' = IF new THEN t ELSE store
      /\ UNCHANGED <<native, sync, exit>>
  BY DEF ReadAdded, Reads
<1>2. /\ pipe \in Seq(Message) /\ Steady(native) /\ session.open
      /\ store.session = native.session
  BY LiveSession DEF Base, Piped
<1>3. /\ Once(native) /\ Records(native, store) /\ Reflects(native, pipe, store, exit)
      /\ Applied(native, sync)
  BY DEF Mirrored
<1>4. /\ t.records = With(store.records, e.id, "retryable")
      /\ t.seen = store.seen \cup {e.id} /\ t.attempts = store.attempts \cup {e.attempt}
      /\ t.barrier = store.barrier
  BY StoreShape DEF Base
<1>5. /\ \A id : Adds(native, e, id) <=> e.session = native.session /\ id = e.id
      /\ \A id, r : ~Resolves(native, e, id, r)
  BY <1>1 DEF Adds, Resolves
<1>6. 1 \in DOMAIN pipe /\ pipe[1] = e
  BY <1>1, <1>2, Shorter
<1> HIDE DEF t, e
<1>7. CASE e.session = native.session /\ e.id \notin store.seen
  <2>1. Adds(native, e, e.id)
    BY <1>5, <1>7
  <2>2. HasAttempt(native, e.id, e.attempt)
    BY <2>1, <1>3, <1>6, <1>7 DEF Reflects, OncePerAttempt
  <2>3. e.attempt \notin store.attempts
    BY <2>2, <1>3, <1>7 DEF Reflects, OncePerAttempt
  <2>4. store' = t
    BY <2>3, <1>1, <1>2, <1>7
  <2>5. Records(native, t) /\ Reflects(native, pipe, t, exit)
    BY <2>1, <1>1, <1>2, <1>3, <1>4, <1>7, AddReflects DEF e
  <2>6. \A id : Adds(native, e, id) => id \in t.seen
    BY <1>4, <1>5
  <2>7. Reflects(native, Tail(pipe), t, exit)
    BY <2>5, <2>6, <1>1, <1>2, <1>5, RestReflects DEF e
  <2> QED
    BY <2>4, <2>5, <2>7, <1>1, <1>3 DEF Mirrored
<1>8. CASE ~(e.session = native.session /\ e.id \notin store.seen)
  BY <1>1, <1>2, <1>8, <1>5, <1>3, RestReflects DEF e, Mirrored
<1> QED
  BY <1>7, <1>8

\* a resolution: the record goes, or is marked failed,
LEMMA ReadResolvedMirror ==
    ASSUME Base, Mirrored, ReadResolved, Live
    PROVE  Mirrored'
<1> DEFINE e == Head(pipe)
           A == {id \in {e.id} : e.resolution = "accepted"}
           F == {id \in {e.id} : e.resolution = "permanent"}
           t == [store EXCEPT !.records = Settle(store.records, A, F)]
<1>1. /\ pipe # <<>> /\ e.kind = "Resolved" /\ pipe' = Tail(pipe)
      /\ store' = IF e.session = store.session THEN t ELSE store
      /\ UNCHANGED <<native, sync, exit>>
  BY DEF ReadResolved, Reads
<1>2. /\ pipe \in Seq(Message) /\ Steady(native) /\ store.session = native.session
  BY LiveSession DEF Base, Piped
<1>3. /\ Once(native) /\ Records(native, store) /\ Reflects(native, pipe, store, exit)
      /\ Applied(native, sync)
  BY DEF Mirrored
<1>4. /\ t.records = Settle(store.records, A, F) /\ t.seen = store.seen
      /\ t.attempts = store.attempts /\ t.barrier = store.barrier
  BY StoreShape DEF Base
<1>5. /\ \A id : ~Adds(native, e, id)
      /\ \A id, r : Resolves(native, e, id, r) <=>
             e.session = native.session /\ id = e.id /\ r = e.resolution
  BY <1>1 DEF Adds, Resolves
<1>6. \A id, r : Resolves(native, e, id, r) => WillResolve(native, pipe, id, r)
  BY <1>1, <1>2, SaysRest
<1>7. (\A id \in A : id = e.id /\ e.resolution = "accepted")
      /\ (\A id \in F : id = e.id /\ e.resolution = "permanent")
      /\ (e.resolution = "accepted" => e.id \in A)
      /\ (e.resolution = "permanent" => e.id \in F)
  OBVIOUS
<1> HIDE DEF t, e, A, F
<1>8. CASE e.session = native.session
  <2>1. A \subseteq EndedAs(native, "accepted")
    BY <1>3, <1>5, <1>6, <1>7, <1>8 DEF Reflects, TruthTold
  <2>2. \A id \in F : id \notin PendingIds(native) /\ id \notin EndedAs(native, "accepted")
    BY <1>3, <1>5, <1>6, <1>7, <1>8 DEF Reflects, TruthTold
  <2>3. Records(native, t) /\ Reflects(native, pipe, t, exit)
    BY <2>1, <2>2, <1>2, <1>3, <1>4, SettleReflects
  <2>4. \A id : Resolves(native, e, id, "accepted") => id \notin DOMAIN t.records
    BY <1>4, <1>5, <1>7 DEF Settle
  <2>5. \A id : Resolves(native, e, id, "permanent") /\ id \in DOMAIN t.records =>
                    t.records[id] = "failed"
    BY <1>4, <1>5, <1>7 DEF Settle
  <2>6. Reflects(native, Tail(pipe), t, exit)
    BY <2>3, <2>4, <2>5, <1>1, <1>2, <1>5, RestReflects DEF e
  <2>7. store' = t
    BY <1>1, <1>2, <1>8
  <2> QED
    BY <2>3, <2>6, <2>7, <1>1, <1>3 DEF Mirrored
<1>9. CASE e.session # native.session
  BY <1>1, <1>2, <1>3, <1>5, <1>9, RestReflects DEF e, Mirrored
<1> QED
  BY <1>8, <1>9

\* or a barrier, which settles nothing.
LEMMA ReadBarrierMirror ==
    ASSUME Base, Mirrored, ReadBarrier, Live
    PROVE  Mirrored'
<1> DEFINE e == Head(pipe)
           t == [store EXCEPT !.barrier = e.barrier]
<1>1. /\ pipe # <<>> /\ e.kind = "Barrier" /\ pipe' = Tail(pipe)
      /\ store' = IF session.open /\ e.session = store.session THEN t ELSE store
      /\ UNCHANGED <<native, sync, exit>>
  BY DEF ReadBarrier, Reads
<1>2. /\ pipe \in Seq(Message) /\ Steady(native) /\ store.session = native.session
  BY LiveSession DEF Base, Piped
<1>3. /\ Once(native) /\ Records(native, store) /\ Reflects(native, pipe, store, exit)
      /\ Applied(native, sync)
  BY DEF Mirrored
<1>4. /\ t.records = store.records /\ t.seen = store.seen
      /\ t.attempts = store.attempts /\ t.barrier = e.barrier
  BY StoreShape DEF Base
<1>5. /\ \A id : ~Adds(native, e, id)
      /\ \A id, r : ~Resolves(native, e, id, r)
  BY <1>1 DEF Adds, Resolves
<1>6. e \in Message /\ Counted(native, e)
  BY <1>1, <1>2, Shorter DEF Base, Piped
<1>7. e.barrier \in Nat /\ (e.session = native.session => e.barrier < native.nextBarrier)
  BY <1>1, <1>6, MessageFacts DEF Counted
<1> HIDE DEF t
<1>8. Reflects(native, Tail(pipe), store, exit)
  BY <1>1, <1>2, <1>3, <1>5, RestReflects
<1> HIDE DEF e
<1>9. Reflects(native, Tail(pipe), t, exit)
  BY <1>4, <1>8, StoreReflects
<1>10. CASE store' = store
  BY <1>8, <1>10, <1>1, <1>3 DEF Mirrored
<1>11. CASE store' = t /\ e.session = native.session
  BY <1>3, <1>4, <1>7, <1>11, <1>9, <1>1 DEF Records, Mirrored
<1> QED
  BY <1>1, <1>2, <1>10, <1>11

\* Whatever the app reads keeps Mirrored,
LEMMA ReadsMirror ==
    ASSUME Base, Mirrored, Read
    PROVE  Mirrored'
<1>1. CASE ~Live
  BY <1>1 DEF Read, ReadRuntimeReset, ReadAttemptEvent, ReadAdded, ReadResolved,
     ReadBarrier, Mirrored, Live
<1>2. CASE Live /\ (ReadRuntimeReset \/ ReadAttemptEvent)
  <2> DEFINE e == Head(pipe)
  <2>1. /\ pipe # <<>> /\ e.kind \notin SessionKinds /\ pipe' = Tail(pipe)
        /\ UNCHANGED <<native, store, sync, exit>>
    BY <1>2 DEF ReadRuntimeReset, ReadAttemptEvent, Reads, Results, SessionKinds
  <2>2. /\ \A id : ~Adds(native, e, id)
        /\ \A id, r : ~Resolves(native, e, id, r)
    BY <2>1 DEF Adds, Resolves, SessionKinds
  <2>3. Reflects(native, pipe, store, exit) /\ pipe \in Seq(Message)
    BY <1>2 DEF Mirrored, Base, Piped
  <2>4. Reflects(native, Tail(pipe), store, exit)
    BY <2>1, <2>2, <2>3, RestReflects
  <2> QED
    BY <1>2, <2>1, <2>4 DEF Mirrored
<1> QED
  BY <1>1, <1>2, ReadAddedMirror, ReadResolvedMirror, ReadBarrierMirror DEF Read

\* A session starts with nothing to mirror.
LEMMA ActivateMirror ==
    ASSUME Base, ActivateSession
    PROVE  Mirrored'
<1>1. /\ session.open /\ ~Live /\ session.number \in Nat \ {0}
      /\ UNCHANGED <<store, session, sync, exit>>
  BY DEF Base, InSession, ActivateSession, Never
<1>2. PICK m : Becomes(m) /\ Activated(native, m, session.number) /\ Resting(m)
  BY <1>1, ActivateStep DEF Base
<1>3. /\ store = [NoStore EXCEPT !.session = session.number] /\ sync = NoFlight
      /\ exit = NoExit
  BY <1>1 DEF Base, InSession
<1>4. /\ DOMAIN store.records = {} /\ store.seen = {} /\ store.attempts = {}
      /\ store.barrier = 0 /\ sync.accepted = {} /\ sync.failed = {}
      /\ exit.stage = "none"
  BY <1>3 DEF NoStore, NoFlight, NoExit
<1> DEFINE x == ResetMessage(native.nextAttempt)
<1>5. /\ m.session = session.number /\ m.pending = NoFunction /\ m.settled = NoFunction
      /\ m.nextBarrier = 1 /\ m.out = <<x>> /\ m.lboard = [lb \in Leaderboards |-> "active"]
  BY <1>2 DEF Activated, Empty
<1>6. x \in Message /\ x.kind = "RuntimeReset"
  BY ResetMessageFacts DEF Base, Steady, Counts
<1> HIDE DEF x
<1>7. /\ native'.session = session.number /\ native'.pending = NoFunction
      /\ native'.settled = NoFunction /\ native'.nextBarrier = 1
      /\ native'.lboard = [lb \in Leaderboards |-> "active"]
  BY <1>2, <1>5, Quieted
<1>8. DOMAIN native'.pending = {} /\ DOMAIN native'.settled = {}
  BY <1>7 DEF NoFunction
<1>9. \A i \in DOMAIN pipe' : ~(pipe'[i].kind \in SessionKinds /\ pipe'[i].session = session.number)
  <2>1. pipe' = pipe \o <<x>> /\ pipe \in Seq(Message)
    BY <1>2, <1>5 DEF Becomes, Base, Piped
  <2>2. \A i \in DOMAIN pipe' : \/ i \in DOMAIN pipe /\ pipe'[i] = pipe[i]
                                \/ pipe'[i] = x
    BY <2>1
  <2>3. \A i \in DOMAIN pipe : pipe[i].kind \in SessionKinds => pipe[i].session < session.number
    BY <1>1 DEF Base, Piped, OfSession, Live, Never
  <2>4. \A i \in DOMAIN pipe : pipe[i].kind \in SessionKinds => pipe[i].session \in Nat
    BY <2>1, MessageFacts
  <2>5. x.kind \notin SessionKinds
    BY <1>6 DEF SessionKinds
  <2>6. \A i \in DOMAIN pipe : pipe[i].kind \in SessionKinds => pipe[i].session # session.number
    BY <1>1, <2>3, <2>4
  <2> QED
    BY <2>2, <2>5, <2>6
<1>10. \A id, r : /\ ~WillAdd(native', pipe', id) /\ ~WillResolve(native', pipe', id, r)
                  /\ \A i \in DOMAIN pipe' : ~Adds(native', pipe'[i], id)
  BY <1>7, <1>9 DEF WillAdd, WillResolve, Adds, Resolves, SessionKinds
<1>11. /\ \A id, a : ~HasAttempt(native', id, a)
       /\ PendingIds(native') = {} /\ \A r : EndedAs(native', r) = {}
  BY <1>8 DEF HasAttempt, PendingIds, EndedAs
<1>12. /\ DOMAIN store'.records = {} /\ store'.seen = {} /\ store'.attempts = {}
       /\ store'.barrier = 0 /\ sync'.accepted = {} /\ sync'.failed = {}
       /\ exit'.stage = "none"
  BY <1>1, <1>4
<1>13. Once(native')
  BY <1>11 DEF Once
<1>14. Records(native', store')
  BY <1>7, <1>12 DEF Records
<1>15. Reflects(native', pipe', store', exit')
  BY <1>10, <1>11, <1>12 DEF Reflects, WaitingTold, AcceptedTold, RejectedTold, GoneTold,
     TruthTold, OncePerAttempt, Discarded
<1>16. Applied(native', sync')
  BY <1>11, <1>12 DEF Applied
<1> QED
  BY <1>13, <1>14, <1>15, <1>16 DEF Mirrored

\* Every frame keeps Mirrored,
LEMMA FramesMirror ==
    ASSUME Base, Mirrored, Frame, muddled' = {}
    PROVE  Mirrored'
<1>1. FrameAround => Live /\ native.session \in Nat \ {0}
  BY LiveSession DEF FrameAround, FrameMayRun
<1>2. ASSUME NEW lb \in Leaderboards, StartAttempt(lb)
      PROVE  Mirrored'
  <2>1. PICK m : Becomes(m) /\ Start(native, m, lb) /\ Resting(m)
    BY <1>2, StartStep DEF Base
  <2>2. FrameAround /\ native.lboard[lb] = "active"
    BY <1>2, StartStep DEF Base
  <2>3. Goes(native, m) /\ Tells(native, m)
    BY <2>1, <2>2, StartGoes, StartTells DEF Base
  <2> QED
    BY <2>1, <2>2, <2>3, FrameMirror
<1>3. ASSUME NEW lb \in Leaderboards, CancelAttempt(lb)
      PROVE  Mirrored'
  <2>1. PICK m : Becomes(m) /\ Cancel(native, m, lb) /\ Resting(m)
    BY <1>3, CancelStep DEF Base
  <2>2. FrameAround /\ native.lboard[lb] = "tracking"
    BY <1>3, CancelStep DEF Base
  <2>3. Goes(native, m) /\ Tells(native, m)
    BY <2>1, <2>2, CancelGoes, CancelTells DEF Base
  <2> QED
    BY <2>1, <2>2, <2>3, FrameMirror
<1>4. ASSUME NEW lb \in Leaderboards, SubmitAttempt(lb)
      PROVE  Mirrored'
  <2>1. PICK m, answer, t : /\ t \notin DOMAIN native.scheduled
                            /\ Becomes(m) /\ Submit(native, m, lb, t, answer) /\ Resting(m)
    BY <1>4, SubmitStep DEF Base
  <2>2. FrameAround /\ Apart(native, lb)
    BY <1>4, SubmitStep DEF Base
  <2>3. Goes(native, m) /\ Tells(native, m)
    BY <1>1, <2>1, <2>2, SubmitGoes, SubmitTells DEF Base
  <2> QED
    BY <2>1, <2>2, <2>3, FrameMirror
<1>5. ASSUME NEW t \in Tokens, RetryScheduled(t)
      PROVE  Mirrored'
  <2>1. PICK m, answer : /\ answer \in Answers
                         /\ Becomes(m) /\ Retried(native, m, t, answer) /\ Resting(m)
    BY <1>5, RetryStep DEF Base
  <2>2. FrameAround /\ t \in DOMAIN native.scheduled
    BY <1>5, RetryStep DEF Base
  <2>3. Goes(native, m) /\ Tells(native, m)
    BY <1>1, <2>1, <2>2, RetriedGoes, RetriedTells DEF Base
  <2> QED
    BY <2>1, <2>2, <2>3, FrameMirror
<1> QED
  BY <1>2, <1>3, <1>4, <1>5 DEF Frame

\* and so do a reset,
LEMMA NativeResetMirror ==
    ASSUME Base, Mirrored, NativeReset
    PROVE  Mirrored'
<1>1. PICK m : Becomes(m) /\ Restarted(native, m) /\ Resting(m)
  BY ResetStep DEF Base
<1>2. UNCHANGED <<store, sync, exit>>
  BY DEF NativeReset
<1>3. Goes(native, m) /\ Tells(native, m)
  BY <1>1, RestartedGoes, RestartedTells DEF Base
<1>4. CASE Live
  BY <1>3, <1>4, TellsApplied, <1>2, <1>1, GoesMirror DEF Base, Mirrored, ExitKept
<1>5. CASE ~Live
  BY <1>1, Quieted, <1>5 DEF Restarted, Like, Fields, Mirrored, Live
<1> QED
  BY <1>4, <1>5

\* the beginning and the end of a session,
LEMMA SessionsMirror ==
    ASSUME Base, Mirrored, Sessions
    PROVE  Mirrored'
BY ClearFacts, ActivateMirror DEF BeginSession, OpenSession, Base, InSession, Live,
   Mirrored, StopSession, Steady, Counts, Sessions

\* and the end of a synchronisation, which settles what it has found out.
LEMMA ApplySyncMirror ==
    ASSUME Base, Mirrored, ApplySync
    PROVE  Mirrored'
<1> DEFINE records == Settle(store.records, sync.accepted, sync.failed)
           t == [store EXCEPT !.records = records]
<1>1. /\ store' = t /\ sync' = NoFlight /\ UNCHANGED <<native, pipe, exit>>
      /\ sync.stage = "applying"
  BY DEF ApplySync
<1>2. Live
  BY <1>1 DEF Base, InSession, NoFlight
<1>3. /\ t.records = records /\ t.seen = store.seen /\ t.attempts = store.attempts
      /\ t.barrier = store.barrier
  BY StoreShape DEF Base
<1> HIDE DEF t
<1>4. /\ Once(native) /\ Records(native, store) /\ Reflects(native, pipe, store, exit)
      /\ Applied(native, sync) /\ Steady(native)
  BY <1>2 DEF Mirrored, Base
<1>5. /\ sync.accepted \subseteq EndedAs(native, "accepted")
      /\ \A id \in sync.failed : /\ id \notin PendingIds(native)
                                 /\ id \notin EndedAs(native, "accepted")
  BY <1>4 DEF Applied
<1>6. Records(native, t) /\ Reflects(native, pipe, t, exit)
  BY <1>3, <1>4, <1>5, SettleReflects
<1>7. Applied(native, NoFlight)
  <2>1. NoFlight.accepted = {} /\ NoFlight.failed = {}
    BY DEF NoFlight
  <2> QED
    BY <2>1 DEF Applied
<1> QED
  BY <1>1, <1>4, <1>6, <1>7 DEF Mirrored

\* Every step of a synchronisation keeps Mirrored,
LEMMA SynchroniseMirror ==
    ASSUME Base, Mirrored, Synchronise, muddled' = {}
    PROVE  Mirrored'
<1>1. CASE BeginSync
  <2>1. RefreshMirror /\ store' = store
    BY <1>1 DEF BeginSync
  <2>2. sync'.accepted = {} /\ sync'.failed = {}
    BY <1>1 DEF BeginSync, NoFlight
  <2>3. ExitKept(exit, exit')
    <3>1. CASE exit' = exit
      BY <3>1 DEF ExitKept
    <3>2. CASE exit.stage = "asked" /\ exit' = [exit EXCEPT !.stage = "syncing"]
      BY <3>2 DEF ExitKept, Base, Shapes
    <3> QED
      BY <1>1, <3>1, <3>2 DEF BeginSync
  <2> QED
    BY <2>1, <2>2, <2>3, RefreshMirrored
<1>2. CASE VerifySync \/ SyncTimesOut \/ PlanSync
  <2>1. UNCHANGED <<native, pipe, store, exit>>
    BY <1>2 DEF VerifySync, SyncTimesOut, PlanSync
  <2>2. sync'.accepted \subseteq sync.accepted /\ sync'.failed \subseteq sync.failed
    <3>1. NoFlight.accepted = {} /\ NoFlight.failed = {}
      BY DEF NoFlight
    <3>2. \A stage, ids : LET y == [sync EXCEPT !.stage = stage, !.ids = ids]
                              z == [sync EXCEPT !.stage = stage]
                          IN  /\ y.accepted = sync.accepted /\ y.failed = sync.failed
                              /\ z.accepted = sync.accepted /\ z.failed = sync.failed
      BY DEF Base, Shapes
    <3> DEFINE y == [sync EXCEPT !.stage = "ready", !.ids = Retryable]
               z == [sync EXCEPT !.stage = "retrying"]
    <3>3. sync' = NoFlight \/ sync' = y \/ sync' = z
      BY <1>2 DEF VerifySync, SyncTimesOut, PlanSync
    <3>4. /\ y.accepted = sync.accepted /\ y.failed = sync.failed
          /\ z.accepted = sync.accepted /\ z.failed = sync.failed
      BY <3>2
    <3> HIDE DEF y, z
    <3> QED
      BY <3>1, <3>3, <3>4
  <2>3. Live => Applied(native, sync')
    BY <2>2 DEF Mirrored, Applied
  <2>4. ExitKept(exit, exit')
    BY <2>1 DEF ExitKept
  <2> QED
    BY <2>1, <2>3, <2>4, StillMirror
<1>3. CASE RetryRecord
  <2>1. /\ sync.stage = "retrying" /\ UNCHANGED <<store, exit>>
        /\ \/ /\ UNCHANGED <<native, pipe>>
              /\ sync' = Reported(native, Min(sync.ids))
           \/ \E m, t, answer :
                  /\ t \in DOMAIN native.scheduled /\ answer \in Answers
                  /\ Becomes(m) /\ Retried(native, m, t, answer) /\ Resting(m)
                  /\ sync' = Reported(m, Min(sync.ids))
    BY <1>3, RecordStep DEF Base
  <2>2. Live
    BY <2>1 DEF Base, InSession, NoFlight
  <2>3. Applied(native, sync) /\ Resting(native)
    BY <2>2, SteadyRests DEF Mirrored, Base
  <2>4. ExitKept(exit, exit')
    BY <2>1 DEF ExitKept
  <2>5. CASE UNCHANGED <<native, pipe>> /\ sync' = Reported(native, Min(sync.ids))
    <3>1. Applied(native, sync')
      BY <2>3, <2>5, ReportedApplied DEF Base
    <3> QED
      BY <2>1, <2>4, <2>5, <3>1, StillMirror
  <2>6. ASSUME NEW m, NEW t \in DOMAIN native.scheduled, NEW answer \in Answers,
               Becomes(m), Retried(native, m, t, answer), Resting(m),
               sync' = Reported(m, Min(sync.ids))
        PROVE  Mirrored'
    <3>1. Goes(native, m) /\ Tells(native, m)
      BY <2>2, <2>6, LiveSession, RetriedGoes, RetriedTells DEF Base
    <3>2. Applied(m, sync)
      BY <2>3, <3>1, TellsApplied DEF Base
    <3>3. Applied(m, sync')
      BY <2>6, <3>2, ReportedApplied DEF Base
    <3> QED
      BY <2>1, <2>2, <2>4, <2>6, <3>1, <3>3, GoesMirror
  <2> QED
    BY <2>1, <2>5, <2>6
<1> QED
  BY <1>1, <1>2, <1>3, ApplySyncMirror DEF Synchronise

\* The runtime has discarded the scores.
LEMMA DiscardedMirror ==
    ASSUME Base, Mirrored, Live, UNCHANGED <<store, sync>>,
           DOMAIN store.records = PendingIds(native) \cup FailedIds(native),
           exit' = [exit EXCEPT !.stage = "discarded", !.ids = DOMAIN store.records],
           NEW m, Becomes(m), Resting(m), Discards(native, m, DOMAIN store.records)
    PROVE  Mirrored'
<1>1. /\ Once(native) /\ Records(native, store) /\ Reflects(native, pipe, store, exit)
      /\ Applied(native, sync) /\ Steady(native)
  BY DEF Mirrored, Base
<1>2. exit'.stage = "discarded" /\ exit'.ids = DOMAIN store.records
  BY DEF Base, Shapes
<1>3. /\ Once(m) /\ Records(m, store) /\ Reflects(m, pipe, store, exit')
      /\ Applied(m, sync)
  <2>1. \A z : z.stage = "discarded" /\ z.ids = DOMAIN store.records =>
            /\ Once(m) /\ Records(m, store) /\ Reflects(m, pipe, store, z)
            /\ Applied(m, sync)
    BY <1>1, DiscardsMirror
  <2> QED
    BY <1>2, <2>1
<1>4. pipe' = pipe
  BY <1>1 DEF Becomes, Discards, Like, Fields, Steady, Base, Piped
<1>5. /\ native'.session = m.session /\ native'.pending = m.pending
      /\ native'.settled = m.settled /\ native'.lboard = m.lboard
      /\ native'.active = m.active /\ native'.nextAttempt = m.nextAttempt
      /\ native'.nextSubmission = m.nextSubmission /\ native'.nextBarrier = m.nextBarrier
  BY Quieted
<1>6. /\ Once(native') /\ Records(native', store) /\ Reflects(native', pipe, store, exit')
      /\ Applied(native', sync)
  BY <1>3, <1>5, SameReflects
<1> QED
  BY <1>4, <1>6 DEF Mirrored

\* The mirror forgets what was discarded.
LEMMA DiscardRecordsMirror ==
    ASSUME Base, Mirrored, DiscardRecords
    PROVE  Mirrored'
<1> DEFINE records == Without(store.records, exit.ids)
           t == [store EXCEPT !.records = records]
<1>1. exit.stage = "discarded" /\ UNCHANGED <<native, pipe, sync>>
  BY DEF DiscardRecords
<1>2. Live
  BY <1>1 DEF Base, InSession, NoExit
<1>3. /\ Once(native) /\ Records(native, store) /\ Reflects(native, pipe, store, exit)
      /\ Applied(native, sync)
  BY <1>2 DEF Mirrored
<1>4. \A id \in exit.ids : id \in DOMAIN store.records /\ IsGone(native, id)
  BY <1>1, <1>3 DEF Reflects, Discarded
<1>5. /\ store' = t
      /\ exit' = IF records = NoFunction THEN [exit EXCEPT !.stage = "leaving"] ELSE NoExit
  BY <1>4 DEF DiscardRecords
<1>6. exit'.stage # "discarded"
  BY <1>5 DEF NoExit, Base, Shapes
<1>7. /\ t.records = records /\ t.seen = store.seen /\ t.attempts = store.attempts
      /\ t.barrier = store.barrier
  BY StoreShape DEF Base
<1>8. /\ DOMAIN records = DOMAIN store.records \ exit.ids
      /\ \A id \in DOMAIN records : records[id] = store.records[id]
  BY DEF Without
<1> HIDE DEF t, records
<1>9. Records(native, t)
  BY <1>3, <1>7, <1>8 DEF Records
<1>10. /\ \A id \in PendingIds(native) : id \notin exit.ids
       /\ \A id, r : id \in EndedAs(native, r) => id \notin exit.ids
  BY <1>4 DEF IsGone, EndedAs
<1>11. WaitingTold(native, pipe, t) /\ RejectedTold(native, pipe, t)
  BY <1>3, <1>7, <1>8, <1>10 DEF Reflects, WaitingTold, RejectedTold, Recorded
<1>12. AcceptedTold(native, pipe, t)
  BY <1>3, <1>7, <1>8 DEF Reflects, AcceptedTold
<1>13. GoneTold(native, pipe, t, exit')
  BY <1>3, <1>7, <1>8 DEF Reflects, GoneTold
<1>14. TruthTold(native, pipe) /\ OncePerAttempt(native, pipe, t)
  BY <1>3, <1>7 DEF Reflects, OncePerAttempt
<1>15. Discarded(native, t, exit')
  BY <1>6 DEF Discarded
<1> QED
  BY <1>1, <1>3, <1>5, <1>9, <1>11, <1>12, <1>13, <1>14, <1>15 DEF Mirrored, Reflects

\* and so does every step of the exit.
LEMMA LeaveMirror ==
    ASSUME Base, Mirrored, Leave
    PROVE  Mirrored'
<1>1. CASE LeaveGame
  <2>1. RefreshMirror /\ store' = store /\ sync' = sync
    BY <1>1 DEF LeaveGame
  <2>2. ExitKept(exit, exit')
    BY <1>1 DEF LeaveGame, ExitKept, NoExit
  <2> QED
    BY <2>1, <2>2, RefreshMirrored
<1>2. CASE VerifyLeaving \/ LeavingTimesOut \/ ContinuePlaying \/ LeaveSynchronised
  BY <1>2, StillMirror DEF VerifyLeaving, LeavingTimesOut, ContinuePlaying,
     LeaveSynchronised, NoExit, Base, Shapes, Mirrored, ExitKept
<1>3. CASE DiscardScores
  <2>1. /\ exit.stage = "asked" /\ UNCHANGED <<store, sync>>
        /\ \/ /\ DOMAIN store.records = PendingIds(native) \cup FailedIds(native)
              /\ exit' = [exit EXCEPT !.stage = "discarded", !.ids = DOMAIN store.records]
              /\ \E m : /\ Becomes(m) /\ Resting(m)
                        /\ Discards(native, m, DOMAIN store.records)
           \/ RefreshMirror /\ exit' = NoExit
    BY <1>3, DiscardStep DEF Base
  <2>2. Live
    BY <2>1 DEF Base, InSession, NoExit
  <2>3. CASE RefreshMirror /\ exit' = NoExit
    <3>1. ExitKept(exit, exit')
      BY <2>1, <2>3 DEF ExitKept, NoExit
    <3> QED
      BY <2>1, <2>3, <3>1, RefreshMirrored
  <2> QED
    BY <2>1, <2>2, <2>3, DiscardedMirror
<1> QED
  BY <1>1, <1>2, <1>3, DiscardRecordsMirror DEF Leave

\* Every step keeps Mirrored.
LEMMA MirrorNext ==
    ASSUME Base, Mirrored, Next, muddled' = {}
    PROVE  Mirrored'
BY StillMirror, FramesMirror, ReadsMirror, NativeResetMirror, SessionsMirror,
   SynchroniseMirror, LeaveMirror DEF ResetEmulator, ExitKept, Mirrored, Next

\* It holds at the start, where nobody leaves.
LEMMA MirrorInit ==
    ASSUME Init
    PROVE  Mirrored /\ Asking
BY DEF Init, InitialRuntime, Cleared, Mirrored, Asking, Live

-----------------------------------------------------------------------------
(* The exit.                                                                *)

\* Fewer scores wait, and no barrier is sent.
LEMMA FewerWarned ==
    ASSUME NEW n, NEW m, m.session = n.session, PendingIds(m) \subseteq PendingIds(n),
           DOMAIN m.scheduled \subseteq DOMAIN n.scheduled,
           NEW p \in Seq(Message), NEW q \in Seq(Message),
           \A i \in DOMAIN q : q[i].kind # "Barrier",
           NEW s, NEW x, Warned(n, p, s, x)
    PROVE  Warned(m, p \o q, s, x)
<1>1. \A b, id : ToldBefore(n, q, b, id)
  BY DEF ToldBefore, IsBarrier
<1>2. \A b, id : ToldBefore(n, p, b, id) => ToldBefore(n, p \o q, b, id)
  BY <1>1, ToldBeforeLonger
<1>3. \A b, id : ToldBefore(n, p \o q, b, id) => ToldBefore(m, p \o q, b, id)
  BY DEF ToldBefore, IsBarrier, Adds
<1> DEFINE o == p \o q
<1>4. \A b, id : ToldBefore(n, p, b, id) => ToldBefore(m, o, b, id)
  BY <1>2, <1>3
<1> HIDE DEF o
<1>5. Warned(m, o, s, x)
  BY <1>4 DEF Warned
<1> QED
  BY <1>5 DEF o

\* The store keeps what waits.
LEMMA KeptWarned ==
    ASSUME NEW n, NEW p, NEW s, NEW x, Warned(n, p, s, x), NEW t,
           \A id \in PendingIds(n) : id \in DOMAIN s.records => id \in DOMAIN t.records,
           t.barrier = s.barrier
    PROVE  Warned(n, p, t, x)
BY DEF Warned

\* A message is read: what waits is kept, and added.
LEMMA RestWarned ==
    ASSUME NEW n, n.session \in Nat, NEW p \in Seq(Message), p # <<>>,
           NEW s, NEW x, Warned(n, p, s, x), NEW t,
           \A id \in PendingIds(n) :
               id \in DOMAIN s.records \/ Adds(n, Head(p), id) => id \in DOMAIN t.records,
           \/ t.barrier = s.barrier
           \/ /\ Head(p).kind = "Barrier" /\ Head(p).session = n.session
              /\ t.barrier = Head(p).barrier
    PROVE  Warned(n, Tail(p), t, x)
<1> DEFINE e == Head(p)
<1>1. e \in Message
  BY Shorter
<1>2. e.kind = "Barrier" => e.barrier \in Nat
  BY <1>1, MessageFacts
<1>3. \A b, id : ToldBefore(n, p, b, id) =>
          /\ ~IsBarrier(n, e, b)
          /\ Adds(n, e, id) \/ ToldBefore(n, Tail(p), b, id)
  BY ToldBeforeRest
<1>4. \A b \in Nat : e.kind = "Barrier" /\ e.session = n.session /\ ~IsBarrier(n, e, b)
                         => e.barrier < b
  BY <1>2 DEF IsBarrier
<1>5. /\ \A id \in PendingIds(n) :
             id \in DOMAIN s.records \/ Adds(n, e, id) => id \in DOMAIN t.records
      /\ \/ t.barrier = s.barrier
         \/ e.kind = "Barrier" /\ e.session = n.session /\ t.barrier = e.barrier
  OBVIOUS
<1> DEFINE q == Tail(p)
<1> HIDE DEF e, q
<1>6. \A b, id : ToldBefore(n, p, b, id) =>
          /\ ~IsBarrier(n, e, b)
          /\ Adds(n, e, id) \/ ToldBefore(n, q, b, id)
  BY <1>3 DEF q
<1>7. Warned(n, q, t, x)
  <2> SUFFICES ASSUME ~x.late
               PROVE  /\ x.stage = "verifying" =>
                            /\ x.barrier \in Nat
                            /\ \A id \in PendingIds(n) :
                                   \/ id \in DOMAIN t.records
                                   \/ /\ t.barrier < x.barrier
                                      /\ ToldBefore(n, q, x.barrier, id)
                      /\ x.stage \in {"asked", "syncing"} =>
                             PendingIds(n) \subseteq DOMAIN t.records
                      /\ x.stage \in {"leaving", "discarded"} => DOMAIN n.scheduled = {}
    BY DEF Warned
  <2>1. ASSUME x.stage = "verifying", NEW id \in PendingIds(n), id \notin DOMAIN t.records
        PROVE  t.barrier < x.barrier /\ ToldBefore(n, q, x.barrier, id)
    BY <2>1, <1>5, <1>6, <1>4 DEF Warned
  <2>2. x.stage = "verifying" => x.barrier \in Nat
    BY DEF Warned
  <2>3. x.stage \in {"asked", "syncing"} => PendingIds(n) \subseteq DOMAIN t.records
    BY <1>5 DEF Warned
  <2>4. x.stage \in {"leaving", "discarded"} => DOMAIN n.scheduled = {}
    BY DEF Warned
  <2> QED
    BY <2>1, <2>2, <2>3, <2>4
<1> QED
  BY <1>7 DEF q

\* What waits is told of before the barrier of a refresh.
LEMMA RefreshedWarns ==
    ASSUME NEW n, Steady(n), n.session \in Nat \ {0}, NEW m, Refreshed(n, m),
           NEW p \in Seq(Message), \A i \in DOMAIN p : Counted(n, p[i]),
           NEW id \in PendingIds(n)
    PROVE  ToldBefore(n, p \o m.out, n.nextBarrier, id)
<1> DEFINE o == InOrder(Replay(n))
           b == BarrierOf(n)
           k == n.nextBarrier
<1>1. m.out = o \o <<b>> /\ k \in Nat
  BY DEF Refreshed, Steady, Counts
<1>2. o \in Seq(Message)
  <2>1. Said(n, m)
    BY RefreshedGoes DEF Goes
  <2>2. o \in Seq(Replay(n))
    BY ReplayListed
  <2>3. m.out \in Seq(Message)
    BY <2>1 DEF Said
  <2>4. \A x \in Replay(n) : \E i \in DOMAIN o : o[i] = x
    BY ReplayListed
  <2> HIDE DEF o, b
  <2>5. \A i \in DOMAIN o : i \in DOMAIN m.out /\ m.out[i] = o[i]
    BY <2>2, <1>1
  <2>6. Replay(n) \subseteq Message
    BY <2>3, <2>4, <2>5
  <2> QED
    BY <2>2, <2>6
<1>3. WillAdd(n, o, id)
  <2>1. PICK t \in DOMAIN n.scheduled : n.pending[t].id = id
    BY Status DEF PendingIds
  <2>2. Addition(n, id, n.pending[t].attempt) \in Replay(n)
    BY <2>1, ReplayFacts
  <2>3. PICK i \in DOMAIN o : o[i] = Addition(n, id, n.pending[t].attempt)
    BY <2>2, ReplayListed
  <2>4. Adds(n, Addition(n, id, n.pending[t].attempt), id)
    BY DEF Adds, Addition
  <2> QED
    BY <2>3, <2>4 DEF WillAdd
<1>4. b \in Message
  BY BarrierFacts, <1>1
<1>5. ToldBefore(n, o, k, id)
  <2>1. \A i \in DOMAIN o : o[i] \in Replay(n)
    BY ReplayListed
  <2>2. \A i \in DOMAIN o : o[i].kind # "Barrier"
    BY <2>1, ReplayWeights
  <2> QED
    BY <2>2 DEF ToldBefore, IsBarrier
<1>6. ToldBefore(n, p, k, id)
  BY MessageFacts, <1>1 DEF IsBarrier, Counted, ToldBefore
<1> HIDE DEF o, b, k
<1>7. <<b>> \in Seq(Message)
  BY <1>4
<1>8. ToldBefore(n, o \o <<b>>, k, id)
  BY <1>2, <1>3, <1>5, <1>7, ToldBeforeLonger
<1>9. o \o <<b>> \in Seq(Message)
  BY <1>2, <1>7
<1>10. ToldBefore(n, p \o (o \o <<b>>), k, id)
  BY <1>6, <1>8, <1>9, ToldBeforeLonger
<1> QED
  BY <1>1, <1>10 DEF k

\* An exit that asks for nothing.
LEMMA IdleWarned ==
    ASSUME NEW n, NEW p, NEW s, NEW x, x.stage = "none" \/ x.late
    PROVE  Warned(n, p, s, x)
BY DEF Warned

\* The runtime has no more to ask for.
LEMMA FewerAsking ==
    ASSUME Base, Asking, Live, NEW m, Becomes(m), Resting(m), Goes(native, m),
           \A i \in DOMAIN m.out : m.out[i].kind # "Barrier",
           PendingIds(m) \subseteq PendingIds(native),
           DOMAIN m.scheduled \subseteq DOMAIN native.scheduled,
           store' = store, exit' = exit
    PROVE  Asking'
<1>1. /\ native'.session = native.session /\ native'.scheduled = m.scheduled
      /\ native'.pending = m.pending
  BY Quieted DEF Goes
<1>2. PendingIds(native') \subseteq PendingIds(native)
  BY <1>1 DEF PendingIds
<1>3. /\ pipe \in Seq(Message) /\ m.out \in Seq(Message) /\ pipe' = pipe \o m.out
  BY DEF Base, Piped, Goes, Said, Becomes
<1>4. Warned(native, pipe, store, exit)
  BY DEF Asking
<1>5. Warned(native', pipe \o m.out, store, exit)
  BY <1>1, <1>2, <1>3, <1>4, FewerWarned
<1> QED
  BY <1>3, <1>5 DEF Asking

\* A frame that runs while the player leaves makes the exit a late one.
LEMMA FramesAsking ==
    ASSUME Base, Frame, muddled' = {}
    PROVE  Asking'
BY StartStep, CancelStep, SubmitStep, RetryStep, IdleWarned DEF Frame, Base,
   FrameAround, Shapes, Asking

\* What the runtime waits for does not change.
LEMMA StillAsking ==
    ASSUME Base, Asking, UNCHANGED <<native, pipe, exit>>,
           Live => /\ store'.barrier = store.barrier
                   /\ \A id \in PendingIds(native) :
                          id \in DOMAIN store.records => id \in DOMAIN store'.records
    PROVE  Asking'
BY KeptWarned DEF Asking, Live

\* A reset of the console,
LEMMA NativeResetAsking ==
    ASSUME Base, Asking, NativeReset
    PROVE  Asking'
<1>1. PICK m : Becomes(m) /\ Restarted(native, m) /\ Resting(m)
  BY ResetStep DEF Base
<1>2. UNCHANGED <<store, exit>>
  BY DEF NativeReset
<1>3. CASE ~Live
  BY <1>1, Quieted, <1>3 DEF Restarted, Like, Fields, Asking, Live
<1>4. CASE Live
  <2> DEFINE x == ResetMessage(native.nextAttempt)
  <2>1. /\ m.out = <<x>> /\ m.pending = native.pending /\ m.scheduled = native.scheduled
    BY <1>1 DEF Restarted, Like, Fields
  <2>2. x.kind = "RuntimeReset"
    BY DEF ResetMessage
  <2> HIDE DEF x
  <2>3. \A i \in DOMAIN m.out : m.out[i].kind # "Barrier"
    BY <2>1, <2>2
  <2>4. Goes(native, m)
    BY <1>1, RestartedGoes DEF Base
  <2>5. PendingIds(m) = PendingIds(native)
    BY <2>1 DEF PendingIds
  <2> QED
    BY <1>1, <1>2, <1>4, <2>1, <2>3, <2>4, <2>5, FewerAsking
<1> QED
  BY <1>3, <1>4

\* a retry,
LEMMA RetriedAsking ==
    ASSUME Base, Asking, Live, NEW t \in DOMAIN native.scheduled, NEW answer \in Answers,
           NEW m, Becomes(m), Retried(native, m, t, answer), Resting(m),
           UNCHANGED <<store, exit>>
    PROVE  Asking'
<1>1. Goes(native, m)
  BY LiveSession, RetriedGoes DEF Base
<1>2. CASE answer = "unreachable"
  BY <1>2, <1>1, FewerAsking DEF Retried, Like, Fields, Base, Steady, PendingIds
<1>3. CASE answer # "unreachable"
  <2> DEFINE x == Event(EventOf(answer), native.scheduled[t], native.byToken[t])
             y == Resolution(native, native.pending[t].id, ResolutionOf(answer))
  <2>1. /\ m.pending = Without(native.pending, {t})
        /\ m.scheduled = Without(native.scheduled, {t}) /\ m.out = <<x, y>>
    BY <1>3 DEF Retried
  <2>2. x.kind \in {"Scoreboard", "Failed"} /\ y.kind = "Resolved"
    BY DEF Event, EventOf, Resolution
  <2> HIDE DEF x, y
  <2>3. \A i \in DOMAIN m.out : m.out[i].kind # "Barrier"
    BY <2>1, <2>2
  <2>4. PendingIds(m) \subseteq PendingIds(native)
        /\ DOMAIN m.scheduled \subseteq DOMAIN native.scheduled
    BY <2>1 DEF PendingIds, Without
  <2> QED
    BY <1>1, <2>3, <2>4, FewerAsking
<1> QED
  BY <1>2, <1>3

\* and what the app reads take away no score that waits.
LEMMA ReadsAsking ==
    ASSUME Base, Mirrored, Asking, Read
    PROVE  Asking'
<1> DEFINE e == Head(pipe)
<1>1. /\ pipe # <<>> /\ pipe' = Tail(pipe) /\ UNCHANGED <<native, exit>>
  BY DEF Read, ReadRuntimeReset, ReadAttemptEvent, ReadAdded, ReadResolved, ReadBarrier, Reads
<1>2. CASE ~Live
  BY <1>1, <1>2 DEF Asking, Live
<1>3. CASE Live
  <2>1. /\ pipe \in Seq(Message) /\ native.session \in Nat /\ session.open
        /\ store.session = native.session /\ Warned(native, pipe, store, exit)
    BY <1>3, LiveSession DEF Base, Piped, Asking
  <2>2. /\ \A id \in PendingIds(native) :
               id \in DOMAIN store.records \/ Adds(native, e, id) =>
                   id \in DOMAIN store'.records
        /\ \/ store'.barrier = store.barrier
           \/ e.kind = "Barrier" /\ e.session = native.session /\ store'.barrier = e.barrier
    <3>1. CASE ReadRuntimeReset \/ ReadAttemptEvent
      <4>1. store' = store /\ e.kind # "Added"
        BY <3>1 DEF ReadRuntimeReset, ReadAttemptEvent, Reads, Results
      <4> QED
        BY <4>1 DEF Adds
    <3>2. CASE ReadAdded
      <4> DEFINE t == [store EXCEPT !.records = With(store.records, e.id, "retryable"),
                                    !.seen = store.seen \cup {e.id},
                                    !.attempts = store.attempts \cup {e.attempt}]
                 new == /\ e.session = store.session
                        /\ e.id \notin store.seen /\ e.attempt \notin store.attempts
      <4>1. store' = IF new THEN t ELSE store
        BY <2>1, <3>2 DEF ReadAdded
      <4>2. t.records = With(store.records, e.id, "retryable") /\ t.barrier = store.barrier
        BY StoreShape DEF Base
      <4>3. 1 \in DOMAIN pipe /\ pipe[1] = e
        BY <1>1, <2>1, Shorter
      <4> HIDE DEF t, e
      <4>4. DOMAIN t.records = DOMAIN store.records \cup {e.id}
        BY <4>2 DEF With
      <4>5. \A id \in DOMAIN store.records : id \in DOMAIN store'.records
        BY <4>1, <4>4
      <4>6. store'.barrier = store.barrier
        BY <4>1, <4>2
      <4>7. ASSUME NEW id \in PendingIds(native), Adds(native, e, id),
                   id \notin DOMAIN store.records
            PROVE  id \in DOMAIN store'.records
        <5>1. Once(native) /\ Reflects(native, pipe, store, exit)
          BY <1>3 DEF Mirrored
        <5>2. id \notin store.seen
          BY <4>7, <5>1 DEF Reflects, WaitingTold, Recorded
        <5>3. HasAttempt(native, id, e.attempt)
          BY <4>3, <4>7, <5>1, <5>2 DEF Reflects, OncePerAttempt
        <5>4. e.attempt \notin store.attempts
          BY <5>1, <5>2, <5>3 DEF Reflects, OncePerAttempt
        <5>5. id = e.id /\ e.session = native.session
          BY <4>7 DEF Adds
        <5>6. store' = t
          BY <2>1, <4>1, <5>2, <5>4, <5>5
        <5> QED
          BY <4>4, <5>5, <5>6
      <4> QED
        BY <4>5, <4>6, <4>7
    <3>3. CASE ReadResolved
      <4> DEFINE A == {id \in {e.id} : e.resolution = "accepted"}
                 F == {id \in {e.id} : e.resolution = "permanent"}
                 t == [store EXCEPT !.records = Settle(store.records, A, F)]
      <4>1. /\ store' = IF e.session = store.session THEN t ELSE store
            /\ e.kind = "Resolved"
        BY <3>3 DEF ReadResolved, Reads
      <4>2. t.records = Settle(store.records, A, F) /\ t.barrier = store.barrier
        BY StoreShape DEF Base
      <4>3. \A id \in A : id = e.id /\ e.resolution = "accepted"
        OBVIOUS
      <4> HIDE DEF t, A, F
      <4>4. DOMAIN t.records = DOMAIN store.records \ A
        BY <4>2 DEF Settle
      <4>5. \A id : ~Adds(native, e, id)
        BY <4>1 DEF Adds
      <4>6. ASSUME e.session = native.session, NEW id \in A
            PROVE  id \notin PendingIds(native)
        BY <1>3, <4>1, <4>3, <4>6, <1>1, <2>1, SaysRest DEF Mirrored, Reflects,
           Resolves, TruthTold
      <4>7. CASE e.session = native.session
        BY <2>1, <4>1, <4>2, <4>4, <4>5, <4>6, <4>7
      <4>8. CASE e.session # native.session
        BY <2>1, <4>1, <4>5, <4>8
      <4> QED
        BY <4>7, <4>8
    <3>4. CASE ReadBarrier
      <4> DEFINE t == [store EXCEPT !.barrier = e.barrier]
      <4>1. /\ store' = IF e.session = store.session THEN t ELSE store
            /\ e.kind = "Barrier"
        BY <2>1, <3>4 DEF ReadBarrier, Reads
      <4>2. t.records = store.records /\ t.barrier = e.barrier
        BY StoreShape DEF Base
      <4> HIDE DEF t
      <4>3. \A id : ~Adds(native, e, id)
        BY <4>1 DEF Adds
      <4> QED
        BY <2>1, <4>1, <4>2, <4>3
    <3> QED
      BY <3>1, <3>2, <3>3, <3>4 DEF Read
  <2>3. \A t : /\ \A id \in PendingIds(native) :
                      id \in DOMAIN store.records \/ Adds(native, e, id) =>
                          id \in DOMAIN t.records
               /\ \/ t.barrier = store.barrier
                  \/ /\ e.kind = "Barrier" /\ e.session = native.session
                     /\ t.barrier = e.barrier
               => Warned(native, Tail(pipe), t, exit)
    BY <1>1, <2>1, RestWarned
  <2>4. Warned(native, Tail(pipe), store', exit)
    BY <2>2, <2>3
  <2> QED
    BY <1>1, <2>4 DEF Asking
<1> QED
  BY <1>2, <1>3

\* An exit that asks, or that goes ahead.
LEMMA AskedWarned ==
    ASSUME NEW n, NEW p, NEW s, NEW x, x.stage \in {"asked", "syncing"},
           ~x.late => PendingIds(n) \subseteq DOMAIN s.records
    PROVE  Warned(n, p, s, x)
BY DEF Warned

\* An exit that goes ahead has nothing left that waits.
LEMMA LeavingWarned ==
    ASSUME NEW n, NEW p, NEW s, NEW x, x.stage \in {"leaving", "discarded"},
           ~x.late => DOMAIN n.scheduled = {}
    PROVE  Warned(n, p, s, x)
BY DEF Warned

\* A mirror with no record of what waits says that nothing waits.
LEMMA NothingWaits ==
    ASSUME NEW n, Steady(n), NEW s, PendingIds(n) \subseteq DOMAIN s.records,
           s.records = NoFunction
    PROVE  DOMAIN n.scheduled = {}
<1>1. PendingIds(n) = {}
  BY DEF NoFunction
<1>2. DOMAIN n.pending = {}
  BY <1>1 DEF PendingIds
<1> QED
  BY <1>2, Status

\* The provers need the fields of the exit one by one.
LEMMA ExitShape ==
    ASSUME Shapes, NEW stage, NEW ids
    PROVE  LET x == [exit EXCEPT !.stage = stage]
               y == [exit EXCEPT !.stage = stage, !.ids = ids]
           IN  /\ x.stage = stage /\ x.late = exit.late /\ x.barrier = exit.barrier
               /\ y.stage = stage /\ y.late = exit.late
BY DEF Shapes

\* Nobody leaves.
LEMMA IdleAsking ==
    ASSUME exit' = NoExit
    PROVE  Asking'
BY IdleWarned DEF NoExit, Asking

\* The beginning and the end of a session,
LEMMA SessionsAsking ==
    ASSUME Base, Asking, Sessions
    PROVE  Asking'
BY IdleAsking DEF BeginSession, OpenSession, Base, InSession, Live, Asking,
   ActivateSession, StopSession, Sessions

\* the beginning of a synchronisation,
LEMMA BeginSyncAsking ==
    ASSUME Base, Asking, BeginSync
    PROVE  Asking'
<1>1. Live /\ RefreshMirror /\ store' = store
  BY DEF BeginSync, RefreshMirror
<1>2. PICK m : Becomes(m) /\ Refreshed(native, m) /\ Resting(m)
  BY <1>1, RefreshStep DEF Base
<1>3. native'.pending = native.pending
  BY <1>2, Quieted DEF Refreshed, Like, Fields
<1>4. PendingIds(native') = PendingIds(native)
  BY <1>3 DEF PendingIds
<1>5. CASE exit.stage = "none" /\ exit' = exit
  BY IdleWarned, <1>5 DEF Asking
<1>6. CASE exit.stage = "asked" /\ exit' = [exit EXCEPT !.stage = "syncing"]
  <2>1. exit'.stage = "syncing" /\ exit'.late = exit.late
    BY <1>6, ExitShape DEF Base
  <2>2. ~exit.late => PendingIds(native) \subseteq DOMAIN store.records
    BY <1>1, <1>6 DEF Asking, Warned
  <2>3. ~exit'.late => PendingIds(native') \subseteq DOMAIN store'.records
    BY <1>1, <1>4, <2>1, <2>2
  <2>4. \A n, p, s, x : /\ x.stage = "syncing"
                        /\ ~x.late => PendingIds(n) \subseteq DOMAIN s.records
                        => Warned(n, p, s, x)
    BY AskedWarned
  <2> QED
    BY <2>1, <2>3, <2>4 DEF Asking
<1> QED
  BY <1>5, <1>6 DEF BeginSync

\* and each of its steps keep Asking.
LEMMA SynchroniseAsking ==
    ASSUME Base, Mirrored, Asking, Synchronise, muddled' = {}
    PROVE  Asking'
<1>1. CASE VerifySync \/ SyncTimesOut \/ PlanSync
  <2>1. UNCHANGED <<native, pipe, store, exit>>
    BY <1>1 DEF VerifySync, SyncTimesOut, PlanSync
  <2> QED
    BY <2>1, StillAsking
<1>2. CASE RetryRecord
  <2>1. /\ sync.stage = "retrying" /\ UNCHANGED <<store, exit>>
        /\ \/ UNCHANGED <<native, pipe>>
           \/ \E m, t, answer :
                  /\ t \in DOMAIN native.scheduled /\ answer \in Answers
                  /\ Becomes(m) /\ Retried(native, m, t, answer) /\ Resting(m)
    BY <1>2, RecordStep DEF Base
  <2>2. Live
    BY <2>1 DEF Base, InSession, NoFlight
  <2>3. CASE UNCHANGED <<native, pipe>>
    BY <2>1, <2>3, StillAsking
  <2>4. ASSUME NEW m, NEW t \in DOMAIN native.scheduled, NEW answer \in Answers,
               Becomes(m), Retried(native, m, t, answer), Resting(m)
        PROVE  Asking'
    BY <2>1, <2>2, <2>4, RetriedAsking
  <2> QED
    BY <2>1, <2>3, <2>4
<1>3. CASE ApplySync
  <2> DEFINE records == Settle(store.records, sync.accepted, sync.failed)
             t == [store EXCEPT !.records = records]
  <2>1. store' = t /\ UNCHANGED <<native, pipe, exit>>
    BY <1>3 DEF ApplySync
  <2>2. t.records = records /\ t.barrier = store.barrier
    BY StoreShape DEF Base
  <2>3. DOMAIN records = DOMAIN store.records \ sync.accepted
    BY DEF Settle
  <2> HIDE DEF t, records
  <2>4. Live => \A id \in PendingIds(native) : id \notin sync.accepted
    BY Status DEF Mirrored, Applied, Base
  <2> QED
    BY <2>1, <2>2, <2>3, <2>4, StillAsking
<1> QED
  BY <1>1, <1>2, <1>3, BeginSyncAsking DEF Synchronise

\* The exit begins with a refresh: what waits is told of before its barrier.
LEMMA LeaveGameAsking ==
    ASSUME Base, Mirrored, LeaveGame
    PROVE  Asking'
<1>1. /\ RefreshMirror /\ Live /\ store' = store
      /\ exit' = [NoExit EXCEPT !.stage = "verifying", !.barrier = native.nextBarrier,
                                !.frame = TRUE]
  BY DEF LeaveGame, RefreshMirror
<1>2. PICK m : Becomes(m) /\ Refreshed(native, m) /\ Resting(m)
  BY <1>1, RefreshStep DEF Base
<1>3. exit'.stage = "verifying" /\ exit'.barrier = native.nextBarrier
  BY <1>1 DEF NoExit
<1>4. native'.pending = native.pending /\ native'.session = native.session
  BY <1>2, Quieted DEF Refreshed, Like, Fields
<1>5. PendingIds(native') = PendingIds(native)
  BY <1>4 DEF PendingIds
<1>6. pipe' = pipe \o m.out /\ native.nextBarrier \in Nat /\ Steady(native)
  BY <1>2 DEF Becomes, Base, Steady, Counts
<1>7. \A id \in PendingIds(native) : ToldBefore(native, pipe', native.nextBarrier, id)
  <2>1. pipe \in Seq(Message) /\ \A i \in DOMAIN pipe : Counted(native, pipe[i])
    BY DEF Base, Piped
  <2>2. native.session \in Nat \ {0}
    BY <1>1, LiveSession
  <2>3. \A id \in PendingIds(native) : ToldBefore(native, pipe \o m.out, native.nextBarrier, id)
    BY <1>2, <1>6, <2>1, <2>2, RefreshedWarns
  <2> QED
    BY <1>6, <2>3
<1>8. \A id, p, b : ToldBefore(native, p, b, id) => ToldBefore(native', p, b, id)
  BY <1>4 DEF ToldBefore, IsBarrier, Adds
<1>9. store.barrier < native.nextBarrier
  BY <1>1 DEF Mirrored, Records
<1>10. \A id \in PendingIds(native') :
           store'.barrier < exit'.barrier /\ ToldBefore(native', pipe', exit'.barrier, id)
  BY <1>1, <1>3, <1>5, <1>7, <1>8, <1>9
<1>11. exit'.barrier \in Nat
  BY <1>3, <1>6
<1>12. exit'.stage \notin {"asked", "syncing", "leaving", "discarded"}
  BY <1>3
<1>13. Warned(native', pipe', store', exit')
  BY <1>10, <1>11, <1>12 DEF Warned
<1> QED
  BY <1>13 DEF Asking

\* The barrier has come: what waits is in the store, or nothing waits.
LEMMA VerifyLeavingAsking ==
    ASSUME Base, Mirrored, Asking, VerifyLeaving
    PROVE  Asking'
<1>1. /\ exit.stage = "verifying" /\ store.barrier >= exit.barrier
      /\ UNCHANGED <<native, pipe, store>>
      /\ \/ exit' = [exit EXCEPT !.stage = "leaving"] /\ store.records = NoFunction
         \/ exit' = [exit EXCEPT !.stage = "asked"]
  BY DEF VerifyLeaving
<1>2. Live
  BY <1>1 DEF Base, InSession, NoExit
<1>3. store.barrier \in Nat
  BY <1>2 DEF Mirrored, Records
<1>4. ~exit.late => PendingIds(native) \subseteq DOMAIN store.records
  <2> SUFFICES ASSUME ~exit.late, NEW id \in PendingIds(native)
               PROVE  id \in DOMAIN store.records
    OBVIOUS
  <2>1. /\ exit.barrier \in Nat
        /\ id \in DOMAIN store.records \/ store.barrier < exit.barrier
    BY <1>1, <1>2 DEF Asking, Warned
  <2>2. ~(store.barrier < exit.barrier)
    BY <1>1, <1>3, <2>1
  <2> QED
    BY <2>1, <2>2
<1>5. CASE exit' = [exit EXCEPT !.stage = "leaving"] /\ store.records = NoFunction
  <2>1. exit'.stage = "leaving" /\ exit'.late = exit.late
    BY <1>5, ExitShape DEF Base
  <2>2. ~exit.late => DOMAIN native.scheduled = {}
    BY <1>4, <1>5, NothingWaits DEF Base
  <2>3. \A n, p, s, x : x.stage = "leaving" /\ (~x.late => DOMAIN n.scheduled = {})
                            => Warned(n, p, s, x)
    BY LeavingWarned
  <2> QED
    BY <1>1, <2>1, <2>2, <2>3 DEF Asking
<1>6. CASE exit' = [exit EXCEPT !.stage = "asked"]
  <2>1. exit'.stage = "asked" /\ exit'.late = exit.late
    BY <1>6, ExitShape DEF Base
  <2>2. \A n, p, s, x : /\ x.stage = "asked"
                        /\ ~x.late => PendingIds(n) \subseteq DOMAIN s.records
                        => Warned(n, p, s, x)
    BY AskedWarned
  <2> QED
    BY <1>1, <1>4, <2>1, <2>2 DEF Asking
<1> QED
  BY <1>1, <1>5, <1>6

\* The exit goes on after the synchronisation.
LEMMA LeaveSynchronisedAsking ==
    ASSUME Base, Asking, LeaveSynchronised
    PROVE  Asking'
BY ExitShape, NothingWaits, LeavingWarned, IdleAsking DEF LeaveSynchronised, Base,
   InSession, NoExit, Asking, Warned

\* The scores are discarded, so nothing waits.
LEMMA DiscardScoresAsking ==
    ASSUME Base, DiscardScores
    PROVE  Asking'
<1>1. \/ exit' = NoExit
      \/ /\ exit' = [exit EXCEPT !.stage = "discarded", !.ids = DOMAIN store.records]
         /\ \E m : /\ Becomes(m) /\ Resting(m)
                   /\ Discards(native, m, DOMAIN store.records)
  BY DiscardStep DEF Base
<1>2. ASSUME NEW m, Becomes(m), Resting(m), Discards(native, m, DOMAIN store.records),
             exit' = [exit EXCEPT !.stage = "discarded", !.ids = DOMAIN store.records]
      PROVE  Asking'
  <2>1. exit'.stage = "discarded"
    BY <1>2, ExitShape DEF Base
  <2>2. native'.scheduled = NoFunction
    BY <1>2, Quieted DEF Discards
  <2>3. DOMAIN native'.scheduled = {}
    BY <2>2 DEF NoFunction
  <2>4. \A n, p, s, x : x.stage = "discarded" /\ DOMAIN n.scheduled = {}
                            => Warned(n, p, s, x)
    BY LeavingWarned
  <2> QED
    BY <2>1, <2>3, <2>4 DEF Asking
<1> QED
  BY <1>1, <1>2, IdleAsking

\* The store forgets them.
LEMMA DiscardRecordsAsking ==
    ASSUME Base, Asking, DiscardRecords
    PROVE  Asking'
BY ExitShape, LeavingWarned, IdleAsking DEF DiscardRecords, Base, InSession, NoExit,
   Asking, Warned

\* Every step keeps Asking.
LEMMA AskingNext ==
    ASSUME Base, Mirrored, Asking, Next, muddled' = {}
    PROVE  Asking'
<1>1. CASE ResetEmulator
  <2>1. UNCHANGED <<native, pipe, store, exit>>
    BY <1>1 DEF ResetEmulator
  <2> QED
    BY <2>1, StillAsking
<1>2. CASE Leave
  <2>1. CASE LeavingTimesOut \/ ContinuePlaying
    <3>1. exit' = NoExit
      BY <2>1 DEF LeavingTimesOut, ContinuePlaying
    <3> QED
      BY <3>1, IdleAsking
  <2> QED
    BY <1>2, <2>1, LeaveGameAsking, VerifyLeavingAsking, LeaveSynchronisedAsking,
       DiscardScoresAsking, DiscardRecordsAsking DEF Leave
<1> QED
  BY <1>1, <1>2, FramesAsking, ReadsAsking, NativeResetAsking, SessionsAsking,
     SynchroniseAsking DEF Next

-----------------------------------------------------------------------------
(* The theorems.                                                            *)

\* The invariant holds in every state whose leaderboards have shared no
\* attempt between two scores.
THEOREM SpecIInv == Spec => []IInv
<1>1. Init => IInv
  BY BaseInit, ScreenInit, MirrorInit DEF IInv
<1>2. IInv /\ [Next]_vars => IInv'
  <2> SUFFICES ASSUME IInv, [Next]_vars, muddled' = {}
               PROVE  Base' /\ Screen' /\ Mirrored' /\ Asking'
    BY DEF IInv
  <2>1. CASE Next
    <3>1. muddled = {}
      BY <2>1 DEF Next, Sound
    <3> QED BY <2>1, <3>1, BaseNext, ScreenNext, MirrorNext, AskingNext DEF IInv
  <2>2. CASE UNCHANGED vars
    BY <2>2, StillScreen DEF vars, IInv, Base, Shapes, Piped, InSession, Mirrored,
       Asking, Live
  <2> QED BY <2>1, <2>2
<1> QED BY <1>1, <1>2, PTL DEF Spec

\* RetryKeepsAttempt: when a score leaves the queue of retries, the result that
\* the runtime tells is that of the attempt it was kept for.
THEOREM SpecRetryKeepsAttempt == Spec => RetryKeepsAttempt
<1>1. IInv /\ [Next]_vars =>
          [\A t \in DOMAIN native.scheduled \ DOMAIN native'.scheduled :
               (Live' /\ native.scheduled[t] \notin muddled')
                   => \A i \in Len(pipe) + 1 .. Len(pipe') :
                          pipe'[i].kind \in Results
                              => pipe'[i].attempt = native.pending[t].attempt]_native
  BY RetryKeepsAttemptStep DEF vars, Next, Sound, IInv
<1> QED BY <1>1, SpecIInv, PTL DEF Spec, RetryKeepsAttempt

\* IndicatorsAreTrue: when the app has read everything, the attempts the
\* coordinator shows are those the runtime tracks, resets and sessions or not.
THEOREM SpecIndicatorsAreTrue == Spec => []IndicatorsAreTrue
<1>1. IInv => IndicatorsAreTrue
  <2> SUFFICES ASSUME Base, Screen, pipe = <<>>, session.open, Live,
                      ~coordinator.awaiting, ~resets.crossed
               PROVE  {a \in DOMAIN coordinator.states : Phase(coordinator, a) = "TRACKING"}
                          = {native.active[lb] : lb \in
                                {x \in Leaderboards : native.lboard[x] = "tracking"}}
    BY DEF IInv, IndicatorsAreTrue
  <2>1. session.number # Never
    BY DEF Base, InSession
  <2>2. resets.waiting = 0
    BY <2>1 DEF Screen, Awaited, AwaitedIn
  <2>3. \A i : ~Heeded(pipe, coordinator, i)
    BY DEF Heeded
  <2>4. \A a : TrackedBy(native, a) => Phase(coordinator, a) = "TRACKING"
    BY <2>2, <2>3 DEF Screen, Shown, TrackedShown
  <2>5. \A a : Phase(coordinator, a) = "TRACKING" => TrackedBy(native, a)
    BY DEF Screen, Shown, ShownTracked
  <2>6. \A a : Phase(coordinator, a) = "TRACKING" => a \in DOMAIN coordinator.states
    BY DEF Phase
  <2> QED
    BY <2>4, <2>5, <2>6 DEF TrackedBy
<1> QED BY <1>1, SpecIInv, PTL

\* NothingFromBeforeReset: until the barrier of a reset has been read, and for
\* attempts from before it, the coordinator only finishes what was pending.
THEOREM SpecNothingFromBeforeReset == Spec => NothingFromBeforeReset
<1>1. IInv /\ [Next]_vars =>
          [\A a \in DOMAIN coordinator'.states :
               (/\ Phase(coordinator', a) # Phase(coordinator, a)
                /\ ~resets.crossed)
                   => \/ a > native.floor /\ resets.waiting = 0
                      \/ Phase(coordinator, a) = "PENDING"]_coordinator
  BY NothingFromBeforeResetStep DEF vars, Next, Sound, IInv
<1> QED BY <1>1, SpecIInv, PTL DEF Spec, NothingFromBeforeReset

\* MirrorIsTrue: when the app has read everything, the store has exactly the
\* scores that wait or were rejected, and marks as failed the rejected ones.
THEOREM SpecMirrorIsTrue == Spec => []MirrorIsTrue
<1>1. IInv => MirrorIsTrue
  <2> SUFFICES ASSUME Base, Mirrored, pipe = <<>>, Live, exit.stage # "discarded"
               PROVE  /\ DOMAIN store.records = PublishedIds(native) \cup FailedIds(native)
                      /\ \A id \in DOMAIN store.records :
                             store.records[id] = "failed" <=> id \in FailedIds(native)
    BY DEF IInv, MirrorIsTrue
  <2> DEFINE n == native
             s == store
  <2>1. Records(n, s) /\ Reflects(n, pipe, s, exit) /\ Steady(n)
    BY DEF Mirrored, Base
  <2>2. FailedIds(n) = EndedAs(n, "permanent")
    BY DEF FailedIds, EndedAs
  <2>3. PublishedIds(n) = PendingIds(n)
    <3>1. \A t \in DOMAIN n.pending : n.pending[t].published
      <4> SUFFICES ASSUME NEW t \in DOMAIN n.pending
                   PROVE  n.pending[t].published
        OBVIOUS
      <4> DEFINE q == n.pending[t]
                 a == n.byToken[t]
      <4>1. Told(n.pending[t], n.byToken[t])
        BY <2>1 DEF Steady, Waiting
      <4>2. Told(q, a)
        BY <4>1
      <4> HIDE DEF q, a
      <4>3. q.published = TRUE
        BY <4>2 DEF Told
      <4> QED
        BY <4>3 DEF q
    <3> QED
      BY <3>1 DEF PublishedIds, PendingIds
  <2> HIDE DEF n, s
  <2>4. \A id, r : ~WillAdd(n, pipe, id) /\ ~WillResolve(n, pipe, id, r)
                   /\ ~WillComeAndGo(n, pipe, id, r)
    BY DEF WillAdd, WillResolve, WillComeAndGo
  <2>5. \A id \in PendingIds(n) : Recorded(s, id, "retryable")
    BY <2>1, <2>4 DEF Reflects, WaitingTold
  <2>6. \A id \in EndedAs(n, "permanent") : Recorded(s, id, "failed")
    BY <2>1, <2>4 DEF Reflects, RejectedTold
  <2>7. \A id \in DOMAIN s.records : id \in PendingIds(n) \/ id \in EndedAs(n, "permanent")
    <3> SUFFICES ASSUME NEW id \in DOMAIN s.records
                 PROVE  id \in PendingIds(n) \/ id \in EndedAs(n, "permanent")
      OBVIOUS
    <3>1. ~IsGone(n, id)
      BY <2>1 DEF Reflects, GoneTold
    <3>2. id \notin EndedAs(n, "accepted")
      BY <2>1, <2>4 DEF Reflects, AcceptedTold
    <3> QED
      BY <2>1, <3>1, <3>2, Status DEF IsGone
  <2>8. DOMAIN s.records = PendingIds(n) \cup EndedAs(n, "permanent")
    BY <2>5, <2>6, <2>7 DEF Recorded
  <2>9. \A id \in DOMAIN s.records : s.records[id] = "failed" <=> id \in EndedAs(n, "permanent")
    <3>1. \A id \in DOMAIN s.records : id \in EndedAs(n, "permanent") => s.records[id] = "failed"
      BY <2>6 DEF Recorded
    <3>2. \A id \in DOMAIN s.records : s.records[id] = "failed" => id \notin PendingIds(n)
      BY <2>5 DEF Recorded
    <3> QED
      BY <2>7, <3>1, <3>2
  <2> QED
    BY <2>2, <2>3, <2>8, <2>9 DEF n, s
<1> QED BY <1>1, SpecIInv, PTL

\* LeavesNothingUntold: who leaves the game without being asked about scores
\* that wait leaves none, unless a frame ran after the question.
THEOREM SpecLeavesNothingUntold == Spec => []LeavesNothingUntold
<1>1. IInv => LeavesNothingUntold
  <2> SUFFICES ASSUME Base, Asking, exit.stage = "leaving", ~exit.late
               PROVE  native.scheduled = NoFunction
    BY DEF IInv, LeavesNothingUntold
  <2>1. Live
    BY DEF Base, InSession, NoExit
  <2>2. DOMAIN native.scheduled = {}
    BY <2>1 DEF Asking, Warned
  <2>3. native.scheduled \in [{} -> Leaderboards]
    BY <2>2 DEF Base, Steady, Waiting
  <2> QED
    BY <2>3 DEF NoFunction
<1> QED BY <1>1, SpecIInv, PTL

=============================================================================
