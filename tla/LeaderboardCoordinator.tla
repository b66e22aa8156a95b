----------------------- MODULE LeaderboardCoordinator -----------------------
(* LeaderboardAttemptCoordinator: what the app makes of the events of       *)
(* attempts.  Pure operators over its state, a record "c"; an event that    *)
(* has no transition is ignored.  Identifiers of attempts are unique, so    *)
(* one stands for the pair of leaderboard and attempt.                      *)
EXTENDS Naturals, SequencesExt

Higher(a, b) == IF a > b THEN a ELSE b

TerminalPhases == {"SCOREBOARD", "FAILED", "CANCELED"}

Phases == TerminalPhases \cup {"TRACKING", "PENDING"}

InitialCoordinator ==
    [states |-> <<>>, latest |-> <<>>, highest |-> 0, floor |-> 0,
     awaiting |-> FALSE]

Phase(c, a) == IF a \in DOMAIN c.states THEN c.states[a].phase ELSE "none"

Latest(c, lb) == IF lb \in DOMAIN c.latest THEN c.latest[lb] ELSE 0

Restricted(f, keys) == [x \in DOMAIN f \cap keys |-> f[x]]

RetainPending(c) ==
    [c EXCEPT !.states =
        Restricted(@, {a \in DOMAIN c.states : c.states[a].phase = "PENDING"})]

---------------------------------------------------------------------------
(* Resets.                                                                 *)

ResetCoordinator(c) ==
    [InitialCoordinator EXCEPT !.highest = c.highest, !.floor = c.highest]

(* Mutant: the coordinator does not wait for the barrier.                   *)
BeginRuntimeResetAtOnce(c) == [RetainPending(c) EXCEPT !.latest = <<>>]

BeginRuntimeReset(c) ==
    [RetainPending(c) EXCEPT !.latest = <<>>, !.awaiting = TRUE]

CompleteRuntimeReset(c, attemptFloor) ==
    [RetainPending(c) EXCEPT !.latest = <<>>,
                             !.highest = Higher(@, attemptFloor),
                             !.floor = Higher(@, attemptFloor),
                             !.awaiting = FALSE]

---------------------------------------------------------------------------
(* Events.                                                                 *)

Responses == {"Scoreboard", "Failed"}

(* Attempts of before a reset are over, except for the answers to those     *)
(* that wait for one; so are those older than the latest, unless known.     *)
AcceptsAttempt(c, e) ==
    LET a == e.attempt
        retained == e.kind \in Responses /\ Phase(c, a) = "PENDING"
    IN  /\ a > c.floor \/ retained
        /\ a \in DOMAIN c.states \/ a >= Latest(c, e.leaderboard)

AwaitsBarrier(c, e) ==
    c.awaiting /\ ~(e.kind \in Responses /\ Phase(c, e.attempt) = "PENDING")

PhaseAfter(c, e) ==
    CASE e.kind \in {"Started", "Updated"} -> "TRACKING"
      [] e.kind = "Hidden" -> Phase(c, e.attempt)
      [] e.kind = "Submitted" -> "PENDING"
      [] e.kind = "Scoreboard" -> "SCOREBOARD"
      [] e.kind = "Failed" -> "FAILED"
      [] e.kind = "Canceled" -> "CANCELED"

(* Whether the state of the attempt lets the event through.  Numbers of     *)
(* events are left out: those of an attempt come in order, and once.        *)
Reduces(c, e) ==
    LET phase == Phase(c, e.attempt)
    IN  CASE e.kind = "Started" -> TRUE
          [] e.kind \in {"Updated", "Hidden"} -> phase \in {"TRACKING", "PENDING"}
          [] e.kind = "Submitted" -> phase \in {"none", "TRACKING"}
          [] OTHER -> phase \notin TerminalPhases

(* An accepted attempt counts as the latest even if nothing comes of it; a  *)
(* new one has the finished ones before it forgotten.                       *)
Reduce(c, e) ==
    LET a == e.attempt
        lb == e.leaderboard
        seen == [c EXCEPT !.latest =
                              [x \in DOMAIN @ \cup {lb} |->
                                  IF x = lb THEN Higher(Latest(c, lb), a) ELSE @[x]],
                          !.highest = Higher(@, a)]
        finished == {b \in DOMAIN c.states : /\ e.kind = "Started"
                                             /\ c.states[b].leaderboard = lb
                                             /\ b < a
                                             /\ c.states[b].phase \in TerminalPhases}
        kept == Restricted(c.states, DOMAIN c.states \ finished)
        state == [leaderboard |-> lb, phase |-> PhaseAfter(c, e)]
    IN  IF AwaitsBarrier(c, e) \/ ~AcceptsAttempt(c, e)
        THEN c
        ELSE IF ~Reduces(c, e)
        THEN seen
        ELSE [seen EXCEPT !.states =
                 [x \in DOMAIN kept \cup {a} |-> IF x = a THEN state ELSE kept[x]]]
=============================================================================
