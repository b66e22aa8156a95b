--------------------------- MODULE OfflineLedger ---------------------------
(***************************************************************************)
(* Achievements earned without a network: the ledger they are appended to, *)
(* kept in one encrypted file, and the sync that replays them to the       *)
(* server.  One user and one game; the emulator screen appends unlocks and *)
(* may sync when a game is launched, the details screen may sync at any    *)
(* time, and the application may be killed.  Every read and every append   *)
(* holds the mutex of the repository; an append replaces the file.         *)
(* The sequence number of a record is its position in the ledger; hashes,  *)
(* signatures and expiry are left out, and the wall clock runs forwards.   *)
(***************************************************************************)
EXTENDS Naturals, Sequences, FiniteSets, SequencesExt

CONSTANTS
    Achievements, LegacyHardcore,   \* what is earned; what an old version left
    launch, details, gone,          \* the two syncs; the owner of an orphaned write
    SessionIds, MaxAttempts, Faults

Syncs == {launch, details}

None == "none"
Handlers ==
    [step : {"start", "unlock"}, achievement : Achievements \cup {None},
     session : SessionIds, order : Nat]

ASSUME LedgerAssumption ==
    /\ LegacyHardcore \notin Achievements /\ None \notin Achievements \cup {LegacyHardcore}
    /\ gone \notin Syncs /\ (Syncs \cup {gone}) \cap Handlers = {}
    /\ SessionIds \subseteq Nat \ {0} /\ MaxAttempts \in Nat \ {0}
    /\ Faults \subseteq {"killed", "killed while replacing", "unreadable",
                         "write fails", "rename fails", "copy fails"}

VARIABLES
    file, ledger,      \* what is on disk
    writer,            \* who holds the mutex for an append, and what it writes
    game, next,        \* the emulator screen; the next order index of a session
    handlers,          \* its coroutines that have something to append
    unlocked,          \* achievements the local database shows as earned
    sync,              \* of each sync: where it is, its plan and attempts
    settled,           \* credited by the server, or given up by a sync
    overtaken          \* history: the ledger was reset while a sync was under way

vars == <<file, ledger, writer, game, next, handlers, unlocked, sync, settled, overtaken>>
disk == <<file, ledger>>
play == <<game, next, handlers, unlocked>>
history == <<settled, overtaken>>

NoSession == 0
Start(s) == [kind |-> "start", session |-> s]
Unlock(a, s, n, hardcore) ==
    [kind |-> "unlock", achievement |-> a, session |-> s, order |-> n, hardcore |-> hardcore]
Ack(n) == [kind |-> "ack", acked |-> n]

Nobody == [at |-> "free", by |-> gone, records |-> <<>>]
NoOrder == [s \in SessionIds |-> 0]
Closed == [at |-> "closed", session |-> NoSession]
Resting == [at |-> "idle", plan |-> <<>>, attempts |-> 0]

Init ==
    /\ \/ file = "absent" /\ ledger = <<>>
       \/ file = "whole" /\ ledger = <<Unlock(LegacyHardcore, NoSession, 0, TRUE)>>
    /\ writer = Nobody /\ game = Closed /\ next = NoOrder
    /\ handlers = {} /\ unlocked = {} /\ sync = [s \in Syncs |-> Resting]
    /\ settled = {} /\ overtaken = FALSE

-----------------------------------------------------------------------------
(* Reading the ledger.                                                       *)

MutexFree == writer.at = "free"

\* What getStatus may find: a damaged file never decrypts, a whole one may fail to.
Damaged == file = "damaged"
MayBeUnreadable == Damaged \/ (file = "whole" /\ "unreadable" \in Faults)

Unlocks(records) == {n \in DOMAIN records : records[n].kind = "unlock"}
Pending(records) ==
    {n \in Unlocks(records) : ~\E k \in DOMAIN records : records[k] = Ack(n)}
SyncableAnyMode(records) == Pending(records)
Syncable(records) == {n \in Pending(records) : ~records[n].hardcore}

StartOf(records, s) == {n \in DOMAIN records : records[n] = Start(s)}

\* The order in which SmartSyncPlanner puts the unlocks m and n: sessions in the order
\* they started, those that never did last and by identifier; then by order index.
Precedes(records, m, n) ==
    LET s == records[m].session  t == records[n].session
        S == StartOf(records, s)  T == StartOf(records, t) IN
    \/ s = t /\ records[m].order < records[n].order
    \/ s # t /\ S # {} /\ T = {}
    \/ s # t /\ S # {} /\ T # {} /\ \A i \in S, j \in T : i < j
    \/ s # t /\ S = {} /\ T = {} /\ s < t

\* What SmartSyncPlanner may make of them: each once, and none before one it follows.
Plans(records) ==
    LET sorted == {order \in SetToSeqs(Syncable(records)) :
                     \A i, j \in DOMAIN order :
                         i < j => ~Precedes(records, order[j], order[i])}
    IN {[i \in DOMAIN order |-> [seq |-> order[i], unlock |-> records[order[i]]]]
            : order \in sorted}

-----------------------------------------------------------------------------
(* appendRecord and writeAtomically: read, verify, write a temporary file,   *)
(* delete the old one, rename; if that fails, copy.                          *)

AppendBegins(by, record) ==
    /\ MutexFree /\ ~Damaged
    /\ writer' = [at |-> "delete", by |-> by, records |-> Append(ledger, record)]

AppendFails ==
    /\ MutexFree
    /\ MayBeUnreadable \/ "write fails" \in Faults

\* The coroutines of the emulator screen; an unlock follows the session it opened.
HandlerDone(h, success) ==
    /\ handlers' = (handlers \ {h}) \cup
         (IF success /\ h.step = "start" /\ h.achievement # None
          THEN {[h EXCEPT !.step = "unlock", !.order = next[h.session]]} ELSE {})
    /\ IF success /\ h.step = "start" /\ h.achievement # None
       THEN /\ next' = [next EXCEPT ![h.session] = @ + 1]
            /\ unlocked' = unlocked \cup {h.achievement}
       ELSE UNCHANGED <<next, unlocked>>
    /\ game' = [at |-> IF game.at = "opening" THEN "playing" ELSE game.at,
                session |-> IF success /\ h.step = "start" THEN h.session ELSE game.session]

SyncGoesOn(s, success) ==
    sync' = [sync EXCEPT ![s] =
        IF success /\ Len(@.plan) > 1
        THEN [at |-> "award", plan |-> Tail(@.plan), attempts |-> 0] ELSE Resting]

Finished(by, success) ==
    IF by \in handlers THEN HandlerDone(by, success) /\ UNCHANGED sync
    ELSE IF by \in Syncs THEN SyncGoesOn(by, success) /\ UNCHANGED play
    ELSE UNCHANGED <<play, sync>>

DeleteOld ==
    /\ writer.at = "delete" /\ writer' = [writer EXCEPT !.at = "rename"]
    /\ file' = "absent" /\ ledger' = <<>>
    /\ UNCHANGED <<play, sync, history>>

Rename ==
    /\ writer.at = "rename" /\ writer' = Nobody
    /\ file' = "whole" /\ ledger' = writer.records
    /\ Finished(writer.by, TRUE) /\ UNCHANGED history

RenameFails ==
    /\ writer.at = "rename" /\ "rename fails" \in Faults
    /\ writer' = [writer EXCEPT !.at = "copy"] /\ file' = "damaged"
    /\ UNCHANGED <<ledger, play, sync, history>>

Copy ==
    /\ writer.at = "copy" /\ writer' = Nobody
    /\ \/ /\ file' = "whole" /\ ledger' = writer.records /\ Finished(writer.by, TRUE)
       \/ /\ "copy fails" \in Faults /\ UNCHANGED disk /\ Finished(writer.by, FALSE)
    /\ UNCHANGED history

-----------------------------------------------------------------------------
(* The emulator screen.                                                      *)

SessionsIn(records) ==
    {records[n].session : n \in {k \in DOMAIN records : records[k].kind # "ack"}}
\* Identifiers are random: any that is not in use.
Fresh ==
    SessionIds \ ({game.session} \cup {h.session : h \in handlers}
                    \cup SessionsIn(ledger) \cup SessionsIn(writer.records))

Handler(step, a, s, n) == [step |-> step, achievement |-> a, session |-> s, order |-> n]

Launch ==
    /\ game.at = "closed" /\ MutexFree
    /\ \/ MayBeUnreadable /\ game' = [Closed EXCEPT !.at = "resetting"]
       \/ ~Damaged /\ game' = [Closed EXCEPT !.at = "deciding"]
    /\ UNCHANGED <<disk, writer, next, handlers, unlocked, sync, history>>

ResetLedger ==
    /\ game.at = "resetting" /\ MutexFree
    /\ file' = "absent" /\ ledger' = <<>>
    /\ game' = [game EXCEPT !.at = "deciding"]
    /\ overtaken' = (overtaken \/ \E s \in Syncs : sync[s].at # "idle")
    /\ UNCHANGED <<writer, next, handlers, unlocked, sync, settled>>

PlayOnline ==
    /\ game.at = "deciding" /\ sync[launch].at = "idle"
    /\ game' = [game EXCEPT !.at = "playing"]
    /\ UNCHANGED <<disk, writer, next, handlers, unlocked, sync, history>>

\* The session counts from now on, whether its start can be recorded or not.
PlayOffline ==
    /\ game.at = "deciding" /\ sync[launch].at = "idle"
    /\ \E s \in Fresh :
         /\ game' = [at |-> "opening", session |-> s]
         /\ handlers' = handlers \cup {Handler("start", None, s, 0)}
         /\ next' = [next EXCEPT ![s] = 0]
    /\ UNCHANGED <<disk, writer, unlocked, sync, history>>

NetworkLost ==
    /\ game.at = "playing" /\ game.session = NoSession
    /\ \E s \in Fresh :
         /\ handlers' = handlers \cup {Handler("start", None, s, 0)}
         /\ next' = [next EXCEPT ![s] = 0]
    /\ UNCHANGED <<disk, writer, game, unlocked, sync, history>>

Earnable(a) == game.at = "playing" /\ a \notin unlocked /\ \A h \in handlers : h.achievement # a

UnlockInSession(a) ==
    /\ Earnable(a) /\ game.session # NoSession
    /\ handlers' = handlers \cup {Handler("unlock", a, game.session, next[game.session])}
    /\ next' = [next EXCEPT ![game.session] = @ + 1]
    /\ unlocked' = unlocked \cup {a}
    /\ UNCHANGED <<disk, writer, game, sync, history>>

\* Two coroutines may both find no session and open one each.
UnlockOpeningSession(a) ==
    /\ Earnable(a) /\ game.session = NoSession
    /\ \E s \in Fresh :
         /\ handlers' = handlers \cup {Handler("start", a, s, 0)}
         /\ next' = [next EXCEPT ![s] = 0]
    /\ UNCHANGED <<disk, writer, game, unlocked, sync, history>>

\* An award that failed online is kept in a session of its own that never starts.
UnlockAfterFailedAward(a) ==
    /\ Earnable(a) /\ game.session = NoSession
    /\ \E s \in Fresh : handlers' = handlers \cup {Handler("unlock", a, s, 0)}
    /\ unlocked' = unlocked \cup {a}
    /\ UNCHANGED <<disk, writer, game, next, sync, history>>

Payload(h) ==
    CASE h.step = "start" -> Start(h.session)
      [] h.step = "unlock" -> Unlock(h.achievement, h.session, h.order, FALSE)

HandlerAppends ==
    \E h \in handlers :
        \/ AppendBegins(h, Payload(h)) /\ UNCHANGED <<disk, play, sync, history>>
        \/ AppendFails /\ HandlerDone(h, FALSE) /\ UNCHANGED <<disk, writer, sync, history>>

\* What waits for the mutex is cancelled; what is being written is written.  The record
\* of the end of the session, which nothing reads, is left out.
CloseGame ==
    /\ game.at = "playing" \/ (game.at = "deciding" /\ sync[launch].at = "idle")
    /\ game' = Closed /\ handlers' = {} /\ next' = NoOrder
    /\ writer' = IF writer.by \in handlers THEN [writer EXCEPT !.by = gone] ELSE writer
    /\ UNCHANGED <<disk, unlocked, sync, history>>

-----------------------------------------------------------------------------
(* SmartSyncEngine.                                                          *)

Goes(s, place) == sync' = [sync EXCEPT ![s].at = place]
Ends(s) == sync' = [sync EXCEPT ![s] = Resting]
Item(s) == Head(sync[s].plan)

SyncBegins(s) ==
    /\ sync[s].at = "idle" /\ (s = launch => game.at = "deciding")
    /\ MutexFree /\ file = "whole" /\ Syncable(ledger) # {}
    /\ \E plan \in Plans(ledger) :
         sync' = [sync EXCEPT ![s] = [at |-> "award", plan |-> plan, attempts |-> 0]]
    /\ UNCHANGED <<disk, writer, play, history>>

\* Awarded, now or before; or the achievement has gone or changed, or is refused for good.
Settle(s) ==
    /\ sync[s].at = "award" /\ Goes(s, "ack")
    /\ settled' = settled \cup {Item(s).unlock.achievement}
    /\ UNCHANGED <<disk, writer, play, overtaken>>

\* A network error, whether or not the server heard.
TimesOut(s) ==
    /\ sync[s].at = "award"
    /\ \/ UNCHANGED settled
       \/ settled' = settled \cup {Item(s).unlock.achievement}
    /\ UNCHANGED <<disk, writer, play, overtaken>>

TryAgain(s) == sync' = [sync EXCEPT ![s].attempts = @ + 1]

GivesUpAndAcknowledges(s) ==
    TimesOut(s) /\ IF sync[s].attempts + 1 >= MaxAttempts THEN Goes(s, "ack") ELSE TryAgain(s)
GivesUpThisUnlock(s) ==
    TimesOut(s) /\ IF sync[s].attempts + 1 >= MaxAttempts THEN SyncGoesOn(s, TRUE) ELSE TryAgain(s)

\* Another try, unless this was the last: then the sync ends.
AwardTimesOut(s) ==
    TimesOut(s) /\ IF sync[s].attempts + 1 >= MaxAttempts THEN Ends(s) ELSE TryAgain(s)

\* Any other error, or the screen goes away.
SyncFails(s) ==
    /\ sync[s].at # "idle" /\ Ends(s)
    /\ writer' = IF ~MutexFree /\ writer.by = s THEN [writer EXCEPT !.by = gone] ELSE writer
    /\ UNCHANGED <<disk, play, history>>

SyncAppends(s) ==
    /\ sync[s].at = "ack"
    /\ \/ AppendBegins(s, Ack(Item(s).seq)) /\ UNCHANGED <<disk, play, sync, history>>
       \/ AppendFails /\ Ends(s) /\ UNCHANGED <<disk, writer, play, history>>

-----------------------------------------------------------------------------
Killed ==
    /\ \/ "killed" \in Faults /\ writer.at \in {"free", "delete"}
       \/ "killed while replacing" \in Faults
    /\ writer' = Nobody /\ game' = Closed /\ handlers' = {} /\ next' = NoOrder
    /\ sync' = [s \in Syncs |-> Resting]
    /\ UNCHANGED <<disk, unlocked, settled>> /\ overtaken' = FALSE

Write == DeleteOld \/ Rename \/ RenameFails \/ Copy
Play ==
    \/ Launch \/ ResetLedger \/ PlayOnline \/ PlayOffline \/ NetworkLost \/ CloseGame
    \/ \E a \in Achievements :
         UnlockInSession(a) \/ UnlockOpeningSession(a) \/ UnlockAfterFailedAward(a)
    \/ HandlerAppends
Answer(s) == Settle(s) \/ AwardTimesOut(s)

Next ==
    \/ Write \/ Play \/ Killed
    \/ \E s \in Syncs : SyncBegins(s) \/ Answer(s) \/ SyncFails(s) \/ SyncAppends(s)

Spec == Init /\ [][Next]_vars

-----------------------------------------------------------------------------
(* Properties.                                                               *)

\* The records that survive if nothing goes wrong from here on.
Contents == IF writer.at \in {"rename", "copy"} THEN writer.records ELSE ledger
Outstanding == {Contents[n] : n \in Pending(Contents)}

\* An unlock in the ledger leaves only settled: never lost, and never acknowledged
\* before its award.
NoUnlockLost ==
    [][\A u \in Outstanding : u \notin Outstanding' => u.achievement \in settled]_vars

\* The same, but for a whole ledger that goes, and for a sync that goes on after that:
\* two syncs and the appends of a game never lose or settle a single unlock.
PendingUntilSettled ==
    [][\A u \in Outstanding : u \notin Outstanding' =>
          u.achievement \in settled \/ Contents' = <<>> \/ overtaken]_vars

\* Hardcore unlocks of older versions are neither replayed nor acknowledged.
LegacyHardcoreUntouched ==
    /\ LegacyHardcore \notin settled
    /\ \A n \in Unlocks(Contents) : Contents[n].hardcore => n \in Pending(Contents)

\* A sync that replays n knows of m.
KnownWith(m, n) ==
    m < n \/ \A s \in Syncs :
                sync[s].at = "award" => m \in {item.seq : item \in ToSet(sync[s].plan)}

\* The unlocks of a session reach the server in the order they were earned, whichever
\* syncs replay them and however their appends were interleaved: none is awarded while
\* an earlier one waits.  Only an unlock whose append was overtaken and missed the plan
\* comes after a later one.
AwardedInSessionOrder ==
    [][\A m \in Pending(Contents), n \in Unlocks(Contents) :
          /\ Contents[m].session = Contents[n].session
          /\ Contents[m].order < Contents[n].order /\ KnownWith(m, n)
          /\ Contents[n].achievement \in settled' \ settled
          => Contents[m].achievement \in settled]_vars

=============================================================================
