------------------------ MODULE OfflineLedgerProofs ------------------------
(***************************************************************************)
(* Proofs about OfflineLedger for any achievements, sessions, attempts and *)
(* faults.  What a sync does to the ledger depends on a plan it made from  *)
(* an older one.  The invariant says what has become of the plan since: it *)
(* is still true of the ledger, or the ledger has gone and the plan names  *)
(* nothing that will ever be in it again (Planned).                        *)
(***************************************************************************)
EXTENDS OfflineLedger, SequenceTheorems, FiniteSetTheorems, TLAPS

-----------------------------------------------------------------------------
(* Types.                                                                    *)

Softcore ==
    [kind : {"unlock"}, achievement : Achievements, session : SessionIds, order : Nat,
     hardcore : {FALSE}]
Legacy == Unlock(LegacyHardcore, NoSession, 0, TRUE)
Starts == [kind : {"start"}, session : SessionIds]
Acks == [kind : {"ack"}, acked : Nat]
Record == Softcore \cup {Legacy} \cup Starts \cup Acks
Items == [seq : Nat, unlock : Softcore]

TypeOK ==
    /\ file \in {"absent", "whole", "damaged"} /\ ledger \in Seq(Record)
    /\ writer \in [at : {"free", "delete", "rename", "copy"},
                   by : Syncs \cup {gone} \cup Handlers, records : Seq(Record)]
    /\ game \in [at : {"closed", "resetting", "deciding", "opening", "playing"},
                 session : SessionIds \cup {NoSession}]
    /\ next \in [SessionIds -> Nat]
    /\ handlers \subseteq Handlers
    /\ \A h \in handlers : h.step = "unlock" => h.achievement # None
    /\ unlocked \subseteq Achievements
    /\ sync \in [Syncs -> [at : {"idle", "award", "ack"}, plan : Seq(Items), attempts : Nat]]
    /\ settled \subseteq Achievements /\ overtaken \in BOOLEAN

-----------------------------------------------------------------------------
(* The invariant.                                                            *)

\* The ledger there will be when what is being written is written.
Future == IF MutexFree THEN ledger ELSE writer.records
Earned(records) == {records[n].achievement : n \in Unlocks(records)}

\* What is being written follows from what is on disk, and the record of a sync was
\* settled by then.
Writes ==
    /\ file # "whole" => ledger = <<>>
    /\ writer.at = "free" => writer = Nobody
    /\ writer.at = "delete" =>
          LET r == Last(writer.records) IN
              /\ r \in Record /\ writer.records = Append(ledger, r)
              /\ \A n \in Unlocks(ledger) :
                    r = Ack(n) => ledger[n].achievement \in settled \/ overtaken
    /\ writer.at \in {"rename", "copy"} => ledger = <<>>
    /\ writer.at = "copy" => file = "damaged"
    /\ \A s \in Syncs : writer.by = s => sync[s].at = "ack"

\* An achievement is earned once: it is still free to be earned, or a handler has it,
\* or the ledger had it once.
Once ==
    /\ \A h \in handlers :
          /\ h.step = "start" => h.achievement \notin unlocked
          /\ h.step = "unlock" => /\ h.achievement \in unlocked
                                  /\ writer.by # h => h.achievement \notin Earned(Future)
          /\ \A g \in handlers : g # h /\ h.achievement # None => g.achievement # h.achievement
    /\ Earned(Future) \subseteq unlocked \cup {LegacyHardcore}
    /\ \A m, n \in Unlocks(Future) : Future[m].achievement = Future[n].achievement => m = n

\* A hardcore unlock waits in a ledger that was never reset during a sync.
HardcoreWaits ==
    \A n \in Unlocks(Future) : Future[n].hardcore => n \in Pending(Future) /\ ~overtaken

InLedger(item) == item.seq \in DOMAIN Contents /\ Contents[item.seq] = item.unlock

\* Unlocks of one session, in the order they were earned.
Follows(u, v) == u.session = v.session /\ v.order < u.order

\* What is left of a plan.
PlannedBy(s, plan) ==
    /\ \A i \in DOMAIN plan :
          /\ plan[i].unlock.achievement \in unlocked
          /\ \A h \in handlers : h.achievement # plan[i].unlock.achievement
    /\ \/ \A i \in DOMAIN plan : InLedger(plan[i])
       \/ /\ \A i \in DOMAIN plan : plan[i].unlock.achievement \notin Earned(Future)
          /\ overtaken \/ (MutexFree /\ Damaged)
    /\ \A i, j \in DOMAIN plan : i < j => ~Follows(plan[i].unlock, plan[j].unlock)
    /\ \A i \in DOMAIN plan, m \in Pending(Contents) :
          InLedger(plan[i]) /\ m < plan[i].seq /\ Follows(plan[i].unlock, Contents[m]) =>
              \/ Contents[m].achievement \in settled
              \/ \E j \in DOMAIN plan : plan[j].seq = m
Planned ==
    \A s \in Syncs :
        /\ PlannedBy(s, sync[s].plan)
        /\ sync[s].at = "idle" <=> sync[s].plan = <<>>
        /\ sync[s].at = "ack" => Item(s).unlock.achievement \in settled

IInv == TypeOK /\ Writes /\ Once /\ HardcoreWaits /\ Planned

-----------------------------------------------------------------------------
(* Records and sequences of records.                                         *)

LEMMA RecordFacts ==
    ASSUME NEW r \in Record
    PROVE  /\ r.kind = "unlock" => r \in Softcore \cup {Legacy}
           /\ \A n : r = Ack(n) => r.kind = "ack"
           /\ r.kind = "unlock" => /\ r.achievement \in Achievements \cup {LegacyHardcore}
                                   /\ r.hardcore <=> r = Legacy
                                   /\ ~r.hardcore => r \in Softcore
<1>1. \A n : r = Ack(n) => r.kind = "ack"
  BY DEF Ack
<1>2. CASE r \in Softcore
  <2>1. r.kind = "unlock" /\ r.achievement \in Achievements /\ r.hardcore = FALSE
    BY <1>2 DEF Softcore
  <2>2. Legacy.hardcore = TRUE
    BY DEF Legacy, Unlock
  <2> QED BY <1>1, <1>2, <2>1, <2>2
<1>3. CASE r = Legacy
  BY <1>1, <1>3 DEF Legacy, Unlock
<1>4. CASE r \in Starts \cup Acks
  <2>1. r.kind = "start" \/ r.kind = "ack"
    BY <1>4 DEF Starts, Acks
  <2> QED BY <1>1, <2>1
<1> QED BY <1>1, <1>2, <1>3, <1>4 DEF Record

\* The records handlers and syncs write.
LEMMA PayloadFacts ==
    ASSUME NEW h \in Handlers, h.step = "unlock" => h.achievement # None
    PROVE  /\ Payload(h) \in Starts \cup Softcore
           /\ Payload(h).kind = "unlock" => /\ h.step = "unlock"
                                            /\ Payload(h).achievement = h.achievement
                                            /\ ~Payload(h).hardcore
           /\ \A n : Payload(h) # Ack(n)
<1>1. CASE h.step = "start"
  BY <1>1 DEF Payload, Handlers, Start, Starts, Ack
<1>2. CASE h.step = "unlock"
  BY <1>2 DEF Payload, Handlers, Unlock, Softcore, Ack
<1> QED BY <1>1, <1>2 DEF Handlers

LEMMA RecordsFacts ==
    ASSUME NEW records \in Seq(Record)
    PROVE  /\ Len(records) \in Nat /\ DOMAIN records = 1 .. Len(records)
           /\ \A n \in DOMAIN records : records[n] \in Record /\ n \in Nat
           /\ Unlocks(records) \subseteq DOMAIN records
           /\ Pending(records) \subseteq Unlocks(records)
           /\ Earned(records) \subseteq Achievements \cup {LegacyHardcore}
<1>1. /\ Len(records) \in Nat /\ DOMAIN records = 1 .. Len(records)
      /\ \A n \in DOMAIN records : records[n] \in Record /\ n \in Nat
  BY LenProperties, ElementOfSeq
<1>2. /\ Unlocks(records) \subseteq DOMAIN records
      /\ Pending(records) \subseteq Unlocks(records)
  BY DEF Unlocks, Pending
<1>3. Earned(records) \subseteq Achievements \cup {LegacyHardcore}
  BY <1>1, RecordFacts DEF Earned, Unlocks
<1> QED BY <1>1, <1>2, <1>3

LEMMA EmptyFacts ==
    /\ <<>> \in Seq(Record) /\ DOMAIN <<>> = {}
    /\ Unlocks(<<>>) = {} /\ Pending(<<>>) = {} /\ Earned(<<>>) = {}
  BY DEF Unlocks, Pending, Earned

\* A record appended to others.
LEMMA AppendFacts ==
    ASSUME NEW records \in Seq(Record), NEW r \in Record
    PROVE  LET longer == Append(records, r)
               end == Len(records) + 1
           IN  /\ longer \in Seq(Record) /\ Last(longer) = r /\ longer # <<>>
               /\ DOMAIN longer = DOMAIN records \cup {end} /\ end \notin DOMAIN records
               /\ longer[end] = r
               /\ \A n \in DOMAIN records : longer[n] = records[n] /\ n < end
               /\ Unlocks(longer) = Unlocks(records) \cup
                                      (IF r.kind = "unlock" THEN {end} ELSE {})
               /\ Earned(longer) = Earned(records) \cup
                                      (IF r.kind = "unlock" THEN {r.achievement} ELSE {})
               /\ Pending(longer) \subseteq Pending(records) \cup {end}
               /\ \A n \in Pending(records) : n \in Pending(longer) \/ r = Ack(n)
<1> DEFINE longer == Append(records, r)
           end == Len(records) + 1
<1>1. /\ longer \in Seq(Record) /\ Len(longer) = end /\ longer[end] = r
      /\ \A n \in 1 .. Len(records) : longer[n] = records[n]
  BY AppendProperties
<1>2. Len(records) \in Nat /\ DOMAIN records = 1 .. Len(records) /\ DOMAIN longer = 1 .. end
  BY <1>1, LenProperties
<1>3. /\ DOMAIN longer = DOMAIN records \cup {end} /\ end \notin DOMAIN records
      /\ \A n \in DOMAIN records : longer[n] = records[n] /\ n < end
  BY <1>1, <1>2
<1>4. Last(longer) = r /\ longer # <<>>
  BY <1>1, <1>2 DEF Last
<1> HIDE DEF longer, end
<1>5. Unlocks(longer) = Unlocks(records) \cup (IF r.kind = "unlock" THEN {end} ELSE {})
  BY <1>1, <1>3 DEF Unlocks
<1>6. Earned(longer) = Earned(records) \cup
                         (IF r.kind = "unlock" THEN {r.achievement} ELSE {})
  <2>1. \A n \in Unlocks(records) : longer[n] = records[n]
    BY <1>3 DEF Unlocks
  <2> QED BY <1>1, <1>5, <2>1 DEF Earned
<1>7. Pending(longer) \subseteq Pending(records) \cup {end}
  BY <1>3, <1>5 DEF Pending
<1>8. \A n \in Pending(records) : n \in Pending(longer) \/ r = Ack(n)
  BY <1>1, <1>3, <1>5 DEF Pending
<1> QED BY <1>1, <1>3, <1>4, <1>5, <1>6, <1>7, <1>8 DEF longer, end

\* Taking the first item of a plan away.
LEMMA TailFacts ==
    ASSUME NEW plan \in Seq(Items), plan # <<>>
    PROVE  /\ Head(plan) = plan[1] /\ 1 \in DOMAIN plan /\ Head(plan) \in Items
           /\ Len(plan) \in Nat /\ DOMAIN plan = 1 .. Len(plan)
           /\ Tail(plan) \in Seq(Items)
           /\ Tail(plan) = <<>> <=> ~(Len(plan) > 1)
           /\ \A i \in DOMAIN Tail(plan) :
                 i \in Nat /\ i + 1 \in DOMAIN plan /\ Tail(plan)[i] = plan[i + 1]
           /\ \A j \in DOMAIN plan : j # 1 => j - 1 \in DOMAIN Tail(plan) /\ Tail(plan)[j - 1] = plan[j]
<1>1. /\ Head(plan) \in Items /\ Tail(plan) \in Seq(Items)
      /\ Len(Tail(plan)) = Len(plan) - 1
      /\ \A i \in 1 .. Len(Tail(plan)) : Tail(plan)[i] = plan[i + 1]
  BY HeadTailProperties
<1>2. Len(plan) \in Nat /\ Len(plan) >= 1 /\ DOMAIN plan = 1 .. Len(plan)
  BY LenProperties, EmptySeq
<1>3. DOMAIN Tail(plan) = 1 .. Len(plan) - 1
  BY <1>1, LenProperties
<1>4. Tail(plan) = <<>> <=> Len(Tail(plan)) = 0
  <2>1. Len(<<>>) = 0
    OBVIOUS
  <2>2. Tail(plan) # <<>> => Len(Tail(plan)) # 0
    BY <1>1, EmptySeq
  <2> QED BY <2>1, <2>2
<1> QED BY <1>1, <1>2, <1>3, <1>4

-----------------------------------------------------------------------------
(* What the steps have in common.                                            *)

\* While the mutex is held the ledger to come differs from the one on disk.
LEMMA ContentsFacts ==
    ASSUME TypeOK, Writes
    PROVE  /\ Future \in Seq(Record) /\ Contents \in Seq(Record)
           /\ DOMAIN Contents \subseteq DOMAIN Future
           /\ \A n \in DOMAIN Contents : Contents[n] = Future[n]
           /\ Unlocks(Contents) \subseteq Unlocks(Future)
           /\ Earned(Contents) \subseteq Earned(Future)
           /\ writer.at \in {"free", "delete"} => Contents = ledger
           /\ writer.at # "delete" => Contents = Future
           /\ MutexFree => writer = Nobody /\ \A h \in handlers : writer.by # h
<1>1. /\ writer.at \in {"free", "delete", "rename", "copy"}
      /\ writer.records \in Seq(Record) /\ ledger \in Seq(Record)
  BY DEF TypeOK
<1>2. /\ Future \in Seq(Record) /\ Contents \in Seq(Record)
      /\ writer.at \in {"free", "delete"} => Contents = ledger
      /\ writer.at # "delete" => Contents = Future
  BY <1>1 DEF Future, Contents, MutexFree
<1>3. MutexFree => writer = Nobody /\ \A h \in handlers : writer.by # h
  <2>1. MutexFree => writer = Nobody /\ writer.by = gone
    BY DEF Writes, MutexFree, Nobody
  <2>2. \A h \in handlers : h # gone
    BY LedgerAssumption DEF TypeOK
  <2> QED BY <2>1, <2>2
<1>4. CASE writer.at # "delete"
  BY <1>2, <1>3, <1>4
<1>5. CASE writer.at = "delete"
  <2>1. Future = Append(ledger, Last(writer.records)) /\ Last(writer.records) \in Record
    BY <1>5 DEF Writes, Future, MutexFree
  <2>2. /\ DOMAIN ledger \subseteq DOMAIN Future
        /\ \A n \in DOMAIN ledger : ledger[n] = Future[n]
        /\ Unlocks(ledger) \subseteq Unlocks(Future)
        /\ Earned(ledger) \subseteq Earned(Future)
    BY <1>1, <2>1, AppendFacts
  <2> QED BY <1>2, <1>3, <1>5, <2>2
<1> QED BY <1>4, <1>5

\* Who waits for the mutex does not hold it.
LEMMA FreeFacts ==
    ASSUME TypeOK, Writes, MutexFree, NEW s \in Syncs PROVE writer.by # s
<1>1. writer.by = gone
  BY ContentsFacts DEF Nobody
<1> QED BY <1>1, LedgerAssumption

\* What the invariant says of one sync.
LEMMA SyncFacts ==
    ASSUME IInv, NEW s \in Syncs
    PROVE  /\ sync[s].at \in {"idle", "award", "ack"} /\ sync[s].attempts \in Nat
           /\ sync[s].plan \in Seq(Items)
           /\ PlannedBy(s, sync[s].plan)
           /\ sync[s].at = "idle" <=> sync[s].plan = <<>>
           /\ sync[s].at = "ack" => Item(s).unlock.achievement \in settled
           /\ sync[s].at # "idle" =>
                 /\ Item(s) = sync[s].plan[1] /\ 1 \in DOMAIN sync[s].plan
                 /\ Item(s) \in Items /\ Item(s).unlock \in Softcore /\ Item(s).seq \in Nat
                 /\ Item(s).unlock.achievement \in Achievements
<1>1. /\ sync[s].at \in {"idle", "award", "ack"} /\ sync[s].attempts \in Nat
      /\ sync[s].plan \in Seq(Items)
  BY DEF IInv, TypeOK
<1>2. /\ PlannedBy(s, sync[s].plan)
      /\ sync[s].at = "idle" <=> sync[s].plan = <<>>
      /\ sync[s].at = "ack" => Item(s).unlock.achievement \in settled
  BY DEF IInv, Planned
<1>3. ASSUME sync[s].at # "idle"
      PROVE  /\ Item(s) = sync[s].plan[1] /\ 1 \in DOMAIN sync[s].plan
             /\ Item(s) \in Items /\ Item(s).unlock \in Softcore /\ Item(s).seq \in Nat
             /\ Item(s).unlock.achievement \in Achievements
  <2>1. /\ Item(s) = sync[s].plan[1] /\ 1 \in DOMAIN sync[s].plan /\ Item(s) \in Items
    BY <1>1, <1>2, <1>3, TailFacts DEF Item
  <2> QED BY <2>1 DEF Items, Softcore
<1> QED BY <1>1, <1>2, <1>3

\* A plan stands while the ledger does, syncs settle more, and handlers come that
\* have nothing the plan has.
LEMMA PlanStands ==
    ASSUME NEW s, NEW plan, PlannedBy(s, plan), UNCHANGED Contents,
           unlocked \subseteq unlocked', settled \subseteq settled',
           \A h \in handlers' :
               (\E g \in handlers : g.achievement = h.achievement) \/ h.achievement \notin unlocked,
           \A i \in DOMAIN plan :
               plan[i].unlock.achievement \in Earned(Future)' =>
                   plan[i].unlock.achievement \in Earned(Future),
           overtaken \/ (MutexFree /\ Damaged) => (overtaken \/ (MutexFree /\ Damaged))'
    PROVE  PlannedBy(s, plan)'
<1>1. \A i \in DOMAIN plan : InLedger(plan[i])' <=> InLedger(plan[i])
  BY DEF InLedger
<1>2. Pending(Contents)' = Pending(Contents)
  BY DEF Pending
<1>3. \A i \in DOMAIN plan :
          /\ plan[i].unlock.achievement \in unlocked'
          /\ \A h \in handlers' : h.achievement # plan[i].unlock.achievement
  BY DEF PlannedBy
<1>4. \/ \A i \in DOMAIN plan : InLedger(plan[i])'
      \/ /\ \A i \in DOMAIN plan : plan[i].unlock.achievement \notin Earned(Future)'
         /\ (overtaken \/ (MutexFree /\ Damaged))'
  BY <1>1 DEF PlannedBy
<1>5. \A i, j \in DOMAIN plan : i < j => ~Follows(plan[i].unlock, plan[j].unlock)
  BY DEF PlannedBy
<1>6. \A i \in DOMAIN plan, m \in Pending(Contents)' :
          InLedger(plan[i])' /\ m < plan[i].seq /\ Follows(plan[i].unlock, Contents'[m]) =>
              \/ Contents'[m].achievement \in settled'
              \/ \E j \in DOMAIN plan : plan[j].seq = m
  BY <1>1, <1>2 DEF PlannedBy
<1> QED BY <1>3, <1>4, <1>5, <1>6 DEF PlannedBy

\* An empty plan is as good as any.
LEMMA NoPlan == ASSUME NEW s PROVE PlannedBy(s, <<>>)
  BY DEF PlannedBy

\* A plan for a ledger that has gone.
LEMMA PlanGone ==
    ASSUME NEW s, NEW plan \in Seq(Items), PlannedBy(s, plan),
           Contents' = <<>>, Future' = <<>>, unlocked \subseteq unlocked',
           \A h \in handlers' :
               (\E g \in handlers : g.achievement = h.achievement) \/ h.achievement \notin unlocked,
           (overtaken \/ (MutexFree /\ Damaged))'
    PROVE  PlannedBy(s, plan)'
<1>1. \A i \in DOMAIN plan : ~InLedger(plan[i])'
  BY DEF InLedger
<1>2. Earned(Future)' = {}
  BY EmptyFacts
<1> QED BY <1>1, <1>2 DEF PlannedBy

\* When the first item of a plan is settled the rest is a plan.
LEMMA PlanGoesOn ==
    ASSUME TypeOK, Writes, NEW s, NEW plan \in Seq(Items), plan # <<>>, PlannedBy(s, plan),
           plan[1].unlock.achievement \in settled
    PROVE  PlannedBy(s, Tail(plan))
<1> DEFINE rest == Tail(plan)
<1>1. \A i \in DOMAIN rest : i \in Nat /\ i + 1 \in DOMAIN plan /\ rest[i] = plan[i + 1]
  BY TailFacts
<1>2. \A j \in DOMAIN plan : j # 1 => j - 1 \in DOMAIN rest /\ rest[j - 1] = plan[j]
  BY TailFacts
<1>3. 1 \in DOMAIN plan
  BY TailFacts
<1> HIDE DEF rest
<1>4. \A i \in DOMAIN rest :
          /\ rest[i].unlock.achievement \in unlocked
          /\ \A h \in handlers : h.achievement # rest[i].unlock.achievement
  BY <1>1 DEF PlannedBy
<1>5. \/ \A i \in DOMAIN rest : InLedger(rest[i])
      \/ /\ \A i \in DOMAIN rest : rest[i].unlock.achievement \notin Earned(Future)
         /\ overtaken \/ (MutexFree /\ Damaged)
  BY <1>1 DEF PlannedBy
<1>6. ASSUME NEW i \in DOMAIN rest, NEW j \in DOMAIN rest, i < j
      PROVE  ~Follows(rest[i].unlock, rest[j].unlock)
  <2>1. i + 1 < j + 1
    BY <1>1, <1>6
  <2> QED BY <1>1, <2>1 DEF PlannedBy
<1>7. ASSUME NEW i \in DOMAIN rest, NEW m \in Pending(Contents), InLedger(rest[i]),
             m < rest[i].seq, Follows(rest[i].unlock, Contents[m])
      PROVE  Contents[m].achievement \in settled \/ \E j \in DOMAIN rest : rest[j].seq = m
  <2>1. \/ Contents[m].achievement \in settled
        \/ \E j \in DOMAIN plan : plan[j].seq = m
    BY <1>1, <1>7 DEF PlannedBy
  <2>2. ASSUME plan[1].seq = m PROVE Contents[m].achievement \in settled
    <3>1. rest[i].unlock.achievement \in Earned(Future)
      <4>1. Contents[rest[i].seq] = rest[i].unlock /\ rest[i].seq \in DOMAIN Contents
        BY <1>7 DEF InLedger
      <4>2. rest[i].unlock.kind = "unlock"
        <5>1. rest[i] \in Items
          BY <1>1, ElementOfSeq, LenProperties
        <5> QED BY <5>1 DEF Items, Softcore
      <4>3. rest[i].seq \in Unlocks(Contents)
        BY <4>1, <4>2 DEF Unlocks
      <4> QED BY <4>1, <4>3, ContentsFacts DEF Earned
    <3>2. InLedger(plan[1])
      BY <1>1, <1>3, <3>1 DEF PlannedBy
    <3> QED BY <2>2, <3>2 DEF InLedger
  <2> QED BY <1>2, <2>1, <2>2
<1>8. PlannedBy(s, rest)
  BY <1>4, <1>5, <1>6, <1>7 DEF PlannedBy
<1> QED BY <1>8 DEF rest

\* Where the ledger does not change, plans that do not either stay good.
LEMMA PlansStand ==
    ASSUME IInv, UNCHANGED <<Contents, sync>>,
           unlocked \subseteq unlocked', settled \subseteq settled',
           \A h \in handlers' :
               (\E g \in handlers : g.achievement = h.achievement) \/ h.achievement \notin unlocked,
           \A s \in Syncs : \A i \in DOMAIN sync[s].plan :
               sync[s].plan[i].unlock.achievement \in Earned(Future)' =>
                   sync[s].plan[i].unlock.achievement \in Earned(Future),
           overtaken \/ (MutexFree /\ Damaged) => (overtaken \/ (MutexFree /\ Damaged))'
    PROVE  Planned'
<1> SUFFICES ASSUME NEW s \in Syncs
             PROVE  /\ PlannedBy(s, sync[s].plan)'
                    /\ sync'[s].at = "idle" <=> sync'[s].plan = <<>>
                    /\ sync'[s].at = "ack" => Item(s)'.unlock.achievement \in settled'
  BY DEF Planned
<1>1. /\ PlannedBy(s, sync[s].plan)
      /\ sync[s].at = "idle" <=> sync[s].plan = <<>>
      /\ sync[s].at = "ack" => Item(s).unlock.achievement \in settled
  BY SyncFacts
<1>2. PlannedBy(s, sync[s].plan)'
  <2> DEFINE plan == sync[s].plan
  <2>1. PlannedBy(s, plan) /\ plan' = plan
    BY <1>1
  <2>2. \A i \in DOMAIN plan : plan[i].unlock.achievement \in Earned(Future)' =>
                                   plan[i].unlock.achievement \in Earned(Future)
    OBVIOUS
  <2> HIDE DEF plan
  <2>3. PlannedBy(s, plan)'
    BY <2>1, <2>2, PlanStands
  <2> QED BY <2>3 DEF plan
<1> QED BY <1>1, <1>2 DEF Item

-----------------------------------------------------------------------------
(* The emulator screen.                                                      *)

\* A new handler has an achievement nobody has earned, or none.
LEMMA NewHandlerOnce ==
    ASSUME IInv, UNCHANGED <<ledger, writer>>, NEW h \in Handlers, handlers' = handlers \cup {h},
           h.step = "unlock" => h.achievement # None,
           h.achievement # None =>
               h.achievement \notin unlocked /\ \A g \in handlers : g.achievement # h.achievement,
           \/ h.step = "start" /\ unlocked' = unlocked
           \/ h.step = "unlock" /\ unlocked' = unlocked \cup {h.achievement}
    PROVE  Once'
<1>1. UNCHANGED Future
  BY DEF Future, MutexFree
<1>2. \A g \in handlers : g \in Handlers
  BY DEF IInv, TypeOK
<1>3. None \notin unlocked /\ h.achievement \in Achievements \cup {None}
  BY LedgerAssumption DEF IInv, TypeOK, Handlers
<1>4. h.achievement # None => h.achievement \notin Earned(Future)
  BY <1>3, LedgerAssumption DEF IInv, Once
<1>5. ASSUME NEW g \in handlers'
      PROVE  /\ g.step = "start" => g.achievement \notin unlocked'
             /\ g.step = "unlock" =>
                   g.achievement \in unlocked' /\ (writer'.by # g => g.achievement \notin Earned(Future)')
             /\ \A k \in handlers' : k # g /\ g.achievement # None => k.achievement # g.achievement
  <2>1. CASE g = h
    BY <1>1, <1>2, <1>3, <1>4, <2>1
  <2>2. CASE g \in handlers
    <3>1. /\ g.step = "start" => g.achievement \notin unlocked
          /\ g.step = "unlock" =>
                g.achievement \in unlocked /\ (writer.by # g => g.achievement \notin Earned(Future))
          /\ \A k \in handlers : k # g /\ g.achievement # None => k.achievement # g.achievement
      BY <2>2 DEF IInv, Once
    <3>2. h.achievement # None => g.achievement # h.achievement
      BY <2>2
    <3> QED BY <1>1, <1>3, <3>1, <3>2
  <2> QED BY <2>1, <2>2
<1>6. /\ Earned(Future) \subseteq unlocked' \cup {LegacyHardcore}
      /\ \A m, n \in Unlocks(Future) : Future[m].achievement = Future[n].achievement => m = n
  BY DEF IInv, Once
<1> QED BY <1>1, <1>5, <1>6 DEF Once

\* The ledger is left alone, and the syncs too.
LEMMA QuietIInv ==
    ASSUME IInv, UNCHANGED <<disk, writer, sync, history>>, TypeOK', Once',
           unlocked \subseteq unlocked',
           \A h \in handlers' :
               (\E g \in handlers : g.achievement = h.achievement) \/ h.achievement \notin unlocked
    PROVE  IInv'
<1>1. UNCHANGED <<Contents, Future, MutexFree, Damaged, overtaken, settled>>
  BY DEF disk, history, Contents, Future, MutexFree, Damaged
<1>2. Writes'
  <2>1. Writes
    BY DEF IInv
  <2> QED BY <2>1 DEF Writes, disk, history, Nobody
<1>3. HardcoreWaits'
  BY <1>1 DEF IInv, HardcoreWaits, Pending, Unlocks
<1>4. UNCHANGED Earned(Future)
  BY <1>1 DEF Earned, Unlocks
<1>5. Planned'
  BY <1>1, <1>4, PlansStand
<1> QED BY <1>2, <1>3, <1>5 DEF IInv

\* Screens that change only their own state.
LEMMA LaunchIInv == ASSUME IInv, Launch \/ PlayOnline PROVE IInv'
<1>1. UNCHANGED <<disk, writer, next, handlers, unlocked, sync, history>>
  BY DEF Launch, PlayOnline
<1>2. game' \in [at : {"closed", "resetting", "deciding", "opening", "playing"},
                 session : SessionIds \cup {NoSession}]
  BY DEF Launch, PlayOnline, IInv, TypeOK, Closed
<1>3. TypeOK'
  BY <1>1, <1>2 DEF IInv, TypeOK, disk, history
<1>4. Once'
  <2>1. UNCHANGED <<Future, writer>>
    BY <1>1 DEF Future, MutexFree, disk
  <2> QED BY <1>1, <2>1 DEF IInv, Once, Earned, Unlocks
<1> QED BY <1>1, <1>3, <1>4, QuietIInv

\* A new session or unlock.
LEMMA NewHandlerIInv ==
    ASSUME IInv, UNCHANGED <<disk, writer, sync, history>>, NEW h \in Handlers,
           handlers' = handlers \cup {h},
           game' \in [at : {"closed", "resetting", "deciding", "opening", "playing"},
                      session : SessionIds \cup {NoSession}],
           next' \in [SessionIds -> Nat],
           h.step = "unlock" => h.achievement # None,
           h.achievement # None =>
               h.achievement \notin unlocked /\ \A g \in handlers : g.achievement # h.achievement,
           \/ h.step = "start" /\ unlocked' = unlocked
           \/ h.step = "unlock" /\ unlocked' = unlocked \cup {h.achievement}
    PROVE  IInv'
<1>1. UNCHANGED <<ledger, writer>>
  BY DEF disk
<1>2. Once'
  BY <1>1, NewHandlerOnce
<1>3. h.achievement \in Achievements \cup {None} /\ None \notin unlocked
  BY LedgerAssumption DEF Handlers, IInv, TypeOK
<1>4. unlocked' \subseteq Achievements
  BY <1>3 DEF IInv, TypeOK
<1>5. TypeOK'
  BY <1>4 DEF IInv, TypeOK, disk, history
<1>6. \A k \in handlers' :
          (\E g \in handlers : g.achievement = k.achievement) \/ k.achievement \notin unlocked
  BY <1>3
<1> QED BY <1>2, <1>5, <1>6, QuietIInv

LEMMA PlayIInv ==
    ASSUME IInv, PlayOffline \/ NetworkLost PROVE IInv'
<1>1. UNCHANGED <<disk, writer, sync, history>> /\ unlocked' = unlocked
  BY DEF PlayOffline, NetworkLost
<1>2. PICK s \in Fresh : /\ handlers' = handlers \cup {Handler("start", None, s, 0)}
                         /\ next' = [next EXCEPT ![s] = 0]
                         /\ game' = game \/ game' = [at |-> "opening", session |-> s]
  BY DEF PlayOffline, NetworkLost
<1>3. s \in SessionIds
  BY DEF Fresh
<1>4. Handler("start", None, s, 0) \in Handlers /\ Handler("start", None, s, 0).step = "start"
      /\ Handler("start", None, s, 0).achievement = None
  BY <1>3 DEF Handler, Handlers
<1>5. next' \in [SessionIds -> Nat]
  BY <1>2 DEF IInv, TypeOK
<1>6. game' \in [at : {"closed", "resetting", "deciding", "opening", "playing"},
                 session : SessionIds \cup {NoSession}]
  BY <1>2, <1>3 DEF IInv, TypeOK
<1> QED BY <1>1, <1>2, <1>4, <1>5, <1>6, NewHandlerIInv

LEMMA UnlockIInv ==
    ASSUME IInv, NEW a \in Achievements,
           UnlockInSession(a) \/ UnlockOpeningSession(a) \/ UnlockAfterFailedAward(a)
    PROVE  IInv'
<1>1. UNCHANGED <<disk, writer, sync, history, game>>
  BY DEF UnlockInSession, UnlockOpeningSession, UnlockAfterFailedAward
<1>2. a # None /\ a \notin unlocked /\ \A g \in handlers : g.achievement # a
  BY LedgerAssumption DEF UnlockInSession, UnlockOpeningSession, UnlockAfterFailedAward, Earnable
<1>3. next \in [SessionIds -> Nat] /\ game.session \in SessionIds \cup {NoSession}
  BY DEF IInv, TypeOK
<1>4. \E h \in Handlers :
         /\ handlers' = handlers \cup {h} /\ h.achievement = a
         /\ next' \in [SessionIds -> Nat]
         /\ \/ h.step = "start" /\ unlocked' = unlocked
            \/ h.step = "unlock" /\ unlocked' = unlocked \cup {h.achievement}
  <2>1. CASE UnlockInSession(a)
    <3> DEFINE h == Handler("unlock", a, game.session, next[game.session])
    <3>1. game.session \in SessionIds
      BY <1>3, <2>1 DEF UnlockInSession
    <3>2. h \in Handlers /\ h.achievement = a /\ h.step = "unlock"
      BY <1>3, <3>1 DEF Handler, Handlers
    <3>3. next' \in [SessionIds -> Nat] /\ handlers' = handlers \cup {h} /\ unlocked' = unlocked \cup {a}
      BY <1>3, <2>1, <3>1 DEF UnlockInSession
    <3> HIDE DEF h
    <3> QED BY <3>2, <3>3
  <2>2. CASE UnlockOpeningSession(a)
    <3>1. PICK s \in Fresh : /\ handlers' = handlers \cup {Handler("start", a, s, 0)}
                             /\ next' = [next EXCEPT ![s] = 0]
      BY <2>2 DEF UnlockOpeningSession
    <3> DEFINE h == Handler("start", a, s, 0)
    <3>2. h \in Handlers /\ h.achievement = a /\ h.step = "start"
      BY <3>1 DEF Handler, Handlers, Fresh
    <3>3. next' \in [SessionIds -> Nat] /\ handlers' = handlers \cup {h} /\ unlocked' = unlocked
      BY <1>3, <2>2, <3>1 DEF UnlockOpeningSession
    <3> HIDE DEF h
    <3> QED BY <3>2, <3>3
  <2>3. CASE UnlockAfterFailedAward(a)
    <3>1. PICK s \in Fresh : handlers' = handlers \cup {Handler("unlock", a, s, 0)}
      BY <2>3 DEF UnlockAfterFailedAward
    <3> DEFINE h == Handler("unlock", a, s, 0)
    <3>2. h \in Handlers /\ h.achievement = a /\ h.step = "unlock"
      BY <3>1 DEF Handler, Handlers, Fresh
    <3>3. next' \in [SessionIds -> Nat] /\ handlers' = handlers \cup {h} /\ unlocked' = unlocked \cup {a}
      BY <1>3, <2>3, <3>1 DEF UnlockAfterFailedAward
    <3> HIDE DEF h
    <3> QED BY <3>2, <3>3
  <2> QED BY <2>1, <2>2, <2>3
<1>5. game' \in [at : {"closed", "resetting", "deciding", "opening", "playing"},
                 session : SessionIds \cup {NoSession}]
  BY <1>1 DEF IInv, TypeOK
<1> QED BY <1>1, <1>2, <1>4, <1>5, NewHandlerIInv

\* What the coroutine of handler h leaves.
LEMMA HandlerDoneFacts ==
    ASSUME IInv, NEW h \in handlers, NEW success \in BOOLEAN, HandlerDone(h, success)
    PROVE  /\ game' \in [at : {"closed", "resetting", "deciding", "opening", "playing"},
                         session : SessionIds \cup {NoSession}]
           /\ next' \in [SessionIds -> Nat]
           /\ handlers' \subseteq Handlers
           /\ \A g \in handlers' : g.step = "unlock" => g.achievement # None
           /\ unlocked \subseteq unlocked' /\ unlocked' \subseteq Achievements
           /\ \A k \in handlers' : \E g \in handlers : g.achievement = k.achievement
<1>1. /\ h \in Handlers /\ h.achievement \in Achievements \cup {None} /\ h.session \in SessionIds
      /\ next \in [SessionIds -> Nat] /\ handlers \subseteq Handlers
      /\ unlocked \subseteq Achievements
      /\ \A g \in handlers : g.step = "unlock" => g.achievement # None
  BY DEF IInv, TypeOK, Handlers
<1>2. game' \in [at : {"closed", "resetting", "deciding", "opening", "playing"},
                 session : SessionIds \cup {NoSession}]
  BY <1>1 DEF HandlerDone, IInv, TypeOK
<1>3. CASE success /\ h.step = "start" /\ h.achievement # None
  <2> DEFINE k == [h EXCEPT !.step = "unlock", !.order = next[h.session]]
  <2>1. k \in Handlers /\ k.achievement = h.achievement
    BY <1>1 DEF Handlers
  <2>2. /\ handlers' = (handlers \ {h}) \cup {k}
        /\ next' = [next EXCEPT ![h.session] = @ + 1]
        /\ unlocked' = unlocked \cup {h.achievement}
    BY <1>3 DEF HandlerDone
  <2> HIDE DEF k
  <2> QED BY <1>1, <1>2, <1>3, <2>1, <2>2
<1>4. CASE ~(success /\ h.step = "start" /\ h.achievement # None)
  <2>1. handlers' = handlers \ {h} /\ UNCHANGED <<next, unlocked>>
    BY <1>4 DEF HandlerDone
  <2> QED BY <1>1, <1>2, <2>1
<1> QED BY <1>3, <1>4

LEMMA HandlerDoneOnce ==
    ASSUME IInv, NEW h \in handlers, NEW success \in BOOLEAN, HandlerDone(h, success),
           UNCHANGED Future \/ Future' = <<>>,
           \A g \in handlers : g # h => writer.by # g
    PROVE  Once'
<1>1. /\ Earned(Future)' \subseteq Earned(Future)
      /\ Earned(Future)' \subseteq unlocked' \cup {LegacyHardcore}
      /\ \A m, n \in Unlocks(Future)' : Future'[m].achievement = Future'[n].achievement => m = n
  <2>1. CASE UNCHANGED Future
    BY <2>1, HandlerDoneFacts DEF IInv, Once, Earned, Unlocks
  <2>2. CASE Future' = <<>>
    BY <2>2, EmptyFacts
  <2> QED BY <2>1, <2>2
<1>2. \A g \in handlers :
          /\ g.step = "start" => g.achievement \notin unlocked
          /\ g.step = "unlock" =>
                g.achievement \in unlocked /\ (g # h => g.achievement \notin Earned(Future))
          /\ \A k \in handlers : k # g /\ g.achievement # None => k.achievement # g.achievement
  BY DEF IInv, Once
<1>3. \A g \in handlers' :
          /\ g.step = "start" => g.achievement \notin unlocked'
          /\ g.step = "unlock" =>
                g.achievement \in unlocked' /\ g.achievement \notin Earned(Future)
          /\ \A k \in handlers' : k # g /\ g.achievement # None => k.achievement # g.achievement
  <2>1. CASE success /\ h.step = "start" /\ h.achievement # None
    <3> DEFINE k == [h EXCEPT !.step = "unlock", !.order = next[h.session]]
    <3>1. k.achievement = h.achievement /\ k.step = "unlock"
      BY DEF IInv, TypeOK, Handlers
    <3>2. handlers' = (handlers \ {h}) \cup {k} /\ unlocked' = unlocked \cup {h.achievement}
      BY <2>1 DEF HandlerDone
    <3>3. h.achievement \notin Earned(Future)
      <4>1. h.achievement \in Achievements
        BY <2>1 DEF IInv, TypeOK, Handlers
      <4> QED BY <1>2, <2>1, <4>1, LedgerAssumption DEF IInv, Once
    <3> HIDE DEF k
    <3> QED BY <1>2, <2>1, <3>1, <3>2, <3>3
  <2>2. CASE ~(success /\ h.step = "start" /\ h.achievement # None)
    <3>1. handlers' = handlers \ {h} /\ unlocked' = unlocked
      BY <2>2 DEF HandlerDone
    <3> QED BY <1>2, <3>1
  <2> QED BY <2>1, <2>2
<1> QED BY <1>1, <1>3 DEF Once

-----------------------------------------------------------------------------
(* Appends.                                                                  *)

LEMMA AppendBeginsIInv ==
    ASSUME IInv, NEW by \in handlers \cup Syncs, NEW r \in Record, AppendBegins(by, r),
           UNCHANGED <<disk, play, sync, history>>,
           r.kind = "unlock" => /\ by \in handlers /\ by.step = "unlock" /\ by.achievement # None
                                /\ r.achievement = by.achievement /\ ~r.hardcore,
           \A n \in Unlocks(ledger) :
               r = Ack(n) => /\ ledger[n].achievement \in settled \/ overtaken
                             /\ ~ledger[n].hardcore,
           by \in Syncs => sync[by].at = "ack"
    PROVE  IInv'
<1>1. /\ MutexFree /\ writer = Nobody /\ ~Damaged /\ ledger \in Seq(Record)
      /\ Contents = ledger /\ Future = ledger
      /\ \A h \in handlers : writer.by # h
  BY ContentsFacts DEF AppendBegins, IInv, TypeOK, Future, MutexFree, Nobody
<1>2. writer' = [at |-> "delete", by |-> by, records |-> Append(ledger, r)]
  BY DEF AppendBegins
<1>3. Contents' = ledger /\ Future' = Append(ledger, r) /\ ~MutexFree' /\ ledger' = ledger
  BY <1>2 DEF Contents, Future, MutexFree, disk
<1>4. /\ Append(ledger, r) \in Seq(Record) /\ Last(Append(ledger, r)) = r
      /\ Earned(Append(ledger, r)) =
            Earned(ledger) \cup (IF r.kind = "unlock" THEN {r.achievement} ELSE {})
      /\ \A n \in DOMAIN ledger : Append(ledger, r)[n] = ledger[n]
      /\ Append(ledger, r)[Len(ledger) + 1] = r
      /\ Unlocks(Append(ledger, r)) =
            Unlocks(ledger) \cup (IF r.kind = "unlock" THEN {Len(ledger) + 1} ELSE {})
      /\ \A n \in Pending(ledger) : n \in Pending(Append(ledger, r)) \/ r = Ack(n)
      /\ Len(ledger) + 1 \notin DOMAIN ledger
  BY <1>1, AppendFacts
<1>5. Unlocks(ledger) \subseteq DOMAIN ledger
  BY DEF Unlocks
<1>6. TypeOK'
  <2>1. writer' \in [at : {"free", "delete", "rename", "copy"},
                     by : Syncs \cup {gone} \cup Handlers, records : Seq(Record)]
    BY <1>2, <1>4 DEF IInv, TypeOK
  <2> QED BY <2>1 DEF IInv, TypeOK, disk, play, history
<1>7. Writes'
  <2>1. writer'.at = "delete" /\ writer'.by = by /\ writer'.records = Append(ledger, r)
    BY <1>2
  <2>2. file' # "whole" => ledger' = <<>>
    BY DEF IInv, Writes, disk
  <2> QED BY <1>3, <1>4, <2>1, <2>2 DEF Writes, play, history, Unlocks
<1>8. r.kind = "unlock" => r.achievement \notin Earned(ledger) /\ r.achievement \in unlocked
  BY <1>1 DEF IInv, Once
<1>9. Once'
  <2>1. ASSUME NEW h \in handlers
        PROVE  /\ h.step = "start" => h.achievement \notin unlocked
               /\ h.step = "unlock" =>
                     h.achievement \in unlocked /\ (by # h => h.achievement \notin Earned(Append(ledger, r)))
               /\ \A g \in handlers : g # h /\ h.achievement # None => g.achievement # h.achievement
    <3>1. /\ h.step = "start" => h.achievement \notin unlocked
          /\ h.step = "unlock" => h.achievement \in unlocked /\ h.achievement \notin Earned(ledger)
          /\ \A g \in handlers : g # h /\ h.achievement # None => g.achievement # h.achievement
      BY <1>1 DEF IInv, Once
    <3>2. r.kind = "unlock" /\ by # h => r.achievement # h.achievement
      BY DEF IInv, Once
    <3> QED BY <1>4, <3>1, <3>2
  <2>2. Earned(Append(ledger, r)) \subseteq unlocked \cup {LegacyHardcore}
    BY <1>1, <1>4, <1>8 DEF IInv, Once
  <2>3. ASSUME NEW m \in Unlocks(Append(ledger, r)), NEW n \in Unlocks(Append(ledger, r)),
               Append(ledger, r)[m].achievement = Append(ledger, r)[n].achievement
        PROVE  m = n
    <3>1. \A i, j \in Unlocks(ledger) : ledger[i].achievement = ledger[j].achievement => i = j
      BY <1>1 DEF IInv, Once
    <3>2. \A i \in Unlocks(ledger) : ledger[i].achievement \in Earned(ledger)
      BY DEF Earned
    <3> QED BY <1>4, <1>5, <1>8, <2>3, <3>1, <3>2
  <2>4. writer'.by = by
    BY <1>2
  <2> QED BY <1>3, <2>1, <2>2, <2>3, <2>4 DEF Once, play
<1>10. HardcoreWaits'
  <2>1. ASSUME NEW n \in Unlocks(Append(ledger, r)), Append(ledger, r)[n].hardcore
        PROVE  n \in Pending(Append(ledger, r)) /\ ~overtaken
    <3>1. n \in Unlocks(ledger) /\ ledger[n].hardcore
      BY <1>4, <1>5, <2>1
    <3>2. n \in Pending(ledger) /\ ~overtaken
      BY <1>1, <3>1 DEF IInv, HardcoreWaits
    <3> QED BY <1>4, <3>1, <3>2
  <2> QED BY <1>3, <2>1 DEF HardcoreWaits, history, Unlocks, Pending
<1>11. Planned'
  <2>1. UNCHANGED <<Contents, sync, unlocked, settled, handlers, overtaken>>
    BY <1>1, <1>3 DEF play, history
  <2>2. ASSUME NEW s \in Syncs, NEW i \in DOMAIN sync[s].plan,
               sync[s].plan[i].unlock.achievement \in Earned(Future)'
        PROVE  sync[s].plan[i].unlock.achievement \in Earned(Future)
    <3>1. PlannedBy(s, sync[s].plan)
      BY SyncFacts
    <3>2. \A h \in handlers : h.achievement # sync[s].plan[i].unlock.achievement
      BY <3>1 DEF PlannedBy
    <3>3. Earned(Future)' = Earned(Append(ledger, r))
      BY <1>3 DEF Earned, Unlocks
    <3> QED BY <1>1, <1>4, <2>2, <3>2, <3>3
  <2> QED BY <1>1, <2>1, <2>2, PlansStand
<1> QED BY <1>6, <1>7, <1>9, <1>10, <1>11 DEF IInv

LEMMA HandlerAppendsIInv == ASSUME IInv, HandlerAppends PROVE IInv'
<1>1. PICK h \in handlers :
          \/ AppendBegins(h, Payload(h)) /\ UNCHANGED <<disk, play, sync, history>>
          \/ AppendFails /\ HandlerDone(h, FALSE) /\ UNCHANGED <<disk, writer, sync, history>>
  BY DEF HandlerAppends
<1>2. h \in Handlers /\ (h.step = "unlock" => h.achievement # None)
  BY DEF IInv, TypeOK
<1>3. CASE AppendBegins(h, Payload(h)) /\ UNCHANGED <<disk, play, sync, history>>
  <2>1. h \notin Syncs
    BY <1>2, LedgerAssumption
  <2>2. Payload(h) \in Record
    BY <1>2, PayloadFacts DEF Record
  <2> QED BY <1>2, <1>3, <2>1, <2>2, PayloadFacts, AppendBeginsIInv
<1>4. CASE AppendFails /\ HandlerDone(h, FALSE) /\ UNCHANGED <<disk, writer, sync, history>>
  <2>1. \A g \in handlers : writer.by # g
    BY <1>4, ContentsFacts DEF AppendFails, IInv
  <2>2. UNCHANGED Future
    BY <1>4 DEF Future, MutexFree, disk
  <2>3. Once'
    BY <1>4, <2>1, <2>2, HandlerDoneOnce
  <2>4. TypeOK'
    BY <1>4, HandlerDoneFacts DEF IInv, TypeOK, disk, history
  <2> QED BY <1>4, <2>3, <2>4, HandlerDoneFacts, QuietIInv
<1> QED BY <1>1, <1>3, <1>4

-----------------------------------------------------------------------------
(* The syncs.                                                                *)

Places == [at : {"idle", "award", "ack"}, plan : Seq(Items), attempts : Nat]

\* One sync moves, and the ledger does not change.
LEMMA SyncMoves ==
    ASSUME IInv, NEW s \in Syncs, NEW new \in Places, sync' = [sync EXCEPT ![s] = new],
           UNCHANGED <<Contents, Future, unlocked, handlers>>,
           settled \subseteq settled',
           overtaken \/ (MutexFree /\ Damaged) => (overtaken \/ (MutexFree /\ Damaged))',
           PlannedBy(s, new.plan), new.at = "idle" <=> new.plan = <<>>,
           new.at = "ack" => Head(new.plan).unlock.achievement \in settled'
    PROVE  Planned' /\ sync' \in [Syncs -> Places]
<1>1. sync \in [Syncs -> Places]
  BY DEF IInv, TypeOK, Places
<1>2. sync' \in [Syncs -> Places] /\ sync'[s] = new /\ \A t \in Syncs : t # s => sync'[t] = sync[t]
  BY <1>1
<1>3. ASSUME NEW t, NEW plan, PlannedBy(t, plan) PROVE PlannedBy(t, plan)'
  <2>1. Earned(Future)' = Earned(Future)
    BY DEF Earned, Unlocks
  <2> QED BY <1>3, <2>1, PlanStands
<1>4. ASSUME NEW t \in Syncs
      PROVE  /\ PlannedBy(t, sync[t].plan)'
             /\ sync'[t].at = "idle" <=> sync'[t].plan = <<>>
             /\ sync'[t].at = "ack" => Item(t)'.unlock.achievement \in settled'
  <2>1. CASE t = s
    <3>1. PlannedBy(s, new.plan)'
      BY <1>3
    <3>2. sync'[t].plan = new.plan /\ sync'[t].at = new.at /\ Item(t)' = Head(new.plan)
      BY <1>2, <2>1 DEF Item
    <3>3. PlannedBy(t, sync[t].plan)'
      BY <1>2, <2>1, <3>1 DEF PlannedBy
    <3> QED BY <3>2, <3>3
  <2>2. CASE t # s
    <3>1. sync'[t] = sync[t]
      BY <1>2, <2>2
    <3>2. PlannedBy(t, sync[t].plan)
      BY SyncFacts
    <3>3. PlannedBy(t, sync[t].plan)'
      <4> DEFINE plan == sync[t].plan
      <4>1. PlannedBy(t, plan) /\ plan' = plan
        BY <3>1, <3>2
      <4> HIDE DEF plan
      <4>2. PlannedBy(t, plan)'
        BY <1>3, <4>1
      <4> QED BY <4>2 DEF plan
    <3> QED BY <3>1, <3>3, SyncFacts DEF Item
  <2> QED BY <2>1, <2>2
<1> QED BY <1>2, <1>4 DEF Planned

\* So too when what it was writing is no longer waited for.
LEMMA SyncQuietIInv ==
    ASSUME IInv, NEW s \in Syncs, NEW new \in Places, sync' = [sync EXCEPT ![s] = new],
           UNCHANGED <<disk, play, overtaken>>,
           \/ writer' = writer /\ (writer.by = s => new.at = "ack")
           \/ writer.by = s /\ writer.at # "free" /\ writer' = [writer EXCEPT !.by = gone],
           settled \subseteq settled', settled' \subseteq Achievements,
           PlannedBy(s, new.plan), new.at = "idle" <=> new.plan = <<>>,
           new.at = "ack" => Head(new.plan).unlock.achievement \in settled'
    PROVE  IInv'
<1>1. writer \in [at : {"free", "delete", "rename", "copy"},
                  by : Syncs \cup {gone} \cup Handlers, records : Seq(Record)]
  BY DEF IInv, TypeOK
<1>2. /\ writer' \in [at : {"free", "delete", "rename", "copy"},
                      by : Syncs \cup {gone} \cup Handlers, records : Seq(Record)]
      /\ writer'.at = writer.at /\ writer'.records = writer.records
      /\ writer'.by = writer.by \/ (writer.by = s /\ writer'.by = gone)
      /\ writer.at = "free" => writer' = writer
  BY <1>1
<1>3. UNCHANGED <<Contents, Future, MutexFree, Damaged, unlocked, handlers, overtaken>>
  BY <1>2 DEF disk, play, Contents, Future, MutexFree, Damaged
<1>4. Planned' /\ sync' \in [Syncs -> Places]
  <2>1. (overtaken \/ (MutexFree /\ Damaged)) => (overtaken \/ (MutexFree /\ Damaged))'
    BY <1>3
  <2> QED BY <1>3, <2>1, SyncMoves
<1>5. TypeOK'
  BY <1>2, <1>4 DEF IInv, TypeOK, disk, play, Places
<1>6. Writes'
  <2>1. \A t \in Syncs : writer'.by = t => sync'[t].at = "ack"
    <3>1. gone \notin Syncs
      BY LedgerAssumption
    <3>2. \A t \in Syncs : writer.by = t => sync[t].at = "ack"
      BY DEF IInv, Writes
    <3>3. \A t \in Syncs : sync'[t] = IF t = s THEN new ELSE sync[t]
      BY DEF IInv, TypeOK
    <3>4. CASE writer' = writer /\ (writer.by = s => new.at = "ack")
      BY <3>2, <3>3, <3>4
    <3>5. CASE writer.by = s /\ writer' = [writer EXCEPT !.by = gone]
      <4>1. writer'.by = gone
        BY <1>1, <3>5
      <4> QED BY <3>1, <4>1
    <3> QED BY <3>4, <3>5
  <2>2. Writes
    BY DEF IInv
  <2>3. file' = file /\ ledger' = ledger /\ overtaken' = overtaken
    BY DEF disk
  <2>4. writer.at = "free" => writer' = Nobody
    BY <1>2, <2>2 DEF Writes
  <2> QED BY <1>2, <2>1, <2>2, <2>3, <2>4 DEF Writes, Unlocks, Nobody
<1>7. Once'
  <2>1. s \notin handlers
    BY LedgerAssumption DEF IInv, TypeOK
  <2>2. \A h \in handlers : writer'.by # h => writer.by # h
    BY <1>2, <2>1
  <2>3. UNCHANGED <<Future, handlers, unlocked>>
    BY <1>3
  <2> QED BY <2>2, <2>3 DEF IInv, Once, Earned, Unlocks
<1>8. HardcoreWaits'
  BY <1>3 DEF IInv, HardcoreWaits, Unlocks, Pending
<1> QED BY <1>4, <1>5, <1>6, <1>7, <1>8 DEF IInv

\* The rest of a plan whose first item is settled, or none.
LEMMA GoesOnFacts ==
    ASSUME IInv, NEW s \in Syncs, NEW success \in BOOLEAN, sync[s].at = "ack",
           SyncGoesOn(s, success)
    PROVE  \E new \in Places :
              /\ sync' = [sync EXCEPT ![s] = new] /\ PlannedBy(s, new.plan)
              /\ new.at = "idle" <=> new.plan = <<>>
              /\ new.at # "ack" /\ (~success => new.at = "idle")
<1>1. /\ sync[s].plan \in Seq(Items) /\ sync[s].plan # <<>> /\ PlannedBy(s, sync[s].plan)
      /\ sync[s].plan[1].unlock.achievement \in settled
  BY SyncFacts
<1>2. Resting \in Places /\ Resting.at = "idle" /\ Resting.plan = <<>>
  BY DEF Resting, Places
<1>3. /\ Tail(sync[s].plan) \in Seq(Items)
      /\ Tail(sync[s].plan) = <<>> <=> ~(Len(sync[s].plan) > 1)
      /\ PlannedBy(s, Tail(sync[s].plan))
  BY <1>1, TailFacts, PlanGoesOn DEF IInv
<1> DEFINE goes == [at |-> "award", plan |-> Tail(sync[s].plan), attempts |-> 0]
<1>4. goes \in Places /\ goes.at = "award" /\ goes.plan = Tail(sync[s].plan)
  BY <1>3 DEF Places
<1>5. s \in DOMAIN sync
  BY DEF IInv, TypeOK
<1>6. sync' = [sync EXCEPT ![s] = IF success /\ Len(sync[s].plan) > 1 THEN goes ELSE Resting]
  BY <1>5 DEF SyncGoesOn
<1> HIDE DEF goes
<1>7. CASE success /\ Len(sync[s].plan) > 1
  BY <1>3, <1>4, <1>6, <1>7
<1>8. CASE ~(success /\ Len(sync[s].plan) > 1)
  <2>1. sync' = [sync EXCEPT ![s] = Resting] /\ PlannedBy(s, Resting.plan)
    BY <1>2, <1>6, <1>8, NoPlan
  <2> QED BY <1>2, <1>8, <2>1
<1> QED BY <1>7, <1>8

LEMMA SyncAppendsIInv == ASSUME IInv, NEW s \in Syncs, SyncAppends(s) PROVE IInv'
<1>1. sync[s].at = "ack"
  BY DEF SyncAppends
<1>2. /\ Item(s).seq \in Nat /\ Item(s).unlock \in Softcore /\ Item(s) = sync[s].plan[1]
      /\ 1 \in DOMAIN sync[s].plan /\ Item(s).unlock.achievement \in settled
      /\ PlannedBy(s, sync[s].plan) /\ sync[s].plan \in Seq(Items)
  BY <1>1, SyncFacts
<1>3. CASE AppendBegins(s, Ack(Item(s).seq)) /\ UNCHANGED <<disk, play, sync, history>>
  <2> DEFINE r == Ack(Item(s).seq)
  <2>1. r \in Record /\ r.kind = "ack" /\ \A n : r = Ack(n) => n = Item(s).seq
    BY <1>2 DEF Record, Acks, Ack
  <2>2. MutexFree /\ ~Damaged /\ Contents = ledger /\ Future = ledger
    BY <1>3, ContentsFacts DEF AppendBegins, IInv, Future
  <2>3. ASSUME NEW n \in Unlocks(ledger), r = Ack(n)
        PROVE  (ledger[n].achievement \in settled \/ overtaken) /\ ~ledger[n].hardcore
    <3>1. CASE InLedger(Item(s))
      <4>1. ledger[n] = Item(s).unlock
        BY <2>1, <2>2, <2>3, <3>1 DEF InLedger
      <4> QED BY <1>2, <4>1 DEF Softcore
    <3>2. CASE overtaken
      BY <2>2, <3>2 DEF IInv, HardcoreWaits
    <3> QED BY <1>2, <2>2, <3>1, <3>2 DEF PlannedBy
  <2> HIDE DEF r
  <2> QED BY <1>1, <1>3, <2>1, <2>3, AppendBeginsIInv DEF r
<1>4. CASE AppendFails /\ Ends(s) /\ UNCHANGED <<disk, writer, play, history>>
  <2>1. sync' = [sync EXCEPT ![s] = Resting] /\ PlannedBy(s, <<>>) /\ Resting \in Places
        /\ Resting.at = "idle" /\ Resting.plan = <<>>
    BY <1>4, NoPlan DEF Ends, Resting, Places
  <2>2. writer.by # s
    BY <1>4, FreeFacts DEF AppendFails, IInv
  <2>3. settled' = settled /\ settled' \subseteq Achievements /\ overtaken' = overtaken
    BY <1>4 DEF history, IInv, TypeOK
  <2> QED BY <1>4, <2>1, <2>2, <2>3, SyncQuietIInv
<1> QED BY <1>3, <1>4 DEF SyncAppends

LEMMA SyncFailsIInv == ASSUME IInv, NEW s \in Syncs, SyncFails(s) PROVE IInv'
<1>1. sync' = [sync EXCEPT ![s] = Resting] /\ PlannedBy(s, <<>>) /\ Resting \in Places
      /\ Resting.at = "idle" /\ Resting.plan = <<>>
  BY NoPlan DEF SyncFails, Ends, Resting, Places
<1>2. settled' = settled /\ settled' \subseteq Achievements /\ overtaken' = overtaken
  BY DEF SyncFails, history, IInv, TypeOK
<1>3. MutexFree => writer.by # s
  BY FreeFacts DEF IInv
<1>4. UNCHANGED <<disk, play>>
  BY DEF SyncFails
<1>5. \/ writer' = writer /\ (writer.by = s => Resting.at = "ack")
      \/ writer.by = s /\ writer.at # "free" /\ writer' = [writer EXCEPT !.by = gone]
  BY <1>3 DEF SyncFails, MutexFree
<1> QED BY <1>1, <1>2, <1>4, <1>5, SyncQuietIInv

\* An award, and what is left to do after it.
LEMMA AnswerIInv == ASSUME IInv, NEW s \in Syncs, Answer(s) PROVE IInv'
<1>1. sync[s].at = "award"
  BY DEF Answer, Settle, AwardTimesOut, TimesOut
<1>2. /\ sync[s] \in Places /\ PlannedBy(s, sync[s].plan) /\ sync[s].plan # <<>>
      /\ Item(s).unlock.achievement \in Achievements
      /\ sync \in [Syncs -> Places]
  BY <1>1, SyncFacts DEF IInv, TypeOK, Places
<1>3. writer.by # s
  BY <1>1 DEF IInv, Writes
<1>4. /\ UNCHANGED <<disk, play, overtaken, writer>>
      /\ settled' \in {settled, settled \cup {Item(s).unlock.achievement}}
  BY DEF Answer, Settle, AwardTimesOut, TimesOut
<1>5. settled \subseteq settled' /\ settled' \subseteq Achievements
  BY <1>2, <1>4 DEF IInv, TypeOK
<1>6. CASE Settle(s)
  <2> DEFINE new == [sync[s] EXCEPT !.at = "ack"]
  <2>1. sync' = [sync EXCEPT ![s] = new] /\ settled' = settled \cup {Item(s).unlock.achievement}
    BY <1>2, <1>6 DEF Settle, Goes
  <2>2. new \in Places /\ new.at = "ack" /\ new.plan = sync[s].plan
    BY <1>2 DEF Places
  <2>3. Head(new.plan).unlock.achievement \in settled' /\ PlannedBy(s, new.plan)
    BY <1>2, <2>1, <2>2 DEF Item
  <2> HIDE DEF new
  <2> QED BY <1>2, <1>3, <1>4, <1>5, <2>1, <2>2, <2>3, SyncQuietIInv
<1>7. CASE AwardTimesOut(s)
  <2>1. CASE Ends(s)
    <3>1. sync' = [sync EXCEPT ![s] = Resting] /\ PlannedBy(s, <<>>) /\ Resting \in Places
          /\ Resting.at = "idle" /\ Resting.plan = <<>>
      BY <2>1, NoPlan DEF Ends, Resting, Places
    <3> QED BY <1>3, <1>4, <1>5, <3>1, SyncQuietIInv
  <2>2. CASE TryAgain(s)
    <3> DEFINE new == [sync[s] EXCEPT !.attempts = @ + 1]
    <3>1. sync' = [sync EXCEPT ![s] = new]
      BY <1>2, <2>2 DEF TryAgain
    <3>2. new \in Places /\ new.at = "award" /\ new.plan = sync[s].plan
      BY <1>1, <1>2 DEF Places
    <3> HIDE DEF new
    <3> QED BY <1>2, <1>3, <1>4, <1>5, <3>1, <3>2, SyncQuietIInv
  <2> QED BY <1>7, <2>1, <2>2 DEF AwardTimesOut
<1> QED BY <1>6, <1>7 DEF Answer

\* A plan has every unlock that waits, once, in the order of its session.
LEMMA PlanFacts ==
    ASSUME NEW records \in Seq(Record), NEW plan \in Plans(records)
    PROVE  /\ plan \in Seq(Items) /\ (Syncable(records) # {} => plan # <<>>)
           /\ \A i \in DOMAIN plan : /\ plan[i].seq \in Syncable(records)
                                     /\ plan[i].unlock = records[plan[i].seq]
           /\ \A m \in Syncable(records) : \E j \in DOMAIN plan : plan[j].seq = m
           /\ \A i, j \in DOMAIN plan : i < j => ~Follows(plan[i].unlock, plan[j].unlock)
<1> DEFINE S == Syncable(records)
           D == 1 .. Cardinality(S)
<1>1. PICK order \in SetToSeqs(S) :
          /\ \A i, j \in DOMAIN order : i < j => ~Precedes(records, order[j], order[i])
          /\ plan = [i \in DOMAIN order |-> [seq |-> order[i], unlock |-> records[order[i]]]]
  BY DEF Plans
<1>2. \A n \in S : n \in DOMAIN records /\ n \in Nat /\ records[n] \in Softcore
  BY RecordsFacts, RecordFacts DEF Syncable, Pending, Unlocks
<1>3. IsFiniteSet(S) /\ Cardinality(S) \in Nat /\ IsFiniteSet(D) /\ Cardinality(D) = Cardinality(S)
  <2>1. Len(records) \in Nat /\ S \subseteq 1 .. Len(records)
    BY <1>2, RecordsFacts
  <2>2. IsFiniteSet(S) /\ Cardinality(S) \in Nat
    <3>1. IsFiniteSet(1 .. Len(records))
      BY <2>1, FS_Interval
    <3>2. IsFiniteSet(S)
      BY <2>1, <3>1, FS_Subset
    <3> QED BY <3>2, FS_CardinalityType
  <2> QED BY <2>2, FS_Interval
<1>4. order \in [D -> S] /\ \A i, j \in D : i # j => order[i] # order[j]
  BY <1>1 DEF SetToSeqs
<1>5. order \in Surjection(D, S)
  <2>1. order \in Injection(D, S)
    BY <1>4 DEF Injection, IsInjective
  <2> QED BY <1>3, <2>1, FS_Injection
<1> HIDE DEF S
<1>6. /\ DOMAIN plan = D
      /\ \A i \in D : /\ plan[i].seq = order[i] /\ plan[i].unlock = records[order[i]]
                      /\ plan[i].seq \in S /\ plan[i] \in Items
  BY <1>1, <1>2, <1>4 DEF Items
<1>7. plan \in Seq(Items)
  <2>1. plan = [i \in D |-> plan[i]]
    BY <1>1, <1>4
  <2> QED BY <1>3, <1>6, <2>1, SeqDef
<1>8. \A m \in S : \E j \in D : plan[j].seq = m
  BY <1>5, <1>6 DEF Surjection
<1>9. ASSUME NEW i \in D, NEW j \in D, i < j PROVE ~Follows(plan[i].unlock, plan[j].unlock)
  <2>1. ~Precedes(records, order[j], order[i])
    BY <1>1, <1>4, <1>9
  <2> QED BY <1>6, <2>1 DEF Precedes, Follows
<1>10. S # {} => plan # <<>>
  BY <1>6, <1>8, EmptyFacts
<1> QED BY <1>6, <1>7, <1>8, <1>9, <1>10 DEF S

LEMMA SyncBeginsIInv == ASSUME IInv, NEW s \in Syncs, SyncBegins(s) PROVE IInv'
<1>1. PICK plan \in Plans(ledger) :
          sync' = [sync EXCEPT ![s] = [at |-> "award", plan |-> plan, attempts |-> 0]]
  BY DEF SyncBegins
<1>2. /\ MutexFree /\ sync[s].at = "idle" /\ UNCHANGED <<disk, writer, play, history>>
      /\ Syncable(ledger) # {}
  BY DEF SyncBegins
<1>3. /\ ledger \in Seq(Record) /\ Contents = ledger /\ Future = ledger
      /\ \A h \in handlers : writer.by # h
  BY <1>2, ContentsFacts DEF IInv, TypeOK, Future
<1>4. /\ plan \in Seq(Items) /\ plan # <<>>
      /\ \A i \in DOMAIN plan : /\ plan[i].seq \in Syncable(ledger)
                                /\ plan[i].unlock = ledger[plan[i].seq]
      /\ \A m \in Syncable(ledger) : \E j \in DOMAIN plan : plan[j].seq = m
      /\ \A i, j \in DOMAIN plan : i < j => ~Follows(plan[i].unlock, plan[j].unlock)
  BY <1>2, <1>3, PlanFacts
<1>5. /\ Syncable(ledger) \subseteq Unlocks(ledger)
      /\ \A n \in Unlocks(ledger) : ledger[n] \in Softcore \cup {Legacy}
      /\ \A n \in Unlocks(ledger) : n \in DOMAIN ledger
  BY <1>3, RecordsFacts, RecordFacts DEF Syncable, Unlocks
<1>6. \A n \in Syncable(ledger) :
         /\ ledger[n] \in Softcore /\ ledger[n].achievement \in Earned(Future)
         /\ ledger[n].achievement \in Achievements
  <2>1. \A n \in Syncable(ledger) : ledger[n] # Legacy
    BY DEF Syncable, Legacy, Unlock
  <2> QED BY <1>3, <1>5, <2>1 DEF Earned, Softcore
<1>7. ASSUME NEW i \in DOMAIN plan
      PROVE  /\ plan[i].unlock.achievement \in unlocked
             /\ \A h \in handlers : h.achievement # plan[i].unlock.achievement
             /\ InLedger(plan[i])
  <2>1. /\ plan[i].unlock.achievement \in Earned(Future)
        /\ plan[i].unlock.achievement \in Achievements
    BY <1>4, <1>6
  <2>2. plan[i].unlock.achievement \in unlocked
    BY <2>1, LedgerAssumption DEF IInv, Once
  <2>3. \A h \in handlers : h.achievement # plan[i].unlock.achievement
    BY <1>3, <2>1, <2>2 DEF IInv, Once, TypeOK, Handlers
  <2>4. InLedger(plan[i])
    BY <1>3, <1>4, <1>5 DEF InLedger
  <2> QED BY <2>2, <2>3, <2>4
<1>8. ASSUME NEW i \in DOMAIN plan, NEW m \in Pending(Contents),
             Follows(plan[i].unlock, Contents[m])
      PROVE  \E j \in DOMAIN plan : plan[j].seq = m
  <2>1. m \in Unlocks(ledger) /\ m \in Pending(ledger)
    BY <1>3, RecordsFacts
  <2>2. plan[i].unlock.session \in SessionIds
    BY <1>4, <1>6 DEF Softcore
  <2>3. ledger[m] # Legacy
    <3>1. plan[i].unlock.session = ledger[m].session
      BY <1>3, <1>8 DEF Follows
    <3>2. Legacy.session \notin SessionIds
      BY LedgerAssumption DEF Legacy, Unlock, NoSession
    <3> QED BY <2>2, <3>1, <3>2
  <2>4. ~ledger[m].hardcore
    BY <1>5, <2>1, <2>3 DEF Softcore
  <2> QED BY <1>4, <2>1, <2>4 DEF Syncable
<1>9. PlannedBy(s, plan)
  BY <1>4, <1>7, <1>8 DEF PlannedBy
<1> DEFINE new == [at |-> "award", plan |-> plan, attempts |-> 0]
<1>10. new \in Places /\ new.at = "award" /\ new.plan = plan
  BY <1>4 DEF Places
<1>11. writer.by # s
  BY <1>2, FreeFacts DEF IInv
<1>12. /\ sync' = [sync EXCEPT ![s] = new]
       /\ settled' = settled /\ settled' \subseteq Achievements /\ overtaken' = overtaken
  BY <1>1, <1>2 DEF history, IInv, TypeOK
<1> HIDE DEF new
<1> QED BY <1>2, <1>4, <1>9, <1>10, <1>11, <1>12, SyncQuietIInv

-----------------------------------------------------------------------------
(* Where plans end: the ledger has gone, or the sync has.                    *)

LEMMA PlansGone ==
    ASSUME IInv, unlocked \subseteq unlocked', settled \subseteq settled',
           \A h \in handlers' :
               (\E g \in handlers : g.achievement = h.achievement) \/ h.achievement \notin unlocked,
           \A s \in Syncs :
               \/ sync'[s] = Resting
               \/ /\ sync'[s] = sync[s]
                  /\ \/ sync[s].at = "idle"
                     \/ Contents' = <<>> /\ Future' = <<>> /\ (overtaken \/ (MutexFree /\ Damaged))'
    PROVE  Planned'
<1> SUFFICES ASSUME NEW s \in Syncs
             PROVE  /\ PlannedBy(s, sync[s].plan)'
                    /\ sync'[s].at = "idle" <=> sync'[s].plan = <<>>
                    /\ sync'[s].at = "ack" => Item(s)'.unlock.achievement \in settled'
  BY DEF Planned
<1>1. /\ PlannedBy(s, sync[s].plan) /\ sync[s].plan \in Seq(Items)
      /\ sync[s].at = "idle" <=> sync[s].plan = <<>>
      /\ sync[s].at = "ack" => Item(s).unlock.achievement \in settled
  BY SyncFacts
<1>2. CASE sync'[s].plan = <<>> /\ sync'[s].at = "idle"
  BY <1>2 DEF PlannedBy
<1>3. CASE /\ sync'[s] = sync[s]
           /\ Contents' = <<>> /\ Future' = <<>> /\ (overtaken \/ (MutexFree /\ Damaged))'
  <2> DEFINE plan == sync[s].plan
  <2>1. PlannedBy(s, plan) /\ plan' = plan /\ plan \in Seq(Items)
    BY <1>1, <1>3
  <2> HIDE DEF plan
  <2>2. PlannedBy(s, plan)'
    BY <1>3, <2>1, PlanGone
  <2>3. PlannedBy(s, sync[s].plan)'
    BY <2>2 DEF plan
  <2> QED BY <1>1, <1>3, <2>3 DEF Item
<1>4. Resting.plan = <<>> /\ Resting.at = "idle"
  BY DEF Resting
<1> QED BY <1>1, <1>2, <1>3, <1>4

\* What is on disk is part of what there will be.
LEMMA DiskFacts ==
    ASSUME TypeOK, Writes
    PROVE  /\ Unlocks(ledger) \subseteq Unlocks(Future) /\ Earned(ledger) \subseteq Earned(Future)
           /\ \A n \in Unlocks(ledger) :
                 ledger[n] = Future[n] /\ (n \in Pending(Future) => n \in Pending(ledger))
<1>1. CASE Contents = ledger
  <2>1. /\ DOMAIN ledger \subseteq DOMAIN Future
        /\ \A n \in DOMAIN ledger : ledger[n] = Future[n]
        /\ Unlocks(ledger) \subseteq Unlocks(Future)
        /\ Earned(ledger) \subseteq Earned(Future)
    BY <1>1, ContentsFacts
  <2> QED BY <2>1 DEF Pending, Unlocks
<1>2. CASE ledger = <<>>
  BY <1>2, EmptyFacts
<1>3. Contents = ledger \/ ledger = <<>>
  BY DEF Contents, Writes
<1> QED BY <1>1, <1>2, <1>3

\* The application goes, and what it was writing.
LEMMA KilledIInv == ASSUME IInv, Killed PROVE IInv'
<1>1. /\ writer' = Nobody /\ game' = Closed /\ handlers' = {} /\ next' = NoOrder
      /\ sync' = [s \in Syncs |-> Resting] /\ overtaken' = FALSE
      /\ UNCHANGED <<file, ledger, unlocked, settled>>
  BY DEF Killed, disk
<1>2. Future' = ledger /\ ledger' = ledger
  BY <1>1 DEF Future, MutexFree, Nobody
<1>3. /\ Unlocks(ledger) \subseteq Unlocks(Future) /\ Earned(ledger) \subseteq Earned(Future)
      /\ \A n \in Unlocks(ledger) :
            ledger[n] = Future[n] /\ (n \in Pending(Future) => n \in Pending(ledger))
  BY DiskFacts DEF IInv
<1>4. TypeOK'
  <2>1. Nobody \in [at : {"free", "delete", "rename", "copy"},
                    by : Syncs \cup {gone} \cup Handlers, records : Seq(Record)]
    BY EmptyFacts DEF Nobody
  <2>2. Resting \in [at : {"idle", "award", "ack"}, plan : Seq(Items), attempts : Nat]
    BY EmptySeq DEF Resting
  <2>3. NoOrder \in [SessionIds -> Nat]
    BY DEF NoOrder
  <2>4. Closed \in [at : {"closed", "resetting", "deciding", "opening", "playing"},
                    session : SessionIds \cup {NoSession}]
    BY DEF Closed
  <2> QED BY <1>1, <2>1, <2>2, <2>3, <2>4 DEF IInv, TypeOK
<1>5. Writes'
  <2>1. writer'.at = "free" /\ writer'.by = gone
    BY <1>1 DEF Nobody
  <2>2. file' # "whole" => ledger' = <<>>
    BY <1>1 DEF IInv, Writes
  <2>3. \A s \in Syncs : writer'.by # s
    BY <2>1, LedgerAssumption
  <2>4. writer' = Nobody'
    BY <1>1 DEF Nobody
  <2> QED BY <2>1, <2>2, <2>3, <2>4 DEF Writes
<1>6. Once'
  <2>1. Earned(Future)' = Earned(ledger) /\ Unlocks(Future)' = Unlocks(ledger)
    BY <1>2 DEF Earned, Unlocks
  <2>2. \A m, n \in Unlocks(ledger) : ledger[m].achievement = ledger[n].achievement => m = n
    BY <1>3 DEF IInv, Once
  <2> QED BY <1>1, <1>2, <1>3, <2>1, <2>2 DEF IInv, Once
<1>7. HardcoreWaits'
  <2>1. \A n \in Unlocks(ledger) : ledger[n].hardcore => n \in Pending(ledger)
    BY <1>3 DEF IInv, HardcoreWaits
  <2> QED BY <1>1, <1>2, <2>1 DEF HardcoreWaits, Unlocks, Pending
<1>8. Planned'
  BY <1>1, PlansGone
<1> QED BY <1>4, <1>5, <1>6, <1>7, <1>8 DEF IInv

LEMMA ResetLedgerIInv == ASSUME IInv, ResetLedger PROVE IInv'
<1>1. /\ writer' = writer /\ writer = Nobody /\ ledger' = <<>> /\ file' = "absent"
      /\ UNCHANGED <<next, handlers, unlocked, sync, settled>>
      /\ overtaken' = (overtaken \/ \E s \in Syncs : sync[s].at # "idle")
      /\ \A h \in handlers : writer.by # h
      /\ game' \in [at : {"closed", "resetting", "deciding", "opening", "playing"},
                    session : SessionIds \cup {NoSession}]
  BY ContentsFacts DEF ResetLedger, IInv, TypeOK
<1>2. Contents' = <<>> /\ Future' = <<>>
  BY <1>1 DEF Contents, Future, MutexFree, Nobody
<1>3. TypeOK'
  BY <1>1, EmptyFacts DEF IInv, TypeOK
<1>4. Writes'
  <2>1. writer'.at = "free" /\ writer' = Nobody'
    BY <1>1 DEF Nobody
  <2>2. \A s \in Syncs : writer'.by = s => sync'[s].at = "ack"
    BY <1>1 DEF IInv, Writes
  <2> QED BY <1>1, <2>1, <2>2 DEF Writes
<1>5. Once'
  BY <1>1, <1>2, EmptyFacts DEF IInv, Once
<1>6. HardcoreWaits'
  BY <1>2, EmptyFacts DEF HardcoreWaits
<1>7. Planned'
  BY <1>1, <1>2, PlansGone
<1> QED BY <1>3, <1>4, <1>5, <1>6, <1>7 DEF IInv

\* The coroutines of the screen are cancelled, but for a write under way.
LEMMA CloseGameIInv == ASSUME IInv, CloseGame PROVE IInv'
<1>1. /\ game' = Closed /\ handlers' = {} /\ next' = NoOrder
      /\ writer' = IF writer.by \in handlers THEN [writer EXCEPT !.by = gone] ELSE writer
      /\ UNCHANGED <<file, ledger, unlocked, sync, settled, overtaken>>
  BY DEF CloseGame, disk, history
<1>2. writer \in [at : {"free", "delete", "rename", "copy"},
                  by : Syncs \cup {gone} \cup Handlers, records : Seq(Record)]
  BY DEF IInv, TypeOK
<1>3. /\ writer' \in [at : {"free", "delete", "rename", "copy"},
                      by : Syncs \cup {gone} \cup Handlers, records : Seq(Record)]
      /\ writer'.at = writer.at /\ writer'.records = writer.records
      /\ writer'.by = writer.by \/ writer'.by = gone
  BY <1>1, <1>2
<1>4. writer.at = "free" => writer' = Nobody
  BY <1>1, ContentsFacts DEF IInv, MutexFree
<1>5. UNCHANGED <<Contents, Future, MutexFree, Damaged>>
  BY <1>1, <1>3 DEF Contents, Future, MutexFree, Damaged
<1>6. TypeOK'
  <2>1. NoOrder \in [SessionIds -> Nat]
    BY DEF NoOrder
  <2>2. Closed \in [at : {"closed", "resetting", "deciding", "opening", "playing"},
                    session : SessionIds \cup {NoSession}]
    BY DEF Closed
  <2> QED BY <1>1, <1>3, <2>1, <2>2 DEF IInv, TypeOK
<1>7. Writes'
  <2>1. \A s \in Syncs : writer'.by = s => sync'[s].at = "ack"
    BY <1>1, <1>3, LedgerAssumption DEF IInv, Writes
  <2>2. Writes
    BY DEF IInv
  <2> QED BY <1>1, <1>3, <1>4, <2>1, <2>2 DEF Writes, Unlocks, Nobody
<1>8. Once'
  BY <1>1, <1>5 DEF IInv, Once, Earned, Unlocks
<1>9. HardcoreWaits'
  BY <1>1, <1>5 DEF IInv, HardcoreWaits, Unlocks, Pending
<1>10. Planned'
  <2>1. Earned(Future)' = Earned(Future)
    BY <1>5 DEF Earned, Unlocks
  <2>2. (overtaken \/ (MutexFree /\ Damaged)) => (overtaken \/ (MutexFree /\ Damaged))'
    BY <1>1, <1>5
  <2> QED BY <1>1, <1>5, <2>1, <2>2, PlansStand
<1> QED BY <1>6, <1>7, <1>8, <1>9, <1>10 DEF IInv

-----------------------------------------------------------------------------
(* The writer.                                                               *)

\* The old file goes; from here on the ledger is what the writer holds.
LEMMA DeleteOldIInv == ASSUME IInv, DeleteOld PROVE IInv'
<1> DEFINE r == Last(writer.records)
           end == Len(ledger) + 1
<1>1. /\ writer.at = "delete" /\ writer' = [writer EXCEPT !.at = "rename"]
      /\ file' = "absent" /\ ledger' = <<>>
      /\ UNCHANGED <<game, next, handlers, unlocked, sync, settled, overtaken>>
  BY DEF DeleteOld, play, history
<1>2. /\ ledger \in Seq(Record) /\ r \in Record /\ writer.records = Append(ledger, r)
      /\ writer \in [at : {"free", "delete", "rename", "copy"},
                     by : Syncs \cup {gone} \cup Handlers, records : Seq(Record)]
  BY <1>1 DEF IInv, TypeOK, Writes
<1>3. /\ writer' \in [at : {"free", "delete", "rename", "copy"},
                      by : Syncs \cup {gone} \cup Handlers, records : Seq(Record)]
      /\ writer'.at = "rename" /\ writer'.by = writer.by /\ writer'.records = writer.records
  BY <1>1, <1>2
<1>4. /\ Contents = ledger /\ Contents' = writer.records
      /\ Future = writer.records /\ Future' = Future /\ ~MutexFree /\ ~MutexFree'
  BY <1>1, <1>3 DEF Contents, Future, MutexFree
<1> HIDE DEF r
<1>5. /\ DOMAIN writer.records = DOMAIN ledger \cup {end} /\ end \notin DOMAIN ledger
      /\ \A n \in DOMAIN ledger : writer.records[n] = ledger[n] /\ n < end /\ n \in Nat
      /\ Pending(writer.records) \subseteq Pending(ledger) \cup {end} /\ end \in Nat
  BY <1>2, AppendFacts, RecordsFacts
<1> HIDE DEF end
<1>6. TypeOK'
  BY <1>1, <1>3, EmptyFacts DEF IInv, TypeOK
<1>7. Writes'
  <2>1. \A s \in Syncs : writer'.by = s => sync'[s].at = "ack"
    BY <1>1, <1>3 DEF IInv, Writes
  <2> QED BY <1>1, <1>3, <2>1 DEF Writes
<1>8. Once'
  BY <1>1, <1>3, <1>4 DEF IInv, Once, Earned, Unlocks
<1>9. HardcoreWaits'
  BY <1>1, <1>4 DEF IInv, HardcoreWaits, Unlocks, Pending
<1>10. ASSUME NEW s, NEW plan \in Seq(Items), PlannedBy(s, plan) PROVE PlannedBy(s, plan)'
  <2>1. \A i \in DOMAIN plan : InLedger(plan[i]) => InLedger(plan[i])'
    BY <1>4, <1>5 DEF InLedger
  <2>2. \A i \in DOMAIN plan : plan[i].seq \in Nat /\ plan[i].unlock.kind = "unlock"
    <3>1. \A i \in DOMAIN plan : plan[i] \in Items
      BY ElementOfSeq, LenProperties
    <3> QED BY <3>1 DEF Items, Softcore
  <2>3. Earned(Future)' = Earned(Future) /\ Pending(Contents)' = Pending(writer.records)
    BY <1>4 DEF Earned, Unlocks, Pending
  <2>4. CASE \A i \in DOMAIN plan : InLedger(plan[i])
    <3>1. ASSUME NEW i \in DOMAIN plan, NEW m \in Pending(Contents)', m < plan[i].seq,
                 Follows(plan[i].unlock, Contents'[m])
          PROVE  Contents'[m].achievement \in settled \/ \E j \in DOMAIN plan : plan[j].seq = m
      <4>1. plan[i].seq \in DOMAIN ledger /\ InLedger(plan[i])
        BY <1>4, <2>4 DEF InLedger
      <4>2. m # end
        BY <1>5, <3>1, <4>1
      <4>3. m \in Pending(Contents) /\ m \in DOMAIN ledger /\ Contents'[m] = Contents[m]
        <5>1. m \in Pending(ledger)
          BY <1>5, <2>3, <4>2
        <5>2. m \in DOMAIN ledger
          BY <5>1 DEF Pending, Unlocks
        <5>3. Contents'[m] = ledger[m] /\ Contents[m] = ledger[m]
          BY <1>4, <1>5, <5>2
        <5>4. Pending(Contents) = Pending(ledger)
          BY <1>4
        <5> QED BY <5>1, <5>2, <5>3, <5>4
      <4> QED BY <1>10, <3>1, <4>1, <4>3 DEF PlannedBy
    <3> QED BY <1>1, <1>10, <2>1, <2>4, <3>1 DEF PlannedBy
  <2>5. CASE /\ \A i \in DOMAIN plan : plan[i].unlock.achievement \notin Earned(Future)
             /\ overtaken
    <3>1. \A i \in DOMAIN plan : ~InLedger(plan[i])'
      <4> SUFFICES ASSUME NEW i \in DOMAIN plan, InLedger(plan[i])' PROVE FALSE
        OBVIOUS
      <4>1. plan[i].seq \in DOMAIN Future /\ Future[plan[i].seq] = plan[i].unlock
        BY <1>4 DEF InLedger
      <4>2. plan[i].unlock.achievement \in Earned(Future)
        BY <2>2, <4>1 DEF Earned, Unlocks
      <4> QED BY <2>5, <4>2
    <3> QED BY <1>1, <1>10, <2>3, <2>5, <3>1 DEF PlannedBy
  <2> QED BY <1>4, <1>10, <2>4, <2>5 DEF PlannedBy
<1>11. Planned'
  <2>1. ASSUME NEW s \in Syncs
        PROVE  /\ PlannedBy(s, sync[s].plan)'
               /\ sync'[s].at = "idle" <=> sync'[s].plan = <<>>
               /\ sync'[s].at = "ack" => Item(s)'.unlock.achievement \in settled'
    <3> DEFINE plan == sync[s].plan
    <3>1. PlannedBy(s, plan) /\ plan' = plan /\ plan \in Seq(Items)
      BY <1>1, SyncFacts
    <3> HIDE DEF plan
    <3>2. PlannedBy(s, plan)'
      BY <1>10, <3>1
    <3>3. PlannedBy(s, sync[s].plan)'
      BY <3>2 DEF plan
    <3> QED BY <1>1, <3>3, SyncFacts DEF Item
  <2> QED BY <2>1 DEF Planned
<1> QED BY <1>6, <1>7, <1>8, <1>9, <1>11 DEF IInv

LEMMA RenameFailsIInv == ASSUME IInv, RenameFails PROVE IInv'
<1>1. /\ writer.at = "rename" /\ writer' = [writer EXCEPT !.at = "copy"] /\ file' = "damaged"
      /\ UNCHANGED <<ledger, game, next, handlers, unlocked, sync, settled, overtaken>>
  BY DEF RenameFails, play, history
<1>2. /\ writer' \in [at : {"free", "delete", "rename", "copy"},
                      by : Syncs \cup {gone} \cup Handlers, records : Seq(Record)]
      /\ writer'.at = "copy" /\ writer'.by = writer.by /\ writer'.records = writer.records
  BY <1>1 DEF IInv, TypeOK
<1>3. /\ UNCHANGED <<Contents, Future>> /\ ~MutexFree
  BY <1>1, <1>2 DEF Contents, Future, MutexFree
<1>4. TypeOK'
  BY <1>1, <1>2 DEF IInv, TypeOK
<1>5. Writes'
  <2>1. \A s \in Syncs : writer'.by = s => sync'[s].at = "ack"
    BY <1>1, <1>2 DEF IInv, Writes
  <2>2. ledger' = <<>>
    BY <1>1 DEF IInv, Writes
  <2> QED BY <1>1, <1>2, <2>1, <2>2 DEF Writes
<1>6. Once'
  BY <1>1, <1>2, <1>3 DEF IInv, Once, Earned, Unlocks
<1>7. HardcoreWaits'
  BY <1>1, <1>3 DEF IInv, HardcoreWaits, Unlocks, Pending
<1>8. Planned'
  <2>1. Earned(Future)' = Earned(Future)
    BY <1>3 DEF Earned, Unlocks
  <2>2. (overtaken \/ (MutexFree /\ Damaged)) => (overtaken \/ (MutexFree /\ Damaged))'
    BY <1>1, <1>3
  <2> QED BY <1>1, <1>3, <2>1, <2>2, PlansStand
<1> QED BY <1>4, <1>5, <1>6, <1>7, <1>8 DEF IInv

\* The mutex is free again.
LEMMA WriterFreed ==
    ASSUME IInv, writer' = Nobody, UNCHANGED history, UNCHANGED Future \/ Future' = <<>>,
           ledger' \in Seq(Record), file' \in {"whole", "damaged"}, file' = "damaged" => ledger' = <<>>,
           game' \in [at : {"closed", "resetting", "deciding", "opening", "playing"},
                      session : SessionIds \cup {NoSession}],
           next' \in [SessionIds -> Nat], handlers' \subseteq Handlers,
           \A g \in handlers' : g.step = "unlock" => g.achievement # None,
           unlocked' \subseteq Achievements, sync' = sync \/ sync' \in [Syncs -> Places]
    PROVE  TypeOK' /\ Writes' /\ HardcoreWaits'
<1>1. TypeOK'
  <2>1. Nobody \in [at : {"free", "delete", "rename", "copy"},
                    by : Syncs \cup {gone} \cup Handlers, records : Seq(Record)]
    BY EmptyFacts DEF Nobody
  <2> QED BY <2>1 DEF IInv, TypeOK, history, Places
<1>2. Writes'
  <2>1. writer'.at = "free" /\ writer'.by = gone /\ writer' = Nobody'
    BY DEF Nobody
  <2>2. \A s \in Syncs : writer'.by # s
    BY <2>1, LedgerAssumption
  <2> QED BY <2>1, <2>2 DEF Writes
<1>3. HardcoreWaits'
  <2>1. CASE UNCHANGED Future
    BY <2>1 DEF IInv, HardcoreWaits, Unlocks, Pending, history
  <2>2. CASE Future' = <<>>
    BY <2>2, EmptyFacts DEF HardcoreWaits
  <2> QED BY <2>1, <2>2
<1> QED BY <1>1, <1>2, <1>3

\* When no handler was writing, nothing more is earned.
LEMMA SameHandlersOnce ==
    ASSUME IInv, UNCHANGED <<handlers, unlocked>>, UNCHANGED Future \/ Future' = <<>>,
           \A h \in handlers : writer.by # h
    PROVE  Once'
<1>1. CASE UNCHANGED Future
  BY <1>1 DEF IInv, Once, Earned, Unlocks
<1>2. CASE Future' = <<>>
  BY <1>2, EmptyFacts DEF IInv, Once
<1> QED BY <1>1, <1>2

\* The writer ends: everything but the plans, whatever became of the ledger.
LEMMA FinishedFacts ==
    ASSUME IInv, ~MutexFree, NEW success \in BOOLEAN, Finished(writer.by, success),
           writer' = Nobody, UNCHANGED history, UNCHANGED Future \/ Future' = <<>>,
           ledger' \in Seq(Record), file' \in {"whole", "damaged"}, file' = "damaged" => ledger' = <<>>
    PROVE  /\ TypeOK' /\ Writes' /\ Once' /\ HardcoreWaits'
           /\ unlocked \subseteq unlocked'
           /\ \A k \in handlers' : \E g \in handlers : g.achievement = k.achievement
           /\ \/ sync' = sync
              \/ \E s \in Syncs :
                    SyncGoesOn(s, success) /\ sync[s].at = "ack" /\ UNCHANGED play
<1>1. CASE writer.by \in handlers
  <2>1. HandlerDone(writer.by, success) /\ UNCHANGED sync
    BY <1>1 DEF Finished
  <2>2. /\ game' \in [at : {"closed", "resetting", "deciding", "opening", "playing"},
                      session : SessionIds \cup {NoSession}]
        /\ next' \in [SessionIds -> Nat]
        /\ handlers' \subseteq Handlers
        /\ \A g \in handlers' : g.step = "unlock" => g.achievement # None
        /\ unlocked \subseteq unlocked' /\ unlocked' \subseteq Achievements
        /\ \A k \in handlers' : \E g \in handlers : g.achievement = k.achievement
    BY <1>1, <2>1, HandlerDoneFacts
  <2>3. Once'
    BY <1>1, <2>1, HandlerDoneOnce
  <2> QED BY <2>1, <2>2, <2>3, WriterFreed
<1>2. CASE writer.by \in Syncs
  <2>1. writer.by \notin handlers /\ sync[writer.by].at = "ack"
    BY <1>2, LedgerAssumption DEF IInv, TypeOK, Writes
  <2>2. SyncGoesOn(writer.by, success) /\ UNCHANGED play
    BY <1>2, <2>1 DEF Finished
  <2>3. sync' \in [Syncs -> Places]
    <3>1. PICK new \in Places : sync' = [sync EXCEPT ![writer.by] = new]
      BY <1>2, <2>1, <2>2, GoesOnFacts
    <3> QED BY <3>1 DEF IInv, TypeOK, Places
  <2>4. Once'
    BY <2>1, <2>2, SameHandlersOnce DEF play
  <2> QED BY <1>2, <2>1, <2>2, <2>3, <2>4, WriterFreed DEF play, IInv, TypeOK
<1>3. CASE writer.by \notin handlers \cup Syncs
  <2>1. UNCHANGED <<play, sync>>
    BY <1>3 DEF Finished
  <2>2. Once'
    BY <1>3, <2>1, SameHandlersOnce DEF play
  <2> QED BY <2>1, <2>2, WriterFreed DEF play, IInv, TypeOK
<1> QED BY <1>1, <1>2, <1>3

\* The new ledger is in place.
LEMMA WrittenIInv ==
    ASSUME IInv, writer.at \in {"rename", "copy"}, writer' = Nobody, file' = "whole",
           ledger' = writer.records, Finished(writer.by, TRUE), UNCHANGED history
    PROVE  IInv'
<1>1. /\ UNCHANGED <<Contents, Future>> /\ ~MutexFree /\ ledger' \in Seq(Record)
  BY DEF Contents, Future, MutexFree, Nobody, IInv, TypeOK
<1>2. /\ TypeOK' /\ Writes' /\ Once' /\ HardcoreWaits'
      /\ unlocked \subseteq unlocked'
      /\ \A k \in handlers' : \E g \in handlers : g.achievement = k.achievement
      /\ \/ sync' = sync
         \/ \E s \in Syncs : SyncGoesOn(s, TRUE) /\ sync[s].at = "ack" /\ UNCHANGED play
  BY <1>1, FinishedFacts
<1>3. (overtaken \/ (MutexFree /\ Damaged)) => (overtaken \/ (MutexFree /\ Damaged))'
  BY <1>1 DEF history
<1>4. settled \subseteq settled' /\ Earned(Future)' = Earned(Future)
  BY <1>1 DEF history, Earned, Unlocks
<1>5. Planned'
  <2>1. CASE sync' = sync
    BY <1>1, <1>2, <1>3, <1>4, <2>1, PlansStand
  <2>2. ASSUME NEW s \in Syncs, SyncGoesOn(s, TRUE), sync[s].at = "ack", UNCHANGED play
        PROVE  Planned'
    <3>1. PICK new \in Places :
             /\ sync' = [sync EXCEPT ![s] = new] /\ PlannedBy(s, new.plan)
             /\ new.at = "idle" <=> new.plan = <<>>
             /\ new.at # "ack"
      BY <2>2, GoesOnFacts
    <3>2. UNCHANGED <<unlocked, handlers>>
      BY <2>2 DEF play
    <3> QED BY <1>1, <1>3, <1>4, <3>1, <3>2, SyncMoves
  <2> QED BY <1>2, <2>1, <2>2
<1> QED BY <1>2, <1>5 DEF IInv

\* The copy broke off: what is on disk will never be read again.
LEMMA CopyFailsIInv ==
    ASSUME IInv, writer.at = "copy", writer' = Nobody, UNCHANGED disk,
           Finished(writer.by, FALSE), UNCHANGED history
    PROVE  IInv'
<1>1. /\ file' = "damaged" /\ ledger' = <<>> /\ ~MutexFree
      /\ Contents' = <<>> /\ Future' = <<>> /\ (MutexFree /\ Damaged)'
  BY DEF IInv, Writes, disk, Contents, Future, MutexFree, Damaged, Nobody
<1>2. /\ TypeOK' /\ Writes' /\ Once' /\ HardcoreWaits'
      /\ unlocked \subseteq unlocked'
      /\ \A k \in handlers' : \E g \in handlers : g.achievement = k.achievement
      /\ \/ sync' = sync
         \/ \E s \in Syncs : SyncGoesOn(s, FALSE) /\ sync[s].at = "ack" /\ UNCHANGED play
  BY <1>1, EmptyFacts, FinishedFacts
<1>3. \A s \in Syncs : sync'[s] = Resting \/ sync'[s] = sync[s]
  BY <1>2 DEF SyncGoesOn, IInv, TypeOK
<1>4. settled' = settled
  BY DEF history
<1>5. Planned'
  BY <1>1, <1>2, <1>3, <1>4, PlansGone
<1> QED BY <1>2, <1>5 DEF IInv

LEMMA RenameIInv == ASSUME IInv, Rename PROVE IInv'
  BY WrittenIInv DEF Rename

LEMMA CopyIInv == ASSUME IInv, Copy PROVE IInv'
<1>1. CASE /\ writer.at = "copy" /\ writer' = Nobody /\ UNCHANGED history
           /\ file' = "whole" /\ ledger' = writer.records /\ Finished(writer.by, TRUE)
  BY <1>1, WrittenIInv
<1>2. CASE /\ writer.at = "copy" /\ writer' = Nobody /\ UNCHANGED history
           /\ UNCHANGED disk /\ Finished(writer.by, FALSE)
  BY <1>2, CopyFailsIInv
<1> QED BY <1>1, <1>2 DEF Copy

-----------------------------------------------------------------------------
(* The specification.                                                        *)

LEMMA InitIInv == Init => IInv
<1> SUFFICES ASSUME Init PROVE IInv
  OBVIOUS
<1>1. Legacy \in Record
  BY DEF Record
<1>2. ledger \in {<<>>, <<Legacy>>} /\ ledger \in Seq(Record)
  <2>1. ledger \in {<<>>, <<Legacy>>}
    BY DEF Init, Legacy
  <2>2. <<Legacy>> \in Seq(Record)
    BY <1>1
  <2> QED BY <2>1, <2>2, EmptyFacts
<1>3. Future = ledger /\ MutexFree
  BY DEF Init, Future, MutexFree, Nobody
<1>4. \A n \in Unlocks(ledger) : n = 1 /\ ledger[n] = Legacy /\ n \in Pending(ledger)
  <2>1. CASE ledger = <<>>
    BY <2>1, EmptyFacts
  <2>2. CASE ledger = <<Legacy>>
    <3>1. DOMAIN ledger = {1} /\ ledger[1] = Legacy
      BY <2>2
    <3>2. \A n : Legacy # Ack(n)
      BY DEF Legacy, Unlock, Ack
    <3> QED BY <3>1, <3>2 DEF Unlocks, Pending
  <2> QED BY <1>2, <2>1, <2>2
<1>5. Legacy.achievement = LegacyHardcore
  BY DEF Legacy, Unlock
<1>6. TypeOK
  <2>1. Nobody \in [at : {"free", "delete", "rename", "copy"},
                    by : Syncs \cup {gone} \cup Handlers, records : Seq(Record)]
    BY EmptyFacts DEF Nobody
  <2>2. Resting \in [at : {"idle", "award", "ack"}, plan : Seq(Items), attempts : Nat]
    BY EmptySeq DEF Resting
  <2>3. NoOrder \in [SessionIds -> Nat]
    BY DEF NoOrder
  <2>4. Closed \in [at : {"closed", "resetting", "deciding", "opening", "playing"},
                    session : SessionIds \cup {NoSession}]
    BY DEF Closed
  <2> QED BY <1>2, <2>1, <2>2, <2>3, <2>4 DEF Init, TypeOK
<1>7. Writes
  <2>1. writer.at = "free" /\ writer = Nobody /\ writer.by = gone
    BY DEF Init, Nobody
  <2>2. file # "whole" => ledger = <<>>
    BY DEF Init
  <2> QED BY <2>1, <2>2, LedgerAssumption DEF Writes
<1>8. Once
  <2>1. Earned(ledger) \subseteq {LegacyHardcore}
    BY <1>4, <1>5 DEF Earned
  <2> QED BY <1>3, <1>4, <2>1 DEF Init, Once
<1>9. HardcoreWaits
  BY <1>3, <1>4 DEF Init, HardcoreWaits
<1>10. Planned
  <2>1. ASSUME NEW s \in Syncs PROVE sync[s].plan = <<>> /\ sync[s].at = "idle"
    BY DEF Init, Resting
  <2> QED BY <2>1, NoPlan DEF Planned
<1> QED BY <1>6, <1>7, <1>8, <1>9, <1>10 DEF IInv

LEMMA NextIInv == IInv /\ [Next]_vars => IInv'
<1> SUFFICES ASSUME IInv, [Next]_vars PROVE IInv'
  OBVIOUS
<1>1. CASE Write
  BY <1>1, DeleteOldIInv, RenameIInv, RenameFailsIInv, CopyIInv DEF Write
<1>2. CASE Play
  BY <1>2, LaunchIInv, ResetLedgerIInv, PlayIInv, CloseGameIInv, UnlockIInv, HandlerAppendsIInv
     DEF Play
<1>3. CASE Killed
  BY <1>3, KilledIInv
<1>4. CASE \E s \in Syncs : SyncBegins(s) \/ Answer(s) \/ SyncFails(s) \/ SyncAppends(s)
  BY <1>4, SyncBeginsIInv, AnswerIInv, SyncFailsIInv, SyncAppendsIInv
<1>5. CASE UNCHANGED vars
  <2>1. UNCHANGED <<disk, writer, sync, history, game, next, handlers, unlocked>>
    BY <1>5 DEF vars, disk, history
  <2>2. TypeOK'
    BY <2>1 DEF IInv, TypeOK, disk, history
  <2>3. Once'
    <3>1. Future' = Future
      BY <2>1 DEF Future, MutexFree, disk
    <3> QED BY <2>1, <3>1 DEF IInv, Once, Earned, Unlocks
  <2> QED BY <2>1, <2>2, <2>3, QuietIInv
<1> QED BY <1>1, <1>2, <1>3, <1>4, <1>5 DEF Next

THEOREM SpecIInv == Spec => []IInv
  BY InitIInv, NextIInv, PTL DEF Spec

-----------------------------------------------------------------------------
(* What the ledger promises.                                                 *)

\* A hardcore unlock that an old version left is never awarded by a sync and never
\* acknowledged, whatever the syncs, the screens and the disk do.
THEOREM SpecLegacyHardcoreUntouched == Spec => []LegacyHardcoreUntouched
<1>1. IInv => LegacyHardcoreUntouched
  <2> SUFFICES ASSUME IInv PROVE LegacyHardcoreUntouched
    OBVIOUS
  <2>1. LegacyHardcore \notin settled
    BY LedgerAssumption DEF IInv, TypeOK
  <2>2. ASSUME NEW n \in Unlocks(Contents), Contents[n].hardcore PROVE n \in Pending(Contents)
    <3>1. /\ n \in Unlocks(Future) /\ Future[n] = Contents[n]
          /\ DOMAIN Contents \subseteq DOMAIN Future
          /\ \A k \in DOMAIN Contents : Contents[k] = Future[k]
      BY ContentsFacts DEF IInv, Unlocks
    <3>2. n \in Pending(Future)
      BY <2>2, <3>1 DEF IInv, HardcoreWaits
    <3> QED BY <3>1, <3>2 DEF Pending
  <2> QED BY <2>1, <2>2 DEF LegacyHardcoreUntouched
<1> QED BY <1>1, SpecIInv, PTL

\* The ledger changes by one record at a time, or goes.
LEMMA ContentsMoves ==
    ASSUME IInv, [Next]_vars PROVE UNCHANGED Contents \/ Contents' = <<>> \/ DeleteOld
<1>1. CASE Rename \/ RenameFails \/ Copy
  <2>1. writer.at \in {"rename", "copy"} /\ ledger = <<>>
    BY <1>1 DEF Rename, RenameFails, Copy, IInv, Writes
  <2>2. CASE Rename
    BY <2>1, <2>2 DEF Rename, Contents, Nobody
  <2>3. CASE RenameFails
    <3>1. writer'.at = "copy" /\ writer'.records = writer.records
      BY <2>3 DEF RenameFails, IInv, TypeOK
    <3> QED BY <2>1, <3>1 DEF Contents
  <2>4. CASE Copy
    BY <2>1, <2>4 DEF Copy, Contents, Nobody, disk
  <2> QED BY <1>1, <2>2, <2>3, <2>4
<1>2. CASE Killed
  BY <1>2 DEF Killed, IInv, Writes, Contents, Nobody, disk
<1>3. CASE ResetLedger
  BY <1>3 DEF ResetLedger, MutexFree, Contents
<1>4. CASE ledger' = ledger /\ writer.at = "free" /\ writer'.at = "delete"
  BY <1>4 DEF Contents
<1>5. CASE UNCHANGED <<ledger, writer>>
  BY <1>5 DEF Contents
<1>6. CASE ledger' = ledger /\ \E by : writer' = [writer EXCEPT !.by = by]
  <2>1. writer'.at = writer.at /\ writer'.records = writer.records
    BY <1>6 DEF IInv, TypeOK
  <2> QED BY <1>6, <2>1 DEF Contents
<1>7. CASE Play
  <2>1. CASE HandlerAppends
    <3>1. \/ writer' = writer
          \/ writer.at = "free" /\ writer'.at = "delete"
      <4>1. PICK h \in handlers :
                \/ AppendBegins(h, Payload(h)) /\ UNCHANGED <<disk, play, sync, history>>
                \/ AppendFails /\ HandlerDone(h, FALSE) /\ UNCHANGED <<disk, writer, sync, history>>
        BY <2>1 DEF HandlerAppends
      <4>2. AppendBegins(h, Payload(h)) => writer.at = "free" /\ writer'.at = "delete"
        BY DEF AppendBegins, MutexFree
      <4> QED BY <4>1, <4>2
    <3>2. ledger' = ledger
      BY <2>1 DEF HandlerAppends, disk
    <3> QED BY <1>4, <1>5, <3>1, <3>2
  <2>2. CASE CloseGame
    <3>1. ledger' = ledger /\ (writer' = writer \/ writer' = [writer EXCEPT !.by = gone])
      BY <2>2 DEF CloseGame, disk
    <3> QED BY <1>5, <1>6, <3>1
  <2>3. CASE Launch \/ PlayOnline \/ PlayOffline \/ NetworkLost
    <3>1. UNCHANGED <<ledger, writer>>
      BY <2>3 DEF Launch, PlayOnline, PlayOffline, NetworkLost, disk
    <3> QED BY <1>5, <3>1
  <2>4. CASE \E a \in Achievements :
               UnlockInSession(a) \/ UnlockOpeningSession(a) \/ UnlockAfterFailedAward(a)
    <3>1. UNCHANGED <<ledger, writer>>
      BY <2>4 DEF UnlockInSession, UnlockOpeningSession, UnlockAfterFailedAward, disk
    <3> QED BY <1>5, <3>1
  <2> QED BY <1>3, <1>7, <2>1, <2>2, <2>3, <2>4 DEF Play
<1>8. ASSUME NEW s \in Syncs, SyncBegins(s) \/ Answer(s) \/ SyncFails(s) \/ SyncAppends(s)
      PROVE  UNCHANGED Contents
  <2>1. CASE SyncBegins(s) \/ Answer(s)
    <3>1. UNCHANGED <<ledger, writer>>
      BY <2>1 DEF SyncBegins, Answer, Settle, AwardTimesOut, TimesOut, disk
    <3> QED BY <3>1 DEF Contents
  <2>2. CASE SyncFails(s)
    <3>1. ledger' = ledger /\ (writer' = writer \/ writer' = [writer EXCEPT !.by = gone])
      BY <2>2 DEF SyncFails, disk
    <3>2. writer'.at = writer.at /\ writer'.records = writer.records
      BY <3>1 DEF IInv, TypeOK
    <3> QED BY <3>1, <3>2 DEF Contents
  <2>3. CASE SyncAppends(s)
    <3>1. \/ writer' = writer
          \/ writer.at = "free" /\ writer'.at = "delete"
      BY <2>3 DEF SyncAppends, AppendBegins, MutexFree
    <3>2. ledger' = ledger
      BY <2>3 DEF SyncAppends, disk
    <3> QED BY <3>1, <3>2 DEF Contents
  <2> QED BY <1>8, <2>1, <2>2, <2>3
<1> QED BY <1>1, <1>2, <1>5, <1>7, <1>8 DEF Next, Write, vars

\* Two syncs and the appends of a game never lose an unlock and never acknowledge one
\* that the server has not settled, unless the whole ledger goes.
THEOREM SpecPendingUntilSettled == Spec => PendingUntilSettled
<1>1. ASSUME IInv, [Next]_vars, NEW u \in Outstanding, u \notin Outstanding'
      PROVE  u.achievement \in settled \/ Contents' = <<>> \/ overtaken
  <2>1. CASE UNCHANGED Contents
    BY <1>1, <2>1 DEF Outstanding, Pending, Unlocks
  <2>2. CASE DeleteOld
    <3> DEFINE r == Last(writer.records)
    <3>1. /\ ledger \in Seq(Record) /\ r \in Record
          /\ \A n \in Unlocks(ledger) : r = Ack(n) => ledger[n].achievement \in settled \/ overtaken
          /\ writer.records = Append(ledger, r) /\ Contents = ledger
      BY <1>1, <2>2 DEF DeleteOld, IInv, TypeOK, Writes, Contents
    <3>2. Contents' = Append(ledger, r)
      BY <1>1, <2>2, <3>1 DEF DeleteOld, IInv, TypeOK, Contents
    <3> HIDE DEF r
    <3>3. PICK n \in Pending(ledger) : u = ledger[n]
      BY <1>1, <3>1 DEF Outstanding
    <3>4. n \in DOMAIN ledger /\ n \in Unlocks(ledger)
      BY <3>3 DEF Pending, Unlocks
    <3>5. n \in Pending(Append(ledger, r)) => u \in Outstanding'
      <4>1. Append(ledger, r)[n] = u
        BY <3>1, <3>3, <3>4, AppendFacts
      <4>2. Outstanding' = {Append(ledger, r)[k] : k \in Pending(Append(ledger, r))}
        BY <3>2 DEF Outstanding, Pending, Unlocks
      <4> QED BY <4>1, <4>2
    <3>6. r = Ack(n)
      BY <1>1, <3>1, <3>3, <3>5, AppendFacts
    <3> QED BY <3>1, <3>3, <3>4, <3>6
  <2> QED BY <1>1, <2>1, <2>2, ContentsMoves
<1>2. IInv /\ [Next]_vars =>
         [\A u \in Outstanding : u \notin Outstanding' =>
             u.achievement \in settled \/ Contents' = <<>> \/ overtaken]_vars
  BY <1>1
<1> QED BY <1>2, SpecIInv, PTL DEF Spec, PendingUntilSettled

\* Only the answer to a sync settles anything.
LEMMA SettledBySync ==
    ASSUME [Next]_vars, settled' # settled PROVE \E s \in Syncs : Answer(s)
<1>1. CASE Write
  BY <1>1 DEF Write, DeleteOld, Rename, RenameFails, Copy, history
<1>2. CASE Play
  BY <1>2 DEF Play, Launch, ResetLedger, PlayOnline, PlayOffline, NetworkLost, CloseGame,
              UnlockInSession, UnlockOpeningSession, UnlockAfterFailedAward, HandlerAppends,
              history
<1>3. CASE Killed
  BY <1>3 DEF Killed
<1>4. ASSUME NEW s \in Syncs, SyncBegins(s) \/ SyncFails(s) \/ SyncAppends(s) PROVE FALSE
  BY <1>4 DEF SyncBegins, SyncFails, SyncAppends, history
<1> QED BY <1>1, <1>2, <1>3, <1>4 DEF Next, vars

\* No sync awards an unlock while an earlier one of its session waits that it knows of.
THEOREM SpecAwardedInSessionOrder == Spec => AwardedInSessionOrder
<1>1. ASSUME IInv, [Next]_vars, NEW m \in Pending(Contents), NEW n \in Unlocks(Contents),
             Contents[m].session = Contents[n].session, Contents[m].order < Contents[n].order,
             KnownWith(m, n), Contents[n].achievement \in settled' \ settled
      PROVE  Contents[m].achievement \in settled
  <2>1. PICK s \in Syncs : Answer(s)
    BY <1>1, SettledBySync
  <2>2. /\ sync[s].at = "award"
        /\ settled' \subseteq settled \cup {Item(s).unlock.achievement}
    BY <2>1 DEF Answer, Settle, AwardTimesOut, TimesOut
  <2> DEFINE plan == sync[s].plan
  <2>3. /\ PlannedBy(s, plan) /\ Item(s) = plan[1] /\ 1 \in DOMAIN plan /\ plan \in Seq(Items)
        /\ Item(s).unlock \in Softcore
    BY <1>1, <2>2, SyncFacts
  <2>4. \A i \in DOMAIN plan : i \in Nat /\ i >= 1
    BY <2>3, LenProperties
  <2> HIDE DEF plan
  <2>5. Contents[n].achievement = plan[1].unlock.achievement
    BY <1>1, <2>2, <2>3
  <2>6. /\ Contents[n].achievement \in Earned(Future)
        /\ n \in Unlocks(Future) /\ Future[n] = Contents[n]
        /\ \A k \in DOMAIN Contents : k \in DOMAIN Future /\ Contents[k] = Future[k]
    BY <1>1, ContentsFacts DEF IInv, Unlocks, Earned
  <2>7. \A i \in DOMAIN plan : InLedger(plan[i])
    BY <2>3, <2>5, <2>6 DEF PlannedBy
  <2>8. n = plan[1].seq /\ Contents[n] = plan[1].unlock
    <3>1. plan[1].seq \in DOMAIN Contents /\ Contents[plan[1].seq] = plan[1].unlock
      BY <2>3, <2>7 DEF InLedger
    <3>2. plan[1].unlock.kind = "unlock"
      BY <2>3 DEF Softcore
    <3>3. plan[1].seq \in Unlocks(Future)
      BY <2>6, <3>1, <3>2 DEF Unlocks
    <3>4. plan[1].seq = n
      BY <1>1, <2>5, <2>6, <3>1, <3>3 DEF IInv, Once
    <3> QED BY <3>1, <3>4
  <2>9. Follows(plan[1].unlock, Contents[m])
    BY <1>1, <2>8 DEF Follows
  <2>10. Contents[m].achievement \in settled \/ \E j \in DOMAIN plan : plan[j].seq = m
    <3>1. CASE m < n
      BY <2>3, <2>7, <2>8, <2>9, <3>1 DEF PlannedBy
    <3>2. CASE m \in {item.seq : item \in ToSet(plan)}
      BY <3>2 DEF ToSet
    <3> QED BY <1>1, <2>2, <3>1, <3>2 DEF KnownWith, plan
  <2>11. ASSUME NEW j \in DOMAIN plan, plan[j].seq = m PROVE FALSE
    <3>1. plan[j].unlock = Contents[m]
      BY <2>7, <2>11 DEF InLedger
    <3>2. j # 1
      <4>1. Contents[n].order \in Nat
        BY <2>3, <2>8 DEF Softcore
      <4> QED BY <1>1, <2>8, <3>1, <4>1
    <3>3. 1 < j
      BY <2>4, <2>11, <3>2
    <3>4. ~Follows(plan[1].unlock, plan[j].unlock)
      BY <2>3, <2>11, <3>3 DEF PlannedBy
    <3> QED BY <2>9, <3>1, <3>4
  <2> QED BY <2>10, <2>11
<1>2. IInv /\ [Next]_vars =>
         [\A m \in Pending(Contents), n \in Unlocks(Contents) :
            /\ Contents[m].session = Contents[n].session
            /\ Contents[m].order < Contents[n].order /\ KnownWith(m, n)
            /\ Contents[n].achievement \in settled' \ settled
            => Contents[m].achievement \in settled]_vars
  BY <1>1
<1> QED BY <1>2, SpecIInv, PTL DEF Spec, AwardedInSessionOrder

=============================================================================
