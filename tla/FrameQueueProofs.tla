-------------------------- MODULE FrameQueueProofs --------------------------
(***************************************************************************)
(* Proofs about FrameQueue for every pool size, every set of policies and  *)
(* every bound.  The inductive invariant is TypeOK, that the frames are    *)
(* counted once (Counted), that no frame is shared and none is lost.  It   *)
(* also gives every frame one owner, so the queue implements               *)
(* FrameOwnership (the last part).                                         *)
(***************************************************************************)
EXTENDS FrameQueue, SequenceTheorems, TLAPS

-----------------------------------------------------------------------------
(* Sequences without repetition: what taking an element from either end,   *)
(* concatenating and cutting do to their ranges.                           *)

\* Taking the first element away.
LEMMA HeadTailOfInjective ==
    ASSUME NEW S, NEW s \in Seq(S), s # <<>>
    PROVE  /\ Head(s) \in S
           /\ Tail(s) \in Seq(S)
           /\ Len(Tail(s)) = Len(s) - 1
           /\ Range(s) = Range(Tail(s)) \cup {Head(s)}
           /\ IsInjective(s) => IsInjective(Tail(s)) /\ Head(s) \notin Range(Tail(s))
<1>1. /\ Head(s) \in S
      /\ Tail(s) \in Seq(S)
      /\ Len(Tail(s)) = Len(s) - 1
      /\ \A i \in 1 .. Len(Tail(s)) : Tail(s)[i] = s[i + 1]
  BY HeadTailProperties
<1>2. Len(s) \in Nat /\ Len(s) >= 1 /\ DOMAIN s = 1 .. Len(s)
  BY LenProperties, EmptySeq
<1>3. DOMAIN Tail(s) = 1 .. Len(s) - 1
  BY <1>1, LenProperties
<1>4. Head(s) = s[1]
  BY <1>2
<1>5. ASSUME NEW i \in 1 .. Len(s), i # 1
      PROVE  i - 1 \in 1 .. Len(s) - 1 /\ Tail(s)[i - 1] = s[i]
  BY <1>1, <1>2, <1>5
<1>6. Range(s) = Range(Tail(s)) \cup {Head(s)}
  <2>1. ASSUME NEW x \in Range(s) PROVE x \in Range(Tail(s)) \cup {Head(s)}
    BY <1>2, <1>3, <1>4, <1>5 DEF Range
  <2>2. ASSUME NEW x \in Range(Tail(s)) PROVE x \in Range(s)
    <3>1. PICK i \in 1 .. Len(s) - 1 : x = Tail(s)[i]
      BY <1>3 DEF Range
    <3>2. i + 1 \in 1 .. Len(s) /\ x = s[i + 1]
      BY <1>1, <1>2, <3>1
    <3> QED BY <1>2, <3>2 DEF Range
  <2>3. Head(s) \in Range(s)
    BY <1>2, <1>4 DEF Range
  <2> QED BY <2>1, <2>2, <2>3
<1>7. ASSUME IsInjective(s)
      PROVE  IsInjective(Tail(s)) /\ Head(s) \notin Range(Tail(s))
  <2>1. ASSUME NEW i \in 1 .. Len(s) - 1, NEW j \in 1 .. Len(s) - 1,
               Tail(s)[i] = Tail(s)[j]
        PROVE  i = j
    <3>1. i + 1 \in DOMAIN s /\ j + 1 \in DOMAIN s /\ s[i + 1] = s[j + 1]
      BY <1>1, <1>2, <2>1
    <3>2. i + 1 = j + 1
      BY <1>7, <3>1 DEF IsInjective
    <3> QED BY <3>2
  <2>2. ASSUME NEW i \in 1 .. Len(s) - 1, Tail(s)[i] = Head(s) PROVE FALSE
    <3>1. i + 1 \in DOMAIN s /\ 1 \in DOMAIN s /\ s[i + 1] = s[1]
      BY <1>1, <1>2, <1>4, <2>2
    <3>2. i + 1 = 1
      BY <1>7, <3>1 DEF IsInjective
    <3> QED BY <3>2
  <2> QED BY <1>3, <2>1, <2>2 DEF IsInjective, Range
<1> QED BY <1>1, <1>6, <1>7

\* Concatenating.
LEMMA ConcatOfInjective ==
    ASSUME NEW S, NEW s \in Seq(S), NEW t \in Seq(S)
    PROVE  /\ s \o t \in Seq(S)
           /\ Len(s \o t) = Len(s) + Len(t)
           /\ Range(s \o t) = Range(s) \cup Range(t)
           /\ IsInjective(s) /\ IsInjective(t) /\ Range(s) \cap Range(t) = {}
                => IsInjective(s \o t)
<1>1. /\ s \o t \in Seq(S)
      /\ Len(s \o t) = Len(s) + Len(t)
      /\ \A i \in 1 .. Len(s) + Len(t) :
            (s \o t)[i] = IF i <= Len(s) THEN s[i] ELSE t[i - Len(s)]
  BY ConcatProperties
<1>2. Range(s \o t) = Range(s) \cup Range(t)
  BY RangeConcatenation
<1>3. /\ Len(s) \in Nat /\ DOMAIN s = 1 .. Len(s)
      /\ Len(t) \in Nat /\ DOMAIN t = 1 .. Len(t)
      /\ DOMAIN (s \o t) = 1 .. Len(s) + Len(t)
  BY <1>1, LenProperties
<1>4. ASSUME IsInjective(s), IsInjective(t), Range(s) \cap Range(t) = {},
             NEW i \in DOMAIN (s \o t), NEW j \in DOMAIN (s \o t),
             (s \o t)[i] = (s \o t)[j]
      PROVE  i = j
  <2>1. ASSUME NEW k \in DOMAIN (s \o t), k <= Len(s)
        PROVE  k \in DOMAIN s /\ (s \o t)[k] = s[k] /\ s[k] \in Range(s)
    BY <1>1, <1>3, <2>1 DEF Range
  <2>2. ASSUME NEW k \in DOMAIN (s \o t), ~(k <= Len(s))
        PROVE  /\ k - Len(s) \in DOMAIN t
               /\ (s \o t)[k] = t[k - Len(s)]
               /\ t[k - Len(s)] \in Range(t)
    BY <1>1, <1>3, <2>2 DEF Range
  <2>3. CASE i <= Len(s) /\ j <= Len(s)
    BY <1>4, <2>1, <2>3 DEF IsInjective
  <2>4. CASE ~(i <= Len(s)) /\ ~(j <= Len(s))
    <3>1. i - Len(s) = j - Len(s)
      BY <1>4, <2>2, <2>4 DEF IsInjective
    <3> QED BY <1>3, <3>1
  <2>5. CASE i <= Len(s) /\ ~(j <= Len(s))
    BY <1>4, <2>1, <2>2, <2>5
  <2>6. CASE ~(i <= Len(s)) /\ j <= Len(s)
    BY <1>4, <2>1, <2>2, <2>6
  <2> QED BY <2>3, <2>4, <2>5, <2>6
<1> QED BY <1>1, <1>2, <1>4 DEF IsInjective

\* A sequence of one element.
LEMMA SingletonSequence ==
    ASSUME NEW S, NEW e \in S
    PROVE  /\ <<e>> \in Seq(S)
           /\ Len(<<e>>) = 1
           /\ Range(<<e>>) = {e}
           /\ IsInjective(<<e>>)
  BY DEF Range, IsInjective

LEMMA EmptySequence ==
    ASSUME NEW S
    PROVE  /\ <<>> \in Seq(S)
           /\ Len(<<>>) = 0
           /\ Range(<<>>) = {}
           /\ IsInjective(<<>>)
  BY DEF Range, IsInjective

\* Taking a concatenation without repetition apart.
LEMMA PartsOfInjective ==
    ASSUME NEW S, NEW s \in Seq(S), NEW t \in Seq(S), IsInjective(s \o t)
    PROVE  /\ IsInjective(s)
           /\ IsInjective(t)
           /\ Range(s) \cap Range(t) = {}
<1>1. \A i \in 1 .. Len(s) + Len(t) :
          (s \o t)[i] = IF i <= Len(s) THEN s[i] ELSE t[i - Len(s)]
  BY ConcatProperties
<1>2. /\ Len(s) \in Nat /\ DOMAIN s = 1 .. Len(s)
      /\ Len(t) \in Nat /\ DOMAIN t = 1 .. Len(t)
      /\ DOMAIN (s \o t) = 1 .. Len(s) + Len(t)
  BY ConcatProperties, LenProperties
<1>3. ASSUME NEW i \in DOMAIN s
      PROVE  i \in DOMAIN (s \o t) /\ (s \o t)[i] = s[i] /\ i <= Len(s)
  BY <1>1, <1>2
<1>4. ASSUME NEW i \in DOMAIN t
      PROVE  /\ i + Len(s) \in DOMAIN (s \o t)
             /\ (s \o t)[i + Len(s)] = t[i]
             /\ ~(i + Len(s) <= Len(s))
  BY <1>1, <1>2
<1>5. ASSUME NEW i \in DOMAIN s, NEW j \in DOMAIN s, s[i] = s[j] PROVE i = j
  BY <1>3, <1>5 DEF IsInjective
<1>6. ASSUME NEW i \in DOMAIN t, NEW j \in DOMAIN t, t[i] = t[j] PROVE i = j
  <2>1. i + Len(s) = j + Len(s)
    BY <1>4, <1>6 DEF IsInjective
  <2> QED BY <1>2, <2>1
<1>7. ASSUME NEW i \in DOMAIN s, NEW j \in DOMAIN t, s[i] = t[j] PROVE FALSE
  <2>1. i = j + Len(s)
    BY <1>3, <1>4, <1>7 DEF IsInjective
  <2> QED BY <1>3, <1>4, <2>1
<1> QED BY <1>5, <1>6, <1>7 DEF IsInjective, Range

\* Turning a sequence round.
LEMMA ReverseFacts ==
    ASSUME NEW S, NEW s \in Seq(S)
    PROVE  /\ Reverse(s) \in Seq(S)
           /\ Len(Reverse(s)) = Len(s)
           /\ Range(Reverse(s)) = Range(s)
           /\ IsInjective(s) => IsInjective(Reverse(s))
<1> DEFINE back(i) == (Len(s) - i) + 1
<1>1. Len(s) \in Nat /\ DOMAIN s = 1 .. Len(s) /\ \A i \in 1 .. Len(s) : s[i] \in S
  BY LenProperties, ElementOfSeq
<1>2. Reverse(s) = [i \in 1 .. Len(s) |-> s[back(i)]]
  BY DEF Reverse
<1>3. \A i \in 1 .. Len(s) : back(i) \in 1 .. Len(s) /\ back(back(i)) = i
  BY <1>1
<1>4. \A i \in 1 .. Len(s) : Reverse(s)[i] = s[back(i)] /\ Reverse(s)[back(i)] = s[i]
  BY <1>2, <1>3
<1> HIDE DEF back
<1>5. Reverse(s) \in [1 .. Len(s) -> S]
  BY <1>1, <1>2, <1>3
<1>6. Reverse(s) \in Seq(S) /\ Len(Reverse(s)) = Len(s) /\ DOMAIN Reverse(s) = 1 .. Len(s)
  BY <1>1, <1>5, SeqDef
<1>7. Range(Reverse(s)) = Range(s)
  BY <1>1, <1>3, <1>4, <1>6 DEF Range
<1>8. ASSUME IsInjective(s), NEW i \in 1 .. Len(s), NEW j \in 1 .. Len(s),
             Reverse(s)[i] = Reverse(s)[j]
      PROVE  i = j
  <2>1. back(i) = back(j)
    BY <1>1, <1>3, <1>4, <1>8 DEF IsInjective
  <2> QED BY <1>3, <2>1
<1> QED BY <1>6, <1>7, <1>8 DEF IsInjective

\* Cutting a sequence after its first n elements.
LEMMA CutOfInjective ==
    ASSUME NEW S, NEW s \in Seq(S), NEW n \in 0 .. Len(s)
    PROVE  LET first == SubSeq(s, 1, n)
               rest == SubSeq(s, n + 1, Len(s))
           IN  /\ first \in Seq(S) /\ Len(first) = n
               /\ rest \in Seq(S) /\ Len(rest) = Len(s) - n
               /\ Range(s) = Range(first) \cup Range(rest)
               /\ IsInjective(s) => /\ IsInjective(first)
                                    /\ IsInjective(rest)
                                    /\ Range(first) \cap Range(rest) = {}
<1> DEFINE first == SubSeq(s, 1, n)
           rest == SubSeq(s, n + 1, Len(s))
<1>1. Len(s) \in Nat /\ n \in Int /\ \A i \in 1 .. Len(s) : s[i] \in S
  BY LenProperties, ElementOfSeq
<1>2. first \in Seq(S) /\ Len(first) = n
  <2>1. \A i \in 1 .. n : s[i] \in S
    BY <1>1
  <2> QED BY <1>1, <2>1, SubSeqProperties
<1>3. rest \in Seq(S) /\ Len(rest) = Len(s) - n
  <2>1. \A i \in n + 1 .. Len(s) : s[i] \in S
    BY <1>1
  <2> QED BY <1>1, <2>1, SubSeqProperties
<1>4. s = first \o rest
  <2>1. 1 \in 1 .. Len(s) + 1 /\ n \in 1 - 1 .. Len(s) /\ Len(s) \in n .. Len(s)
    BY <1>1
  <2>2. first \o rest = SubSeq(s, 1, Len(s))
    BY <2>1, ConcatAdjacentSubSeq
  <2> QED BY <2>2, SubSeqFull
<1>5. Range(s) = Range(first) \cup Range(rest)
  BY <1>2, <1>3, <1>4, RangeConcatenation
<1>6. ASSUME IsInjective(s)
      PROVE  /\ IsInjective(first)
             /\ IsInjective(rest)
             /\ Range(first) \cap Range(rest) = {}
  BY <1>2, <1>3, <1>4, <1>6, PartsOfInjective
<1> QED BY <1>2, <1>3, <1>5, <1>6

\* Taking the last element away.
LEMMA FrontLastOfInjective ==
    ASSUME NEW S, NEW s \in Seq(S), s # <<>>
    PROVE  /\ Last(s) \in S
           /\ Front(s) \in Seq(S)
           /\ Len(Front(s)) = Len(s) - 1
           /\ Range(s) = Range(Front(s)) \cup {Last(s)}
           /\ IsInjective(s) => IsInjective(Front(s)) /\ Last(s) \notin Range(Front(s))
<1> DEFINE n == Len(s) - 1
           rest == SubSeq(s, n + 1, Len(s))
<1>1. Len(s) \in Nat /\ Len(s) >= 1 /\ n \in 0 .. Len(s) /\ n + 1 = Len(s)
  BY LenProperties, EmptySeq
<1>2. Last(s) = s[Len(s)] /\ s[Len(s)] \in S
  BY <1>1, ElementOfSeq DEF Last
<1>3. rest = <<Last(s)>>
  <2>1. \A i \in n + 1 .. Len(s) : s[i] \in S
    BY <1>1, <1>2
  <2>2. /\ rest \in Seq(S)
        /\ Len(rest) = 1
        /\ rest[1] = s[Len(s)]
    <3>1. n + 1 \in Int /\ Len(s) \in Int /\ n + 1 <= Len(s)
      BY <1>1
    <3>2. /\ rest \in Seq(S)
          /\ Len(rest) = Len(s) - (n + 1) + 1
          /\ \A i \in 1 .. Len(s) - (n + 1) + 1 : rest[i] = s[n + 1 + i - 1]
      BY <2>1, <3>1, SubSeqProperties
    <3>3. Len(s) - (n + 1) + 1 = 1 /\ n + 1 + 1 - 1 = Len(s)
      BY <1>1
    <3> HIDE DEF n, rest
    <3>4. 1 \in 1 .. Len(s) - (n + 1) + 1
      BY <3>3
    <3> QED BY <3>2, <3>3, <3>4
  <2>3. /\ <<Last(s)>> \in Seq(S)
        /\ Len(<<Last(s)>>) = 1
        /\ <<Last(s)>>[1] = s[Len(s)]
    BY <1>2
  <2> HIDE DEF rest
  <2>4. \A i \in 1 .. Len(rest) : rest[i] = <<Last(s)>>[i]
    BY <2>2, <2>3
  <2> QED BY <2>2, <2>3, <2>4, SeqEqual
<1>4. Range(rest) = {Last(s)}
  BY <1>2, <1>3, SingletonSequence
<1> HIDE DEF n
<1> QED BY <1>1, <1>2, <1>4, CutOfInjective DEF Front, n

\* Adding a new last element.
LEMMA AppendOfInjective ==
    ASSUME NEW S, NEW s \in Seq(S), NEW e \in S
    PROVE  /\ Append(s, e) \in Seq(S)
           /\ Len(Append(s, e)) = Len(s) + 1
           /\ Range(Append(s, e)) = Range(s) \cup {e}
           /\ IsInjective(s) /\ e \notin Range(s) => IsInjective(Append(s, e))
<1> DEFINE one == <<e>>
<1>1. Append(s, e) = s \o one
  BY AppendIsConcat
<1>2. one \in Seq(S) /\ Len(one) = 1 /\ Range(one) = {e} /\ IsInjective(one)
  BY SingletonSequence
<1> HIDE DEF one
<1> QED BY <1>1, <1>2, ConcatOfInjective

\* Adding a new first element.
LEMMA ConsOfInjective ==
    ASSUME NEW S, NEW s \in Seq(S), NEW e \in S
    PROVE  /\ <<e>> \o s \in Seq(S)
           /\ Len(<<e>> \o s) = Len(s) + 1
           /\ Range(<<e>> \o s) = Range(s) \cup {e}
           /\ IsInjective(s) /\ e \notin Range(s) => IsInjective(<<e>> \o s)
<1> DEFINE one == <<e>>
<1>1. one \in Seq(S) /\ Len(one) = 1 /\ Range(one) = {e} /\ IsInjective(one)
  BY SingletonSequence
<1> HIDE DEF one
<1>2. Len(s) \in Nat
  BY LenProperties
<1>3. /\ one \o s \in Seq(S)
      /\ Len(one \o s) = Len(one) + Len(s)
      /\ Range(one \o s) = Range(one) \cup Range(s)
      /\ IsInjective(one) /\ IsInjective(s) /\ Range(one) \cap Range(s) = {}
            => IsInjective(one \o s)
  BY <1>1, ConcatOfInjective
<1>4. /\ one \o s \in Seq(S)
      /\ Len(one \o s) = Len(s) + 1
      /\ Range(one \o s) = Range(s) \cup {e}
      /\ IsInjective(s) /\ e \notin Range(s) => IsInjective(one \o s)
  BY <1>1, <1>2, <1>3
<1> QED BY <1>4 DEF one

\* Concatenating three and four sequences that share no element.
LEMMA Concat3OfInjective ==
    ASSUME NEW S, NEW s \in Seq(S), NEW t \in Seq(S), NEW u \in Seq(S)
    PROVE  /\ s \o t \o u \in Seq(S)
           /\ Len(s \o t \o u) = Len(s) + Len(t) + Len(u)
           /\ Range(s \o t \o u) = Range(s) \cup Range(t) \cup Range(u)
           /\ /\ IsInjective(s) /\ IsInjective(t) /\ IsInjective(u)
              /\ Range(s) \cap Range(t) = {}
              /\ (Range(s) \cup Range(t)) \cap Range(u) = {}
              => IsInjective(s \o t \o u)
<1> DEFINE st == s \o t
<1>1. /\ st \in Seq(S)
      /\ Len(st) = Len(s) + Len(t)
      /\ Range(st) = Range(s) \cup Range(t)
      /\ IsInjective(s) /\ IsInjective(t) /\ Range(s) \cap Range(t) = {}
           => IsInjective(st)
  BY ConcatOfInjective
<1> HIDE DEF st
<1>2. /\ st \o u \in Seq(S)
      /\ Len(st \o u) = Len(st) + Len(u)
      /\ Range(st \o u) = Range(st) \cup Range(u)
      /\ IsInjective(st) /\ IsInjective(u) /\ Range(st) \cap Range(u) = {}
           => IsInjective(st \o u)
  BY <1>1, ConcatOfInjective
<1>3. /\ st \o u \in Seq(S)
      /\ Len(st \o u) = Len(s) + Len(t) + Len(u)
      /\ Range(st \o u) = Range(s) \cup Range(t) \cup Range(u)
      /\ /\ IsInjective(s) /\ IsInjective(t) /\ IsInjective(u)
         /\ Range(s) \cap Range(t) = {}
         /\ (Range(s) \cup Range(t)) \cap Range(u) = {}
         => IsInjective(st \o u)
  BY <1>1, <1>2
<1> QED BY <1>3 DEF st

LEMMA Concat4OfInjective ==
    ASSUME NEW S, NEW s \in Seq(S), NEW t \in Seq(S), NEW u \in Seq(S),
           NEW v \in Seq(S)
    PROVE  /\ s \o t \o u \o v \in Seq(S)
           /\ Len(s \o t \o u \o v) = Len(s) + Len(t) + Len(u) + Len(v)
           /\ Range(s \o t \o u \o v)
                = Range(s) \cup Range(t) \cup Range(u) \cup Range(v)
           /\ /\ IsInjective(s) /\ IsInjective(t)
              /\ IsInjective(u) /\ IsInjective(v)
              /\ Range(s) \cap Range(t) = {}
              /\ (Range(s) \cup Range(t)) \cap Range(u) = {}
              /\ (Range(s) \cup Range(t) \cup Range(u)) \cap Range(v) = {}
              => IsInjective(s \o t \o u \o v)
<1> DEFINE stu == s \o t \o u
<1>1. /\ stu \in Seq(S)
      /\ Len(stu) = Len(s) + Len(t) + Len(u)
      /\ Range(stu) = Range(s) \cup Range(t) \cup Range(u)
      /\ /\ IsInjective(s) /\ IsInjective(t) /\ IsInjective(u)
         /\ Range(s) \cap Range(t) = {}
         /\ (Range(s) \cup Range(t)) \cap Range(u) = {}
         => IsInjective(stu)
  BY Concat3OfInjective
<1> HIDE DEF stu
<1>2. /\ stu \o v \in Seq(S)
      /\ Len(stu \o v) = Len(stu) + Len(v)
      /\ Range(stu \o v) = Range(stu) \cup Range(v)
      /\ IsInjective(stu) /\ IsInjective(v) /\ Range(stu) \cap Range(v) = {}
           => IsInjective(stu \o v)
  BY <1>1, ConcatOfInjective
<1>3. /\ stu \o v \in Seq(S)
      /\ Len(stu \o v) = Len(s) + Len(t) + Len(u) + Len(v)
      /\ Range(stu \o v) = Range(s) \cup Range(t) \cup Range(u) \cup Range(v)
      /\ /\ IsInjective(s) /\ IsInjective(t)
         /\ IsInjective(u) /\ IsInjective(v)
         /\ Range(s) \cap Range(t) = {}
         /\ (Range(s) \cup Range(t)) \cap Range(u) = {}
         /\ (Range(s) \cup Range(t) \cup Range(u)) \cap Range(v) = {}
         => IsInjective(stu \o v)
  BY <1>1, <1>2
<1> QED BY <1>3 DEF stu

-----------------------------------------------------------------------------
(* The queue.                                                              *)

\* The queues and the pointers together hold as many frames as the pool has.
Counted ==
    Len(freeQueue) + Len(presentQueue) + Len(Slot(previousFrame))
      + Len(Slot(pendingPresentFrame)) + Len(Slot(renderFrame)) = FRAME_QUEUE_SIZE

-----------------------------------------------------------------------------
(* The helpers of FrameQueue.                                              *)

\* The sequence a frame pointer stands for.
LEMMA SlotFacts ==
    ASSUME NEW f \in Frames \cup {NoFrame}
    PROVE  /\ Slot(f) \in Seq(Frames)
           /\ Len(Slot(f)) \in 0 .. 1
           /\ Len(Slot(f)) = 0 <=> f = NoFrame
           /\ Range(Slot(f)) = {f} \ {NoFrame}
           /\ IsInjective(Slot(f))
<1>1. CASE f = NoFrame
  BY <1>1, EmptySequence DEF Slot
<1>2. CASE f # NoFrame
  BY <1>2, SingletonSequence DEF Slot
<1> QED BY <1>1, <1>2

\* The depth of a sanitized policy.
LEMMA DepthFacts ==
    ASSUME NEW p \in Policies
    PROVE  SanitizedDepth(p) \in 1 .. FRAME_QUEUE_SIZE - 1
<1>1. p.depth \in Nat
  BY PolicyAssumption DEF Policy
<1> QED BY <1>1, SizeAssumption DEF SanitizedDepth

\* Trimming a queue keeps or releases each of its frames.
LEMMA TrimFacts ==
    ASSUME NEW q \in Seq(Frames), NEW depth \in Nat
    PROVE  /\ Kept(q, depth) \in Seq(Frames)
           /\ Trimmed(q, depth) \in Seq(Frames)
           /\ Len(Kept(q, depth)) + Len(Trimmed(q, depth)) = Len(q)
           /\ Len(Kept(q, depth)) <= depth
           /\ Range(q) = Range(Kept(q, depth)) \cup Range(Trimmed(q, depth))
           /\ IsInjective(q) =>
                 /\ IsInjective(Kept(q, depth))
                 /\ IsInjective(Trimmed(q, depth))
                 /\ Range(Kept(q, depth)) \cap Range(Trimmed(q, depth)) = {}
<1>1. Len(q) \in Nat
  BY LenProperties
<1>2. CASE Len(q) <= depth
  <2>1. Kept(q, depth) = q /\ Trimmed(q, depth) = <<>>
    BY <1>2 DEF Kept, Trimmed
  <2> QED BY <1>1, <1>2, <2>1, EmptySequence
<1>3. CASE ~(Len(q) <= depth)
  <2> DEFINE first == SubSeq(q, 1, depth)
             rest == SubSeq(q, depth + 1, Len(q))
  <2>1. Kept(q, depth) = first /\ Trimmed(q, depth) = Reverse(rest)
    BY <1>3 DEF Kept, Trimmed
  <2>2. depth \in 0 .. Len(q)
    BY <1>1, <1>3
  <2>3. /\ first \in Seq(Frames) /\ Len(first) = depth
        /\ rest \in Seq(Frames) /\ Len(rest) = Len(q) - depth
        /\ Range(q) = Range(first) \cup Range(rest)
        /\ IsInjective(q) => /\ IsInjective(first)
                             /\ IsInjective(rest)
                             /\ Range(first) \cap Range(rest) = {}
    BY <2>2, CutOfInjective
  <2> HIDE DEF first, rest
  <2>4. /\ Reverse(rest) \in Seq(Frames)
        /\ Len(Reverse(rest)) = Len(rest)
        /\ Range(Reverse(rest)) = Range(rest)
        /\ IsInjective(rest) => IsInjective(Reverse(rest))
    BY <2>3, ReverseFacts
  <2> QED BY <1>1, <2>1, <2>3, <2>4
<1> QED BY <1>2, <1>3

\* The whole pool as a queue.
LEMMA PoolFacts ==
    LET pool == [i \in Frames |-> i]
    IN  /\ pool \in Seq(Frames)
        /\ Len(pool) = FRAME_QUEUE_SIZE
        /\ IsInjective(pool)
        /\ Range(pool) = Frames
<1> DEFINE pool == [i \in Frames |-> i]
<1>1. FRAME_QUEUE_SIZE \in Nat /\ pool \in [1 .. FRAME_QUEUE_SIZE -> Frames]
  BY SizeAssumption DEF Frames
<1>2. pool \in Seq(Frames)
  BY <1>1, SeqDef
<1>3. DOMAIN pool = 1 .. FRAME_QUEUE_SIZE
  BY DEF Frames
<1>4. Len(pool) = FRAME_QUEUE_SIZE
  <2>1. DOMAIN pool = 1 .. Len(pool) /\ Len(pool) \in Nat
    BY <1>2, LenProperties
  <2> QED BY <1>1, <1>3, <2>1
<1> QED BY <1>2, <1>4 DEF IsInjective, Range

-----------------------------------------------------------------------------
(* The inductive invariant.                                                *)

IInv == TypeOK /\ Counted /\ NoFrameShared /\ NoFrameLost

LEMMA InitIInv == Init => IInv
<1> SUFFICES ASSUME Init PROVE IInv
  OBVIOUS
<1>1. /\ freeQueue \in Seq(Frames)
      /\ Len(freeQueue) = FRAME_QUEUE_SIZE
      /\ IsInjective(freeQueue)
      /\ Range(freeQueue) = Frames
  BY PoolFacts DEF Init
<1>2. /\ presentQueue \in Seq(Frames)
      /\ Len(presentQueue) = 0
      /\ IsInjective(presentQueue)
      /\ Range(presentQueue) = {}
  BY EmptySequence DEF Init
<1>3. /\ Len(Slot(previousFrame)) = 0
      /\ Len(Slot(pendingPresentFrame)) = 0
      /\ Len(Slot(renderFrame)) = 0
  BY SlotFacts DEF Init
<1>4. TypeOK
  <2>1. acquiredAt \in [Frames -> Nat] /\ nextFrameId \in Nat
    BY DEF Init
  <2> QED BY <1>1, <1>2, <2>1 DEF Init, TypeOK
<1>5. Counted
  BY <1>1, <1>2, <1>3, SizeAssumption DEF Counted
<1>6. Pointers = {}
  BY DEF Init, Pointers
<1>7. NoFrameShared
  BY <1>1, <1>2, <1>6 DEF Init, NoFrameShared
<1>8. NoFrameLost
  BY <1>1, <1>2, <1>6 DEF NoFrameLost
<1> QED BY <1>4, <1>5, <1>7, <1>8 DEF IInv

\* The lengths the count is made of are natural numbers.
LEMMA LengthsAreNat ==
    ASSUME TypeOK
    PROVE  /\ Len(freeQueue) \in Nat /\ Len(presentQueue) \in Nat
           /\ Len(Slot(previousFrame)) \in Nat
           /\ Len(Slot(pendingPresentFrame)) \in Nat
           /\ Len(Slot(renderFrame)) \in Nat
  BY SlotFacts, LenProperties DEF TypeOK

\* The renderer is handed a frame.
LEMMA GetRenderFrameIInv ==
    ASSUME IInv, NEW p \in Policies, NEW f \in Frames, GetRenderFrame(p, f)
    PROVE  IInv'
<1> USE DEF IInv
<1>1. /\ renderFrame = NoFrame /\ renderFrame' = f
      /\ nextFrameId' = nextFrameId + 1
      /\ acquiredAt' = [acquiredAt EXCEPT ![f] = nextFrameId]
      /\ UNCHANGED <<previousFrame, pendingPresentFrame, suppressPreviousFrameReuse>>
  BY DEF GetRenderFrame
<1>2. /\ freeQueue' \in Seq(Frames) /\ presentQueue' \in Seq(Frames)
      /\ Len(freeQueue') + Len(presentQueue') = Len(freeQueue) + Len(presentQueue) - 1
      /\ IsInjective(freeQueue') /\ IsInjective(presentQueue')
      /\ Range(freeQueue') \cap Range(presentQueue') = {}
      /\ Range(freeQueue') \cup Range(presentQueue')
            = (Range(freeQueue) \cup Range(presentQueue)) \ {f}
      /\ f \in Range(freeQueue) \cup Range(presentQueue)
  <2>1. CASE freeQueue # <<>> /\ f = Head(freeQueue) /\ freeQueue' = Tail(freeQueue)
             /\ UNCHANGED presentQueue
    <3>1. /\ Tail(freeQueue) \in Seq(Frames)
          /\ Len(Tail(freeQueue)) = Len(freeQueue) - 1
          /\ Range(freeQueue) = Range(Tail(freeQueue)) \cup {f}
          /\ IsInjective(Tail(freeQueue)) /\ f \notin Range(Tail(freeQueue))
      BY <2>1, HeadTailOfInjective DEF TypeOK, NoFrameShared
    <3>2. Len(freeQueue) \in Nat /\ Len(presentQueue) \in Nat
      BY LenProperties DEF TypeOK
    <3> QED BY <2>1, <3>1, <3>2 DEF TypeOK, NoFrameShared
  <2>2. CASE presentQueue # <<>> /\ f = Last(presentQueue)
             /\ presentQueue' = Front(presentQueue) /\ UNCHANGED freeQueue
    <3>1. /\ Front(presentQueue) \in Seq(Frames)
          /\ Len(Front(presentQueue)) = Len(presentQueue) - 1
          /\ Range(presentQueue) = Range(Front(presentQueue)) \cup {f}
          /\ IsInjective(Front(presentQueue)) /\ f \notin Range(Front(presentQueue))
      BY <2>2, FrontLastOfInjective DEF TypeOK, NoFrameShared
    <3>2. Len(freeQueue) \in Nat /\ Len(presentQueue) \in Nat
      BY LenProperties DEF TypeOK
    <3> QED BY <2>2, <3>1, <3>2 DEF TypeOK, NoFrameShared
  <2> QED BY <2>1, <2>2 DEF GetRenderFrame
<1>3. f # NoFrame
  BY DEF Frames, NoFrame
<1>4. TypeOK'
  BY <1>1, <1>2 DEF TypeOK
<1>5. Counted'
  <2>1. Len(Slot(NoFrame)) = 0 /\ Len(Slot(f)) = 1
    BY <1>3, SlotFacts
  <2>2. Len(freeQueue') \in Nat /\ Len(presentQueue') \in Nat
    BY <1>2, LenProperties
  <2> QED BY <1>1, <1>2, <2>1, <2>2, LengthsAreNat DEF Counted
<1>6. NoFrameShared'
  BY <1>1, <1>2, <1>3 DEF NoFrameShared, Pointers
<1>7. NoFrameLost'
  BY <1>1, <1>2, <1>3 DEF NoFrameLost, Pointers
<1> QED BY <1>4, <1>5, <1>6, <1>7

\* The renderer gives its frame back unused (recycle or discard).
LEMMA RecycleRenderFrameIInv ==
    ASSUME IInv, NEW f \in Frames, RecycleRenderFrame(f)
    PROVE  IInv'
<1> USE DEF IInv
<1>1. /\ renderFrame = f /\ f # NoFrame /\ renderFrame' = NoFrame
      /\ freeQueue' = Append(freeQueue, f)
      /\ UNCHANGED <<presentQueue, previousFrame, pendingPresentFrame,
                     suppressPreviousFrameReuse, nextFrameId, acquiredAt>>
  BY DEF RecycleRenderFrame
<1>2. f \notin Range(freeQueue) \cup Range(presentQueue)
  BY <1>1 DEF NoFrameShared, Pointers
<1>3. /\ freeQueue' \in Seq(Frames)
      /\ Len(freeQueue') = Len(freeQueue) + 1
      /\ Range(freeQueue') = Range(freeQueue) \cup {f}
      /\ IsInjective(freeQueue')
  BY <1>1, <1>2, AppendOfInjective DEF TypeOK, NoFrameShared
<1>4. TypeOK'
  BY <1>1, <1>3 DEF TypeOK
<1>5. Counted'
  <2>1. Len(Slot(NoFrame)) = 0 /\ Len(Slot(f)) = 1
    BY <1>1, SlotFacts
  <2> QED BY <1>1, <1>3, <2>1, LengthsAreNat DEF Counted
<1>6. NoFrameShared'
  BY <1>1, <1>2, <1>3 DEF NoFrameShared, Pointers
<1>7. NoFrameLost'
  BY <1>1, <1>3 DEF NoFrameLost, Pointers
<1> QED BY <1>4, <1>5, <1>6, <1>7

\* The renderer publishes its frame, trimming the backlog.
LEMMA PushRenderedFrameIInv ==
    ASSUME IInv, NEW p \in Policies, NEW f \in Frames, PushRenderedFrame(p, f)
    PROVE  IInv'
<1> USE DEF IInv
<1>1. /\ renderFrame = f /\ f # NoFrame /\ renderFrame' = NoFrame
      /\ UNCHANGED <<previousFrame, pendingPresentFrame,
                     suppressPreviousFrameReuse, nextFrameId, acquiredAt>>
  BY DEF PushRenderedFrame
<1>2. f \notin Range(freeQueue) \cup Range(presentQueue)
  BY <1>1 DEF NoFrameShared, Pointers
<1>3. PICK kept \in Seq(Frames), dropped \in Seq(Frames) :
        /\ presentQueue' = <<f>> \o kept
        /\ freeQueue' = freeQueue \o dropped
        /\ Len(kept) + Len(dropped) = Len(presentQueue)
        /\ Range(presentQueue) = Range(kept) \cup Range(dropped)
        /\ IsInjective(kept) /\ IsInjective(dropped)
        /\ Range(kept) \cap Range(dropped) = {}
  <2>1. CASE p.legacy
    <3>1. presentQueue' = <<f>> \o presentQueue /\ freeQueue' = freeQueue \o <<>>
      BY <2>1, ConcatEmptySeq DEF PushRenderedFrame, TypeOK
    <3>2. /\ <<>> \in Seq(Frames) /\ Len(<<>>) = 0
          /\ Range(<<>>) = {} /\ IsInjective(<<>>)
      BY EmptySequence
    <3>3. Len(presentQueue) + Len(<<>>) = Len(presentQueue)
      BY <3>2, LengthsAreNat
    <3> QED BY <3>1, <3>2, <3>3 DEF TypeOK, NoFrameShared
  <2>2. CASE ~p.legacy
    <3> DEFINE depth == SanitizedDepth(p) - 1
    <3>1. depth \in Nat
      BY DepthFacts
    <3>2. /\ presentQueue' = <<f>> \o Kept(presentQueue, depth)
          /\ freeQueue' = freeQueue \o Trimmed(presentQueue, depth)
      BY <2>2 DEF PushRenderedFrame
    <3> HIDE DEF depth
    <3>3. /\ Kept(presentQueue, depth) \in Seq(Frames)
          /\ Trimmed(presentQueue, depth) \in Seq(Frames)
          /\ Len(Kept(presentQueue, depth)) + Len(Trimmed(presentQueue, depth))
                = Len(presentQueue)
          /\ Range(presentQueue) = Range(Kept(presentQueue, depth))
                                     \cup Range(Trimmed(presentQueue, depth))
          /\ IsInjective(Kept(presentQueue, depth))
          /\ IsInjective(Trimmed(presentQueue, depth))
          /\ Range(Kept(presentQueue, depth))
                \cap Range(Trimmed(presentQueue, depth)) = {}
      BY <3>1, TrimFacts DEF TypeOK, NoFrameShared
    <3> QED BY <3>2, <3>3
  <2> QED BY <2>1, <2>2
<1>4. /\ presentQueue' \in Seq(Frames)
      /\ Len(presentQueue') = Len(kept) + 1
      /\ Range(presentQueue') = Range(kept) \cup {f}
      /\ IsInjective(presentQueue')
  <2>1. f \notin Range(kept)
    BY <1>2, <1>3
  <2> QED BY <1>3, <2>1, ConsOfInjective
<1>5. /\ freeQueue' \in Seq(Frames)
      /\ Len(freeQueue') = Len(freeQueue) + Len(dropped)
      /\ Range(freeQueue') = Range(freeQueue) \cup Range(dropped)
      /\ IsInjective(freeQueue')
  BY <1>3, ConcatOfInjective DEF TypeOK, NoFrameShared
<1>6. TypeOK'
  BY <1>1, <1>4, <1>5 DEF TypeOK
<1>7. Counted'
  <2>1. Len(Slot(NoFrame)) = 0 /\ Len(Slot(f)) = 1
    BY <1>1, SlotFacts
  <2>2. Len(kept) \in Nat /\ Len(dropped) \in Nat
    BY LenProperties
  <2>3. Len(freeQueue') + Len(presentQueue') = Len(freeQueue) + Len(presentQueue) + 1
    <3>1. /\ Len(kept) + Len(dropped) = Len(presentQueue)
          /\ Len(presentQueue') = Len(kept) + 1
          /\ Len(freeQueue') = Len(freeQueue) + Len(dropped)
      BY <1>3, <1>4, <1>5
    <3>2. Len(freeQueue) \in Nat
      BY LengthsAreNat
    <3> QED BY <2>2, <3>1, <3>2
  <2>4. Len(freeQueue') \in Nat /\ Len(presentQueue') \in Nat
    BY <1>4, <1>5, LenProperties
  <2> QED BY <1>1, <2>1, <2>3, <2>4, LengthsAreNat DEF Counted
<1>8. NoFrameShared'
  BY <1>1, <1>2, <1>3, <1>4, <1>5 DEF NoFrameShared, Pointers
<1>9. NoFrameLost'
  BY <1>1, <1>3, <1>4, <1>5 DEF NoFrameLost, Pointers
<1> QED BY <1>6, <1>7, <1>8, <1>9

LEMMA StutterIInv == IInv /\ UNCHANGED vars => IInv'
  BY DEF IInv, vars, TypeOK, Counted, NoFrameShared, NoFrameLost, Pointers

\* The ranges and lengths of the three pointers.
LEMMA PointerFacts ==
    ASSUME TypeOK
    PROVE  \A f \in {previousFrame, pendingPresentFrame, renderFrame} :
              /\ Slot(f) \in Seq(Frames)
              /\ Range(Slot(f)) = {f} \ {NoFrame}
              /\ IsInjective(Slot(f))
  BY SlotFacts DEF TypeOK

\* The presenter takes the newest frame in place of the one shown.
LEMMA GetPresentFrameIInv ==
    ASSUME IInv, NEW p \in Policies, NEW f \in Frames, GetPresentFrame(p, f)
    PROVE  IInv'
<1> USE DEF IInv
<1>1. CASE UNCHANGED vars
  BY <1>1, StutterIInv
<1>2. CASE /\ presentQueue # <<>>
           /\ f = Head(presentQueue)
           /\ freeQueue' = freeQueue \o Slot(previousFrame) \o Tail(presentQueue)
           /\ presentQueue' = <<>>
           /\ previousFrame' = f
           /\ suppressPreviousFrameReuse' = (p.legacy /\ suppressPreviousFrameReuse)
           /\ UNCHANGED <<pendingPresentFrame, renderFrame, nextFrameId, acquiredAt>>
  <2> DEFINE rest == Tail(presentQueue)
             old == Slot(previousFrame)
  <2>1. /\ rest \in Seq(Frames)
        /\ Len(rest) = Len(presentQueue) - 1
        /\ Range(presentQueue) = Range(rest) \cup {f}
        /\ IsInjective(rest) /\ f \notin Range(rest)
    BY <1>2, HeadTailOfInjective DEF TypeOK, NoFrameShared
  <2>2. old \in Seq(Frames) /\ Range(old) = {previousFrame} \ {NoFrame} /\ IsInjective(old)
    BY PointerFacts
  <2>3. /\ freeQueue' = freeQueue \o old \o rest
        /\ f # NoFrame
    BY <1>2 DEF Frames, NoFrame
  <2> HIDE DEF rest, old
  <2>4. /\ Range(freeQueue) \cap Range(old) = {}
        /\ (Range(freeQueue) \cup Range(old)) \cap Range(rest) = {}
    BY <2>1, <2>2 DEF NoFrameShared, Pointers
  <2>5. /\ freeQueue' \in Seq(Frames)
        /\ Len(freeQueue') = Len(freeQueue) + Len(old) + Len(rest)
        /\ Range(freeQueue') = Range(freeQueue) \cup Range(old) \cup Range(rest)
        /\ IsInjective(freeQueue')
    <3>1. freeQueue \in Seq(Frames) /\ IsInjective(freeQueue)
      BY DEF TypeOK, NoFrameShared
    <3> DEFINE all == freeQueue \o old \o rest
    <3>2. /\ all \in Seq(Frames)
          /\ Len(all) = Len(freeQueue) + Len(old) + Len(rest)
          /\ Range(all) = Range(freeQueue) \cup Range(old) \cup Range(rest)
          /\ /\ IsInjective(freeQueue) /\ IsInjective(old) /\ IsInjective(rest)
             /\ Range(freeQueue) \cap Range(old) = {}
             /\ (Range(freeQueue) \cup Range(old)) \cap Range(rest) = {}
             => IsInjective(all)
      BY <2>1, <2>2, <3>1, Concat3OfInjective
    <3> HIDE DEF all
    <3>3. freeQueue' = all
      BY <2>3 DEF all
    <3> QED BY <2>1, <2>2, <2>4, <3>1, <3>2, <3>3
  <2>6. /\ presentQueue' \in Seq(Frames) /\ Len(presentQueue') = 0
        /\ Range(presentQueue') = {} /\ IsInjective(presentQueue')
    BY <1>2, EmptySequence
  <2>7. suppressPreviousFrameReuse' \in BOOLEAN
    BY <1>2 DEF TypeOK
  <2>8. TypeOK'
    BY <1>2, <2>5, <2>6, <2>7 DEF TypeOK
  <2>9. Counted'
    <3>1. Len(Slot(f)) = 1
      BY <2>3, SlotFacts
    <3>2. Len(freeQueue') = Len(freeQueue) + Len(Slot(previousFrame)) + Len(presentQueue) - 1
      BY <2>1, <2>5, LengthsAreNat DEF old
    <3>3. /\ Len(Slot(previousFrame')) = 1
          /\ Len(Slot(pendingPresentFrame')) = Len(Slot(pendingPresentFrame))
          /\ Len(Slot(renderFrame')) = Len(Slot(renderFrame))
      BY <1>2, <3>1
    <3> QED BY <2>6, <3>2, <3>3, LengthsAreNat DEF Counted
  <2>10. NoFrameShared'
    BY <1>2, <2>1, <2>2, <2>3, <2>5, <2>6 DEF NoFrameShared, Pointers
  <2>11. NoFrameLost'
    BY <1>2, <2>1, <2>2, <2>3, <2>5, <2>6 DEF NoFrameLost, Pointers
  <2> QED BY <2>8, <2>9, <2>10, <2>11
<1> QED BY <1>1, <1>2 DEF GetPresentFrame

\* The presenter takes the newest frame as its candidate.
LEMMA GetPresentCandidateIInv ==
    ASSUME IInv, NEW p \in Policies, NEW f \in Frames, GetPresentCandidate(p, f)
    PROVE  IInv'
<1> USE DEF IInv
<1>1. CASE UNCHANGED vars
  BY <1>1, StutterIInv
<1>2. CASE ~UNCHANGED vars
  <2> DEFINE rest == Tail(presentQueue)
  <2>1. /\ pendingPresentFrame = NoFrame
        /\ presentQueue # <<>>
        /\ f = Head(presentQueue)
        /\ pendingPresentFrame' = f
        /\ suppressPreviousFrameReuse' = FALSE
        /\ UNCHANGED <<previousFrame, renderFrame, nextFrameId, acquiredAt>>
    BY <1>2 DEF GetPresentCandidate
  <2>2. \/ presentQueue' = rest /\ freeQueue' = freeQueue
        \/ presentQueue' = <<>> /\ freeQueue' = freeQueue \o rest
    BY <1>2 DEF GetPresentCandidate
  <2>3. /\ rest \in Seq(Frames)
        /\ Len(rest) = Len(presentQueue) - 1
        /\ Range(presentQueue) = Range(rest) \cup {f}
        /\ IsInjective(rest) /\ f \notin Range(rest)
    BY <2>1, HeadTailOfInjective DEF TypeOK, NoFrameShared
  <2>4. f # NoFrame
    BY DEF Frames, NoFrame
  <2> HIDE DEF rest
  <2>5. /\ freeQueue' \in Seq(Frames) /\ presentQueue' \in Seq(Frames)
        /\ Len(freeQueue') + Len(presentQueue') = Len(freeQueue) + Len(presentQueue) - 1
        /\ IsInjective(freeQueue') /\ IsInjective(presentQueue')
        /\ Range(freeQueue') \cap Range(presentQueue') = {}
        /\ Range(freeQueue') \cup Range(presentQueue')
              = (Range(freeQueue) \cup Range(presentQueue)) \ {f}
    <3>1. f \notin Range(freeQueue) /\ Range(freeQueue) \cap Range(rest) = {}
      BY <2>3 DEF NoFrameShared
    <3>2. CASE presentQueue' = rest /\ freeQueue' = freeQueue
      BY <2>3, <3>1, <3>2, LengthsAreNat DEF TypeOK, NoFrameShared
    <3>3. CASE presentQueue' = <<>> /\ freeQueue' = freeQueue \o rest
      <4>1. /\ freeQueue' \in Seq(Frames)
            /\ Len(freeQueue') = Len(freeQueue) + Len(rest)
            /\ Range(freeQueue') = Range(freeQueue) \cup Range(rest)
            /\ IsInjective(freeQueue')
        <5>1. freeQueue \in Seq(Frames) /\ IsInjective(freeQueue)
          BY DEF TypeOK, NoFrameShared
        <5> DEFINE all == freeQueue \o rest
        <5>2. /\ all \in Seq(Frames)
              /\ Len(all) = Len(freeQueue) + Len(rest)
              /\ Range(all) = Range(freeQueue) \cup Range(rest)
              /\ IsInjective(freeQueue) /\ IsInjective(rest)
                 /\ Range(freeQueue) \cap Range(rest) = {} => IsInjective(all)
          BY <2>3, <5>1, ConcatOfInjective
        <5> HIDE DEF all
        <5>3. freeQueue' = all
          BY <3>3 DEF all
        <5> QED BY <2>3, <3>1, <5>1, <5>2, <5>3
      <4>2. /\ presentQueue' \in Seq(Frames) /\ Len(presentQueue') = 0
            /\ Range(presentQueue') = {} /\ IsInjective(presentQueue')
        BY <3>3, EmptySequence
      <4> QED BY <2>3, <3>1, <4>1, <4>2, LengthsAreNat
    <3> QED BY <2>2, <3>2, <3>3
  <2>6. f \in Range(presentQueue)
    BY <2>3
  <2>7. TypeOK'
    BY <2>1, <2>5 DEF TypeOK
  <2>8. Counted'
    <3>1. Len(Slot(f)) = 1 /\ Len(Slot(NoFrame)) = 0
      BY <2>4, SlotFacts
    <3>2. Len(freeQueue') \in Nat /\ Len(presentQueue') \in Nat
      BY <2>5, LenProperties
    <3>3. /\ Len(Slot(pendingPresentFrame)) = 0
          /\ Len(Slot(pendingPresentFrame')) = 1
          /\ Len(Slot(previousFrame')) = Len(Slot(previousFrame))
          /\ Len(Slot(renderFrame')) = Len(Slot(renderFrame))
      BY <2>1, <3>1
    <3>4. Len(freeQueue') + Len(presentQueue') = Len(freeQueue) + Len(presentQueue) - 1
      BY <2>5
    <3> QED BY <3>2, <3>3, <3>4, LengthsAreNat DEF Counted
  <2>9. NoFrameShared'
    BY <2>1, <2>4, <2>5, <2>6 DEF NoFrameShared, Pointers
  <2>10. NoFrameLost'
    BY <2>1, <2>4, <2>5, <2>6 DEF NoFrameLost, Pointers
  <2> QED BY <2>7, <2>8, <2>9, <2>10
<1> QED BY <1>1, <1>2

\* The candidate becomes the frame shown, and the backlog is released or trimmed.
LEMMA CommitPresentedFrameIInv ==
    ASSUME IInv, NEW p \in Policies, NEW f \in Frames, CommitPresentedFrame(p, f)
    PROVE  IInv'
<1> USE DEF IInv
<1>1. UNCHANGED <<renderFrame, nextFrameId, acquiredAt>> /\ f # NoFrame
  BY DEF CommitPresentedFrame
<1>2. CASE f # pendingPresentFrame
  <2>1. /\ UNCHANGED <<freeQueue, presentQueue, previousFrame, pendingPresentFrame>>
        /\ suppressPreviousFrameReuse' =
              (suppressPreviousFrameReuse /\ f # previousFrame)
    BY <1>2 DEF CommitPresentedFrame
  <2>2. TypeOK'
    BY <1>1, <2>1 DEF TypeOK
  <2>3. Counted' /\ NoFrameShared' /\ NoFrameLost'
    BY <1>1, <2>1 DEF Counted, NoFrameShared, NoFrameLost, Pointers
  <2> QED BY <2>2, <2>3
<1>3. CASE f = pendingPresentFrame
  <2> DEFINE depth == IF p.preserve THEN SanitizedDepth(p) ELSE 0
             kept == Kept(presentQueue, depth)
             dropped == IF p.preserve THEN Trimmed(presentQueue, depth)
                        ELSE presentQueue
             old == Slot(previousFrame)
  <2>1. previousFrame # f
    BY <1>1, <1>3 DEF NoFrameShared
  <2>2. /\ previousFrame' = f
        /\ pendingPresentFrame' = NoFrame
        /\ suppressPreviousFrameReuse' = FALSE
        /\ presentQueue' = kept
        /\ freeQueue' = freeQueue \o old \o dropped
    BY <1>3, <2>1 DEF CommitPresentedFrame
  <2>3. /\ kept \in Seq(Frames) /\ dropped \in Seq(Frames)
        /\ Len(kept) + Len(dropped) = Len(presentQueue)
        /\ Range(presentQueue) = Range(kept) \cup Range(dropped)
        /\ IsInjective(kept) /\ IsInjective(dropped)
        /\ Range(kept) \cap Range(dropped) = {}
    <3>1. CASE p.preserve
      <4>1. depth = SanitizedDepth(p) /\ depth \in Nat
        BY <3>1, DepthFacts
      <4>2. kept = Kept(presentQueue, depth) /\ dropped = Trimmed(presentQueue, depth)
        BY <3>1
      <4> HIDE DEF depth, kept, dropped
      <4> QED BY <4>1, <4>2, TrimFacts DEF TypeOK, NoFrameShared
    <3>2. CASE ~p.preserve
      <4>1. depth = 0 /\ kept = Kept(presentQueue, 0) /\ dropped = presentQueue
        BY <3>2
      <4>2. Kept(presentQueue, 0) = <<>>
        <5>1. Kept(presentQueue, 0) \in Seq(Frames) /\ Len(Kept(presentQueue, 0)) <= 0
          BY TrimFacts DEF TypeOK
        <5> DEFINE q == Kept(presentQueue, 0)
        <5> HIDE DEF q
        <5>2. q \in Seq(Frames) /\ Len(q) <= 0 => q = <<>>
          BY EmptySeq
        <5> QED BY <5>1, <5>2 DEF q
      <4> HIDE DEF depth, kept, dropped
      <4>3. /\ kept \in Seq(Frames) /\ Len(kept) = 0
            /\ Range(kept) = {} /\ IsInjective(kept)
        BY <4>1, <4>2, EmptySequence
      <4> QED BY <4>1, <4>3, LengthsAreNat DEF TypeOK, NoFrameShared
    <3> QED BY <3>1, <3>2
  <2>4. old \in Seq(Frames) /\ Range(old) = {previousFrame} \ {NoFrame} /\ IsInjective(old)
    BY PointerFacts
  <2> HIDE DEF depth, kept, dropped, old
  <2>5. /\ freeQueue' \in Seq(Frames)
        /\ Len(freeQueue') = Len(freeQueue) + Len(old) + Len(dropped)
        /\ Range(freeQueue') = Range(freeQueue) \cup Range(old) \cup Range(dropped)
        /\ IsInjective(freeQueue')
    <3>1. freeQueue \in Seq(Frames) /\ IsInjective(freeQueue)
      BY DEF TypeOK, NoFrameShared
    <3>2. /\ Range(freeQueue) \cap Range(old) = {}
          /\ (Range(freeQueue) \cup Range(old)) \cap Range(dropped) = {}
      BY <2>3, <2>4 DEF NoFrameShared, Pointers
    <3> DEFINE all == freeQueue \o old \o dropped
    <3>3. /\ all \in Seq(Frames)
          /\ Len(all) = Len(freeQueue) + Len(old) + Len(dropped)
          /\ Range(all) = Range(freeQueue) \cup Range(old) \cup Range(dropped)
          /\ /\ IsInjective(freeQueue) /\ IsInjective(old) /\ IsInjective(dropped)
             /\ Range(freeQueue) \cap Range(old) = {}
             /\ (Range(freeQueue) \cup Range(old)) \cap Range(dropped) = {}
             => IsInjective(all)
      BY <2>3, <2>4, <3>1, Concat3OfInjective
    <3> HIDE DEF all
    <3>4. freeQueue' = all
      BY <2>2 DEF all
    <3> QED BY <2>3, <2>4, <3>1, <3>2, <3>3, <3>4
  <2>6. TypeOK'
    BY <1>1, <2>2, <2>3, <2>5 DEF TypeOK
  <2>7. Counted'
    <3>1. /\ Len(Slot(previousFrame')) = 1
          /\ Len(Slot(pendingPresentFrame)) = 1
          /\ Len(Slot(pendingPresentFrame')) = 0
          /\ Len(Slot(renderFrame')) = Len(Slot(renderFrame))
      BY <1>1, <1>3, <2>2, SlotFacts
    <3>2. /\ Len(freeQueue') = Len(freeQueue) + Len(Slot(previousFrame)) + Len(dropped)
          /\ Len(presentQueue') = Len(kept)
          /\ Len(kept) + Len(dropped) = Len(presentQueue)
      BY <2>2, <2>3, <2>5 DEF old
    <3>3. Len(kept) \in Nat /\ Len(dropped) \in Nat
      BY <2>3, LenProperties
    <3> QED BY <3>1, <3>2, <3>3, LengthsAreNat DEF Counted
  <2>8. NoFrameShared'
    BY <1>1, <1>3, <2>2, <2>3, <2>4, <2>5 DEF NoFrameShared, Pointers
  <2>9. NoFrameLost'
    BY <1>1, <1>3, <2>2, <2>3, <2>4, <2>5 DEF NoFrameLost, Pointers
  <2> QED BY <2>6, <2>7, <2>8, <2>9
<1> QED BY <1>2, <1>3

\* The candidate goes back to the queue, or is given up.
LEMMA DeferPresentedFrameIInv ==
    ASSUME IInv, NEW p \in Policies, NEW f \in Frames, DeferPresentedFrame(p, f)
    PROVE  IInv'
<1> USE DEF IInv
<1>1. /\ UNCHANGED <<previousFrame, suppressPreviousFrameReuse, renderFrame,
                     nextFrameId, acquiredAt>>
      /\ f # NoFrame
  BY DEF DeferPresentedFrame
<1>2. CASE f # pendingPresentFrame
  BY <1>1, <1>2, StutterIInv DEF DeferPresentedFrame, vars
<1>3. CASE f = pendingPresentFrame
  <2>1. /\ pendingPresentFrame' = NoFrame
        /\ \/ freeQueue' = Append(freeQueue, f) /\ presentQueue' = presentQueue
           \/ presentQueue' = Append(presentQueue, f) /\ freeQueue' = freeQueue
    BY <1>3 DEF DeferPresentedFrame
  <2>2. f \notin Range(freeQueue) \cup Range(presentQueue)
    BY <1>1, <1>3 DEF NoFrameShared, Pointers
  <2>3. /\ freeQueue' \in Seq(Frames) /\ presentQueue' \in Seq(Frames)
        /\ Len(freeQueue') + Len(presentQueue') = Len(freeQueue) + Len(presentQueue) + 1
        /\ IsInjective(freeQueue') /\ IsInjective(presentQueue')
        /\ Range(freeQueue') \cap Range(presentQueue') = {}
        /\ Range(freeQueue') \cup Range(presentQueue')
              = Range(freeQueue) \cup Range(presentQueue) \cup {f}
    <3>1. /\ freeQueue \in Seq(Frames) /\ IsInjective(freeQueue)
          /\ presentQueue \in Seq(Frames) /\ IsInjective(presentQueue)
          /\ Range(freeQueue) \cap Range(presentQueue) = {}
      BY DEF TypeOK, NoFrameShared
    <3>2. \A q \in {freeQueue, presentQueue} :
             /\ Append(q, f) \in Seq(Frames)
             /\ Len(Append(q, f)) = Len(q) + 1
             /\ Range(Append(q, f)) = Range(q) \cup {f}
             /\ IsInjective(Append(q, f))
      BY <2>2, <3>1, AppendOfInjective
    <3>3. CASE freeQueue' = Append(freeQueue, f) /\ presentQueue' = presentQueue
      <4>1. Len(freeQueue') + Len(presentQueue') = Len(freeQueue) + Len(presentQueue) + 1
        BY <3>2, <3>3, LengthsAreNat
      <4> QED BY <2>2, <3>1, <3>2, <3>3, <4>1
    <3>4. CASE presentQueue' = Append(presentQueue, f) /\ freeQueue' = freeQueue
      <4>1. Len(freeQueue') + Len(presentQueue') = Len(freeQueue) + Len(presentQueue) + 1
        BY <3>2, <3>4, LengthsAreNat
      <4> QED BY <2>2, <3>1, <3>2, <3>4, <4>1
    <3> QED BY <2>1, <3>3, <3>4
  <2>4. TypeOK'
    BY <1>1, <2>1, <2>3 DEF TypeOK
  <2>5. Counted'
    <3>1. /\ Len(Slot(pendingPresentFrame)) = 1
          /\ Len(Slot(pendingPresentFrame')) = 0
          /\ Len(Slot(previousFrame')) = Len(Slot(previousFrame))
          /\ Len(Slot(renderFrame')) = Len(Slot(renderFrame))
      BY <1>1, <1>3, <2>1, SlotFacts
    <3>2. Len(freeQueue') \in Nat /\ Len(presentQueue') \in Nat
      BY <2>3, LenProperties
    <3>3. Len(freeQueue') + Len(presentQueue') = Len(freeQueue) + Len(presentQueue) + 1
      BY <2>3
    <3> QED BY <3>1, <3>2, <3>3, LengthsAreNat DEF Counted
  <2>6. NoFrameShared'
    BY <1>1, <1>3, <2>1, <2>2, <2>3 DEF NoFrameShared, Pointers
  <2>7. NoFrameLost'
    BY <1>1, <1>3, <2>1, <2>3 DEF NoFrameLost, Pointers
  <2> QED BY <2>4, <2>5, <2>6, <2>7
<1> QED BY <1>2, <1>3

\* A resync releases the backlog, the candidate and the frame shown.
LEMMA ResyncIInv == IInv /\ RequestPresentationResync => IInv'
<1> SUFFICES ASSUME IInv, RequestPresentationResync PROVE IInv'
  OBVIOUS
<1> USE DEF IInv
<1> DEFINE pending == Slot(pendingPresentFrame)
           old == Slot(previousFrame)
           all == freeQueue \o presentQueue \o pending \o old
<1>1. /\ freeQueue' = all
      /\ presentQueue' = <<>>
      /\ pendingPresentFrame' = NoFrame
      /\ previousFrame' = NoFrame
      /\ suppressPreviousFrameReuse' = TRUE
      /\ UNCHANGED <<renderFrame, nextFrameId, acquiredAt>>
  BY DEF RequestPresentationResync
<1>2. /\ pending \in Seq(Frames) /\ IsInjective(pending)
      /\ Range(pending) = {pendingPresentFrame} \ {NoFrame}
      /\ old \in Seq(Frames) /\ IsInjective(old)
      /\ Range(old) = {previousFrame} \ {NoFrame}
  BY PointerFacts
<1>3. /\ freeQueue \in Seq(Frames) /\ IsInjective(freeQueue)
      /\ presentQueue \in Seq(Frames) /\ IsInjective(presentQueue)
      /\ Range(freeQueue) \cap Range(presentQueue) = {}
  BY DEF TypeOK, NoFrameShared
<1> HIDE DEF pending, old
<1>4. /\ (Range(freeQueue) \cup Range(presentQueue)) \cap Range(pending) = {}
      /\ (Range(freeQueue) \cup Range(presentQueue) \cup Range(pending))
            \cap Range(old) = {}
  BY <1>2 DEF NoFrameShared, Pointers
<1>5. /\ all \in Seq(Frames)
      /\ Len(all) = Len(freeQueue) + Len(presentQueue) + Len(pending) + Len(old)
      /\ Range(all) = Range(freeQueue) \cup Range(presentQueue)
                        \cup Range(pending) \cup Range(old)
      /\ IsInjective(all)
  <2>1. /\ all \in Seq(Frames)
        /\ Len(all) = Len(freeQueue) + Len(presentQueue) + Len(pending) + Len(old)
        /\ Range(all) = Range(freeQueue) \cup Range(presentQueue)
                          \cup Range(pending) \cup Range(old)
        /\ /\ IsInjective(freeQueue) /\ IsInjective(presentQueue)
           /\ IsInjective(pending) /\ IsInjective(old)
           /\ Range(freeQueue) \cap Range(presentQueue) = {}
           /\ (Range(freeQueue) \cup Range(presentQueue)) \cap Range(pending) = {}
           /\ (Range(freeQueue) \cup Range(presentQueue) \cup Range(pending))
                 \cap Range(old) = {}
           => IsInjective(all)
    BY <1>2, <1>3, Concat4OfInjective
  <2> HIDE DEF all
  <2> QED BY <1>2, <1>3, <1>4, <2>1
<1> HIDE DEF all
<1>6. /\ presentQueue' \in Seq(Frames) /\ Len(presentQueue') = 0
      /\ Range(presentQueue') = {} /\ IsInjective(presentQueue')
  BY <1>1, EmptySequence
<1>7. TypeOK'
  BY <1>1, <1>5, <1>6 DEF TypeOK
<1>8. Counted'
  <2>1. /\ Len(Slot(pendingPresentFrame')) = 0
        /\ Len(Slot(previousFrame')) = 0
        /\ Len(Slot(renderFrame')) = Len(Slot(renderFrame))
    BY <1>1, SlotFacts
  <2>2. Len(freeQueue') = Len(freeQueue) + Len(presentQueue)
                            + Len(Slot(pendingPresentFrame)) + Len(Slot(previousFrame))
    BY <1>1, <1>5 DEF pending, old
  <2> QED BY <1>6, <2>1, <2>2, LengthsAreNat DEF Counted
<1>9. NoFrameShared'
  BY <1>1, <1>2, <1>5, <1>6 DEF NoFrameShared, Pointers
<1>10. NoFrameLost'
  BY <1>1, <1>2, <1>5, <1>6 DEF NoFrameLost, Pointers
<1> QED BY <1>7, <1>8, <1>9, <1>10

\* A fast-forward transition releases the backlog and the candidate.
LEMMA FastForwardTransitionIInv ==
    IInv /\ RequestFastForwardPresentationTransition => IInv'
<1> SUFFICES ASSUME IInv, RequestFastForwardPresentationTransition PROVE IInv'
  OBVIOUS
<1> USE DEF IInv
<1> DEFINE pending == Slot(pendingPresentFrame)
           all == freeQueue \o presentQueue \o pending
<1>1. /\ freeQueue' = all
      /\ presentQueue' = <<>>
      /\ pendingPresentFrame' = NoFrame
      /\ suppressPreviousFrameReuse' = FALSE
      /\ UNCHANGED <<previousFrame, renderFrame, nextFrameId, acquiredAt>>
  BY DEF RequestFastForwardPresentationTransition
<1>2. /\ pending \in Seq(Frames) /\ IsInjective(pending)
      /\ Range(pending) = {pendingPresentFrame} \ {NoFrame}
  BY PointerFacts
<1>3. /\ freeQueue \in Seq(Frames) /\ IsInjective(freeQueue)
      /\ presentQueue \in Seq(Frames) /\ IsInjective(presentQueue)
      /\ Range(freeQueue) \cap Range(presentQueue) = {}
  BY DEF TypeOK, NoFrameShared
<1> HIDE DEF pending
<1>4. (Range(freeQueue) \cup Range(presentQueue)) \cap Range(pending) = {}
  BY <1>2 DEF NoFrameShared, Pointers
<1>5. /\ all \in Seq(Frames)
      /\ Len(all) = Len(freeQueue) + Len(presentQueue) + Len(pending)
      /\ Range(all) = Range(freeQueue) \cup Range(presentQueue) \cup Range(pending)
      /\ IsInjective(all)
  BY <1>2, <1>3, <1>4, Concat3OfInjective
<1> HIDE DEF all
<1>6. /\ presentQueue' \in Seq(Frames) /\ Len(presentQueue') = 0
      /\ Range(presentQueue') = {} /\ IsInjective(presentQueue')
  BY <1>1, EmptySequence
<1>7. TypeOK'
  BY <1>1, <1>5, <1>6 DEF TypeOK
<1>8. Counted'
  <2>1. /\ Len(Slot(pendingPresentFrame')) = 0
        /\ Len(Slot(previousFrame')) = Len(Slot(previousFrame))
        /\ Len(Slot(renderFrame')) = Len(Slot(renderFrame))
    BY <1>1, SlotFacts
  <2>2. Len(freeQueue') = Len(freeQueue) + Len(presentQueue)
                            + Len(Slot(pendingPresentFrame))
    BY <1>1, <1>5 DEF pending
  <2> QED BY <1>6, <2>1, <2>2, LengthsAreNat DEF Counted
<1>9. NoFrameShared'
  BY <1>1, <1>2, <1>5, <1>6 DEF NoFrameShared, Pointers
<1>10. NoFrameLost'
  BY <1>1, <1>2, <1>5, <1>6 DEF NoFrameLost, Pointers
<1> QED BY <1>7, <1>8, <1>9, <1>10

\* clear() puts the whole pool back, whatever the presenter was doing.
LEMMA ClearIInv == TypeOK /\ Clear => IInv'
<1> SUFFICES ASSUME TypeOK, Clear PROVE IInv'
  OBVIOUS
<1>1. /\ freeQueue' = [i \in Frames |-> i]
      /\ presentQueue' = <<>>
      /\ previousFrame' = NoFrame
      /\ pendingPresentFrame' = NoFrame
      /\ suppressPreviousFrameReuse' = FALSE
      /\ acquiredAt' = [f \in Frames |-> 0]
      /\ renderFrame' = NoFrame
      /\ nextFrameId' = nextFrameId
  BY DEF Clear
<1>2. /\ freeQueue' \in Seq(Frames)
      /\ Len(freeQueue') = FRAME_QUEUE_SIZE
      /\ IsInjective(freeQueue')
      /\ Range(freeQueue') = Frames
  BY <1>1, PoolFacts
<1>3. /\ presentQueue' \in Seq(Frames) /\ Len(presentQueue') = 0
      /\ Range(presentQueue') = {} /\ IsInjective(presentQueue')
  BY <1>1, EmptySequence
<1>4. /\ Len(Slot(previousFrame')) = 0
      /\ Len(Slot(pendingPresentFrame')) = 0
      /\ Len(Slot(renderFrame')) = 0
  BY <1>1, SlotFacts
<1>5. TypeOK'
  <2>1. acquiredAt' \in [Frames -> Nat]
    BY <1>1
  <2> QED BY <1>1, <1>2, <1>3, <2>1 DEF TypeOK
<1>6. Counted'
  BY <1>2, <1>3, <1>4, SizeAssumption DEF Counted
<1>7. NoFrameShared' /\ NoFrameLost'
  BY <1>1, <1>2, <1>3 DEF NoFrameShared, NoFrameLost, Pointers
<1> QED BY <1>5, <1>6, <1>7 DEF IInv

LEMMA NextIInv == IInv /\ [Next]_vars => IInv'
<1> SUFFICES ASSUME IInv, [Next]_vars PROVE IInv'
  OBVIOUS
<1>1. ASSUME NEW p \in Policies, NEW f \in Frames, RendererCall(p, f) PROVE IInv'
  BY <1>1, GetRenderFrameIInv, RecycleRenderFrameIInv, PushRenderedFrameIInv
     DEF RendererCall, DiscardRenderedFrame
<1>2. ASSUME NEW p \in Policies, NEW f \in Frames, PresenterCall(p, f) PROVE IInv'
  BY <1>2, GetPresentFrameIInv, GetPresentCandidateIInv,
     CommitPresentedFrameIInv, DeferPresentedFrameIInv DEF PresenterCall
<1>3. CASE RequestPresentationResync
  BY <1>3, ResyncIInv
<1>4. CASE RequestFastForwardPresentationTransition
  BY <1>4, FastForwardTransitionIInv
<1>5. CASE Clear
  BY <1>5, ClearIInv DEF IInv
<1>6. CASE UNCHANGED vars
  BY <1>6, StutterIInv
<1> QED BY <1>1, <1>2, <1>3, <1>4, <1>5, <1>6 DEF Next

-----------------------------------------------------------------------------
(* The theorems.                                                           *)

\* The queue's inductive invariant, for every pool of three frames or more,
\* every set of policies and any number of calls.
THEOREM SpecIInv == Spec => []IInv
  BY InitIInv, NextIInv, PTL DEF Spec

\* The queue's members always hold frames of the pool or nullptr
\* (FrameQueue.h).
THEOREM SpecTypeOK == Spec => []TypeOK
<1>1. IInv => TypeOK
  BY DEF IInv
<1> QED BY <1>1, SpecIInv, PTL

\* Two threads never get the same frame: whatever calls the emulator thread, the
\* presentation thread and the threads that resync make, no frame has two owners.
THEOREM SpecNoFrameShared == Spec => []NoFrameShared
<1>1. IInv => NoFrameShared
  BY DEF IInv
<1> QED BY <1>1, SpecIInv, PTL

\* No frame leaks out of the pool.
THEOREM SpecNoFrameLost == Spec => []NoFrameLost
<1>1. IInv => NoFrameLost
  BY DEF IInv
<1> QED BY <1>1, SpecIInv, PTL

\* getRenderFrame never returns nullptr to a caller whose policy may steal, so
\* the OpenGL and software paths of runFrame may use the frame untested.
THEOREM SpecStealingRendererNeverStarves == Spec => []StealingRendererNeverStarves
<1>1. IInv => StealingRendererNeverStarves
  <2> SUFFICES ASSUME IInv, renderFrame = NoFrame,
                      freeQueue = <<>>, presentQueue = <<>>
               PROVE  FALSE
    BY DEF StealingRendererNeverStarves, RenderFrameUnavailable
  <2>1. Len(freeQueue) = 0 /\ Len(presentQueue) = 0 /\ Len(Slot(renderFrame)) = 0
    BY EmptySequence, SlotFacts
  <2>2. Len(Slot(previousFrame)) \in 0 .. 1 /\ Len(Slot(pendingPresentFrame)) \in 0 .. 1
    BY SlotFacts DEF IInv, TypeOK
  <2>3. Len(Slot(previousFrame)) + Len(Slot(pendingPresentFrame)) = FRAME_QUEUE_SIZE
    <3>1. 0 + 0 + Len(Slot(previousFrame)) + Len(Slot(pendingPresentFrame)) + 0
            = FRAME_QUEUE_SIZE
      BY <2>1 DEF IInv, Counted
    <3> QED BY <2>2, <3>1
  <2> DEFINE a == Len(Slot(previousFrame))
             b == Len(Slot(pendingPresentFrame))
  <2>4. a \in 0 .. 1 /\ b \in 0 .. 1 /\ a + b = FRAME_QUEUE_SIZE
    BY <2>2, <2>3
  <2> HIDE DEF a, b
  <2> QED BY <2>4, SizeAssumption
<1> QED BY <1>1, SpecIInv, PTL

-----------------------------------------------------------------------------
(* The backlog of the Vulkan renderer.                                     *)

\* One step of the queue keeps the backlog bounded.
LEMMA BacklogStep ==
    ASSUME IInv, BacklogBounded, [Next]_vars
    PROVE  BacklogBounded'
<1> SUFFICES ASSUME NEW depth \in 1 .. FRAME_QUEUE_SIZE - 1, AllWithin(depth)
             PROVE  Len(presentQueue') + Len(Slot(pendingPresentFrame')) <= depth + 1
  BY DEF BacklogBounded, AllWithin, SanitizedDepth
<1> DEFINE size == Len(presentQueue) + Len(Slot(pendingPresentFrame))
           sizeAfter == Len(presentQueue') + Len(Slot(pendingPresentFrame'))
<1>1. size <= depth + 1
  BY DEF BacklogBounded
<1>2. presentQueue' \in Seq(Frames) /\ pendingPresentFrame' \in Frames \cup {NoFrame}
  BY NextIInv DEF IInv, TypeOK
<1>3. /\ Len(presentQueue) \in Nat /\ Len(Slot(pendingPresentFrame)) \in 0 .. 1
      /\ Len(presentQueue') \in Nat /\ Len(Slot(pendingPresentFrame')) \in 0 .. 1
      /\ Len(Slot(NoFrame)) = 0 /\ Len(<<>>) = 0
      /\ depth \in Nat /\ depth >= 1
  BY <1>2, SlotFacts, LenProperties, EmptySequence, SizeAssumption DEF IInv, TypeOK
<1>4. presentQueue \in Seq(Frames)
  BY DEF IInv, TypeOK
<1>5. CASE UNCHANGED <<presentQueue, pendingPresentFrame>>
  BY <1>1, <1>5
<1>6. CASE presentQueue' = <<>>
  BY <1>3, <1>6
<1>7. ASSUME NEW p \in Policies, NEW f \in Frames, GetRenderFrame(p, f)
      PROVE  sizeAfter <= depth + 1
  <2>1. CASE presentQueue # <<>> /\ presentQueue' = Front(presentQueue)
             /\ pendingPresentFrame' = pendingPresentFrame
    <3>1. Len(presentQueue') = Len(presentQueue) - 1
      BY <1>4, <2>1, FrontLastOfInjective
    <3> QED BY <1>1, <1>3, <2>1, <3>1
  <2> QED BY <1>5, <1>7, <2>1 DEF GetRenderFrame
<1>8. ASSUME NEW p \in Policies, NEW f \in Frames, PushRenderedFrame(p, f)
      PROVE  sizeAfter <= depth + 1
  <2> DEFINE limit == SanitizedDepth(p) - 1
             kept == Kept(presentQueue, limit)
  <2>1. ~p.legacy /\ SanitizedDepth(p) <= depth
    BY DEF AllWithin
  <2>2. limit \in Nat /\ limit + 1 <= depth
    BY <1>3, <2>1, DepthFacts
  <2>3. presentQueue' = <<f>> \o kept /\ pendingPresentFrame' = pendingPresentFrame
    BY <1>8, <2>1 DEF PushRenderedFrame
  <2> HIDE DEF limit
  <2>4. kept \in Seq(Frames) /\ Len(kept) <= limit
    BY <1>4, <2>2, TrimFacts
  <2> HIDE DEF kept
  <2>5. Len(presentQueue') = Len(kept) + 1 /\ Len(kept) \in Nat
    BY <2>3, <2>4, ConsOfInjective, LenProperties
  <2>6. Len(presentQueue') <= depth
    BY <1>3, <2>2, <2>4, <2>5
  <2> DEFINE queued == Len(presentQueue')
             chosen == Len(Slot(pendingPresentFrame'))
  <2>7. queued \in Nat /\ chosen \in 0 .. 1 /\ queued <= depth /\ depth \in Nat
    BY <1>3, <2>6
  <2> HIDE DEF queued, chosen
  <2>8. queued + chosen <= depth + 1
    BY <2>7
  <2> QED BY <2>8 DEF queued, chosen
<1>9. ASSUME NEW p \in Policies, NEW f \in Frames, GetPresentCandidate(p, f)
      PROVE  sizeAfter <= depth + 1
  <2>1. CASE presentQueue # <<>> /\ pendingPresentFrame = NoFrame
             /\ presentQueue' = Tail(presentQueue)
    <3>1. Len(presentQueue') = Len(presentQueue) - 1
      BY <1>4, <2>1, HeadTailOfInjective
    <3>2. Len(presentQueue) <= depth + 1
      BY <1>1, <1>3, <2>1
    <3>3. Len(presentQueue') <= depth
      BY <1>3, <3>1, <3>2
    <3> DEFINE queued == Len(presentQueue')
               chosen == Len(Slot(pendingPresentFrame'))
    <3>4. queued \in Nat /\ chosen \in 0 .. 1 /\ queued <= depth /\ depth \in Nat
      BY <1>3, <3>3
    <3> HIDE DEF queued, chosen
    <3>5. queued + chosen <= depth + 1
      BY <3>4
    <3> QED BY <3>5 DEF queued, chosen
  <2> QED BY <1>5, <1>6, <1>9, <2>1 DEF GetPresentCandidate, vars
<1>10. ASSUME NEW p \in Policies, NEW f \in Frames, CommitPresentedFrame(p, f)
       PROVE  sizeAfter <= depth + 1
  <2>1. CASE f = pendingPresentFrame
    <3> DEFINE limit == IF p.preserve THEN SanitizedDepth(p) ELSE 0
               kept == Kept(presentQueue, limit)
               dropped == Trimmed(presentQueue, limit)
    <3>1. presentQueue' = kept /\ pendingPresentFrame' = NoFrame
      BY <1>10, <2>1 DEF CommitPresentedFrame
    <3>2. limit \in Nat
      BY DepthFacts
    <3> HIDE DEF limit
    <3>3. /\ kept \in Seq(Frames) /\ dropped \in Seq(Frames)
          /\ Len(kept) + Len(dropped) = Len(presentQueue)
      BY <1>4, <3>2, TrimFacts
    <3> HIDE DEF kept, dropped
    <3>4. Len(kept) \in Nat /\ Len(dropped) \in Nat
      BY <3>3, LenProperties
    <3> QED BY <1>1, <1>3, <3>1, <3>3, <3>4
  <2> QED BY <1>5, <1>10, <2>1 DEF CommitPresentedFrame
<1>11. ASSUME NEW p \in Policies, NEW f \in Frames, DeferPresentedFrame(p, f)
       PROVE  sizeAfter <= depth + 1
  <2>1. CASE f = pendingPresentFrame /\ f # NoFrame
    <3>1. Len(Slot(pendingPresentFrame)) = 1 /\ pendingPresentFrame' = NoFrame
      BY <1>11, <2>1, SlotFacts DEF DeferPresentedFrame
    <3>2. Len(Append(presentQueue, f)) = Len(presentQueue) + 1
      BY <1>4, AppendOfInjective
    <3>3. presentQueue' = presentQueue \/ presentQueue' = Append(presentQueue, f)
      BY <1>11, <2>1 DEF DeferPresentedFrame
    <3> QED BY <1>1, <1>3, <3>1, <3>2, <3>3
  <2> QED BY <1>5, <1>11, <2>1 DEF DeferPresentedFrame
<1>12. ASSUME NEW p \in Policies, NEW f \in Frames, RendererCall(p, f)
       PROVE  sizeAfter <= depth + 1
  BY <1>5, <1>7, <1>8, <1>12 DEF RendererCall, RecycleRenderFrame, DiscardRenderedFrame
<1>13. ASSUME NEW p \in Policies, NEW f \in Frames, PresenterCall(p, f)
       PROVE  sizeAfter <= depth + 1
  <2>1. CASE GetPresentFrame(p, f)
    BY <1>5, <1>6, <2>1 DEF GetPresentFrame, vars
  <2> QED BY <1>9, <1>10, <1>11, <1>13, <2>1 DEF PresenterCall
<1> QED
  BY <1>5, <1>6, <1>12, <1>13 DEF Next, vars, RequestPresentationResync,
     RequestFastForwardPresentationTransition, Clear

\* The Vulkan backlog stays within one frame of the depth asked for.
THEOREM SpecBacklogBounded == Spec => []BacklogBounded
<1>1. Init => BacklogBounded
  <2> SUFFICES ASSUME Init, NEW depth \in 1 .. FRAME_QUEUE_SIZE - 1
               PROVE  Len(presentQueue) + Len(Slot(pendingPresentFrame)) <= depth + 1
    BY DEF BacklogBounded
  <2>1. Len(presentQueue) = 0 /\ Len(Slot(pendingPresentFrame)) = 0
    BY EmptySequence, SlotFacts DEF Init
  <2> QED BY <2>1, SizeAssumption
<1>2. IInv /\ BacklogBounded /\ [Next]_vars => BacklogBounded'
  BY BacklogStep
<1> QED BY <1>1, <1>2, SpecIInv, PTL DEF Spec

\* A backlog with its candidate and one previous frame do not fill a pool three
\* frames deeper.
LEMMA PoolIsLarger ==
  ASSUME NEW size \in Nat, NEW depth \in Nat, NEW queued \in Nat, NEW candidate \in Nat,
         NEW previous \in Nat,
         depth + 3 <= size, previous <= 1, queued + candidate <= depth + 1
  PROVE  0 + queued + previous + candidate + 0 # size
  OBVIOUS

\* With a pool three frames deeper than the backlog, as FRAME_QUEUE_SIZE = 9 and
\* the Vulkan depths of 1 and 2 make it, the Vulkan renderer always finds a free
\* frame and never steals one that is waiting to be shown.
THEOREM SpecVulkanRendererNeverStarves == Spec => []VulkanRendererNeverStarves
<1>1. IInv /\ BacklogBounded => VulkanRendererNeverStarves
  <2> SUFFICES ASSUME IInv, BacklogBounded,
                      NEW depth \in 1 .. FRAME_QUEUE_SIZE - 3, AllWithin(depth),
                      renderFrame = NoFrame, freeQueue = <<>>
               PROVE  FALSE
    BY DEF VulkanRendererNeverStarves
  <2>1. depth \in 1 .. FRAME_QUEUE_SIZE - 1
    BY SizeAssumption
  <2>2. Len(presentQueue) + Len(Slot(pendingPresentFrame)) <= depth + 1
    BY <2>1 DEF BacklogBounded
  <2>3. /\ Len(freeQueue) = 0 /\ Len(Slot(renderFrame)) = 0
        /\ Len(Slot(previousFrame)) \in 0 .. 1
    BY EmptySequence, SlotFacts DEF IInv, TypeOK
  <2>4. 0 + Len(presentQueue) + Len(Slot(previousFrame))
          + Len(Slot(pendingPresentFrame)) + 0 = FRAME_QUEUE_SIZE
    BY <2>3 DEF IInv, Counted
  <2>5. Len(presentQueue) \in Nat /\ Len(Slot(pendingPresentFrame)) \in Nat
    BY LengthsAreNat DEF IInv
  <2>6. FRAME_QUEUE_SIZE \in Nat /\ depth \in Nat /\ depth + 3 <= FRAME_QUEUE_SIZE
    BY SizeAssumption
  <2>7. Len(Slot(previousFrame)) \in Nat /\ Len(Slot(previousFrame)) <= 1
    BY <2>3
  <2> QED BY <2>2, <2>4, <2>5, <2>6, <2>7, PoolIsLarger
<1> QED BY <1>1, SpecIInv, SpecBacklogBounded, PTL

\* After a resync the Vulkan presenter is never given the old frame again.
THEOREM SpecNoReuseAfterResync == Spec => []NoReuseAfterResync
<1>1. Init => NoReuseAfterResync
  BY DEF Init, NoReuseAfterResync
<1>2. NoReuseAfterResync /\ [Next]_vars => NoReuseAfterResync'
  <2> SUFFICES ASSUME NoReuseAfterResync, [Next]_vars,
                      \A p \in Policies : ~p.legacy,
                      suppressPreviousFrameReuse'
               PROVE  previousFrame' = NoFrame
    BY DEF NoReuseAfterResync
  <2>1. suppressPreviousFrameReuse => previousFrame = NoFrame
    BY DEF NoReuseAfterResync
  <2>2. ASSUME NEW p \in Policies, NEW f \in Frames, RendererCall(p, f)
        PROVE  previousFrame' = NoFrame
    BY <2>1, <2>2 DEF RendererCall, GetRenderFrame, RecycleRenderFrame,
       DiscardRenderedFrame, PushRenderedFrame
  <2>3. ASSUME NEW p \in Policies, NEW f \in Frames, PresenterCall(p, f)
        PROVE  previousFrame' = NoFrame
    BY <2>1, <2>3 DEF PresenterCall, GetPresentFrame, GetPresentCandidate,
       CommitPresentedFrame, DeferPresentedFrame, vars
  <2> QED BY <2>1, <2>2, <2>3 DEF Next, vars, RequestPresentationResync,
       RequestFastForwardPresentationTransition, Clear
<1> QED BY <1>1, <1>2, PTL DEF Spec

-----------------------------------------------------------------------------
(* FrameQueue implements FrameOwnership.  A frame has the owner OwnerOf says *)
(* because no frame is shared and none is lost, so the inductive invariant  *)
(* is what the refinement rests on.  One lemma per call says which step of  *)
(* FrameOwnership it is, or that no frame moves.                            *)

\* The owner of every frame, and where that owner keeps it.
Known ==
    \A g \in Frames :
        /\ OwnerOf(g) \in {"rendering", "pending", "shown", "queued", "free"}
        /\ OwnerOf(g) = "rendering" <=> g = renderFrame
        /\ OwnerOf(g) = "pending" <=> g = pendingPresentFrame
        /\ OwnerOf(g) = "shown" <=> g = previousFrame
        /\ OwnerOf(g) = "queued" <=> g \in Range(presentQueue)

LEMMA FramesAreReal == NoFrame \notin Frames
  BY DEF Frames, NoFrame

LEMMA OwnersKnown == IInv => Known
<1> SUFFICES ASSUME IInv, NEW g \in Frames
             PROVE  /\ OwnerOf(g) \in {"rendering", "pending", "shown", "queued", "free"}
                    /\ OwnerOf(g) = "rendering" <=> g = renderFrame
                    /\ OwnerOf(g) = "pending" <=> g = pendingPresentFrame
                    /\ OwnerOf(g) = "shown" <=> g = previousFrame
                    /\ OwnerOf(g) = "queued" <=> g \in Range(presentQueue)
  BY DEF Known
<1>1. g # NoFrame
  BY DEF Frames, NoFrame
<1>2. /\ g = renderFrame => /\ g # pendingPresentFrame /\ g # previousFrame
                            /\ g \notin Range(presentQueue)
      /\ g = pendingPresentFrame => g # previousFrame /\ g \notin Range(presentQueue)
      /\ g = previousFrame => g \notin Range(presentQueue)
  BY <1>1 DEF IInv, NoFrameShared, Pointers
<1>3. QED
  BY <1>2 DEF OwnerOf

LEMMA OwnersKnownNext == IInv' => Known'
<1>1. QED
  BY OwnersKnown, PTL

\* The frames of an owner, and the queued ones among them.
LEMMA OwnedFacts ==
    ASSUME IInv
    PROVE  /\ Ownership!Owned("rendering") = {renderFrame} \ {NoFrame}
           /\ Ownership!Owned("pending") = {pendingPresentFrame} \ {NoFrame}
           /\ Ownership!Owned("shown") = {previousFrame} \ {NoFrame}
           /\ Ownership!Owned("queued") = Range(presentQueue)
           /\ \A g \in Frames : [f \in Frames |-> OwnerOf(f)][g] = OwnerOf(g)
<1>1. Known
  BY OwnersKnown
<1>2. /\ renderFrame \in Frames \cup {NoFrame}
      /\ pendingPresentFrame \in Frames \cup {NoFrame}
      /\ previousFrame \in Frames \cup {NoFrame}
      /\ NoFrame \notin Frames
  BY DEF IInv, TypeOK, Frames, NoFrame
<1>3. Range(presentQueue) \subseteq Frames
  BY DEF IInv, NoFrameLost
<1>4. QED
  BY <1>1, <1>2, <1>3 DEF Known, Ownership!Owned

-----------------------------------------------------------------------------
(* The renderer's calls.                                                   *)

\* A frame handed to the renderer was free or queued.
LEMMA GetRenderFrameOwns ==
    ASSUME IInv, IInv', NEW p \in Policies, NEW f \in Frames, GetRenderFrame(p, f)
    PROVE  Ownership!Acquire(f)
<1>1. Known /\ Known'
  BY OwnersKnown, OwnersKnownNext
<1>2. /\ renderFrame = NoFrame /\ renderFrame' = f
      /\ UNCHANGED <<previousFrame, pendingPresentFrame>>
  BY DEF GetRenderFrame
<1>3. \A g \in Frames : g # f => (g \in Range(presentQueue') <=> g \in Range(presentQueue))
  <2>1. CASE UNCHANGED presentQueue
    BY <2>1
  <2>2. CASE presentQueue # <<>> /\ f = Last(presentQueue)
             /\ presentQueue' = Front(presentQueue)
    <3>1. Range(presentQueue) = Range(Front(presentQueue)) \cup {f}
      BY <2>2, FrontLastOfInjective DEF IInv, TypeOK
    <3> QED BY <2>2, <3>1
  <2> QED BY <2>1, <2>2 DEF GetRenderFrame
<1>4. f \in Range(freeQueue) \cup Range(presentQueue) /\ f # NoFrame
  <2>1. CASE freeQueue # <<>> /\ f = Head(freeQueue)
    <3>1. Range(freeQueue) = Range(Tail(freeQueue)) \cup {f}
      BY <2>1, HeadTailOfInjective DEF IInv, TypeOK
    <3> QED BY <3>1, FramesAreReal
  <2>2. CASE presentQueue # <<>> /\ f = Last(presentQueue)
    <3>1. Range(presentQueue) = Range(Front(presentQueue)) \cup {f}
      BY <2>2, FrontLastOfInjective DEF IInv, TypeOK
    <3> QED BY <3>1, FramesAreReal
  <2> QED BY <2>1, <2>2 DEF GetRenderFrame
<1>5. f \notin {renderFrame, pendingPresentFrame, previousFrame}
  BY <1>4 DEF IInv, NoFrameShared, Pointers
<1>6. \A g \in Frames : OwnerOf(g)' = IF g \in {f} THEN "rendering" ELSE OwnerOf(g)
  <2> SUFFICES ASSUME NEW g \in Frames
               PROVE  OwnerOf(g)' = IF g \in {f} THEN "rendering" ELSE OwnerOf(g)
    OBVIOUS
  <2>1. CASE g = f
    BY <1>1, <1>2, <2>1 DEF Known
  <2>2. CASE g # f
    <3>1. OwnerOf(g)' # "rendering" /\ OwnerOf(g) # "rendering"
      BY <1>1, <1>2, <2>2, FramesAreReal DEF Known
    <3> QED BY <1>1, <1>2, <1>3, <2>2, <3>1 DEF Known
  <2> QED BY <2>1, <2>2
<1>7. OwnerOf(f) \in {"free", "queued"}
  BY <1>1, <1>5 DEF Known
<1>8. Ownership!Owned("rendering") = {}
  BY <1>2, OwnedFacts
<1> QED BY <1>6, <1>7, <1>8, OwnedFacts DEF Ownership!Acquire, Ownership!Give

\* A frame recycled or discarded was being rendered.
LEMMA RecycleRenderFrameOwns ==
    ASSUME IInv, IInv', NEW f \in Frames, RecycleRenderFrame(f)
    PROVE  Ownership!Abandon(f)
<1>1. Known /\ Known'
  BY OwnersKnown, OwnersKnownNext
<1>2. /\ renderFrame = f /\ renderFrame' = NoFrame
      /\ UNCHANGED <<presentQueue, previousFrame, pendingPresentFrame>>
  BY DEF RecycleRenderFrame
<1>3. f \notin Range(presentQueue) \cup {pendingPresentFrame, previousFrame}
  BY <1>2, FramesAreReal DEF IInv, NoFrameShared, Pointers
<1>4. \A g \in Frames : OwnerOf(g)' = IF g \in {f} THEN "free" ELSE OwnerOf(g)
  BY <1>1, <1>2, <1>3, FramesAreReal DEF Known
<1>5. OwnerOf(f) = "rendering"
  BY <1>1, <1>2 DEF Known
<1> QED BY <1>4, <1>5, OwnedFacts DEF Ownership!Abandon, Ownership!Give

\* A frame pushed was being rendered, and only queued ones are trimmed.
LEMMA PushRenderedFrameOwns ==
    ASSUME IInv, IInv', NEW p \in Policies, NEW f \in Frames, PushRenderedFrame(p, f)
    PROVE  \E dropped \in SUBSET Ownership!Owned("queued") :
              Ownership!Publish(f, dropped)
<1>1. Known /\ Known'
  BY OwnersKnown, OwnersKnownNext
<1>2. /\ renderFrame = f /\ renderFrame' = NoFrame
      /\ UNCHANGED <<previousFrame, pendingPresentFrame>>
  BY DEF PushRenderedFrame
<1>3. PICK kept \in Seq(Frames) :
        Range(kept) \subseteq Range(presentQueue) /\ presentQueue' = <<f>> \o kept
  <2>1. presentQueue \in Seq(Frames)
    BY DEF IInv, TypeOK
  <2>2. CASE p.legacy
    BY <2>1, <2>2 DEF PushRenderedFrame
  <2>3. CASE ~p.legacy
    <3> DEFINE depth == SanitizedDepth(p) - 1
    <3>1. depth \in Nat
      BY DepthFacts
    <3>2. presentQueue' = <<f>> \o Kept(presentQueue, depth)
      BY <2>3 DEF PushRenderedFrame
    <3> HIDE DEF depth
    <3>3. /\ Kept(presentQueue, depth) \in Seq(Frames)
          /\ Range(Kept(presentQueue, depth)) \subseteq Range(presentQueue)
      BY <2>1, <3>1, TrimFacts
    <3> QED BY <3>2, <3>3
  <2> QED BY <2>2, <2>3
<1>4. Range(presentQueue') = Range(kept) \cup {f}
  BY <1>3, ConsOfInjective
<1> DEFINE dropped == Range(presentQueue) \ Range(kept)
<1>5. dropped \in SUBSET Ownership!Owned("queued")
  BY OwnedFacts
<1>6. f \notin Range(presentQueue) \cup {pendingPresentFrame, previousFrame}
  BY <1>2, FramesAreReal DEF IInv, NoFrameShared, Pointers
<1>7. \A g \in Frames :
         OwnerOf(g)' = IF g \in {f} THEN "queued"
                       ELSE IF g \in dropped THEN "free" ELSE OwnerOf(g)
  <2> SUFFICES ASSUME NEW g \in Frames
               PROVE  OwnerOf(g)' = IF g \in {f} THEN "queued"
                                    ELSE IF g \in dropped THEN "free" ELSE OwnerOf(g)
    OBVIOUS
  <2>1. CASE g = f
    BY <1>1, <1>4, <2>1 DEF Known
  <2>2. CASE g # f /\ g \in Range(presentQueue)
    BY <1>1, <1>2, <1>3, <1>4, <2>2, FramesAreReal DEF Known
  <2>3. CASE g # f /\ g \notin Range(presentQueue)
    BY <1>1, <1>2, <1>3, <1>4, <2>3, FramesAreReal DEF Known
  <2> QED BY <2>1, <2>2, <2>3
<1>8. OwnerOf(f) = "rendering"
  BY <1>1, <1>2 DEF Known
<1> HIDE DEF dropped
<1>9. Ownership!Publish(f, dropped)
  BY <1>7, <1>8, OwnedFacts DEF Ownership!Publish, Ownership!Give
<1> QED BY <1>5, <1>9

-----------------------------------------------------------------------------
(* The presenter's calls.                                                  *)

\* A call that changes no pointer and no queue moves no frame.
LEMMA StutterOwns ==
    ASSUME UNCHANGED <<renderFrame, pendingPresentFrame, previousFrame, presentQueue>>
    PROVE  UNCHANGED [g \in Frames |-> OwnerOf(g)]
<1>1. \A g \in Frames : OwnerOf(g)' = OwnerOf(g)
  BY DEF OwnerOf
<1> QED BY <1>1

\* The newest queued frame is shown, and the others are dropped.
LEMMA GetPresentFrameOwns ==
    ASSUME IInv, IInv', NEW p \in Policies, NEW f \in Frames, GetPresentFrame(p, f)
    PROVE  \/ UNCHANGED [g \in Frames |-> OwnerOf(g)]
           \/ \E dropped \in SUBSET Ownership!Owned("queued") : Ownership!Show(f, dropped)
<1>1. CASE UNCHANGED vars
  BY <1>1, StutterOwns DEF vars
<1>2. CASE /\ presentQueue # <<>>
           /\ f = Head(presentQueue)
           /\ presentQueue' = <<>>
           /\ previousFrame' = f
           /\ UNCHANGED <<pendingPresentFrame, renderFrame>>
  <2>1. Known /\ Known'
    BY OwnersKnown, OwnersKnownNext
  <2>2. Range(presentQueue) = Range(Tail(presentQueue)) \cup {f}
    BY <1>2, HeadTailOfInjective DEF IInv, TypeOK
  <2>3. Range(presentQueue') = {}
    BY <1>2, EmptySequence
  <2> DEFINE dropped == Range(presentQueue) \ {f}
  <2>4. dropped \in SUBSET Ownership!Owned("queued") /\ f \notin dropped
    BY OwnedFacts
  <2>5. \A g \in Frames :
           OwnerOf(g)' = IF g \in {f} THEN "shown"
                         ELSE IF g \in dropped \cup Ownership!Owned("shown")
                              THEN "free" ELSE OwnerOf(g)
    <3> SUFFICES ASSUME NEW g \in Frames
                 PROVE  OwnerOf(g)' = IF g \in {f} THEN "shown"
                                      ELSE IF g \in dropped \cup Ownership!Owned("shown")
                                           THEN "free" ELSE OwnerOf(g)
      OBVIOUS
    <3>1. g \in Ownership!Owned("shown") <=> g = previousFrame
      BY OwnedFacts, FramesAreReal
    <3> QED BY <1>2, <2>1, <2>3, <3>1 DEF Known
  <2>6. OwnerOf(f) = "queued"
    BY <2>1, <2>2 DEF Known
  <2> HIDE DEF dropped
  <2>7. Ownership!Show(f, dropped)
    BY <2>4, <2>5, <2>6, OwnedFacts DEF Ownership!Show, Ownership!Give
  <2> QED BY <2>4, <2>7
<1> QED BY <1>1, <1>2 DEF GetPresentFrame

\* The newest queued frame becomes the candidate.
LEMMA GetPresentCandidateOwns ==
    ASSUME IInv, IInv', NEW p \in Policies, NEW f \in Frames, GetPresentCandidate(p, f)
    PROVE  \/ UNCHANGED [g \in Frames |-> OwnerOf(g)]
           \/ \E dropped \in SUBSET Ownership!Owned("queued") : Ownership!Choose(f, dropped)
<1>1. CASE UNCHANGED vars
  BY <1>1, StutterOwns DEF vars
<1>2. CASE ~UNCHANGED vars
  <2>1. /\ pendingPresentFrame = NoFrame
        /\ presentQueue # <<>>
        /\ f = Head(presentQueue)
        /\ pendingPresentFrame' = f
        /\ UNCHANGED <<previousFrame, renderFrame>>
        /\ presentQueue' = Tail(presentQueue) \/ presentQueue' = <<>>
    BY <1>2 DEF GetPresentCandidate
  <2>2. /\ Range(presentQueue) = Range(Tail(presentQueue)) \cup {f}
        /\ f \notin Range(Tail(presentQueue))
    BY <2>1, HeadTailOfInjective DEF IInv, TypeOK, NoFrameShared
  <2>3. /\ Range(presentQueue') \subseteq Range(presentQueue)
        /\ f \notin Range(presentQueue')
    BY <2>1, <2>2, EmptySequence
  <2>4. Known /\ Known'
    BY OwnersKnown, OwnersKnownNext
  <2> DEFINE dropped == Range(presentQueue) \ (Range(presentQueue') \cup {f})
  <2>5. dropped \in SUBSET Ownership!Owned("queued") /\ f \notin dropped
    BY OwnedFacts
  <2>6. \A g \in Frames :
           OwnerOf(g)' = IF g \in {f} THEN "pending"
                         ELSE IF g \in dropped THEN "free" ELSE OwnerOf(g)
    BY <2>1, <2>3, <2>4, FramesAreReal DEF Known
  <2>7. OwnerOf(f) = "queued"
    BY <2>2, <2>4 DEF Known
  <2>8. Ownership!Owned("pending") = {}
    BY <2>1, OwnedFacts
  <2> HIDE DEF dropped
  <2>9. Ownership!Choose(f, dropped)
    BY <2>5, <2>6, <2>7, <2>8, OwnedFacts DEF Ownership!Choose, Ownership!Give
  <2> QED BY <2>5, <2>9
<1> QED BY <1>1, <1>2

\* The candidate is shown in place of the frame shown before.
LEMMA CommitPresentedFrameOwns ==
    ASSUME IInv, IInv', NEW p \in Policies, NEW f \in Frames, CommitPresentedFrame(p, f)
    PROVE  \/ UNCHANGED [g \in Frames |-> OwnerOf(g)]
           \/ \E dropped \in SUBSET Ownership!Owned("queued") : Ownership!Show(f, dropped)
<1>1. CASE f # pendingPresentFrame
  BY <1>1, StutterOwns DEF CommitPresentedFrame
<1>2. CASE f = pendingPresentFrame
  <2>1. Known /\ Known'
    BY OwnersKnown, OwnersKnownNext
  <2> DEFINE depth == IF p.preserve THEN SanitizedDepth(p) ELSE 0
  <2>2. /\ previousFrame' = f
        /\ pendingPresentFrame' = NoFrame
        /\ presentQueue' = Kept(presentQueue, depth)
        /\ UNCHANGED renderFrame
    BY <1>2 DEF CommitPresentedFrame
  <2>3. depth \in Nat
    BY DepthFacts
  <2> HIDE DEF depth
  <2>4. Range(presentQueue') \subseteq Range(presentQueue)
    BY <2>2, <2>3, TrimFacts DEF IInv, TypeOK
  <2> DEFINE dropped == Range(presentQueue) \ Range(presentQueue')
  <2>5. f \notin Range(presentQueue) \cup {previousFrame, renderFrame}
    BY <1>2, FramesAreReal DEF IInv, NoFrameShared, Pointers
  <2>6. dropped \in SUBSET Ownership!Owned("queued") /\ f \notin dropped
    BY <2>5, OwnedFacts
  <2>7. \A g \in Frames :
           OwnerOf(g)' = IF g \in {f} THEN "shown"
                         ELSE IF g \in dropped \cup Ownership!Owned("shown")
                              THEN "free" ELSE OwnerOf(g)
    <3> SUFFICES ASSUME NEW g \in Frames
                 PROVE  OwnerOf(g)' = IF g \in {f} THEN "shown"
                                      ELSE IF g \in dropped \cup Ownership!Owned("shown")
                                           THEN "free" ELSE OwnerOf(g)
      OBVIOUS
    <3>1. g \in Ownership!Owned("shown") <=> g = previousFrame
      BY OwnedFacts, FramesAreReal
    <3>2. g # NoFrame
      BY FramesAreReal
    <3> QED BY <1>2, <2>1, <2>2, <2>4, <2>5, <3>1, <3>2 DEF Known
  <2>8. OwnerOf(f) = "pending"
    BY <1>2, <2>1 DEF Known
  <2> HIDE DEF dropped
  <2>9. Ownership!Show(f, dropped)
    BY <2>6, <2>7, <2>8, OwnedFacts DEF Ownership!Show, Ownership!Give
  <2> QED BY <2>6, <2>9
<1> QED BY <1>1, <1>2

\* The candidate goes back to the queue, or is free again.
LEMMA DeferPresentedFrameOwns ==
    ASSUME IInv, IInv', NEW p \in Policies, NEW f \in Frames, DeferPresentedFrame(p, f)
    PROVE  UNCHANGED [g \in Frames |-> OwnerOf(g)] \/ Ownership!GiveBack(f)
<1>1. CASE f # pendingPresentFrame
  BY <1>1, StutterOwns DEF DeferPresentedFrame
<1>2. CASE f = pendingPresentFrame
  <2>1. Known /\ Known'
    BY OwnersKnown, OwnersKnownNext
  <2>2. /\ pendingPresentFrame' = NoFrame
        /\ UNCHANGED <<previousFrame, renderFrame>>
        /\ presentQueue' = presentQueue \/ presentQueue' = Append(presentQueue, f)
    BY <1>2 DEF DeferPresentedFrame
  <2>3. \/ Range(presentQueue') = Range(presentQueue)
        \/ Range(presentQueue') = Range(presentQueue) \cup {f}
    <3>1. Range(Append(presentQueue, f)) = Range(presentQueue) \cup {f}
      BY AppendOfInjective DEF IInv, TypeOK
    <3> QED BY <2>2, <3>1
  <2>4. f \notin Range(presentQueue) \cup {previousFrame, renderFrame}
    BY <1>2, FramesAreReal DEF IInv, NoFrameShared, Pointers
  <2>5. OwnerOf(f)' \in {"queued", "free"}
    BY <2>1, <2>2, <2>4, FramesAreReal DEF Known
  <2>6. \A g \in Frames : g # f => OwnerOf(g)' = OwnerOf(g)
    BY <1>2, <2>1, <2>2, <2>3, FramesAreReal DEF Known
  <2>7. OwnerOf(f) = "pending"
    BY <1>2, <2>1 DEF Known
  <2>8. \E o \in {"queued", "free"} :
           \A g \in Frames : OwnerOf(g)' = IF g \in {f} THEN o ELSE OwnerOf(g)
    BY <2>5, <2>6
  <2> QED BY <2>7, <2>8, OwnedFacts DEF Ownership!GiveBack, Ownership!Give
<1> QED BY <1>1, <1>2

-----------------------------------------------------------------------------
(* The calls any thread may make.                                          *)

\* A resync gives up what is queued, pending and shown.
LEMMA ResyncOwns ==
    ASSUME IInv, IInv', RequestPresentationResync
    PROVE  Ownership!GiveUp
<1>1. Known /\ Known'
  BY OwnersKnown, OwnersKnownNext
<1>2. /\ pendingPresentFrame' = NoFrame /\ previousFrame' = NoFrame
      /\ presentQueue' = <<>> /\ UNCHANGED renderFrame
  BY DEF RequestPresentationResync
<1>3. Range(presentQueue') = {}
  BY <1>2, EmptySequence
<1>4. \A g \in Frames :
         OwnerOf(g)' = IF OwnerOf(g) \in {"queued", "pending", "shown"}
                       THEN "free" ELSE OwnerOf(g)
  BY <1>1, <1>2, <1>3, FramesAreReal DEF Known
<1> QED BY <1>4, OwnedFacts DEF Ownership!GiveUp

\* A fast-forward transition gives up what is queued and pending.
LEMMA FastForwardTransitionOwns ==
    ASSUME IInv, IInv', RequestFastForwardPresentationTransition
    PROVE  Ownership!GiveUp
<1>1. Known /\ Known'
  BY OwnersKnown, OwnersKnownNext
<1>2. /\ pendingPresentFrame' = NoFrame
      /\ presentQueue' = <<>> /\ UNCHANGED <<renderFrame, previousFrame>>
  BY DEF RequestFastForwardPresentationTransition
<1>3. Range(presentQueue') = {}
  BY <1>2, EmptySequence
<1>4. \A g \in Frames :
         OwnerOf(g)' = IF OwnerOf(g) \in {"queued", "pending"}
                       THEN "free" ELSE OwnerOf(g)
  BY <1>1, <1>2, <1>3, FramesAreReal DEF Known
<1> QED BY <1>4, OwnedFacts DEF Ownership!GiveUp

\* Clearing, with no frame rendered, frees everything.
LEMMA ClearOwns ==
    ASSUME IInv, IInv', Clear
    PROVE  Ownership!GiveUp
<1>1. Known /\ Known'
  BY OwnersKnown, OwnersKnownNext
<1>2. /\ renderFrame = NoFrame /\ UNCHANGED renderFrame
      /\ pendingPresentFrame' = NoFrame /\ previousFrame' = NoFrame
      /\ presentQueue' = <<>>
  BY DEF Clear
<1>3. Range(presentQueue') = {}
  BY <1>2, EmptySequence
<1>4. \A g \in Frames :
         OwnerOf(g)' = IF OwnerOf(g) \in {"queued", "pending", "shown"}
                       THEN "free" ELSE OwnerOf(g)
  BY <1>1, <1>2, <1>3, FramesAreReal DEF Known
<1> QED BY <1>4, OwnedFacts DEF Ownership!GiveUp

-----------------------------------------------------------------------------
(* The refinement.                                                         *)

\* In the initial state every frame is free.
LEMMA InitOwns == Init => Ownership!Init
<1> SUFFICES ASSUME Init PROVE Ownership!Init
  OBVIOUS
<1>1. Known
  BY InitIInv, OwnersKnown
<1>2. Range(presentQueue) = {}
  BY EmptySequence DEF Init
<1>3. \A g \in Frames : OwnerOf(g) = "free"
  BY <1>1, <1>2, FramesAreReal DEF Init, Known
<1> QED BY <1>3 DEF Ownership!Init

\* Every call is a step of FrameOwnership, or moves no frame.
LEMMA NextOwns ==
    IInv /\ IInv' /\ [Next]_vars => [Ownership!Next]_Ownership!vars
<1> SUFFICES ASSUME IInv, IInv', [Next]_vars
             PROVE  Ownership!Next \/ UNCHANGED [g \in Frames |-> OwnerOf(g)]
  BY DEF Ownership!vars
<1>1. CASE UNCHANGED vars
  BY <1>1, StutterOwns DEF vars
<1>2. ASSUME NEW p \in Policies, NEW f \in Frames, RendererCall(p, f)
      PROVE  Ownership!Next
  BY <1>2, GetRenderFrameOwns, RecycleRenderFrameOwns, PushRenderedFrameOwns
     DEF RendererCall, DiscardRenderedFrame, Ownership!Next
<1>3. ASSUME NEW p \in Policies, NEW f \in Frames, PresenterCall(p, f)
      PROVE  Ownership!Next \/ UNCHANGED [g \in Frames |-> OwnerOf(g)]
  BY <1>3, GetPresentFrameOwns, GetPresentCandidateOwns, CommitPresentedFrameOwns,
     DeferPresentedFrameOwns DEF PresenterCall, Ownership!Next
<1>4. CASE RequestPresentationResync
  BY <1>4, ResyncOwns DEF Ownership!Next
<1>5. CASE RequestFastForwardPresentationTransition
  BY <1>5, FastForwardTransitionOwns DEF Ownership!Next
<1>6. CASE Clear
  BY <1>6, ClearOwns DEF Ownership!Next
<1> QED BY <1>1, <1>2, <1>3, <1>4, <1>5, <1>6 DEF Next

\* The frame queue implements the ownership discipline of FrameOwnership: no
\* sequence of calls of the two threads takes a frame from its owner.
THEOREM SpecImplementsOwnership == Spec => ImplementsOwnership
<1>1. Init => Ownership!Init
  BY InitOwns
<1>2. IInv /\ IInv' /\ [Next]_vars => [Ownership!Next]_Ownership!vars
  BY NextOwns
<1> QED BY <1>1, <1>2, SpecIInv, PTL DEF Spec, ImplementsOwnership, Ownership!Spec

=============================================================================
