------------------------ MODULE RewindManagerProofs ------------------------
(***************************************************************************)
(* Proofs about RewindManager for all intervals and window lengths and any *)
(* number of frames.  The four properties hold together: that the window   *)
(* is the past needs its frames in order and its buffers distinct, that it *)
(* has no gap needs the frames captured at the present interval to be its  *)
(* multiples, and that a rewind keeps both needs to know what the list on  *)
(* the screen has to do with the window (Listed).  First come facts about  *)
(* sequences of entries, then one lemma per action.                        *)
(***************************************************************************)
EXTENDS RewindManager, FiniteSetTheorems, SequenceTheorems, WellFoundedInduction, TLAPS

\* A window with a buffer for each state, the newest first.
Distinct(w) == \A i, j \in DOMAIN w : w[i].buffer = w[j].buffer => i = j
NewestFirst(w) == \A i, j \in DOMAIN w : i < j => w[j].frame < w[i].frame
Ordered(w) == Distinct(w) /\ NewestFirst(w)

\* The states after frame s are those captured every p frames, and the first of them
\* comes within p frames of the state before it or of frame s.
Follows(newer, older, p, s) ==
    /\ older > s => newer = older + p
    /\ newer > s => newer <= LaterOf(older, s) + p
Spaced(w, p, s) ==
    /\ \A i \in DOMAIN w : w[i].frame > s => w[i].frame % p = 0
    /\ \A i \in 1 .. Len(w) - 1 : Follows(w[i].frame, w[i + 1].frame, p, s)

\* The window and what the buffers hold.
Owned == allocated = BuffersOf(window)
Past ==
    \A i \in DOMAIN window :
        /\ window[i].frame <= frame
        /\ \/ memory[window[i].buffer] = timeline[window[i].frame]
           \/ window[i].buffer \in failed

\* No capture at interval p was due after frame s that the window w does not hold.
NoneMissed(w, p, s) ==
    w # <<>> => \A m \in LaterOf(w[1].frame, s) + 1 .. frame : m % p # 0
Recent == NoneMissed(window, interval, since)

\* An entry of the list that is entry j of the window.
Listing == [buffer : Buffers, frame : 1 .. MaxFrames, shown : Contents]
Matches(i, j) ==
    /\ listed[i].buffer = window[j].buffer /\ listed[i].frame = window[j].frame
    /\ listed[i].shown = memory[window[j].buffer]

\* The list is the window; or the frame under way has captured one more state, and
\* the window has grown by it, or it has taken the buffer of the oldest.
Same == Len(window) = Len(listed) /\ \A i \in DOMAIN listed : Matches(i, i)
Grown ==
    /\ ~running /\ Len(window) = Len(listed) + 1
    /\ \A i \in DOMAIN listed : Matches(i, i + 1)
Shifted ==
    /\ ~running /\ Len(window) = Len(listed) /\ Len(listed) = size /\ size > 0
    /\ \A i \in 1 .. size - 1 : Matches(i, i + 1)
    /\ listed[size].buffer = window[1].buffer
    /\ \A j \in DOMAIN window : listed[size].frame < window[j].frame
    /\ listed[1].frame < window[1].frame
    /\ listed[size].shown # Nothing => memory[window[1].buffer] # Nothing
Listed ==
    /\ listed \in Seq(Listing)
    /\ ~open => listed = <<>>
    /\ open => paused /\ (Same \/ Grown \/ Shifted)

\* A frame is started only while the bound allows it, and nothing is kept while the
\* player has rewinding disabled.
Bounded == running => played < MaxFrames
Disabled == ~enabled => window = <<>>

IInv ==
    /\ TypeOK /\ Owned /\ Ordered(window) /\ Spaced(window, interval, since)
    /\ Past /\ Recent /\ Listed /\ Bounded /\ Disabled

-----------------------------------------------------------------------------
(* Numbers.                                                                *)

\* A non-empty set of natural numbers has a least member.
LEMMA LeastMember ==
    ASSUME NEW S \in SUBSET Nat, S # {}
    PROVE  \E x \in S : \A y \in S : x <= y
<1>1. PICK x \in S : \A y \in S : ~(<<y, x>> \in OpToRel(<, Nat))
  BY WFMin, NatLessThanWellFounded
<1>2. \A y \in S : ~(y < x)
  BY <1>1 DEF OpToRel
<1>3. QED
  BY <1>2

\* There is always a buffer more than states.
LEMMA MaxSizeFacts ==
    /\ MaxSize \in Nat
    /\ \A s \in WindowSizes : s \in Nat /\ s <= MaxSize
<1>1. QED
  BY SizesAssumption

\* The lesser of two numbers.
LEMMA MinOfTwo ==
    ASSUME NEW a \in Nat, NEW b \in Nat
    PROVE  Min({a, b}) = IF a <= b THEN a ELSE b
<1>1. \E x \in {a, b} : \A y \in {a, b} : x <= y
  OBVIOUS
<1>2. Min({a, b}) \in {a, b} /\ \A y \in {a, b} : Min({a, b}) <= y
  BY <1>1 DEF Min
<1>3. QED
  BY <1>2

\* A multiple of d below d is zero.
LEMMA SmallMultiple ==
    ASSUME NEW d \in Nat, NEW q \in Int, d * q < d, -d < d * q
    PROVE  q = 0
<1>1. CASE q >= 1
  <2>1. PICK p \in Nat : q = p + 1
    BY <1>1
  <2>2. d * q = d * p + d /\ d * p >= 0
    BY <2>1
  <2>3. QED
    BY <2>2
<1>2. CASE q <= -1
  <2>1. PICK p \in Nat : q = -p - 1
    BY <1>2
  <2>2. d * q = -(d * p) - d /\ d * p >= 0
    BY <2>1
  <2>3. QED
    BY <2>2
<1>3. QED
  BY <1>1, <1>2

\* Two captures follow each other at the interval.
LEMMA NextCapture ==
    ASSUME NEW p \in Nat, p > 0, NEW m \in Nat, NEW n \in Nat, m % p = 0, m < n, n <= m + p
    PROVE  n % p = 0 <=> n = m + p
<1> DEFINE j == m \div p
           k == n \div p
           r == n % p
<1>1. j \in Int /\ m = p * j
  OBVIOUS
<1>2. k \in Int /\ r \in 0 .. p - 1 /\ n = p * k + r
  OBVIOUS
<1> HIDE DEF j, k, r
<1>3. ASSUME n = m + p
      PROVE  r = 0
  <2>1. p * (j + 1 - k) = r
    BY <1>1, <1>2, <1>3
  <2>2. j + 1 - k = 0
    BY <1>1, <1>2, <2>1, SmallMultiple
  <2>3. QED
    BY <2>1, <2>2
<1>4. ASSUME r = 0
      PROVE  n = m + p
  <2>1. p * (j + 1 - k) = m + p - n
    BY <1>1, <1>2, <1>4
  <2>2. j + 1 - k = 0
    BY <1>1, <1>2, <2>1, SmallMultiple
  <2>3. QED
    BY <2>1, <2>2
<1>5. QED
  BY <1>3, <1>4 DEF r

\* Among p frames that follow each other there is one at which a capture is due.
LEMMA SomeDue ==
    ASSUME NEW p \in Nat, p > 0, NEW a \in Nat, NEW b \in Nat,
           \A m \in a + 1 .. b : m % p # 0
    PROVE  b < a + p
<1> DEFINE q == a \div p
           r == a % p
           m == a + p - r
           k == m \div p
           t == m % p
<1>1. q \in Int /\ r \in 0 .. p - 1 /\ a = p * q + r
  OBVIOUS
<1>2. m \in Nat /\ m >= a + 1 /\ m <= a + p
  BY <1>1
<1>3. m = p * (q + 1)
  BY <1>1
<1>4. k \in Int /\ t \in 0 .. p - 1 /\ m = p * k + t
  BY <1>2
<1> HIDE DEF q, r, m, k, t
<1>5. p * (q + 1 - k) = t
  BY <1>1, <1>3, <1>4
<1>6. q + 1 - k = 0
  BY <1>1, <1>4, <1>5, SmallMultiple
<1>7. t = 0
  BY <1>5, <1>6
<1>8. m \notin a + 1 .. b
  BY <1>7 DEF t
<1>9. QED
  BY <1>2, <1>8

\* A frame before the next one.
LEMMA EarlierFrame ==
    ASSUME NEW f \in Nat, NEW g \in Nat, g <= f, f + 1 \in States
    PROVE  g \in States /\ g # f + 1 /\ g <= f + 1
<1>1. MaxFrames \in Nat /\ f + 1 <= MaxFrames
  BY BoundAssumption DEF States
<1>2. QED
  BY <1>1 DEF States

-----------------------------------------------------------------------------
(* Sequences of entries.                                                   *)

Windows == Seq(Entry)
Push(e, w) == <<e>> \o w
Part(w, a, b) == SubSeq(w, a, b)

LEMMA BuffersOfFacts ==
    ASSUME NEW w \in Windows
    PROVE  /\ Len(w) \in Nat /\ DOMAIN w = 1 .. Len(w)
           /\ \A i \in DOMAIN w : /\ w[i] \in Entry /\ w[i].buffer \in Buffers
                                  /\ w[i].frame \in Nat /\ w[i].frame <= MaxFrames
           /\ BuffersOf(w) \subseteq Buffers
           /\ w = <<>> <=> Len(w) = 0
<1>1. Len(w) \in Nat /\ DOMAIN w = 1 .. Len(w)
  BY DEF Windows
<1>2. \A i \in DOMAIN w : w[i] \in Entry
  BY DEF Windows
<1>3. \A e \in Entry : e.buffer \in Buffers /\ e.frame \in Nat /\ e.frame <= MaxFrames
  BY BoundAssumption DEF Entry
<1>4. w = <<>> <=> Len(w) = 0
  BY DEF Windows
<1>5. QED
  BY <1>1, <1>2, <1>3, <1>4 DEF BuffersOf

\* A new capture in front.
LEMMA PushFacts ==
    ASSUME NEW w \in Windows, NEW e \in Entry, Ordered(w), e.buffer \notin BuffersOf(w),
           \A i \in DOMAIN w : w[i].frame < e.frame
    PROVE  /\ Push(e, w) \in Windows /\ Len(Push(e, w)) = Len(w) + 1
           /\ Ordered(Push(e, w)) /\ Push(e, w)[1] = e
           /\ \A i \in DOMAIN Push(e, w) :
                 i = 1 \/ (i - 1 \in DOMAIN w /\ Push(e, w)[i] = w[i - 1])
           /\ BuffersOf(Push(e, w)) = BuffersOf(w) \cup {e.buffer}
<1> DEFINE v == Push(e, w)
<1>1. Len(w) \in Nat /\ DOMAIN w = 1 .. Len(w)
  BY BuffersOfFacts
<1>2. v \in Windows /\ Len(v) = Len(w) + 1 /\ DOMAIN v = 1 .. Len(w) + 1
  BY <1>1 DEF Windows, Push
<1>3. v[1] = e /\ \A i \in DOMAIN w : v[i + 1] = w[i]
  BY <1>1 DEF Windows, Push
<1> HIDE DEF v
<1>4. \A i \in DOMAIN v : i = 1 \/ (i - 1 \in DOMAIN w /\ v[i] = w[i - 1])
  <2> SUFFICES ASSUME NEW i \in DOMAIN v, i # 1
               PROVE  i - 1 \in DOMAIN w /\ v[i] = w[i - 1]
    OBVIOUS
  <2>1. i - 1 \in DOMAIN w /\ (i - 1) + 1 = i
    BY <1>1, <1>2
  <2>2. QED
    BY <1>3, <2>1
<1>5. BuffersOf(v) = BuffersOf(w) \cup {e.buffer}
  <2>1. BuffersOf(v) \subseteq BuffersOf(w) \cup {e.buffer}
    BY <1>3, <1>4 DEF BuffersOf
  <2>2. \A i \in DOMAIN w : i + 1 \in DOMAIN v
    BY <1>1, <1>2
  <2>3. BuffersOf(w) \subseteq BuffersOf(v)
    BY <1>3, <2>2 DEF BuffersOf
  <2>4. 1 \in DOMAIN v
    BY <1>1, <1>2
  <2>5. e.buffer \in BuffersOf(v)
    BY <1>3, <2>4 DEF BuffersOf
  <2>6. QED
    BY <2>1, <2>3, <2>5
<1>6. Distinct(v)
  <2> SUFFICES ASSUME NEW i \in DOMAIN v, NEW k \in DOMAIN v, v[i].buffer = v[k].buffer
               PROVE  i = k
    BY DEF Distinct
  <2>1. \A n \in DOMAIN w : w[n].buffer # e.buffer
    BY DEF BuffersOf
  <2>2. i = 1 <=> k = 1
    BY <1>3, <1>4, <2>1
  <2>3. CASE i # 1 /\ k # 1
    <3>1. i - 1 = k - 1
      BY <1>4, <2>3 DEF Ordered, Distinct
    <3>2. QED
      BY <1>2, <3>1, <1>1
  <2>4. QED
    BY <2>2, <2>3
<1>7. NewestFirst(v)
  <2> SUFFICES ASSUME NEW i \in DOMAIN v, NEW k \in DOMAIN v, i < k
               PROVE  v[k].frame < v[i].frame
    BY DEF NewestFirst
  <2>1. k - 1 \in DOMAIN w /\ v[k] = w[k - 1]
    BY <1>1, <1>2, <1>4
  <2>2. CASE i = 1
    BY <1>3, <2>1, <2>2
  <2>3. CASE i # 1
    <3>1. i - 1 \in DOMAIN w /\ v[i] = w[i - 1] /\ i - 1 < k - 1
      BY <1>1, <1>2, <1>4, <2>3
    <3>2. QED
      BY <2>1, <3>1 DEF Ordered, NewestFirst
  <2>4. QED
    BY <2>2, <2>3
<1>8. QED
  BY <1>2, <1>3, <1>4, <1>5, <1>6, <1>7 DEF Ordered, v

\* It keeps the states apart if it comes when it is due.
LEMMA PushSpaced ==
    ASSUME NEW w \in Windows, NEW e \in Entry, NEW p \in Nat, NEW s \in Nat,
           Spaced(w, p, s), e.frame % p = 0,
           w # <<>> => Follows(e.frame, w[1].frame, p, s)
    PROVE  Spaced(Push(e, w), p, s)
<1> DEFINE v == Push(e, w)
<1>1. Len(w) \in Nat /\ DOMAIN w = 1 .. Len(w) /\ (w = <<>> <=> Len(w) = 0)
  BY BuffersOfFacts
<1>2. Len(v) = Len(w) + 1 /\ DOMAIN v = 1 .. Len(w) + 1
  BY <1>1 DEF Windows, Push
<1>3. v[1] = e /\ \A i \in DOMAIN w : v[i + 1] = w[i]
  BY <1>1 DEF Windows, Push
<1> HIDE DEF v
<1>4. ASSUME NEW i \in DOMAIN v, v[i].frame > s
      PROVE  v[i].frame % p = 0
  <2>1. CASE i = 1
    BY <1>3, <2>1
  <2>2. CASE i # 1
    <3>1. i - 1 \in DOMAIN w /\ (i - 1) + 1 = i
      BY <1>1, <1>2, <2>2
    <3>2. v[i] = w[i - 1]
      BY <1>3, <3>1
    <3>3. QED
      BY <1>4, <3>1, <3>2 DEF Spaced
  <2>3. QED
    BY <2>1, <2>2
<1>5. ASSUME NEW i \in 1 .. Len(v) - 1
      PROVE  Follows(v[i].frame, v[i + 1].frame, p, s)
  <2>1. i \in DOMAIN w /\ v[i + 1] = w[i]
    BY <1>1, <1>2, <1>3
  <2>2. CASE i = 1
    <3>1. w # <<>>
      BY <1>1, <2>1
    <3>2. QED
      BY <1>3, <2>1, <2>2, <3>1
  <2>3. CASE i # 1
    <3>1. i - 1 \in 1 .. Len(w) - 1 /\ i - 1 \in DOMAIN w /\ (i - 1) + 1 = i
      BY <1>1, <1>2, <2>1, <2>3
    <3>2. Follows(w[i - 1].frame, w[(i - 1) + 1].frame, p, s)
      BY <3>1 DEF Spaced
    <3>3. v[i] = w[i - 1]
      BY <1>3, <3>1
    <3>4. QED
      BY <2>1, <3>1, <3>2, <3>3
  <2>4. QED
    BY <2>2, <2>3
<1>6. QED
  BY <1>4, <1>5 DEF Spaced, v

\* A part of the window, from entry a to entry b.
LEMMA PartFacts ==
    ASSUME NEW w \in Windows, Ordered(w), NEW a \in 1 .. Len(w) + 1, NEW b \in 0 .. Len(w),
           a <= b + 1
    PROVE  /\ Part(w, a, b) \in Windows /\ Len(Part(w, a, b)) = b - a + 1
           /\ Ordered(Part(w, a, b))
           /\ \A i \in DOMAIN Part(w, a, b) :
                 i + a - 1 \in DOMAIN w /\ Part(w, a, b)[i] = w[i + a - 1]
           /\ BuffersOf(Part(w, a, b)) = {w[i].buffer : i \in a .. b}
<1> DEFINE v == Part(w, a, b)
<1>1. Len(w) \in Nat /\ DOMAIN w = 1 .. Len(w) /\ a \in Nat /\ b \in Nat
  BY BuffersOfFacts
<1>2. \A i \in a .. b : w[i] \in Entry
  BY <1>1, BuffersOfFacts
<1>3. v \in Windows /\ Len(v) = b - a + 1 /\ DOMAIN v = 1 .. b - a + 1
  <2>1. w \in Seq(Entry)
    BY DEF Windows
  <2>2. v \in Seq(Entry) /\ Len(v) = IF a <= b THEN b - a + 1 ELSE 0
    BY <1>1, <2>1, SubSeqProperties DEF Part
  <2>3. Len(v) = b - a + 1
    BY <1>1, <2>2
  <2>4. QED
    BY <2>2, <2>3 DEF Windows
<1>4. \A i \in DOMAIN v : i + a - 1 \in a .. b /\ v[i] = w[i + a - 1]
  <2> SUFFICES ASSUME NEW i \in DOMAIN v
               PROVE  i + a - 1 \in a .. b /\ v[i] = w[i + a - 1]
    OBVIOUS
  <2>1. i \in 1 .. b - a + 1 /\ i + a - 1 \in a .. b /\ a + i - 1 = i + a - 1
    BY <1>1, <1>3
  <2>2. w \in Seq(Entry)
    BY DEF Windows
  <2>3. v[i] = w[a + i - 1]
    BY <1>1, <2>1, <2>2, SubSeqProperties DEF Part
  <2>4. QED
    BY <2>1, <2>3
<1>5. a .. b \subseteq DOMAIN w
  BY <1>1
<1> HIDE DEF v
<1>6. BuffersOf(v) = {w[i].buffer : i \in a .. b}
  <2>1. \A i \in a .. b : i - a + 1 \in DOMAIN v /\ (i - a + 1) + a - 1 = i
    BY <1>1, <1>3
  <2>2. \A i \in a .. b : v[i - a + 1] = w[i]
    BY <1>4, <2>1
  <2>3. \A i \in a .. b : w[i].buffer \in BuffersOf(v)
    BY <2>1, <2>2 DEF BuffersOf
  <2>4. \A i \in DOMAIN v : v[i].buffer \in {w[n].buffer : n \in a .. b}
    BY <1>4
  <2>5. QED
    BY <2>3, <2>4 DEF BuffersOf
<1>7. Distinct(v)
  <2> SUFFICES ASSUME NEW i \in DOMAIN v, NEW k \in DOMAIN v, v[i].buffer = v[k].buffer
               PROVE  i = k
    BY DEF Distinct
  <2> DEFINE m == i + a - 1
             n == k + a - 1
  <2>1. m \in DOMAIN w /\ n \in DOMAIN w /\ w[m].buffer = w[n].buffer
    BY <1>4, <1>5
  <2>2. m = n
    BY ONLY <2>1, Ordered(w) DEF Ordered, Distinct
  <2>3. QED
    BY <1>1, <1>3, <2>2
<1>8. NewestFirst(v)
  <2> SUFFICES ASSUME NEW i \in DOMAIN v, NEW k \in DOMAIN v, i < k
               PROVE  v[k].frame < v[i].frame
    BY DEF NewestFirst
  <2>1. i + a - 1 < k + a - 1
    BY <1>1, <1>3
  <2>2. QED
    BY <1>4, <1>5, <2>1 DEF Ordered, NewestFirst
<1>9. QED
  BY <1>3, <1>4, <1>5, <1>6, <1>7, <1>8 DEF Ordered, v

LEMMA PartSpaced ==
    ASSUME NEW w \in Windows, Ordered(w), NEW a \in 1 .. Len(w) + 1, NEW b \in 0 .. Len(w),
           a <= b + 1, NEW p \in Nat, NEW s \in Nat, Spaced(w, p, s)
    PROVE  Spaced(Part(w, a, b), p, s)
<1> DEFINE v == Part(w, a, b)
<1>1. Len(w) \in Nat /\ a \in Nat /\ b \in Nat
  BY BuffersOfFacts
<1>2. /\ v \in Windows /\ Len(v) = b - a + 1
      /\ \A i \in DOMAIN v : i + a - 1 \in DOMAIN w /\ v[i] = w[i + a - 1]
  BY PartFacts
<1>3. DOMAIN v = 1 .. Len(v)
  BY <1>2, BuffersOfFacts
<1> HIDE DEF v
<1>4. \A i \in DOMAIN v : v[i].frame > s => v[i].frame % p = 0
  BY <1>2 DEF Spaced
<1>5. ASSUME NEW i \in 1 .. Len(v) - 1
      PROVE  Follows(v[i].frame, v[i + 1].frame, p, s)
  <2>1. i \in DOMAIN v /\ i + 1 \in DOMAIN v
    BY <1>1, <1>2, <1>3
  <2>2. i + a - 1 \in 1 .. Len(w) - 1 /\ (i + a - 1) + 1 = (i + 1) + a - 1
    BY <1>1, <1>2, <2>1
  <2>3. Follows(w[i + a - 1].frame, w[(i + a - 1) + 1].frame, p, s)
    BY <2>2 DEF Spaced
  <2>4. QED
    BY <1>2, <2>1, <2>2, <2>3
<1>6. QED
  BY <1>4, <1>5 DEF Spaced, v

\* Nothing is asked of the states up to frame s.
LEMMA OldSpaced ==
    ASSUME NEW w \in Windows, NEW p \in Nat, NEW s \in Nat,
           \A i \in DOMAIN w : w[i].frame <= s
    PROVE  Spaced(w, p, s)
<1>1. /\ Len(w) \in Nat /\ DOMAIN w = 1 .. Len(w)
      /\ \A i \in DOMAIN w : w[i].frame \in Nat
  BY BuffersOfFacts
<1>2. \A i \in DOMAIN w : ~(w[i].frame > s)
  BY <1>1
<1>3. \A i \in 1 .. Len(w) - 1 : i \in DOMAIN w /\ i + 1 \in DOMAIN w
  BY <1>1
<1>4. QED
  BY <1>2, <1>3 DEF Spaced, Follows

\* How many states a rewind to frame f deletes: those ahead of f, which come first.
LEMMA AheadFacts ==
    ASSUME window \in Windows, NEW f \in Nat
    PROVE  \E k \in 0 .. Len(window) :
              /\ Ahead(f) = 1 .. k /\ Cardinality(Ahead(f)) = k
              /\ \A i \in 1 .. k : window[i].frame > f
              /\ k < Len(window) => window[k + 1].frame <= f
<1> DEFINE n == Len(window)
           Past1 == {i \in DOMAIN window : window[i].frame <= f}
<1>1. n \in Nat /\ DOMAIN window = 1 .. n /\ \A i \in DOMAIN window : window[i].frame \in Nat
  BY BuffersOfFacts
<1>2. ASSUME NEW k \in 0 .. n, \A i \in 1 .. k : window[i].frame > f,
             k < n => window[k + 1].frame <= f
      PROVE  Ahead(f) = 1 .. k /\ Cardinality(Ahead(f)) = k
  <2>1. \A i \in 1 .. k : i \in DOMAIN window /\ 1 .. i \subseteq 1 .. k
    BY <1>1
  <2>2. 1 .. k \subseteq Ahead(f)
    BY <1>2, <2>1 DEF Ahead
  <2>3. ASSUME NEW i \in DOMAIN window, i > k
        PROVE  i \notin Ahead(f)
    <3>1. k < n /\ k + 1 \in 1 .. i /\ window[k + 1].frame \in Nat
      BY <1>1, <2>3
    <3>2. ~(window[k + 1].frame > f)
      BY <1>2, <3>1
    <3>3. QED
      BY <3>1, <3>2 DEF Ahead
  <2>4. Ahead(f) \subseteq DOMAIN window
    BY DEF Ahead
  <2>5. Ahead(f) = 1 .. k
    <3>1. \A i \in 1 .. n : i > k \/ i \in 1 .. k
      BY <1>1
    <3>2. Ahead(f) \subseteq 1 .. k
      BY <1>1, <2>3, <2>4, <3>1
    <3>3. QED
      BY <2>2, <3>2
  <2>6. Cardinality(1 .. k) = k
    BY <1>1, FS_Interval
  <2>7. QED
    BY <2>5, <2>6
<1>3. CASE Past1 = {}
  <2>1. \A i \in 1 .. n : window[i].frame > f
    BY <1>1, <1>3
  <2>2. QED
    BY <1>1, <1>2, <2>1
<1>4. CASE Past1 # {}
  <2>1. Past1 \in SUBSET Nat
    BY <1>1
  <2>2. PICK p \in Past1 : \A q \in Past1 : p <= q
    BY <1>4, <2>1, LeastMember
  <2>3. p - 1 \in 0 .. n /\ p - 1 < n /\ (p - 1) + 1 = p /\ window[p].frame <= f
    BY <1>1, <2>2
  <2>4. \A i \in 1 .. p - 1 : i \in DOMAIN window /\ i \notin Past1
    BY <1>1, <2>2, <2>3
  <2>5. \A i \in 1 .. p - 1 : window[i].frame > f
    BY <1>1, <2>4
  <2>6. QED
    BY <1>2, <2>3, <2>5
<1>5. QED
  BY <1>3, <1>4

-----------------------------------------------------------------------------
(* What the invariant says in a state.                                     *)

LEMMA TypeFacts ==
    ASSUME IInv
    PROVE  /\ window \in Windows /\ Len(window) \in Nat /\ Len(window) <= size
           /\ DOMAIN window = 1 .. Len(window)
           /\ size \in Nat /\ size <= MaxSize
           /\ frame \in Nat /\ played \in Nat /\ MaxFrames \in Nat
           /\ frame <= played /\ played <= MaxFrames
           /\ interval \in Nat /\ interval > 0 /\ since \in Nat /\ since <= frame
           /\ memory \in [Buffers -> Contents] /\ timeline \in [States -> States]
           /\ allocated \subseteq Buffers /\ failed \subseteq Buffers
<1>1. window \in Windows /\ Len(window) <= size
  BY DEF IInv, TypeOK, Windows
<1>2. Len(window) \in Nat /\ DOMAIN window = 1 .. Len(window)
  BY <1>1, BuffersOfFacts
<1>3. size \in WindowSizes
  BY DEF IInv, TypeOK
<1>4. frame \in 0 .. played /\ played \in 0 .. MaxFrames
  BY DEF IInv, TypeOK, States
<1>5. MaxFrames \in Nat
  BY BoundAssumption
<1>6. frame \in Nat /\ played \in Nat /\ frame <= played /\ played <= MaxFrames
  BY ONLY <1>4, <1>5
<1>7. memory \in [Buffers -> Contents] /\ timeline \in [States -> States]
  BY DEF IInv, TypeOK
<1>8. allocated \subseteq Buffers /\ failed \subseteq Buffers
  BY DEF IInv, TypeOK
<1>9. interval \in Nat /\ interval > 0
  BY IntervalsAssumption DEF IInv, TypeOK
<1>10. since \in Nat /\ since <= frame
  BY <1>6 DEF IInv, TypeOK
<1>11. QED
  BY <1>1, <1>2, <1>3, <1>5, <1>6, <1>7, <1>8, <1>9, <1>10, MaxSizeFacts

\* The states and the buffers in use are as many.
LEMMA OneBufferEach ==
    ASSUME IInv
    PROVE  Cardinality(allocated) = Len(window)
<1> DEFINE f == [i \in 1 .. Len(window) |-> window[i].buffer]
<1>1. Len(window) \in Nat /\ DOMAIN window = 1 .. Len(window)
  BY TypeFacts
<1>2. allocated = {window[i].buffer : i \in 1 .. Len(window)}
  BY <1>1 DEF IInv, Owned, BuffersOf
<1>3. f \in Surjection(1 .. Len(window), allocated)
  BY <1>2 DEF Surjection
<1>4. f \in Injection(1 .. Len(window), allocated)
  BY <1>1, <1>2 DEF Injection, IsInjective, IInv, Ordered, Distinct
<1>5. IsFiniteSet(1 .. Len(window)) /\ Cardinality(1 .. Len(window)) = Len(window)
  <2>1. IsFiniteSet(1 .. Len(window))
          /\ Cardinality(1 .. Len(window)) = IF 1 > Len(window) THEN 0 ELSE Len(window) - 1 + 1
    BY <1>1, FS_Interval
  <2>2. QED
    BY <1>1, <2>1
<1>6. QED
  BY <1>3, <1>4, <1>5, FS_Surjection

\* While the window is not full there is a buffer for one more state.
LEMMA FreshBuffer ==
    ASSUME IInv, Len(window) < size
    PROVE  Min(Buffers \ allocated) \in Buffers \ allocated
<1>1. MaxSize \in Nat /\ Len(window) \in Nat /\ Len(window) < MaxSize
  BY TypeFacts, MaxSizeFacts
<1>2. Cardinality(Buffers) = MaxSize + 1
  BY <1>1, FS_Interval DEF Buffers
<1>3. allocated # Buffers
  BY <1>1, <1>2, OneBufferEach
<1>4. Buffers \ allocated # {} /\ Buffers \ allocated \in SUBSET Nat
  <2>1. Buffers \subseteq Nat
    BY <1>1 DEF Buffers
  <2>2. allocated \subseteq Buffers
    BY TypeFacts
  <2>3. QED
    BY <1>3, <2>1, <2>2
<1>5. \E x \in Buffers \ allocated : \A y \in Buffers \ allocated : x <= y
  BY <1>4, LeastMember
<1>6. QED
  BY <1>5 DEF Min

-----------------------------------------------------------------------------
(* A frame ends.                                                           *)

\* The window after a capture: the new state in front of all others, or of all but
\* the oldest, whose buffer it takes.
LEMMA CaptureFacts ==
    ASSUME IInv, ShouldCaptureState(frame + 1), frame + 1 <= MaxFrames,
           GetNextRewindSaveState(frame + 1)
    PROVE  /\ window' \in Windows /\ Len(window') \in 1 .. size /\ Ordered(window')
           /\ Spaced(window', interval, since)
           /\ window'[1].frame = frame + 1 /\ window'[1].buffer \in Buffers
           /\ allocated' = BuffersOf(window')
           /\ \A i \in DOMAIN window' : i # 1 =>
                 /\ i - 1 \in DOMAIN window /\ window'[i] = window[i - 1]
                 /\ window'[i].buffer # window'[1].buffer
           /\ Len(window) < size => /\ Len(window') = Len(window) + 1
                                    /\ window'[1].buffer \notin allocated
           /\ Len(window) >= size => /\ Len(window) = size /\ Len(window') = size
                                     /\ window'[1].buffer = window[size].buffer
<1> DEFINE n == Len(window)
<1>1. /\ window \in Windows /\ n \in Nat /\ n <= size /\ DOMAIN window = 1 .. n
      /\ size \in Nat /\ frame \in Nat /\ MaxFrames \in Nat
      /\ interval \in Nat /\ interval > 0 /\ since \in Nat /\ since <= frame
  BY TypeFacts
<1>2. size > 0 /\ (frame + 1) % interval = 0
  BY <1>1 DEF ShouldCaptureState
<1>3. Ordered(window) /\ Spaced(window, interval, since) /\ allocated = BuffersOf(window)
  BY DEF IInv, Owned
<1>4. \A i \in DOMAIN window : window[i].frame \in Nat /\ window[i].frame < frame + 1
  <2>1. \A i \in DOMAIN window : window[i].frame <= frame
    BY DEF IInv, Past
  <2>2. QED
    BY <1>1, <2>1, BuffersOfFacts
<1>5. window # <<>> => Follows(frame + 1, window[1].frame, interval, since)
  <2> SUFFICES ASSUME window # <<>>
               PROVE  Follows(frame + 1, window[1].frame, interval, since)
    OBVIOUS
  <2> DEFINE g == window[1].frame
             a == LaterOf(g, since)
  <2>1. 1 \in DOMAIN window
    BY <1>1
  <2>2. g \in Nat /\ g < frame + 1 /\ (g > since => g % interval = 0)
    BY <1>3, <1>4, <2>1 DEF Spaced
  <2> HIDE DEF g
  <2>3. a \in Nat /\ (g > since => a = g)
    BY <1>1, <2>2 DEF LaterOf
  <2>4. \A m \in a + 1 .. frame : m % interval # 0
    BY <2>1 DEF IInv, Recent, NoneMissed, g
  <2> HIDE DEF a
  <2>5. frame < a + interval
    BY <1>1, <2>3, <2>4, SomeDue
  <2>6. frame + 1 <= a + interval
    BY <1>1, <2>3, <2>5
  <2>7. ASSUME g > since
        PROVE  frame + 1 = g + interval
    BY <1>1, <1>2, <2>2, <2>3, <2>6, <2>7, NextCapture
  <2>8. QED
    BY <2>6, <2>7 DEF Follows, g, a
<1>6. CASE n < size
  <2> DEFINE e == New(frame + 1)
  <2>1. e.frame = frame + 1 /\ e.buffer \in Buffers \ allocated /\ e \in Entry
    BY <1>1, <1>6, FreshBuffer DEF New, Entry
  <2>2. window' = Push(e, window) /\ allocated' = allocated \cup {window'[1].buffer}
    BY <1>6 DEF GetNextRewindSaveState, Push
  <2> HIDE DEF e
  <2>3. /\ window' \in Windows /\ Len(window') = n + 1 /\ Ordered(window')
        /\ Spaced(window', interval, since) /\ window'[1] = e
        /\ \A i \in DOMAIN window' : i = 1 \/ (i - 1 \in DOMAIN window /\ window'[i] = window[i - 1])
        /\ BuffersOf(window') = BuffersOf(window) \cup {e.buffer}
    <3>1. /\ e.buffer \notin BuffersOf(window) /\ e.frame % interval = 0
          /\ \A i \in DOMAIN window : window[i].frame < e.frame
          /\ window # <<>> => Follows(e.frame, window[1].frame, interval, since)
      BY <1>2, <1>3, <1>4, <1>5, <2>1
    <3>2. Spaced(window', interval, since)
      BY <1>1, <1>3, <2>1, <2>2, <3>1, PushSpaced
    <3>3. QED
      BY <1>1, <1>3, <2>1, <2>2, <3>1, <3>2, PushFacts
  <2>4. \A i \in DOMAIN window : window[i].buffer # e.buffer
    BY <1>3, <2>1 DEF BuffersOf
  <2>5. Len(window') \in 1 .. size /\ ~(n >= size)
    BY <1>1, <1>6, <2>3
  <2>6. QED
    BY <1>3, <1>6, <2>1, <2>2, <2>3, <2>4, <2>5
<1>7. CASE n = size
  <2> DEFINE e == Reused(window[n], frame + 1)
             kept == AllButLast(window)
  <2>1. n \in DOMAIN window /\ window[n] \in Entry
    BY <1>1, <1>2, <1>7, BuffersOfFacts
  <2>2. e.frame = frame + 1 /\ e.buffer = window[n].buffer /\ e \in Entry
    BY <1>1, <2>1 DEF Reused, Entry
  <2>3. window' = Push(e, kept) /\ allocated' = allocated
    BY <1>1, <1>7 DEF GetNextRewindSaveState, Push
  <2>4. /\ kept \in Windows /\ Len(kept) = n - 1 /\ Ordered(kept)
        /\ Spaced(kept, interval, since)
        /\ \A i \in DOMAIN kept : i \in DOMAIN window /\ kept[i] = window[i]
        /\ BuffersOf(kept) = {window[i].buffer : i \in 1 .. n - 1}
    <3>1. kept = Part(window, 1, n - 1) /\ 1 \in 1 .. n + 1 /\ n - 1 \in 0 .. n /\ 1 <= (n - 1) + 1
      BY <1>1, <1>2, <1>7 DEF AllButLast, Part
    <3> HIDE DEF kept
    <3>2. /\ kept \in Windows /\ Len(kept) = (n - 1) - 1 + 1 /\ Ordered(kept)
          /\ Spaced(kept, interval, since)
          /\ \A i \in DOMAIN kept : i + 1 - 1 \in DOMAIN window /\ kept[i] = window[i + 1 - 1]
          /\ BuffersOf(kept) = {window[i].buffer : i \in 1 .. n - 1}
      <4>1. window \in Windows /\ Ordered(window) /\ 1 \in 1 .. Len(window) + 1 /\ n - 1 \in 0 .. Len(window)
        BY <1>1, <1>3, <3>1
      <4>2. Spaced(kept, interval, since)
        BY <1>1, <1>3, <3>1, <4>1, PartSpaced
      <4>3. QED
        BY <3>1, <4>1, <4>2, PartFacts
    <3>3. DOMAIN kept = 1 .. Len(kept) /\ Len(kept) \in Nat
      BY <3>2, BuffersOfFacts
    <3>4. \A i \in DOMAIN kept : i + 1 - 1 = i
      BY <3>3
    <3>5. QED
      BY <1>1, <3>2, <3>4
  <2>5. \A i \in 1 .. n - 1 : window[i].buffer # window[n].buffer
    BY <1>1, <1>3, <2>1 DEF Ordered, Distinct
  <2>6. e.buffer \notin BuffersOf(kept)
    BY <2>2, <2>4, <2>5
  <2>7. kept # <<>> => Follows(frame + 1, kept[1].frame, interval, since)
    <3> SUFFICES ASSUME kept # <<>>
                 PROVE  Follows(frame + 1, kept[1].frame, interval, since)
      OBVIOUS
    <3>1. Len(kept) # 0 /\ Len(kept) \in Nat /\ DOMAIN kept = 1 .. Len(kept)
      BY <2>4, BuffersOfFacts
    <3>2. 1 \in DOMAIN kept
      BY <3>1
    <3>3. kept[1] = window[1] /\ window # <<>>
      BY <1>1, <2>4, <3>2
    <3>4. QED
      BY <1>5, <3>3
  <2>8. \A i \in DOMAIN kept : kept[i].frame < e.frame
    BY <1>4, <2>2, <2>4
  <2> HIDE DEF e, kept
  <2>9. /\ window' \in Windows /\ Len(window') = (n - 1) + 1 /\ Ordered(window')
        /\ Spaced(window', interval, since) /\ window'[1] = e
        /\ \A i \in DOMAIN window' : i = 1 \/ (i - 1 \in DOMAIN kept /\ window'[i] = kept[i - 1])
        /\ BuffersOf(window') = BuffersOf(kept) \cup {e.buffer}
    <3>1. /\ e.buffer \notin BuffersOf(kept) /\ e.frame % interval = 0
          /\ \A i \in DOMAIN kept : kept[i].frame < e.frame
          /\ kept # <<>> => Follows(e.frame, kept[1].frame, interval, since)
      BY <1>2, <2>2, <2>6, <2>7, <2>8
    <3>2. kept \in Windows /\ e \in Entry /\ Ordered(kept) /\ window' = Push(e, kept)
      BY <2>2, <2>3, <2>4
    <3>3. Spaced(window', interval, since)
      BY <1>1, <2>4, <3>1, <3>2, PushSpaced
    <3>4. QED
      BY <2>4, <3>1, <3>2, <3>3, PushFacts
  <2>10. BuffersOf(window) = BuffersOf(kept) \cup {e.buffer}
    <3>1. \A i \in DOMAIN window : i \in 1 .. n - 1 \/ i = n
      BY <1>1
    <3>2. BuffersOf(window) \subseteq BuffersOf(kept) \cup {e.buffer}
      BY <2>2, <2>4, <3>1 DEF BuffersOf
    <3>3. BuffersOf(kept) \subseteq BuffersOf(window)
      BY <2>4 DEF BuffersOf
    <3>4. e.buffer \in BuffersOf(window)
      BY <2>1, <2>2 DEF BuffersOf
    <3>5. QED
      BY <3>2, <3>3, <3>4
  <2>11. \A i \in DOMAIN window' : i # 1 =>
            /\ i - 1 \in DOMAIN window /\ window'[i] = window[i - 1]
            /\ window'[i].buffer # e.buffer
    <3> SUFFICES ASSUME NEW i \in DOMAIN window', i # 1
                 PROVE  /\ i - 1 \in DOMAIN window /\ window'[i] = window[i - 1]
                        /\ window'[i].buffer # e.buffer
      OBVIOUS
    <3>1. i - 1 \in DOMAIN kept /\ window'[i] = kept[i - 1]
      BY <2>9
    <3>2. window'[i].buffer \in BuffersOf(kept)
      BY <3>1 DEF BuffersOf
    <3>3. QED
      BY <2>4, <2>6, <3>1, <3>2
  <2>12. Len(window') \in 1 .. size /\ Len(window') = size /\ ~(n < size)
    BY <1>1, <1>2, <1>7, <2>9
  <2>13. e.buffer \in Buffers
    BY <2>1, <2>2, <1>1, BuffersOfFacts
  <2>14. QED
    BY <1>3, <1>7, <2>2, <2>3, <2>9, <2>10, <2>11, <2>12, <2>13
<1>8. n < size \/ n = size
  <2>1. n \in Nat /\ size \in Nat /\ n <= size
    BY <1>1
  <2>2. QED
    BY ONLY <2>1
<1>9. QED
  BY <1>6, <1>7, <1>8

\* What a buffer holds after a capture: the state the frame led to, unless the capture
\* failed, and never nothing if it held something.
LEMMA CapturedContent ==
    ASSUME IInv, played < MaxFrames, played' = played + 1,
           NEW b \in Buffers, NEW fresh \in BOOLEAN, SaveRewindState(b, fresh)
    PROVE  \E x \in Contents :
              /\ memory' = [memory EXCEPT ![b] = x]
              /\ \/ x = played + 1 /\ failed' = failed \ {b}
                 \/ failed' = failed \cup {b}
              /\ x = Nothing => fresh \/ memory[b] = Nothing
<1>1. /\ memory \in [Buffers -> Contents] /\ played \in Nat /\ MaxFrames \in Nat
  BY TypeFacts
<1>2. /\ played + 1 \in Contents /\ played + 1 # Nothing
      /\ Nothing \in Contents /\ Torn \in Contents /\ Torn # Nothing
  BY <1>1 DEF Contents, States, Nothing, Torn
<1>3. CASE memory' = [memory EXCEPT ![b] = played'] /\ failed' = failed \ {b}
  <2>1. memory' = [memory EXCEPT ![b] = played + 1]
    BY <1>3
  <2>2. QED
    BY <1>2, <1>3, <2>1
<1>4. CASE /\ \E content \in IF fresh THEN {Nothing} ELSE {memory[b], Torn} :
                 memory' = [memory EXCEPT ![b] = content]
           /\ failed' = failed \cup {b}
  <2>1. PICK x \in IF fresh THEN {Nothing} ELSE {memory[b], Torn} :
                 memory' = [memory EXCEPT ![b] = x]
    BY <1>4
  <2>2. x \in Contents /\ (x = Nothing => fresh \/ memory[b] = Nothing)
    BY <1>1, <1>2, <2>1
  <2>3. QED
    BY <1>4, <2>1, <2>2
<1>5. QED
  BY <1>3, <1>4 DEF SaveRewindState

\* The frame leads to a state, which is not captured.
LEMMA EndFrameUncaptured ==
    ASSUME IInv, EndFrame, ~ShouldCaptureState(frame + 1)
    PROVE  IInv'
<1>1. /\ frame \in Nat /\ played \in Nat /\ MaxFrames \in Nat /\ frame <= played
      /\ timeline \in [States -> States] /\ window \in Windows
      /\ interval \in Nat /\ since \in Nat /\ since <= frame
  BY TypeFacts
<1>2. /\ running /\ running' = FALSE /\ played' = played + 1 /\ console' = played + 1
      /\ frame' = frame + 1 /\ timeline' = [timeline EXCEPT ![frame + 1] = played + 1]
      /\ UNCHANGED <<enabled, size, interval, since, window, allocated, memory, failed, paused,
                     open, listed>>
  BY DEF EndFrame, buffers, settings, list
<1>3. played < MaxFrames
  BY <1>2 DEF IInv, Bounded
<1>4. frame + 1 \in States /\ played + 1 \in States
  BY <1>1, <1>3 DEF States
<1>5. TypeOK'
  <2>1. frame' \in 0 .. played' /\ played' \in States /\ console' \in States
          /\ since' \in 0 .. frame'
    BY <1>1, <1>2, <1>4
  <2>2. timeline' \in [States -> States]
    BY <1>1, <1>2, <1>4
  <2>3. QED
    BY <1>2, <2>1, <2>2 DEF IInv, TypeOK
<1>6. Owned' /\ Ordered(window') /\ Spaced(window', interval', since')
  BY <1>2 DEF IInv, Owned
<1>7. Past'
  <2> SUFFICES ASSUME NEW i \in DOMAIN window
               PROVE  /\ window[i].frame <= frame + 1
                      /\ \/ memory[window[i].buffer] = timeline'[window[i].frame]
                         \/ window[i].buffer \in failed
    BY <1>2 DEF Past
  <2>1. /\ window[i].frame <= frame
        /\ \/ memory[window[i].buffer] = timeline[window[i].frame]
           \/ window[i].buffer \in failed
    BY DEF IInv, Past
  <2>2. window[i].frame \in Nat
    BY <1>1, BuffersOfFacts
  <2>3. window[i].frame \in States /\ window[i].frame # frame + 1 /\ window[i].frame <= frame + 1
    <3>1. window[i].frame <= frame
      BY <2>1
    <3>2. frame \in Nat /\ frame + 1 \in States
      BY <1>1, <1>4
    <3>3. QED
      BY ONLY <2>2, <3>1, <3>2, EarlierFrame
  <2>4. timeline'[window[i].frame] = timeline[window[i].frame]
    BY <1>1, <1>2, <2>3
  <2>5. QED
    BY <2>1, <2>3, <2>4
<1>8. Recent'
  <2> SUFFICES ASSUME window # <<>>,
                      NEW m \in LaterOf(window[1].frame, since) + 1 .. frame + 1
               PROVE  m % interval # 0
    BY <1>2 DEF Recent, NoneMissed
  <2>1. Len(window) \in Nat /\ Len(window) # 0 /\ 1 \in DOMAIN window
    BY <1>1, BuffersOfFacts
  <2>2. enabled /\ size # 0
    BY <2>1, TypeFacts DEF IInv, Disabled
  <2>3. (frame + 1) % interval # 0
    BY <2>2 DEF ShouldCaptureState
  <2>4. LaterOf(window[1].frame, since) \in Nat
    BY <1>1, <2>1, BuffersOfFacts DEF LaterOf
  <2>5. m = frame + 1 \/ m \in LaterOf(window[1].frame, since) + 1 .. frame
    BY <1>1, <2>4
  <2>6. QED
    BY <2>3, <2>5 DEF IInv, Recent, NoneMissed
<1>9. Listed'
  BY <1>2 DEF IInv, Listed, Same, Grown, Shifted, Matches
<1>10. Bounded' /\ Disabled'
  BY <1>2 DEF IInv, Bounded, Disabled
<1>11. QED
  BY <1>5, <1>6, <1>7, <1>8, <1>9, <1>10 DEF IInv

\* The state is captured.  An open list was made of the window as it was until now.
LEMMA EndFrameCaptured ==
    ASSUME IInv, EndFrame, ShouldCaptureState(frame + 1)
    PROVE  IInv'
<1> DEFINE n == Len(window)
           b == window'[1].buffer
<1>1. /\ frame \in Nat /\ played \in Nat /\ MaxFrames \in Nat /\ frame <= played
      /\ timeline \in [States -> States] /\ memory \in [Buffers -> Contents]
      /\ window \in Windows /\ n \in Nat /\ n <= size /\ size \in Nat
      /\ failed \subseteq Buffers /\ since \in Nat /\ since <= frame
  BY TypeFacts
<1>2. /\ running /\ running' = FALSE /\ played' = played + 1 /\ console' = played + 1
      /\ frame' = frame + 1 /\ timeline' = [timeline EXCEPT ![frame + 1] = played + 1]
      /\ UNCHANGED <<enabled, size, interval, since, paused, open, listed>>
      /\ GetNextRewindSaveState(frame + 1)
      /\ SaveRewindState(window'[1].buffer, Len(window) < size)
  BY DEF EndFrame, settings, list
<1>3. played < MaxFrames
  BY <1>2 DEF IInv, Bounded
<1>4. frame + 1 \in States /\ played + 1 \in States /\ frame + 1 <= MaxFrames
  BY <1>1, <1>3 DEF States
<1>5. /\ window' \in Windows /\ Len(window') \in 1 .. size /\ Ordered(window')
      /\ Spaced(window', interval, since)
      /\ window'[1].frame = frame + 1 /\ b \in Buffers
      /\ allocated' = BuffersOf(window')
      /\ \A i \in DOMAIN window' : i # 1 =>
            /\ i - 1 \in DOMAIN window /\ window'[i] = window[i - 1]
            /\ window'[i].buffer # b
      /\ Len(window) < size => /\ Len(window') = Len(window) + 1
                               /\ window'[1].buffer \notin allocated
      /\ Len(window) >= size => /\ Len(window) = size /\ Len(window') = size
                                /\ window'[1].buffer = window[size].buffer
  BY <1>2, <1>4, CaptureFacts
<1> HIDE DEF b
<1>6. PICK x \in Contents :
              /\ memory' = [memory EXCEPT ![b] = x]
              /\ \/ x = played + 1 /\ failed' = failed \ {b}
                 \/ failed' = failed \cup {b}
              /\ x = Nothing => n < size \/ memory[b] = Nothing
  <2>1. SaveRewindState(b, Len(window) < size)
    BY <1>2 DEF b
  <2>2. (Len(window) < size) \in BOOLEAN
    OBVIOUS
  <2>3. QED
    BY <1>2, <1>3, <1>5, <2>1, <2>2, CapturedContent
<1>7. \A i \in DOMAIN window' : i # 1 =>
         memory'[window'[i].buffer] = memory[window'[i].buffer]
  <2>1. \A c \in Buffers : c # b => memory'[c] = memory[c]
    BY <1>1, <1>6
  <2>2. QED
    BY <1>5, <2>1, BuffersOfFacts
<1>8. TypeOK'
  <2>1. frame' \in 0 .. played' /\ played' \in States /\ console' \in States
          /\ since' \in 0 .. frame'
    BY <1>1, <1>2, <1>4
  <2>2. timeline' \in [States -> States] /\ memory' \in [Buffers -> Contents]
    BY <1>1, <1>2, <1>4, <1>5, <1>6
  <2>3. failed' \subseteq Buffers
    BY <1>1, <1>5, <1>6
  <2>4. window' \in Seq(Entry) /\ Len(window') <= size
    BY <1>1, <1>5 DEF Windows
  <2>5. allocated' \subseteq Buffers
    BY <1>5, BuffersOfFacts
  <2>6. QED
    BY <1>2, <2>1, <2>2, <2>3, <2>4, <2>5 DEF IInv, TypeOK
<1>9. Owned' /\ Ordered(window') /\ Spaced(window', interval', since')
  BY <1>2, <1>5 DEF Owned
<1>10. Past'
  <2> SUFFICES ASSUME NEW i \in DOMAIN window'
               PROVE  /\ window'[i].frame <= frame + 1
                      /\ \/ memory'[window'[i].buffer] = timeline'[window'[i].frame]
                         \/ window'[i].buffer \in failed'
    BY <1>2 DEF Past
  <2>1. CASE i = 1
    <3>1. memory'[b] = x /\ timeline'[frame + 1] = played + 1
      BY <1>1, <1>2, <1>4, <1>5, <1>6
    <3>2. x = played + 1 \/ b \in failed'
      BY <1>6
    <3>3. window'[i].buffer = b /\ window'[i].frame = frame + 1 /\ frame + 1 <= frame + 1
      BY <1>1, <1>5, <2>1 DEF b
    <3>4. QED
      BY <3>1, <3>2, <3>3
  <2>2. CASE i # 1
    <3>1. /\ i - 1 \in DOMAIN window /\ window'[i] = window[i - 1]
          /\ window'[i].buffer # b
      BY <1>5, <2>2
    <3>2. /\ window'[i].frame <= frame
          /\ \/ memory[window'[i].buffer] = timeline[window'[i].frame]
             \/ window'[i].buffer \in failed
      BY <3>1 DEF IInv, Past
    <3>3. window'[i].frame \in Nat
      BY <1>1, <3>1, BuffersOfFacts
    <3>4. window'[i].frame \in States /\ window'[i].frame # frame + 1 /\ window'[i].frame <= frame + 1
      <4>1. window'[i].frame <= frame
        BY <3>2
      <4>2. frame \in Nat /\ frame + 1 \in States
        BY <1>1, <1>4
      <4>3. QED
        BY ONLY <3>3, <4>1, <4>2, EarlierFrame
    <3>5. timeline'[window'[i].frame] = timeline[window'[i].frame]
      BY <1>1, <1>2, <3>4
    <3>6. window'[i].buffer \in failed => window'[i].buffer \in failed'
      BY <1>6, <3>1
    <3>7. QED
      BY <1>7, <2>2, <3>2, <3>4, <3>5, <3>6
  <2>3. QED
    BY <2>1, <2>2
<1>11. Recent'
  <2>1. LaterOf(window'[1].frame, since) + 1 .. frame + 1 = {}
    BY <1>1, <1>5 DEF LaterOf
  <2>2. QED
    BY <1>2, <2>1 DEF Recent, NoneMissed
<1>12. Listed'
  <2>1. listed' \in Seq(Listing) /\ (~open' => listed' = <<>>) /\ (open' => paused')
    BY <1>2 DEF IInv, Listed
  <2> SUFFICES ASSUME open
               PROVE  Grown' \/ Shifted'
    BY <1>2, <2>1 DEF Listed
  <2>2. n = Len(listed) /\ (\A i \in DOMAIN listed : Matches(i, i)) /\ DOMAIN listed = 1 .. n
    BY <1>2 DEF IInv, Listed, Same, Grown, Shifted
  <2>3. ASSUME NEW i \in 1 .. n, i + 1 <= Len(window')
        PROVE  Matches(i, i + 1)'
    <3>1. i + 1 \in DOMAIN window' /\ i + 1 # 1 /\ (i + 1) - 1 = i
      <4>1. Len(window') \in Nat /\ DOMAIN window' = 1 .. Len(window')
        BY <1>5, BuffersOfFacts
      <4>2. QED
        BY <1>1, <2>3, <4>1
    <3>2. window'[i + 1] = window[i] /\ memory'[window[i].buffer] = memory[window[i].buffer]
      BY <1>5, <1>7, <3>1
    <3>3. Matches(i, i)
      BY <2>2
    <3>4. QED
      BY <1>2, <3>2, <3>3 DEF Matches
  <2>4. CASE n < size
    <3>1. Len(window') = n + 1
      BY <1>5, <2>4
    <3>2. \A i \in DOMAIN listed : Matches(i, i + 1)'
      <4>1. \A i \in 1 .. n : i + 1 <= Len(window')
        BY <1>1, <3>1
      <4>2. QED
        BY <2>2, <2>3, <4>1
    <3>3. QED
      BY <1>2, <2>2, <3>1, <3>2 DEF Grown
  <2>5. CASE n = size
    <3>1. /\ n = size /\ Len(window') = size /\ size > 0 /\ b = window[size].buffer
          /\ size \in 1 .. n
      BY <1>1, <1>5, <2>5 DEF b
    <3>2. \A i \in 1 .. size - 1 : Matches(i, i + 1)'
      <4>1. \A i \in 1 .. size - 1 : i \in 1 .. n /\ i + 1 <= Len(window')
        BY <1>1, <3>1
      <4>2. QED
        BY <2>3, <4>1
    <3>3. /\ listed[size].buffer = b /\ listed[size].frame = window[size].frame
          /\ listed[size].shown = memory[b] /\ listed[1].frame = window[1].frame
      <4>1. Matches(size, size) /\ 1 \in DOMAIN listed
        BY <1>1, <2>2, <3>1
      <4>2. Matches(1, 1)
        BY <2>2, <4>1
      <4>3. QED
        BY <3>1, <4>1, <4>2 DEF Matches
    <3>4. \A i \in DOMAIN window : window[i].frame \in Nat /\ window[i].frame <= frame
      BY <1>1, BuffersOfFacts DEF IInv, Past
    <3>5. DOMAIN window = 1 .. n
      BY <1>1, BuffersOfFacts
    <3>6. 1 \in DOMAIN window /\ size \in DOMAIN window
      BY <1>1, <3>1, <3>5
    <3>7. ASSUME NEW j \in DOMAIN window'
          PROVE  listed[size].frame < window'[j].frame
      <4>1. CASE j = 1
        BY <1>1, <1>5, <3>3, <3>4, <3>6, <4>1
      <4>2. CASE j # 1
        <5>1. j - 1 \in DOMAIN window /\ window'[j] = window[j - 1]
          BY <1>5, <4>2
        <5>2. j \in 1 .. size
          BY <1>5, <3>1, <3>7, BuffersOfFacts
        <5>3. j - 1 < size
          BY <1>1, <5>2
        <5>4. QED
          BY <3>3, <3>6, <5>1, <5>3 DEF IInv, Ordered, NewestFirst
      <4>3. QED
        BY <4>1, <4>2
    <3>8. listed[1].frame < window'[1].frame
      BY <1>1, <1>5, <3>3, <3>4, <3>6
    <3>9. listed[size].shown # Nothing => memory'[b] # Nothing
      <4>1. memory'[b] = x
        BY <1>1, <1>5, <1>6
      <4>2. ~(n < size)
        BY <1>1, <3>1
      <4>3. QED
        BY <1>6, <3>3, <4>1, <4>2
    <3>10. QED
      BY <1>2, <2>2, <3>1, <3>2, <3>3, <3>7, <3>8, <3>9 DEF Shifted, b
  <2>6. n < size \/ n = size
    <3>1. n \in Nat /\ size \in Nat /\ n <= size
      BY <1>1
    <3>2. QED
      BY ONLY <3>1
  <2>7. QED
    BY <2>4, <2>5, <2>6
<1>13. Bounded' /\ Disabled'
  BY <1>2 DEF IInv, Bounded, Disabled, ShouldCaptureState
<1>14. QED
  BY <1>8, <1>9, <1>10, <1>11, <1>12, <1>13 DEF IInv

-----------------------------------------------------------------------------
(* A rewind.                                                               *)

\* The buffers of a front part of the window are those the rest does not use.
LEMMA SplitBuffers ==
    ASSUME NEW w \in Windows, Distinct(w), NEW k \in 0 .. Len(w)
    PROVE  /\ {w[i].buffer : i \in k + 1 .. Len(w)} = BuffersOf(w) \ {w[i].buffer : i \in 1 .. k}
           /\ {w[i].buffer : i \in 1 .. k} = BuffersOf(w) \ {w[i].buffer : i \in k + 1 .. Len(w)}
<1>1. Len(w) \in Nat /\ DOMAIN w = 1 .. Len(w)
  BY BuffersOfFacts
<1>2. \A i \in DOMAIN w : i \in 1 .. k \/ i \in k + 1 .. Len(w)
  BY <1>1
<1>3. 1 .. k \subseteq DOMAIN w /\ k + 1 .. Len(w) \subseteq DOMAIN w
  BY <1>1
<1>4. \A i \in 1 .. k, j \in k + 1 .. Len(w) : i # j
  BY <1>1
<1>5. \A i \in 1 .. k, j \in k + 1 .. Len(w) : w[i].buffer # w[j].buffer
  BY <1>3, <1>4 DEF Distinct
<1>6. QED
  BY <1>2, <1>3, <1>5 DEF BuffersOf

\* A state of the list is in the window, or it is older than all of it: then it was
\* the oldest of a full window, and its buffer holds the newest state.  What it holds is
\* still a state.
LEMMA ListedFacts ==
    ASSUME IInv, open, NEW i \in DOMAIN listed, listed[i].shown # Nothing
    PROVE  /\ listed[i].buffer \in allocated /\ listed[i].frame \in Nat
           /\ memory[listed[i].buffer] \in States \cup {Torn}
           /\ \E p \in DOMAIN window : listed[i].frame <= window[p].frame
           /\ \/ \E p \in DOMAIN window : listed[i].frame = window[p].frame
              \/ \A p \in DOMAIN window : listed[i].frame < window[p].frame
<1>1. /\ window \in Windows /\ DOMAIN window = 1 .. Len(window) /\ Len(window) \in Nat
      /\ memory \in [Buffers -> Contents] /\ size \in Nat /\ allocated \subseteq Buffers
  BY TypeFacts
<1>2. /\ listed \in Seq(Listing)
      /\ Same \/ Grown \/ Shifted
  BY DEF IInv, Listed
<1>3. /\ listed[i] \in Listing /\ Len(listed) \in Nat /\ DOMAIN listed = 1 .. Len(listed)
      /\ i \in 1 .. Len(listed)
  BY <1>2
<1>4. listed[i].frame \in Nat
  BY <1>3 DEF Listing
<1>5. \A p \in DOMAIN window : window[p].buffer \in allocated /\ window[p].frame \in Nat
  BY <1>1, BuffersOfFacts DEF IInv, Owned, BuffersOf
<1>6. \A c \in allocated : memory[c] # Nothing => memory[c] \in States \cup {Torn}
  BY <1>1 DEF Contents
<1>7. ASSUME NEW p \in DOMAIN window, Matches(i, p)
      PROVE  /\ listed[i].buffer \in allocated
             /\ memory[listed[i].buffer] \in States \cup {Torn}
             /\ listed[i].frame <= window[p].frame /\ listed[i].frame = window[p].frame
  <2>1. listed[i].buffer = window[p].buffer /\ listed[i].frame = window[p].frame
    BY <1>7 DEF Matches
  <2>2. memory[listed[i].buffer] # Nothing
    BY <1>7 DEF Matches
  <2>3. listed[i].frame <= window[p].frame
    BY <1>5, <2>1
  <2>4. QED
    BY <1>5, <1>6, <2>1, <2>2, <2>3
<1>8. CASE \E p \in DOMAIN window : Matches(i, p)
  BY <1>4, <1>7, <1>8
<1>9. CASE Same
  <2>1. i \in DOMAIN window /\ Matches(i, i)
    BY <1>1, <1>3, <1>9 DEF Same
  <2>2. QED
    BY <1>8, <2>1
<1>10. CASE Grown
  <2>1. Matches(i, i + 1) /\ Len(window) = Len(listed) + 1
    BY <1>10 DEF Grown
  <2>2. i + 1 \in DOMAIN window
    BY <1>1, <1>3, <2>1
  <2>3. QED
    BY <1>8, <2>1, <2>2
<1>11. CASE Shifted
  <2>1. Len(listed) = size /\ size > 0 /\ Len(window) = size
    BY <1>11 DEF Shifted
  <2>2. CASE i # size
    <3>1. i \in 1 .. size - 1 /\ i + 1 \in DOMAIN window
      BY <1>1, <1>3, <2>1, <2>2
    <3>2. Matches(i, i + 1)
      BY <1>11, <3>1 DEF Shifted
    <3>3. QED
      BY <1>8, <3>1, <3>2
  <2>3. CASE i = size
    <3>1. 1 \in DOMAIN window
      BY <1>1, <2>1
    <3>2. /\ listed[i].buffer = window[1].buffer
          /\ \A p \in DOMAIN window : listed[i].frame < window[p].frame
          /\ memory[window[1].buffer] # Nothing
      BY <1>11, <2>3 DEF Shifted
    <3>3. listed[i].frame <= window[1].frame
      BY <1>4, <1>5, <3>1, <3>2
    <3>4. QED
      BY <1>4, <1>5, <1>6, <3>1, <3>2, <3>3
  <2>4. QED
    BY <2>2, <2>3
<1>12. QED
  BY <1>2, <1>9, <1>10, <1>11

\* The states ahead of the one that is loaded go, and the rest are older.
LEMMA RewindToStateIInv ==
    ASSUME IInv, NEW i \in DOMAIN listed, RewindToState(listed[i])
    PROVE  IInv'
<1> DEFINE n == Len(window)
           f == listed[i].frame
<1>1. /\ window \in Windows /\ n \in Nat /\ DOMAIN window = 1 .. n /\ n <= size
      /\ size \in Nat /\ frame \in Nat /\ played \in Nat /\ frame <= played
      /\ played <= MaxFrames /\ interval \in Nat /\ since \in Nat
  BY TypeFacts
<1>2. /\ open /\ ~running /\ listed[i].shown # Nothing
      /\ console' = memory[listed[i].buffer] /\ frame' = f
      /\ OnRewindFromState(f) /\ open' = FALSE /\ listed' = <<>> /\ paused' = FALSE
      /\ since' = Min({since, f})
      /\ UNCHANGED <<enabled, size, interval, running, memory, failed, played, timeline>>
  BY DEF RewindToState, settings, history
<1>3. /\ f \in Nat /\ console' \in States \cup {Torn}
      /\ \E p \in DOMAIN window : f <= window[p].frame
      /\ \/ \E p \in DOMAIN window : f = window[p].frame
         \/ \A p \in DOMAIN window : f < window[p].frame
  BY <1>2, ListedFacts
<1> HIDE DEF f
<1>4. \A p \in DOMAIN window : window[p].frame \in Nat /\ window[p].frame <= frame
  BY <1>1, BuffersOfFacts DEF IInv, Past
<1>5. PICK k \in 0 .. n :
              /\ Ahead(f) = 1 .. k /\ Cardinality(Ahead(f)) = k
              /\ \A j \in 1 .. k : window[j].frame > f
              /\ k < n => window[k + 1].frame <= f
  BY <1>1, <1>3, AheadFacts
<1>6. /\ Ordered(window) /\ Distinct(window) /\ NewestFirst(window)
      /\ Spaced(window, interval, since)
  BY DEF IInv, Ordered
<1>7. /\ window' \in Windows /\ Len(window') = n - k /\ Ordered(window')
      /\ Spaced(window', interval, since)
      /\ DOMAIN window' = 1 .. n - k
      /\ \A j \in DOMAIN window' : j + k \in DOMAIN window /\ window'[j] = window[j + k]
      /\ BuffersOf(window') = {window[j].buffer : j \in k + 1 .. n}
  <2>1. window' = Part(window, k + 1, n)
    BY <1>2, <1>5 DEF OnRewindFromState, Part
  <2>2. k + 1 \in 1 .. n + 1 /\ n \in 0 .. n /\ k + 1 <= n + 1
    BY <1>1
  <2>3. /\ window' \in Windows /\ Len(window') = n - (k + 1) + 1 /\ Ordered(window')
        /\ \A j \in DOMAIN window' :
              j + (k + 1) - 1 \in DOMAIN window /\ window'[j] = window[j + (k + 1) - 1]
        /\ BuffersOf(window') = {window[j].buffer : j \in k + 1 .. n}
    BY <1>1, <1>6, <2>1, <2>2, PartFacts
  <2>4. DOMAIN window' = 1 .. Len(window') /\ n - (k + 1) + 1 = n - k
    BY <1>1, <2>3, BuffersOfFacts
  <2>5. \A j \in DOMAIN window' : j + (k + 1) - 1 = j + k
    BY <1>1, <2>4
  <2>6. Spaced(window', interval, since)
    BY <1>1, <1>6, <2>1, <2>2, PartSpaced
  <2>7. QED
    BY <2>3, <2>4, <2>5, <2>6
<1>8. \A j \in DOMAIN window' : window'[j].frame <= f
  <2> SUFFICES ASSUME NEW j \in DOMAIN window'
               PROVE  window[j + k].frame <= f
    BY <1>7
  <2>1. j + k \in DOMAIN window /\ k < n /\ k + 1 \in DOMAIN window /\ k + 1 <= j + k
    BY <1>1, <1>7
  <2>2. window[k + 1].frame <= f
    BY <1>5, <2>1
  <2>3. CASE j + k = k + 1
    BY <2>2, <2>3
  <2>4. CASE j + k # k + 1
    <3>1. k + 1 < j + k
      BY <1>1, <1>7, <2>1, <2>4
    <3>2. window[j + k].frame < window[k + 1].frame
      BY <1>6, <2>1, <3>1 DEF NewestFirst
    <3>3. QED
      BY <1>3, <1>4, <2>1, <2>2, <3>2
  <2>5. QED
    BY <2>3, <2>4
<1>9. /\ since' \in Nat /\ since' <= f
      /\ Spaced(window', interval', since')
  <2>1. since' = IF since <= f THEN since ELSE f
    BY <1>1, <1>2, <1>3, MinOfTwo
  <2>2. CASE since <= f
    BY <1>1, <1>2, <1>7, <2>1, <2>2
  <2>3. CASE ~(since <= f)
    <3>1. since' = f
      BY <2>1, <2>3
    <3>2. Spaced(window', interval, f)
      BY <1>1, <1>3, <1>7, <1>8, OldSpaced
    <3>3. since' \in Nat /\ since' <= f
      BY <1>3, <3>1
    <3>4. QED
      BY <1>2, <3>1, <3>2, <3>3
  <2>4. QED
    BY <2>2, <2>3
<1>10. TypeOK'
  <2>1. frame' \in 0 .. played'
    <3>1. PICK p \in DOMAIN window : f <= window[p].frame
      BY <1>3
    <3>2. f <= played
      BY <1>1, <1>3, <1>4, <3>1
    <3>3. QED
      BY <1>1, <1>2, <1>3, <3>2
  <2>2. window' \in Seq(Entry) /\ Len(window') <= size
    BY <1>1, <1>5, <1>7 DEF Windows
  <2>3. allocated' \subseteq Buffers
    BY <1>2, TypeFacts DEF OnRewindFromState
  <2>4. since' \in 0 .. frame'
    BY <1>2, <1>3, <1>9
  <2>5. QED
    BY <1>2, <1>3, <2>1, <2>2, <2>3, <2>4 DEF IInv, TypeOK
<1>11. Owned'
  <2>1. allocated' = allocated \ {window[j].buffer : j \in 1 .. k}
    BY <1>2, <1>5 DEF OnRewindFromState
  <2>2. QED
    BY <1>1, <1>5, <1>6, <1>7, <2>1, SplitBuffers DEF IInv, Owned
<1>12. Past'
  <2> SUFFICES ASSUME NEW j \in DOMAIN window'
               PROVE  \/ memory[window'[j].buffer] = timeline[window'[j].frame]
                      \/ window'[j].buffer \in failed
    BY <1>2, <1>8 DEF Past
  <2>1. j + k \in DOMAIN window /\ window'[j] = window[j + k]
    BY <1>7
  <2>2. QED
    BY <2>1 DEF IInv, Past
<1>13. Recent'
  <2> SUFFICES ASSUME window' # <<>>
               PROVE  window'[1].frame = f
    <3>1. LaterOf(f, since') = f /\ f + 1 .. f = {}
      BY <1>3, <1>9 DEF LaterOf
    <3>2. \A m \in LaterOf(f, since') + 1 .. f : m % interval # 0
      BY <3>1
    <3>3. QED
      BY <1>2, <3>2 DEF Recent, NoneMissed
  <2>1. 1 \in DOMAIN window' /\ k < n /\ k + 1 \in DOMAIN window
    <3>1. n - k # 0
      BY <1>7, BuffersOfFacts
    <3>2. n \in Nat /\ k \in 0 .. n
      BY <1>1
    <3>3. k < n /\ 1 \in 1 .. n - k /\ k + 1 \in 1 .. n
      BY ONLY <3>1, <3>2
    <3>4. QED
      BY <1>1, <1>7, <3>3
  <2>2. window'[1] = window[k + 1] /\ window[k + 1].frame <= f
    <3>1. window'[1] = window[1 + k] /\ 1 + k = k + 1
      BY <1>1, <1>7, <2>1
    <3>2. QED
      BY <1>5, <2>1, <3>1
  <2>3. PICK p \in DOMAIN window : f = window[p].frame
    <3>1. ~(f < window[k + 1].frame)
      BY <1>3, <1>4, <2>1, <2>2
    <3>2. QED
      BY <1>3, <2>1, <3>1
  <2>4. p > k
    <3>1. ~(window[p].frame > f)
      BY <1>3, <2>3
    <3>2. p \notin 1 .. k
      BY <1>5, <3>1
    <3>3. QED
      BY <1>1, <2>3, <3>2
  <2>5. CASE p = k + 1
    BY <2>2, <2>3, <2>5
  <2>6. CASE p # k + 1
    <3>1. k + 1 < p
      BY <1>1, <2>3, <2>4, <2>6
    <3>2. window[p].frame < window[k + 1].frame
      BY <1>6, <2>1, <2>3, <3>1 DEF NewestFirst
    <3>3. QED
      BY <1>3, <1>4, <2>1, <2>2, <2>3, <3>2
  <2>7. QED
    BY <2>5, <2>6
<1>14. Listed' /\ Bounded'
  <2>1. <<>> \in Seq(Listing)
    OBVIOUS
  <2>2. QED
    BY <1>2, <2>1 DEF Listed, Bounded
<1>15. Disabled'
  <2> SUFFICES ASSUME window = <<>>
               PROVE  window' = <<>>
    BY <1>2 DEF IInv, Disabled
  <2>1. n = 0
    BY <1>1, BuffersOfFacts
  <2>2. Len(window') = 0
    BY <1>1, <1>5, <1>7, <2>1
  <2>3. QED
    BY <1>7, <2>2, BuffersOfFacts
<1>16. QED
  BY <1>7, <1>10, <1>11, <1>12, <1>13, <1>14, <1>15, <1>9 DEF IInv

-----------------------------------------------------------------------------
(* The settings and a reset.                                               *)

\* The window keeps its k newest states, and the buffers of the others are deleted.
LEMMA KeepNewest ==
    ASSUME IInv, NEW k \in 0 .. Len(window), window' = Part(window, 1, k),
           allocated' = allocated \ {window[i].buffer : i \in k + 1 .. Len(window)},
           UNCHANGED <<frame, memory, failed, timeline>>
    PROVE  /\ window' \in Windows /\ Len(window') = k /\ allocated' \subseteq Buffers
           /\ Ordered(window') /\ Spaced(window', interval, since) /\ Owned' /\ Past'
           /\ NoneMissed(window', interval, since)
<1> DEFINE n == Len(window)
<1>1. window \in Windows /\ n \in Nat /\ DOMAIN window = 1 .. n /\ allocated \subseteq Buffers
      /\ interval \in Nat /\ since \in Nat
  BY TypeFacts
<1>2. Ordered(window) /\ Distinct(window) /\ Spaced(window, interval, since)
  BY DEF IInv, Ordered
<1>3. /\ window' \in Windows /\ Len(window') = k /\ Ordered(window')
      /\ Spaced(window', interval, since)
      /\ \A i \in DOMAIN window' : i \in DOMAIN window /\ window'[i] = window[i]
      /\ BuffersOf(window') = {window[i].buffer : i \in 1 .. k}
  <2>1. 1 \in 1 .. n + 1 /\ 1 <= k + 1 /\ k - 1 + 1 = k
    BY <1>1
  <2>2. /\ window' \in Windows /\ Len(window') = k - 1 + 1 /\ Ordered(window')
        /\ \A i \in DOMAIN window' : i + 1 - 1 \in DOMAIN window /\ window'[i] = window[i + 1 - 1]
        /\ BuffersOf(window') = {window[i].buffer : i \in 1 .. k}
    BY <1>1, <1>2, <2>1, PartFacts
  <2>3. DOMAIN window' = 1 .. Len(window') /\ Len(window') \in Nat
    BY <2>2, BuffersOfFacts
  <2>4. \A i \in DOMAIN window' : i + 1 - 1 = i
    BY <2>3
  <2>5. Spaced(window', interval, since)
    BY <1>1, <1>2, <2>1, PartSpaced
  <2>6. QED
    BY <2>1, <2>2, <2>4, <2>5
<1>4. Owned'
  BY <1>1, <1>2, <1>3, SplitBuffers DEF IInv, Owned
<1>5. Past'
  BY <1>3 DEF IInv, Past
<1>6. NoneMissed(window', interval, since)
  <2> SUFFICES ASSUME window' # <<>>
               PROVE  \A m \in LaterOf(window'[1].frame, since) + 1 .. frame : m % interval # 0
    BY DEF NoneMissed
  <2>1. 1 \in DOMAIN window'
    <3>1. DOMAIN window' = 1 .. k /\ k # 0 /\ k \in Nat
      BY <1>1, <1>3, BuffersOfFacts
    <3>2. QED
      BY <3>1
  <2>2. window'[1] = window[1] /\ window # <<>>
    BY <1>1, <1>3, <2>1
  <2>3. QED
    BY <2>2 DEF IInv, Recent, NoneMissed
<1>7. QED
  BY <1>1, <1>3, <1>4, <1>5, <1>6

\* A trim keeps as many states as the new length allows.
LEMMA TrimKeepsNewest ==
    ASSUME IInv, NEW s \in Nat, Trim(s)
    PROVE  \E k \in 0 .. Len(window) :
              /\ k <= s /\ window' = Part(window, 1, k)
              /\ allocated' = allocated \ {window[i].buffer : i \in k + 1 .. Len(window)}
<1> DEFINE n == Len(window)
<1>1. window \in Windows /\ n \in Nat /\ Ordered(window)
  BY TypeFacts DEF IInv
<1>2. /\ window' = Part(window, 1, Min({n, s}))
      /\ allocated' = allocated \ BuffersOf(Part(window, s + 1, n))
  BY DEF Trim, Part
<1>3. CASE n <= s
  <2>1. Min({n, s}) = n /\ n \in 0 .. n
    BY <1>1, <1>3, MinOfTwo
  <2>2. Part(window, s + 1, n) = <<>>
    <3>1. s + 1 \in Int /\ n \in Int /\ n < s + 1
      BY <1>1, <1>3
    <3>2. QED
      BY <3>1, SubSeqEmpty DEF Part
  <2>3. BuffersOf(<<>>) = {}
    BY DEF BuffersOf
  <2>4. n + 1 .. n = {}
    BY <1>1
  <2>5. QED
    BY <1>2, <1>3, <2>1, <2>2, <2>3, <2>4
<1>4. CASE s < n
  <2>1. Min({n, s}) = s /\ s \in 0 .. n /\ s <= s
    BY <1>1, <1>4, MinOfTwo
  <2>2. BuffersOf(Part(window, s + 1, n)) = {window[i].buffer : i \in s + 1 .. n}
    <3>1. s + 1 \in 1 .. n + 1 /\ n \in 0 .. n /\ s + 1 <= n + 1
      BY <1>1, <1>4
    <3>2. QED
      BY <1>1, <3>1, PartFacts
  <2>3. QED
    BY <1>2, <2>1, <2>2
<1>5. QED
  BY <1>1, <1>3, <1>4

\* A reset keeps none.
LEMMA ResetKeepsNone ==
    ASSUME IInv, Reset
    PROVE  /\ 0 \in 0 .. Len(window) /\ window' = Part(window, 1, 0)
           /\ allocated' = allocated \ {window[i].buffer : i \in 0 + 1 .. Len(window)}
<1>1. Len(window) \in Nat /\ DOMAIN window = 0 + 1 .. Len(window)
  BY TypeFacts
<1>2. Part(window, 1, 0) = <<>>
  BY SubSeqEmpty DEF Part
<1>3. BuffersOf(window) = {window[i].buffer : i \in 0 + 1 .. Len(window)}
  BY <1>1 DEF BuffersOf
<1>4. QED
  BY <1>1, <1>2, <1>3 DEF Reset

LEMMA UpdateRewindSettingsIInv ==
    ASSUME IInv, NEW e \in BOOLEAN, NEW s \in WindowSizes, NEW p \in Intervals,
           UpdateRewindSettings(e, s, p)
    PROVE  IInv'
<1>1. /\ ~running /\ ~open /\ enabled' = e /\ size' = s /\ interval' = p
      /\ since' = IF p = interval THEN since ELSE frame
      /\ UNCHANGED <<frame, console, running, paused, memory, open, listed, failed, played,
                     timeline>>
  BY DEF UpdateRewindSettings, list, history
<1>2. s \in Nat /\ 0 <= s
  BY MaxSizeFacts
<1>3. PICK k \in 0 .. Len(window) :
              /\ k <= s /\ window' = Part(window, 1, k)
              /\ allocated' = allocated \ {window[i].buffer : i \in k + 1 .. Len(window)}
              /\ ~e => k = 0
  <2>1. CASE enabled /\ ~e
    BY <1>2, <2>1, ResetKeepsNone DEF UpdateRewindSettings
  <2>2. CASE enabled /\ e
    BY <1>2, <2>2, TrimKeepsNewest DEF UpdateRewindSettings
  <2>3. CASE ~enabled
    <3>1. window = <<>> /\ window' = <<>> /\ allocated' = allocated
      BY <2>3 DEF IInv, Disabled, UpdateRewindSettings
    <3>2. allocated' = allocated \ BuffersOf(window)
      BY <3>1 DEF IInv, Owned, BuffersOf
    <3>3. QED
      BY <1>2, <3>1, <3>2, ResetKeepsNone DEF Reset
  <2>4. QED
    BY <2>1, <2>2, <2>3
<1>4. /\ window' \in Windows /\ Len(window') = k /\ allocated' \subseteq Buffers
      /\ Ordered(window') /\ Spaced(window', interval, since) /\ Owned' /\ Past'
      /\ NoneMissed(window', interval, since)
  BY <1>1, <1>3, KeepNewest
<1>5. frame \in Nat /\ since \in Nat /\ since <= frame /\ p \in Nat
  BY TypeFacts, IntervalsAssumption
<1>6. Spaced(window', interval', since') /\ Recent'
  <2>1. CASE p = interval
    BY <1>1, <1>4, <2>1 DEF Recent, NoneMissed
  <2>2. CASE p # interval
    <3>1. since' = frame /\ frame' = frame /\ interval' = p
      BY <1>1, <2>2
    <3>2. \A i \in DOMAIN window' : window'[i].frame <= frame
      BY <1>4, <3>1 DEF Past
    <3>3. Spaced(window', p, frame)
      BY <1>4, <1>5, <3>2, OldSpaced
    <3>4. window' # <<>> => LaterOf(window'[1].frame, frame) + 1 .. frame = {}
      <4>1. ASSUME window' # <<>>
            PROVE  window'[1].frame \in Nat /\ window'[1].frame <= frame
        <5>1. 1 \in DOMAIN window'
          BY <1>4, <4>1, BuffersOfFacts
        <5>2. QED
          BY <1>4, <3>2, <5>1, BuffersOfFacts
      <4>2. QED
        BY <1>5, <4>1 DEF LaterOf
    <3>5. QED
      BY <3>1, <3>3, <3>4 DEF Recent, NoneMissed
  <2>3. QED
    BY <2>1, <2>2
<1>7. TypeOK'
  <2>1. Len(window') <= size'
    BY <1>1, <1>3, <1>4
  <2>2. since' \in 0 .. frame'
    BY <1>1, <1>5
  <2>3. QED
    BY <1>1, <1>4, <2>1, <2>2 DEF IInv, TypeOK, Windows
<1>8. Listed' /\ Bounded'
  BY <1>1 DEF IInv, Listed, Bounded
<1>9. Disabled'
  BY <1>1, <1>3, <1>4, BuffersOfFacts DEF Disabled
<1>10. QED
  BY <1>4, <1>6, <1>7, <1>8, <1>9 DEF IInv

LEMMA ResetGameIInv ==
    ASSUME IInv, ResetGame
    PROVE  IInv'
<1>1. /\ ~running /\ ~open /\ console' = 0 /\ paused' = FALSE /\ Reset
      /\ UNCHANGED <<enabled, size, interval, since, frame, running, memory, open, listed, failed, played,
                     timeline>>
  BY DEF ResetGame, settings, list, history
<1>2. /\ window' \in Windows /\ Len(window') = 0 /\ allocated' \subseteq Buffers
      /\ Ordered(window') /\ Spaced(window', interval, since) /\ Owned' /\ Past'
      /\ NoneMissed(window', interval, since)
  BY <1>1, ResetKeepsNone, KeepNewest
<1>3. TypeOK'
  <2>1. 0 \in States /\ 0 <= size /\ console' \in States
    BY <1>1, TypeFacts DEF States
  <2>2. Len(window') <= size'
    BY <1>1, <1>2, <2>1
  <2>3. QED
    BY <1>1, <1>2, <2>1, <2>2 DEF IInv, TypeOK, Windows
<1>4. Listed' /\ Bounded'
  BY <1>1 DEF IInv, Listed, Bounded
<1>5. Disabled'
  BY <1>2, BuffersOfFacts DEF Disabled
<1>6. Spaced(window', interval', since') /\ Recent'
  BY <1>1, <1>2 DEF Recent, NoneMissed
<1>7. QED
  BY <1>2, <1>3, <1>4, <1>5, <1>6 DEF IInv

-----------------------------------------------------------------------------
(* The whole system.                                                       *)

\* Steps that leave the window and the console alone.
LEMMA WindowUntouched ==
    ASSUME IInv, UNCHANGED <<settings, frame, console, buffers, history>>,
           running' \in BOOLEAN, paused' \in BOOLEAN, open' \in BOOLEAN, Listed', Bounded'
    PROVE  IInv'
<1>1. UNCHANGED <<enabled, size, interval, frame, console, window, allocated, memory, failed,
                  played, timeline, since>>
  BY DEF settings, buffers, history
<1>2. TypeOK'
  BY <1>1 DEF IInv, TypeOK
<1>3. /\ Owned' /\ Ordered(window') /\ Spaced(window', interval', since')
      /\ Past' /\ Recent' /\ Disabled'
  BY <1>1 DEF IInv, Owned, Past, Recent, NoneMissed, Disabled
<1>4. QED
  BY <1>2, <1>3 DEF IInv

\* The list is opened: it is the window.
LEMMA OpenRewindIInv ==
    ASSUME IInv, OpenRewind
    PROVE  IInv'
<1>1. /\ open' = TRUE /\ paused' = TRUE
      /\ UNCHANGED <<settings, frame, console, running, buffers, history>>
      /\ UNCHANGED <<window, memory, played>>
  BY DEF OpenRewind, buffers, history
<1> DEFINE entry(i) == [buffer |-> window[i].buffer, frame |-> window[i].frame,
                        shown |-> memory[window[i].buffer]]
<1>2. listed' = [i \in DOMAIN window |-> entry(i)]
  BY DEF OpenRewind
<1>3. \A i \in DOMAIN window : entry(i) \in Listing
  <2> SUFFICES ASSUME NEW i \in DOMAIN window
               PROVE  entry(i) \in Listing
    OBVIOUS
  <2>1. window[i] \in Entry /\ memory \in [Buffers -> Contents]
    BY TypeFacts, BuffersOfFacts
  <2>2. window[i].buffer \in Buffers /\ window[i].frame \in 1 .. MaxFrames
    BY <2>1 DEF Entry
  <2>3. memory[window[i].buffer] \in Contents
    BY <2>1, <2>2
  <2>4. QED
    BY <2>2, <2>3 DEF Listing
<1>4. Len(window) \in Nat /\ DOMAIN window = 1 .. Len(window)
  BY TypeFacts
<1>5. listed' \in Seq(Listing) /\ Len(listed') = Len(window) /\ DOMAIN listed' = DOMAIN window
  BY <1>2, <1>3, <1>4
<1>6. \A i \in DOMAIN listed' : Matches(i, i)'
  BY <1>1, <1>2, <1>5 DEF Matches
<1>7. Same'
  BY <1>1, <1>5, <1>6 DEF Same
<1>8. Listed' /\ Bounded'
  BY <1>1, <1>5, <1>7 DEF IInv, Listed, Bounded
<1>9. QED
  BY <1>1, <1>8, WindowUntouched DEF IInv, TypeOK

LEMMA InitIInv == Init => IInv
<1> SUFFICES ASSUME Init
             PROVE  IInv
  OBVIOUS
<1>1. window = <<>> /\ listed = <<>> /\ allocated = {} /\ ~open /\ ~running /\ frame = 0
  BY DEF Init
<1>2. MaxFrames \in Nat /\ 0 \in States /\ 0 \in 0 .. 0 /\ Nothing \in Contents
  BY BoundAssumption DEF States, Contents
<1>3. size \in Nat
  BY MaxSizeFacts DEF Init
<1>4. TypeOK
  <2>1. window \in Seq(Entry) /\ Len(window) <= size
    BY <1>1, <1>3
  <2>2. memory \in [Buffers -> Contents] /\ timeline \in [States -> States]
    BY <1>2 DEF Init
  <2>3. QED
    BY <1>1, <1>2, <2>1, <2>2 DEF Init, TypeOK
<1>5. Owned /\ Past /\ Recent
  BY <1>1 DEF Owned, Past, Recent, NoneMissed, BuffersOf
<1>6. Ordered(window) /\ Spaced(window, interval, since)
  <2>1. DOMAIN window = {} /\ Len(window) = 0
    BY <1>1
  <2>2. 1 .. Len(window) - 1 = {}
    BY <2>1
  <2>3. QED
    BY <2>1, <2>2 DEF Ordered, Distinct, NewestFirst, Spaced
<1>7. Listed /\ Bounded /\ Disabled
  BY <1>1 DEF Listed, Bounded, Disabled
<1>8. QED
  BY <1>4, <1>5, <1>6, <1>7 DEF IInv

LEMMA StepIInv == IInv /\ [Next]_vars => IInv'
<1> SUFFICES ASSUME IInv, [Next]_vars
             PROVE  IInv'
  OBVIOUS
<1> USE DEF settings, buffers, list, history
<1>1. CASE StartFrame
  BY <1>1, WindowUntouched DEF StartFrame, IInv, TypeOK, Listed, Bounded
<1>2. CASE EndFrame
  BY <1>2, EndFrameUncaptured, EndFrameCaptured
<1>3. CASE Pause
  BY <1>3, WindowUntouched DEF Pause, IInv, TypeOK, Listed, Bounded
<1>4. CASE Resume
  BY <1>4, WindowUntouched DEF Resume, IInv, TypeOK, Listed, Bounded
<1>5. CASE OpenRewind
  BY <1>5, OpenRewindIInv
<1>6. CASE CloseRewind
  <2>1. <<>> \in Seq(Listing)
    OBVIOUS
  <2>2. QED
    BY <1>6, <2>1, WindowUntouched DEF CloseRewind, IInv, TypeOK, Listed, Bounded
<1>7. CASE Pick
  BY <1>7, RewindToStateIInv DEF Pick
<1>8. CASE ChangeSettings
  BY <1>8, UpdateRewindSettingsIInv DEF ChangeSettings
<1>9. CASE ResetGame
  BY <1>9, ResetGameIInv
<1>10. CASE UNCHANGED vars
  <2>1. UNCHANGED <<enabled, size, interval, frame, console, running, paused, window,
                    allocated, memory, open, listed, failed, played, timeline, since>>
    BY <1>10 DEF vars
  <2>2. Listed' /\ Bounded'
    BY <2>1 DEF IInv, Listed, Same, Grown, Shifted, Matches, Bounded
  <2>3. QED
    BY <2>1, <2>2, WindowUntouched DEF IInv, TypeOK
<1>11. QED
  BY <1>1, <1>2, <1>3, <1>4, <1>5, <1>6, <1>7, <1>8, <1>9, <1>10 DEF Next, EmulatorThread

LEMMA SpecIInv == Spec => []IInv
<1>1. QED
  BY InitIInv, StepIInv, PTL DEF Spec

-----------------------------------------------------------------------------
(* The theorems.                                                           *)

\* Every variable keeps its type, and the window never exceeds its length.
THEOREM SpecTypeOK == Spec => []TypeOK
<1>1. IInv => TypeOK
  BY DEF IInv
<1>2. QED
  BY SpecIInv, <1>1, PTL

\* Whatever is captured, rewound, trimmed and reset, in any order and while the interval
\* and the length change, no state of a future that was given up stays in the window.
THEOREM SpecWindowIsThePast == Spec => []WindowIsThePast
<1>1. IInv => WindowIsThePast
  BY DEF IInv, Past, WindowIsThePast
<1>2. QED
  BY SpecIInv, <1>1, PTL

\* The states captured at the present interval are exactly that far apart, up to now,
\* and a change of the interval leaves no longer gap.
THEOREM SpecWindowHasNoGap == Spec => []WindowHasNoGap
<1>1. ASSUME IInv
      PROVE  WindowHasNoGap
  <2>1. /\ window \in Windows /\ Len(window) \in Nat /\ DOMAIN window = 1 .. Len(window)
        /\ frame \in Nat /\ interval \in Nat /\ interval > 0 /\ since \in Nat
    BY <1>1, TypeFacts
  <2>2. \A i \in DOMAIN window : window[i].frame \in Nat
    BY <2>1, BuffersOfFacts
  <2>3. ASSUME NEW i \in 1 .. Len(window) - 1
        PROVE  /\ window[i].frame > window[i + 1].frame
               /\ Follows(window[i].frame, window[i + 1].frame, interval, since)
    <3>1. i \in DOMAIN window /\ i + 1 \in DOMAIN window /\ i < i + 1
      BY <2>1
    <3>2. window[i + 1].frame < window[i].frame
      BY <1>1, <3>1 DEF IInv, Ordered, NewestFirst
    <3>3. QED
      BY <1>1, <2>2, <3>1, <3>2 DEF IInv, Spaced
  <2>4. ASSUME window # <<>>
        PROVE  frame - LaterOf(window[1].frame, since) < interval
    <3> DEFINE a == LaterOf(window[1].frame, since)
    <3>1. 1 \in DOMAIN window
      BY <2>1, <2>4
    <3>2. a \in Nat
      BY <2>1, <2>2, <3>1 DEF LaterOf
    <3>3. \A m \in a + 1 .. frame : m % interval # 0
      BY <1>1, <2>4 DEF IInv, Recent, NoneMissed
    <3> HIDE DEF a
    <3>4. frame < a + interval
      BY <2>1, <3>2, <3>3, SomeDue
    <3>5. QED
      BY <2>1, <3>2, <3>4 DEF a
  <2>5. QED
    BY <2>3, <2>4 DEF WindowHasNoGap, Follows
<1>2. QED
  BY SpecIInv, <1>1, PTL

\* No buffer leaks and none is shared or used after it was deleted.
THEOREM SpecBuffersAreOwned == Spec => []BuffersAreOwned
<1>1. IInv => BuffersAreOwned
  BY OneBufferEach DEF IInv, Owned, BuffersAreOwned
<1>2. QED
  BY SpecIInv, <1>1, PTL

\* The list that was opened while a frame was under way differs from what a pick loads
\* in no other case than the named one.
THEOREM SpecListStaysTrue == Spec => []ListStaysTrue
<1>1. ASSUME IInv
      PROVE  ListStaysTrue
  <2> SUFFICES ASSUME NEW i \in DOMAIN listed
               PROVE  /\ listed[i].buffer \in allocated
                      /\ \/ memory[listed[i].buffer] = listed[i].shown
                         \/ i = Len(listed) /\ i = size /\ window[1].frame > listed[1].frame
    BY DEF ListStaysTrue
  <2>1. open /\ (Same \/ Grown \/ Shifted) /\ listed \in Seq(Listing)
    <3>1. open
      BY <1>1 DEF IInv, Listed
    <3>2. QED
      BY <1>1, <3>1 DEF IInv, Listed
  <2>2. /\ Len(window) \in Nat /\ DOMAIN window = 1 .. Len(window) /\ size \in Nat
        /\ window \in Windows
    BY <1>1, TypeFacts
  <2>3. i \in 1 .. Len(listed) /\ Len(listed) \in Nat
    BY <2>1
  <2>4. \A p \in DOMAIN window : window[p].buffer \in allocated
    BY <1>1 DEF IInv, Owned, BuffersOf
  <2>5. CASE \E p \in DOMAIN window : Matches(i, p)
    BY <2>4, <2>5 DEF Matches
  <2>6. CASE Same
    <3>1. i \in DOMAIN window /\ Matches(i, i)
      BY <2>2, <2>3, <2>6 DEF Same
    <3>2. QED
      BY <2>5, <3>1
  <2>7. CASE Grown
    <3>1. Matches(i, i + 1) /\ Len(window) = Len(listed) + 1
      BY <2>7 DEF Grown
    <3>2. i + 1 \in DOMAIN window
      BY <2>2, <2>3, <3>1
    <3>3. QED
      BY <2>5, <3>1, <3>2
  <2>8. CASE Shifted
    <3>1. Len(listed) = size /\ size > 0 /\ Len(window) = size
      BY <2>8 DEF Shifted
    <3>2. CASE i # size
      <4>1. i \in 1 .. size - 1 /\ i + 1 \in DOMAIN window
        BY <2>2, <2>3, <3>1, <3>2
      <4>2. Matches(i, i + 1)
        BY <2>8, <4>1 DEF Shifted
      <4>3. QED
        BY <2>5, <4>1, <4>2
    <3>3. CASE i = size
      <4>1. 1 \in DOMAIN window /\ 1 \in DOMAIN listed
        BY <2>2, <2>3, <3>1
      <4>2. listed[i].buffer = window[1].buffer /\ listed[1].frame < window[1].frame
        BY <2>8, <3>3 DEF Shifted
      <4>3. window[1].frame \in Nat /\ listed[1].frame \in Nat
        <5>1. listed[1] \in Listing
          BY <2>1, <4>1
        <5>2. QED
          BY <2>2, <4>1, <5>1, BuffersOfFacts DEF Listing
      <4>4. window[1].frame > listed[1].frame
        BY <4>2, <4>3
      <4>5. QED
        BY <2>4, <3>1, <3>3, <4>1, <4>2, <4>4
    <3>4. QED
      BY <3>2, <3>3
  <2>9. QED
    BY <2>1, <2>6, <2>7, <2>8
<1>2. QED
  BY SpecIInv, <1>1, PTL
=============================================================================
