------------------------- MODULE SaveManagerProofs -------------------------
(***************************************************************************)
(* Proofs about SaveManager for every size of the save memory and every    *)
(* number of writes: the copy the manager keeps is the save memory, and    *)
(* once the emulator has stopped the file is.  Neither is inductive by     *)
(* itself.  The strengthening follows a write of the game on its way: it   *)
(* is in Buffer while a flush is requested, else in SecondaryBuffer        *)
(* (Copies), which nothing changes while the flush thread has the lock     *)
(* (Locked), and in the file, cell by cell, once the versions agree        *)
(* (Flushed).                                                              *)
(***************************************************************************)
EXTENDS SaveManager, TLAPS

\* While it has the lock, the flush thread is in one of these places.
Writing == {"open", "write", "record"}
Locked == lock = "flusher" <=> flusher \in Writing

\* The last write of the game is in Buffer if a flush is requested, and else in both
\* copies, unless there has been none.  Nothing is requested once the stop has copied.
Copies ==
    /\ buffer # Absent => buffer = game
    /\ flushRequested => buffer # Absent
    /\ secondaryBuffer = Absent => flushVersion = 0 /\ flusher \notin Writing \cup {"lock"}
    /\ ~flushRequested => \/ secondaryBuffer = game
                          \/ /\ secondaryBuffer = Absent
                             /\ game = [c \in Cells |-> 0]
    /\ emu \in {"joining", "flushing", "closed"} => ~flushRequested

\* What the file holds, unless the last write failed.
Whole == written = Size /\ file = secondaryBuffer
Flushed ==
    /\ flusher = "write" =>
          written < Size /\ \A c \in Cells : c < written => file[c] = secondaryBuffer[c]
    /\ flusher = "record" => Whole \/ lost = flushVersion
    /\ previousFlushVersion = flushVersion /\ flusher \notin Writing =>
          \/ Whole \/ lost = flushVersion
          \/ flushVersion = 0
    /\ secondaryBuffer = Absent =>
          written = Size /\ file = [c \in Cells |-> 0]
    /\ flushVersion = 0 => secondaryBuffer = Absent

\* The last flush is over, and found nothing to do or did it.
Closed ==
    /\ emu = "closed" => flusher = "gone"
    /\ emu = "closed" /\ secondaryBuffer # Absent => previousFlushVersion = flushVersion

\* A requested flush has not been counted, and one that was written has.
Versions ==
    /\ previousFlushVersion <= flushVersion /\ flushVersion <= writes
    /\ flushRequested => flushVersion < writes

\* The promise of SaveFile speaks of the snapshots: SecondaryBuffer is the last one.
Snapshots ==
    secondaryBuffer # Absent =>
        snapshots # <<>> /\ snapshots[Len(snapshots)] = secondaryBuffer

IInv == TypeOK /\ Versions /\ Locked /\ Copies /\ Flushed /\ Closed /\ Snapshots

-----------------------------------------------------------------------------
(* A range that runs over the end.                                         *)

\* RequestFlush copies the cells the game wrote: the range up to the end of the
\* memory and, if it runs over, the rest from the start.
LEMMA CopiesTheRange ==
    ASSUME NEW offset \in Cells, NEW len \in 1 .. Size
    PROVE  Copied(offset, len) = {c \in Cells : \E i \in 0 .. len - 1 : c = (offset + i) % Size}
<1>1. Size \in Nat /\ Size > 0
  BY SizeAssumption
<1>2. ASSUME NEW x \in Nat, x < Size
      PROVE  x % Size = x
  BY <1>1, <1>2
<1>3. ASSUME NEW x \in Nat, Size <= x, x < Size + Size
      PROVE  x % Size = x - Size
  BY <1>1, <1>3
<1>4. ASSUME NEW c \in Cells, c \in Copied(offset, len)
      PROVE  \E i \in 0 .. len - 1 : c = (offset + i) % Size
  <2>1. CASE offset <= c /\ c < offset + len
    <3>1. (offset + (c - offset)) % Size = c /\ c - offset \in 0 .. len - 1
      BY <1>1, <1>2, <2>1 DEF Cells
    <3>2. QED
      BY <3>1
  <2>2. CASE offset + len > Size /\ c < offset + len - Size
    <3>1. (offset + (c + Size - offset)) % Size = c /\ c + Size - offset \in 0 .. len - 1
      <4>1. c + Size \in Nat /\ offset + (c + Size - offset) = c + Size
        BY <1>1 DEF Cells
      <4>2. (c + Size) % Size = c
        BY <1>1, <1>3, <4>1 DEF Cells
      <4>3. QED
        BY <1>1, <2>2, <4>1, <4>2 DEF Cells
    <3>2. QED
      BY <3>1
  <2>3. QED
    BY <1>1, <1>4, <2>1, <2>2 DEF Copied, Cells
<1>5. ASSUME NEW i \in 0 .. len - 1
      PROVE  (offset + i) % Size \in Copied(offset, len)
  <2>1. CASE offset + i < Size
    BY <1>1, <1>2, <2>1 DEF Copied, Cells
  <2>2. CASE offset + i >= Size
    BY <1>1, <1>3, <2>2 DEF Copied, Cells
  <2>3. QED
    BY <1>1, <2>1, <2>2 DEF Cells
<1>6. Copied(offset, len) \subseteq Cells
  BY DEF Copied
<1>7. QED
  BY <1>4, <1>5, <1>6

LEMMA RequestFlushIInv ==
    ASSUME IInv, NEW offset \in Cells, NEW len \in 1 .. Size, RequestFlush(offset, len)
    PROVE  IInv'
<1>1. TypeOK'
  <2>1. writes' \in 0 .. MaxWrites
    <3>1. writes \in 0 .. MaxWrites /\ writes < MaxWrites /\ writes' = writes + 1
      BY DEF IInv, TypeOK, RequestFlush
    <3>2. QED
      BY ONLY <3>1, BoundAssumption
  <2>2. game' \in Contents
    BY <2>1 DEF IInv, TypeOK, RequestFlush, Contents
  <2>3. buffer' \in Contents
    BY <2>2 DEF IInv, TypeOK, RequestFlush, Contents, Absent
  <2>4. QED
    BY <2>1, <2>2, <2>3 DEF IInv, TypeOK, RequestFlush, copyVars, fileVars
<1>2. Versions'
  <2>1. writes \in Nat /\ flushVersion \in Nat
    <3>1. writes \in 0 .. MaxWrites /\ flushVersion \in Nat
      BY DEF IInv, TypeOK
    <3>2. QED
      BY ONLY <3>1, BoundAssumption
  <2>2. flushVersion <= writes /\ writes' = writes + 1 /\ previousFlushVersion <= flushVersion
    BY DEF IInv, Versions, RequestFlush
  <2>3. flushVersion' <= writes' /\ flushVersion' < writes'
    BY <2>1, <2>2 DEF RequestFlush, copyVars
  <2>4. QED
    BY <2>2, <2>3 DEF RequestFlush, copyVars, Versions
<1>3. Locked'
  BY DEF IInv, Locked, RequestFlush
<1>4. Copies'
  <2>1. buffer' = game'
    <3>1. CASE buffer = Absent
      BY <3>1 DEF RequestFlush
    <3>2. CASE buffer # Absent
      <4>1. buffer = game
        BY <3>2 DEF IInv, Copies
      <4>2. game' = [c \in Cells |-> IF c \in Copied(offset, len) THEN writes + 1 ELSE game[c]]
        BY CopiesTheRange DEF RequestFlush
      <4>3. QED
        BY <3>2, <4>1, <4>2 DEF RequestFlush
    <3>3. QED
      BY <3>1, <3>2
  <2>2. game' # Absent
    <3>1. DOMAIN game' = Cells /\ 0 \in Cells /\ DOMAIN Absent = {}
      BY SizeAssumption DEF RequestFlush, Cells, Absent
    <3>2. QED
      BY <3>1
  <2>3. emu' = "frames" /\ flushRequested'
    BY DEF RequestFlush
  <2>4. UNCHANGED <<secondaryBuffer, flushVersion, flusher>>
    BY DEF RequestFlush, copyVars
  <2>5. QED
    BY <2>1, <2>2, <2>3, <2>4 DEF IInv, Copies, Writing
<1>5. Flushed'
  BY DEF IInv, Flushed, Whole, RequestFlush, copyVars, fileVars
<1>6. Closed'
  BY DEF IInv, Closed, RequestFlush, copyVars
<1>7. Snapshots'
  BY DEF IInv, Snapshots, RequestFlush, copyVars
<1>8. QED
  BY <1>1, <1>2, <1>3, <1>4, <1>5, <1>6, <1>7 DEF IInv

LEMMA CheckFlushIInv ==
    ASSUME IInv, CheckFlush
    PROVE  IInv'
<1>1. TypeOK'
  <2>1. buffer \in Contents
    BY DEF IInv, TypeOK, Copies, CheckFlush
  <2>2. snapshots' \in Seq(Contents)
    <3>1. snapshots \in Seq(Contents) /\ snapshots' = Append(snapshots, buffer)
      BY DEF IInv, TypeOK, CheckFlush
    <3>2. QED
      BY ONLY <2>1, <3>1
  <2>3. flushVersion' \in Nat
    <3>1. flushVersion \in Nat /\ flushVersion' = flushVersion + 1
      BY DEF IInv, TypeOK, CheckFlush
    <3>2. QED
      BY ONLY <3>1
  <2>4. age' \in 0 .. Never
    BY DEF CheckFlush, Never, Debounce
  <2>5. QED
    BY <2>1, <2>2, <2>3, <2>4 DEF IInv, TypeOK, CheckFlush, fileVars
<1>2. Versions'
  <2>1. writes \in Nat /\ flushVersion \in Nat /\ previousFlushVersion \in Nat
    <3>1. writes \in 0 .. MaxWrites /\ flushVersion \in Nat /\ previousFlushVersion \in Nat
      BY DEF IInv, TypeOK
    <3>2. QED
      BY ONLY <3>1, BoundAssumption
  <2>2. flushVersion < writes /\ previousFlushVersion <= flushVersion /\ flushVersion' = flushVersion + 1
    BY DEF IInv, Versions, CheckFlush
  <2>3. previousFlushVersion <= flushVersion' /\ flushVersion' <= writes
    BY <2>1, <2>2
  <2>4. QED
    BY <2>3 DEF CheckFlush, Versions
<1>3. Locked'
  BY DEF IInv, Locked, CheckFlush
<1>4. Copies'
  BY DEF IInv, Copies, CheckFlush
<1>5. Flushed'
  <2>1. flusher \notin Writing
    BY DEF IInv, Locked, CheckFlush
  <2>2. flushVersion' # previousFlushVersion /\ flushVersion' # 0
    <3>1. flushVersion \in Nat /\ previousFlushVersion \in Nat
      BY DEF IInv, TypeOK
    <3>2. previousFlushVersion <= flushVersion /\ flushVersion' = flushVersion + 1
      BY DEF IInv, Versions, CheckFlush
    <3>3. QED
      BY <3>1, <3>2
  <2>3. secondaryBuffer' # Absent
    BY DEF IInv, Copies, CheckFlush
  <2>4. QED
    BY <2>1, <2>2, <2>3 DEF CheckFlush, Flushed, Writing
<1>6. Closed'
  BY DEF Closed, CheckFlush
<1>7. Snapshots'
  <2>1. snapshots \in Seq(Contents) /\ buffer \in Contents
    BY DEF IInv, TypeOK, Copies, CheckFlush
  <2>2. Append(snapshots, buffer) # <<>>
          /\ Append(snapshots, buffer)[Len(Append(snapshots, buffer))] = buffer
    BY <2>1
  <2>3. QED
    BY <2>2 DEF CheckFlush, Snapshots
<1>8. QED
  BY <1>1, <1>2, <1>3, <1>4, <1>5, <1>6, <1>7 DEF IInv

LEMMA StopIInv ==
    ASSUME IInv, Stop
    PROVE  IInv'
<1>1. TypeOK'
  BY DEF IInv, TypeOK, Stop, bufferVars, copyVars, fileVars
<1>2. Versions'
  BY DEF IInv, Versions, Stop, bufferVars, copyVars
<1>3. Locked'
  BY DEF IInv, Locked, Stop
<1>4. Copies'
  BY DEF IInv, Copies, Stop, bufferVars, copyVars
<1>5. Flushed'
  BY DEF IInv, Flushed, Whole, Stop, copyVars, fileVars
<1>6. Closed'
  BY DEF Closed, Stop
<1>7. Snapshots'
  BY DEF IInv, Snapshots, Stop, copyVars
<1>8. QED
  BY <1>1, <1>2, <1>3, <1>4, <1>5, <1>6, <1>7 DEF IInv

LEMMA DestroyIInv ==
    ASSUME IInv, Destroy
    PROVE  IInv'
<1>1. TypeOK'
  BY DEF IInv, TypeOK, Destroy, bufferVars, copyVars, fileVars
<1>2. Versions'
  BY DEF IInv, Versions, Destroy, bufferVars, copyVars
<1>3. Locked'
  BY DEF IInv, Locked, Destroy
<1>4. Copies'
  BY DEF IInv, Copies, Destroy, bufferVars, copyVars
<1>5. Flushed'
  BY DEF IInv, Flushed, Whole, Destroy, copyVars, fileVars
<1>6. Closed'
  BY DEF Closed, Destroy
<1>7. Snapshots'
  BY DEF IInv, Snapshots, Destroy, copyVars
<1>8. QED
  BY <1>1, <1>2, <1>3, <1>4, <1>5, <1>6, <1>7 DEF IInv

LEMMA JoinIInv ==
    ASSUME IInv, Join
    PROVE  IInv'
<1>1. TypeOK'
  BY DEF IInv, TypeOK, Join, bufferVars, copyVars, fileVars
<1>2. Versions'
  BY DEF IInv, Versions, Join, bufferVars, copyVars
<1>3. Locked'
  BY DEF IInv, Locked, Writing, Join
<1>4. Copies'
  BY SizeAssumption, BoundAssumption DEF IInv, TypeOK, Versions, Locked, Copies,
     Flushed, Closed, Snapshots, FlushReturns, NeedsFlush, Contents, Cells, Whole,
     Writing, Join, bufferVars, copyVars
<1>5. Flushed'
  BY SizeAssumption, BoundAssumption DEF IInv, TypeOK, Versions, Locked, Copies,
     Flushed, Closed, Snapshots, FlushReturns, NeedsFlush, Contents, Cells, Whole,
     Writing, Join, copyVars, fileVars
<1>6. Closed'
  BY SizeAssumption, BoundAssumption DEF IInv, TypeOK, Versions, Locked, Copies,
     Flushed, Closed, Snapshots, FlushReturns, NeedsFlush, Contents, Cells, Whole,
     Writing, Join, copyVars
<1>7. Snapshots'
  BY DEF IInv, Snapshots, Join, copyVars
<1>8. QED
  BY <1>1, <1>2, <1>3, <1>4, <1>5, <1>6, <1>7 DEF IInv

LEMMA WakeIInv ==
    ASSUME IInv, Wake
    PROVE  IInv'
<1>1. TypeOK'
  BY DEF IInv, TypeOK, Wake, bufferVars, copyVars, fileVars
<1>2. Versions'
  BY DEF IInv, Versions, Wake, bufferVars, copyVars
<1>3. Locked'
  BY DEF IInv, Locked, Writing, Wake
<1>4. Copies'
  BY DEF IInv, Copies, Writing, Wake, bufferVars, copyVars
<1>5. Flushed'
  BY DEF IInv, Flushed, Whole, Writing, Wake, copyVars, fileVars
<1>6. Closed'
  BY DEF IInv, Closed, Wake
<1>7. Snapshots'
  BY DEF IInv, Snapshots, Wake, copyVars
<1>8. QED
  BY <1>1, <1>2, <1>3, <1>4, <1>5, <1>6, <1>7 DEF IInv

LEMMA ReadTimeIInv ==
    ASSUME IInv, ReadTime
    PROVE  IInv'
<1>1. TypeOK'
  BY DEF IInv, TypeOK, ReadTime, bufferVars, copyVars, fileVars
<1>2. Versions'
  BY DEF IInv, Versions, ReadTime, bufferVars, copyVars
<1>3. Locked'
  BY DEF IInv, Locked, Writing, ReadTime
<1>4. Copies'
  BY SizeAssumption, BoundAssumption DEF IInv, TypeOK, Versions, Locked, Copies,
     Flushed, Closed, Snapshots, FlushReturns, NeedsFlush, Contents, Cells, Whole,
     Writing, ReadTime, bufferVars, copyVars
<1>5. Flushed'
  BY SizeAssumption, BoundAssumption DEF IInv, TypeOK, Versions, Locked, Copies,
     Flushed, Closed, Snapshots, FlushReturns, NeedsFlush, Contents, Cells, Whole,
     Writing, ReadTime, copyVars, fileVars
<1>6. Closed'
  BY SizeAssumption, BoundAssumption DEF IInv, TypeOK, Versions, Locked, Copies,
     Flushed, Closed, Snapshots, FlushReturns, NeedsFlush, Contents, Cells, Whole,
     Writing, ReadTime, copyVars
<1>7. Snapshots'
  BY DEF IInv, Snapshots, ReadTime, copyVars
<1>8. QED
  BY <1>1, <1>2, <1>3, <1>4, <1>5, <1>6, <1>7 DEF IInv

LEMMA CheckNeedsFlushIInv ==
    ASSUME IInv, CheckNeedsFlush
    PROVE  IInv'
<1>1. TypeOK'
  BY DEF IInv, TypeOK, FlushReturns, CheckNeedsFlush, bufferVars, copyVars, fileVars
<1>2. Versions'
  BY DEF IInv, Versions, CheckNeedsFlush, bufferVars, copyVars
<1>3. Locked'
  BY DEF IInv, Locked, Writing, FlushReturns, CheckNeedsFlush
<1>4. Copies'
  BY SizeAssumption, BoundAssumption DEF IInv, TypeOK, Versions, Locked, Copies,
     Flushed, Closed, Snapshots, FlushReturns, NeedsFlush, Contents, Cells, Whole,
     Writing, CheckNeedsFlush, bufferVars, copyVars
<1>5. Flushed'
  BY SizeAssumption, BoundAssumption DEF IInv, TypeOK, Versions, Locked, Copies,
     Flushed, Closed, Snapshots, FlushReturns, NeedsFlush, Contents, Cells, Whole,
     Writing, CheckNeedsFlush, copyVars, fileVars
<1>6. Closed'
  BY SizeAssumption, BoundAssumption DEF IInv, TypeOK, Versions, Locked, Copies,
     Flushed, Closed, Snapshots, FlushReturns, NeedsFlush, Contents, Cells, Whole,
     Writing, CheckNeedsFlush, copyVars
<1>7. Snapshots'
  BY DEF IInv, Snapshots, CheckNeedsFlush, copyVars
<1>8. QED
  BY <1>1, <1>2, <1>3, <1>4, <1>5, <1>6, <1>7 DEF IInv

LEMMA LockBufferIInv ==
    ASSUME IInv, LockBuffer
    PROVE  IInv'
<1>1. TypeOK'
  BY DEF IInv, TypeOK, LockBuffer, bufferVars, copyVars, fileVars
<1>2. Versions'
  BY DEF IInv, Versions, LockBuffer, bufferVars, copyVars
<1>3. Locked'
  BY DEF IInv, Locked, Writing, LockBuffer
<1>4. Copies'
  BY DEF IInv, Copies, LockBuffer, bufferVars, copyVars
<1>5. Flushed'
  BY DEF IInv, Flushed, Writing, LockBuffer, copyVars, fileVars
<1>6. Closed'
  BY DEF IInv, Closed, LockBuffer
<1>7. Snapshots'
  BY DEF IInv, Snapshots, LockBuffer, copyVars
<1>8. QED
  BY <1>1, <1>2, <1>3, <1>4, <1>5, <1>6, <1>7 DEF IInv

LEMMA OpenFileIInv ==
    ASSUME IInv, OpenFile
    PROVE  IInv'
<1>1. TypeOK'
  <2>1. written' \in 0 .. Size
    BY SizeAssumption DEF IInv, TypeOK, OpenFile
  <2>2. lost' \in Nat
    BY DEF IInv, TypeOK, OpenFile
  <2>3. flusher' \in {"write", "record"}
    BY DEF OpenFile
  <2>4. QED
    BY <2>1, <2>2, <2>3 DEF IInv, TypeOK, OpenFile, bufferVars, copyVars
<1>2. Versions'
  BY DEF IInv, Versions, OpenFile, bufferVars, copyVars
<1>3. Locked'
  BY DEF IInv, Locked, Writing, OpenFile
<1>4. Copies'
  BY DEF IInv, Copies, Writing, OpenFile, bufferVars, copyVars
<1>5. Flushed'
  BY SizeAssumption, BoundAssumption DEF IInv, Flushed, Closed, Snapshots, Cells,
     Whole, Writing, OpenFile, copyVars
<1>6. Closed'
  BY DEF IInv, Closed, OpenFile
<1>7. Snapshots'
  BY DEF IInv, Snapshots, OpenFile, copyVars
<1>8. QED
  BY <1>1, <1>2, <1>3, <1>4, <1>5, <1>6, <1>7 DEF IInv

LEMMA FileWriteIInv ==
    ASSUME IInv, FileWrite
    PROVE  IInv'
<1>1. TypeOK'
  <2>1. written \in Cells /\ secondaryBuffer \in Contents
    BY SizeAssumption DEF IInv, TypeOK, Copies, Flushed, Writing, FileWrite, Cells
  <2>2. written' \in 0 .. Size
    BY SizeAssumption, <2>1 DEF FileWrite, Cells
  <2>3. file' \in Contents
    BY <2>1 DEF IInv, TypeOK, FileWrite, Contents
  <2>4. lost' \in Nat
    BY DEF IInv, TypeOK, FileWrite
  <2>5. flusher' \in {"write", "record"}
    BY DEF FileWrite
  <2>6. QED
    BY <2>2, <2>3, <2>4, <2>5 DEF IInv, TypeOK, FileWrite, bufferVars, copyVars
<1>2. Versions'
  BY DEF IInv, Versions, FileWrite, bufferVars, copyVars
<1>3. Locked'
  BY DEF IInv, Locked, Writing, FileWrite
<1>4. Copies'
  BY DEF IInv, Copies, Writing, FileWrite, bufferVars, copyVars
<1>5. Flushed'
  <2>1. written \in Cells /\ secondaryBuffer \in Contents /\ file \in Contents
    BY SizeAssumption DEF IInv, TypeOK, Copies, Flushed, Writing, FileWrite, Cells
  <2>2. UNCHANGED <<secondaryBuffer, flushVersion>> /\ secondaryBuffer # Absent
    BY DEF IInv, Copies, Writing, FileWrite, copyVars
  <2>3. CASE lost' = flushVersion /\ flusher' = "record"
    BY <2>2, <2>3 DEF IInv, Flushed, Writing
  <2>4. CASE file' = [file EXCEPT ![written] = secondaryBuffer[written]] /\ written' = written + 1
               /\ flusher' = IF written + 1 = Size THEN "record" ELSE "write"
    <3>1. \A c \in Cells : c < written' => file'[c] = secondaryBuffer[c]
      <4>1. \A c \in Cells : c < written => file[c] = secondaryBuffer[c]
        BY DEF IInv, Flushed, FileWrite
      <4>2. QED
        BY SizeAssumption, <2>1, <2>4, <4>1 DEF Cells, Contents
    <3>2. CASE written + 1 = Size
      <4>1. file' = secondaryBuffer
        BY SizeAssumption, <2>1, <2>4, <3>1, <3>2 DEF Cells, Contents
      <4>2. QED
        BY <2>2, <2>4, <3>2, <4>1 DEF IInv, Flushed, Whole, Writing
    <3>3. CASE written + 1 # Size
      <4>1. written' < Size
        BY SizeAssumption, <2>1, <2>4, <3>3 DEF Cells
      <4>2. QED
        BY <2>2, <2>4, <3>1, <3>3, <4>1 DEF IInv, Flushed, Writing
    <3>4. QED
      BY <3>2, <3>3
  <2>5. QED
    BY <2>3, <2>4 DEF FileWrite
<1>6. Closed'
  BY DEF IInv, Closed, FileWrite
<1>7. Snapshots'
  BY DEF IInv, Snapshots, FileWrite, copyVars
<1>8. QED
  BY <1>1, <1>2, <1>3, <1>4, <1>5, <1>6, <1>7 DEF IInv

LEMMA RecordVersionIInv ==
    ASSUME IInv, RecordVersion
    PROVE  IInv'
<1>1. TypeOK'
  <2>1. age' \in 0 .. Never /\ previousFlushVersion' \in Nat
    BY DEF IInv, TypeOK, RecordVersion, Never, Debounce
  <2>2. flusher' \in {"asleep", "gone"} /\ emu' \in {emu, "closed"}
    BY DEF RecordVersion, FlushReturns
  <2>3. QED
    BY <2>1, <2>2 DEF IInv, TypeOK, RecordVersion, bufferVars, copyVars, fileVars
<1>2. Versions'
  BY BoundAssumption DEF IInv, TypeOK, Versions, RecordVersion, bufferVars, copyVars
<1>3. Locked'
  BY DEF IInv, Locked, Writing, FlushReturns, RecordVersion
<1>4. Copies'
  BY DEF IInv, Copies, FlushReturns, Writing, RecordVersion, bufferVars, copyVars
<1>5. Flushed'
  BY DEF IInv, Flushed, FlushReturns, Whole, RecordVersion, copyVars, fileVars
<1>6. Closed'
  BY DEF IInv, Closed, FlushReturns, RecordVersion, copyVars
<1>7. Snapshots'
  BY DEF IInv, Snapshots, RecordVersion, copyVars
<1>8. QED
  BY <1>1, <1>2, <1>3, <1>4, <1>5, <1>6, <1>7 DEF IInv

LEMMA TickIInv ==
    ASSUME IInv, Tick
    PROVE  IInv'
<1>1. TypeOK'
  <2>1. age' \in 0 .. Never
    <3>1. age \in 0 .. Never /\ age < Debounce /\ age' = age + 1
      BY DEF IInv, TypeOK, Tick
    <3>2. QED
      BY ONLY <3>1 DEF Never, Debounce
  <2>2. QED
    BY <2>1 DEF IInv, TypeOK, Tick, bufferVars, copyVars, fileVars
<1>2. Versions'
  BY DEF IInv, Versions, Tick, bufferVars, copyVars
<1>3. Locked'
  BY DEF IInv, Locked, Tick
<1>4. Copies'
  BY DEF IInv, Copies, Tick, bufferVars, copyVars
<1>5. Flushed'
  BY DEF IInv, Flushed, Whole, Tick, copyVars, fileVars
<1>6. Closed'
  BY DEF IInv, Closed, Tick, copyVars
<1>7. Snapshots'
  BY DEF IInv, Snapshots, Tick, copyVars
<1>8. QED
  BY <1>1, <1>2, <1>3, <1>4, <1>5, <1>6, <1>7 DEF IInv

\* The write of the last cell leaves the file a whole copy.
LEMMA FileWriteWhole ==
    ASSUME IInv, FileWrite, written' = Size
    PROVE  Whole'
<1>1. written \in Cells /\ secondaryBuffer \in Contents /\ file \in Contents /\ written < Size
  BY SizeAssumption DEF IInv, TypeOK, Copies, Flushed, Writing, FileWrite, Cells
<1>2. /\ file' = [file EXCEPT ![written] = secondaryBuffer[written]]
      /\ written' = written + 1
  BY SizeAssumption, <1>1 DEF FileWrite, Cells
<1>3. \A c \in Cells : c < written => file[c] = secondaryBuffer[c]
  BY DEF IInv, Flushed, FileWrite
<1>4. file' = secondaryBuffer
  BY SizeAssumption, <1>1, <1>2, <1>3 DEF Cells, Contents
<1>5. QED
  BY <1>4 DEF FileWrite, Whole, copyVars

-----------------------------------------------------------------------------
(* The theorems.                                                           *)

LEMMA InitIInv == Init => IInv
<1> SUFFICES ASSUME Init
             PROVE  IInv
  OBVIOUS
<1> USE DEF Init
<1>1. [c \in Cells |-> 0] \in Contents
  BY BoundAssumption DEF Contents
<1>2. TypeOK
  <2>1. writes \in 0 .. MaxWrites /\ written \in 0 .. Size
    BY ONLY Init, SizeAssumption, BoundAssumption DEF Init
  <2>2. age \in 0 .. Never /\ snapshots \in Seq(Contents)
    BY DEF Never, Debounce
  <2>3. QED
    BY <1>1, <2>1, <2>2 DEF TypeOK
<1>3. Versions /\ Locked /\ Copies /\ Flushed /\ Closed /\ Snapshots
  BY DEF Versions, Locked, Copies, Flushed, Closed, Snapshots, Writing
<1>4. QED
  BY <1>2, <1>3 DEF IInv

LEMMA StepIInv == IInv /\ [Next]_vars => IInv'
<1> SUFFICES ASSUME IInv, [Next]_vars
             PROVE  IInv'
  OBVIOUS
<1>1. CASE Game
  BY <1>1, RequestFlushIInv DEF Game
<1>2. CASE CheckFlush \/ Stop
  BY <1>2, CheckFlushIInv, StopIInv
<1>3. CASE Stopping
  BY <1>3, DestroyIInv, JoinIInv DEF Stopping
<1>4. CASE FlushStep
  BY <1>4, WakeIInv, ReadTimeIInv, CheckNeedsFlushIInv, LockBufferIInv, OpenFileIInv,
     FileWriteIInv, RecordVersionIInv DEF FlushStep
<1>5. CASE Tick
  BY <1>5, TickIInv
<1>6. CASE UNCHANGED vars
  <2>1. TypeOK' /\ Versions'
    BY <1>6 DEF IInv, TypeOK, Versions, vars, bufferVars, copyVars, fileVars
  <2>2. Locked' /\ Copies' /\ Closed' /\ Snapshots'
    BY <1>6 DEF IInv, Locked, Copies, Closed, Snapshots, vars, bufferVars, copyVars, fileVars
  <2>3. Flushed'
    BY <1>6 DEF IInv, Flushed, Whole, vars, bufferVars, copyVars, fileVars
  <2>4. QED
    BY <2>1, <2>2, <2>3 DEF IInv
<1>7. QED
  BY <1>1, <1>2, <1>3, <1>4, <1>5, <1>6 DEF Next

LEMMA SpecIInv == Spec => []IInv
BY InitIInv, StepIInv, PTL DEF Spec

\* The buffers hold a whole save memory or have not been allocated, the lock is the
\* flush thread's or nobody's, and a write never goes past the end of the file: the
\* members of SaveManager keep their types.
THEOREM SpecTypeOK == Spec => []TypeOK
<1>1. IInv => TypeOK
  BY DEF IInv
<1>2. QED
  BY SpecIInv, <1>1, PTL

\* RequestFlush copies only the range the game wrote, which may run over the end;
\* what it keeps is the whole save memory all the same.
THEOREM SpecBufferIsSaveMemory == Spec => []BufferIsSaveMemory
<1>1. IInv => BufferIsSaveMemory
  BY DEF IInv, Copies, BufferIsSaveMemory
<1>2. QED
  BY SpecIInv, <1>1, PTL

\* Wherever the flush thread is when the emulator stops, the destructor leaves the
\* game's save memory in the file, unless the last write failed.
THEOREM SpecStopKeepsSave == Spec => []StopKeepsSave
<1>1. IInv => StopKeepsSave
  <2> SUFFICES ASSUME IInv, emu = "closed", lost # flushVersion
               PROVE  written = Size /\ file = game
    BY DEF StopKeepsSave
  <2>1. ~flushRequested /\ flusher = "gone"
    BY DEF IInv, Copies, Closed
  <2>2. CASE secondaryBuffer = Absent
    <3>1. game # Absent
      <4>1. game \in Contents
        BY DEF IInv, TypeOK
      <4>2. DOMAIN game = Cells /\ 0 \in Cells /\ DOMAIN Absent = {}
        BY SizeAssumption, <4>1 DEF Contents, Cells, Absent
      <4>3. QED
        BY <4>2
    <3>2. QED
      BY <2>1, <2>2, <3>1 DEF IInv, Copies, Flushed
  <2>3. CASE secondaryBuffer # Absent
    <3>1. previousFlushVersion = flushVersion /\ flushVersion # 0
      BY <2>3 DEF IInv, Closed, Flushed
    <3>2. Whole
      BY <2>1, <3>1 DEF IInv, Flushed, Writing
    <3>3. QED
      BY <2>1, <2>3, <3>2 DEF IInv, Copies, Whole
  <2>4. QED
    BY <2>2, <2>3
<1>2. QED
  BY SpecIInv, <1>1, PTL

\* The file is only ever replaced by the latest snapshot, whole, and is unreadable only
\* in between, though the flush thread reads the versions without the lock.
THEOREM SpecImplementsSaveFile == Spec => ImplementsSaveFile
<1>1. Init => Promise!Init
  <2> SUFFICES ASSUME Init
               PROVE  Promise!Init
    OBVIOUS
  <2>1. [c \in Cells |-> 0] \in Contents
    BY BoundAssumption DEF Contents
  <2>2. QED
    BY <2>1 DEF Init, Promise!Init
<1>2. IInv /\ [Next]_vars => [Promise!Next]_Promise!vars
  <2> SUFFICES ASSUME IInv, [Next]_vars
               PROVE  Promise!Next \/ UNCHANGED Promise!vars
    OBVIOUS
  <2>1. CASE CheckFlush
    <3>1. buffer \in Contents
      BY <2>1 DEF IInv, TypeOK, Copies, CheckFlush
    <3>2. QED
      BY <2>1, <3>1 DEF CheckFlush, fileVars, Promise!Next, Promise!Snapshot
  <2>2. CASE OpenFile
    <3>1. snapshots # <<>>
      BY <2>2 DEF IInv, Copies, Snapshots, Writing, OpenFile
    <3>2. CASE UNCHANGED written
      BY <2>2, <3>2 DEF OpenFile, copyVars, Promise!vars
    <3>3. CASE written' = 0
      BY SizeAssumption, <2>2, <3>1, <3>3 DEF OpenFile, copyVars, Promise!Next, Promise!Truncate
    <3>4. QED
      BY <2>2, <3>2, <3>3 DEF OpenFile
  <2>3. CASE FileWrite
    <3>1. written < Size /\ written \in Nat /\ Size \in Nat
      <4>1. written \in 0 .. Size /\ written < Size
        BY <2>3 DEF IInv, TypeOK, Flushed, FileWrite
      <4>2. QED
        BY ONLY <4>1, SizeAssumption
    <3>2. UNCHANGED <<snapshots, secondaryBuffer>> /\ secondaryBuffer # Absent
      BY <2>3 DEF IInv, Copies, Writing, FileWrite, copyVars
    <3>3. CASE written' = Size
      <4>1. Whole'
        BY <2>3, <3>3, FileWriteWhole
      <4>2. file' = snapshots[Len(snapshots)]
        BY <3>2, <4>1 DEF IInv, Snapshots, Whole
      <4>3. QED
        BY <3>1, <3>2, <3>3, <4>2 DEF Promise!Next, Promise!Replace
    <3>4. CASE written' # Size
      BY <3>1, <3>2, <3>4 DEF Promise!vars
    <3>5. QED
      BY <3>3, <3>4
  <2>4. CASE Next /\ ~CheckFlush /\ ~OpenFile /\ ~FileWrite
    <3>1. UNCHANGED <<snapshots, written, file>>
      BY <2>4 DEF Next, Game, RequestFlush, Stop, Stopping, Destroy, Join, FlushStep, Wake,
         ReadTime, CheckNeedsFlush, LockBuffer, RecordVersion, Tick, copyVars, fileVars
    <3>2. QED
      BY <3>1 DEF Promise!vars
  <2>5. CASE UNCHANGED vars
    BY <2>5 DEF vars, copyVars, fileVars, Promise!vars
  <2>6. QED
    BY <2>1, <2>2, <2>3, <2>4, <2>5
<1>3. QED
  BY SpecIInv, <1>1, <1>2, PTL DEF Spec, ImplementsSaveFile, Promise!Spec
=============================================================================
