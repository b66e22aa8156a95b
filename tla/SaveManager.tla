---------------------------- MODULE SaveManager ----------------------------
(***************************************************************************)
(* How a game's save memory reaches its file (SaveManager.cpp).  The       *)
(* emulator thread copies what the game wrote into Buffer (RequestFlush)   *)
(* and, once a frame, Buffer into SecondaryBuffer (CheckFlush).  A flush   *)
(* thread looks every 100 ms whether the last copy is two seconds old and  *)
(* then writes SecondaryBuffer to the file.  The emulator thread's stop    *)
(* copies once more, ends the flush thread and writes what it left.        *)
(*                                                                         *)
(* The lock guards SecondaryBuffer only: the flush thread reads the time   *)
(* and the versions without it.  The game writes cells of its save memory, *)
(* a range at a time that may run over the end and go on at the start; the *)
(* value of a cell is the number of the write that set it.  The size of    *)
(* the save is fixed by the cartridge, so the first request finds no       *)
(* Buffer and the others one of the right size.  SetPath and a flush to    *)
(* memory have no callers.                                                 *)
(***************************************************************************)
EXTENDS Naturals, Sequences

CONSTANTS
    Size,           \* cells of save memory
    MaxWrites,      \* bound of the model: writes of the game
    MayFail         \* whether the file may refuse to open, or the disk be full

ASSUME SizeAssumption == Size \in Nat \ {0}
ASSUME BoundAssumption == MaxWrites \in Nat /\ MayFail \in BOOLEAN

Cells == 0 .. Size - 1
Absent == <<>>          \* a buffer that has not been allocated
Debounce == 2           \* seconds
Never == Debounce + 1   \* TimeAtLastFlushRequest is 0

VARIABLES
    game,           \* the save memory of the cartridge
    writes,         \* writes the game has made
    buffer, flushRequested,
    secondaryBuffer, flushVersion, previousFlushVersion,
    age,            \* whole seconds since TimeAtLastFlushRequest, or Never
    lock,           \* who holds SecondaryBufferLock, or "nobody"
    running,
    emu,            \* where the emulator thread is
    flusher,        \* where the flush thread, or the last flush, is
    written,        \* cells of the file written since it was opened
    file,           \* cell by cell; of an open file, only the written ones count
    snapshots,      \* history: what CheckFlush has copied
    lost            \* history: the last version that was not written

bufferVars == <<game, writes, buffer, flushRequested>>
copyVars == <<secondaryBuffer, flushVersion, snapshots>>
fileVars == <<written, file, lost>>
vars == <<bufferVars, copyVars, previousFlushVersion, age, lock, running, emu,
          flusher, fileVars>>

Init ==
    /\ game = [c \in Cells |-> 0] /\ writes = 0
    /\ buffer = Absent /\ flushRequested = FALSE
    /\ secondaryBuffer = Absent /\ flushVersion = 0 /\ previousFlushVersion = 0
    /\ age = Never /\ lock = "nobody" /\ running = TRUE
    /\ emu = "frames" /\ flusher = "asleep"
    /\ written = Size /\ file = [c \in Cells |-> 0]
    /\ snapshots = <<>> /\ lost = 0

-----------------------------------------------------------------------------
(* The emulator thread.                                                    *)

\* What RequestFlush copies of a write of len cells at offset: up to the end, and
\* the rest from the start.
Copied(offset, len) ==
    IF offset + len > Size
    THEN {c \in Cells : c >= offset \/ c < offset + len - Size}
    ELSE {c \in Cells : offset <= c /\ c < offset + len}

\* The game writes len cells from offset, and the core hands the write over.
RequestFlush(offset, len) ==
    /\ emu = "frames" /\ writes < MaxWrites
    /\ writes' = writes + 1
    /\ game' = [c \in Cells |-> IF \E i \in 0 .. len - 1 : c = (offset + i) % Size
                                THEN writes + 1 ELSE game[c]]
    /\ buffer' = IF buffer = Absent THEN game'
                 ELSE [c \in Cells |-> IF c \in Copied(offset, len)
                                       THEN game'[c] ELSE buffer[c]]
    /\ flushRequested' = TRUE
    /\ UNCHANGED <<copyVars, previousFlushVersion, age, lock, running, emu, flusher,
                   fileVars>>

\* Faulty variant: the copy does not wait for the file to be written.
CheckFlushUnlocked ==
    /\ emu \in {"frames", "stopping"} /\ flushRequested
    /\ secondaryBuffer' = buffer /\ flushRequested' = FALSE
    /\ flushVersion' = flushVersion + 1 /\ age' = 0
    /\ snapshots' = Append(snapshots, buffer)
    /\ UNCHANGED <<game, writes, buffer, previousFlushVersion, lock, running, emu,
                   flusher, fileVars>>

\* At the end of a frame, and once more in the stop.
CheckFlush ==
    /\ emu \in {"frames", "stopping"} /\ flushRequested
    /\ lock = "nobody"
    /\ secondaryBuffer' = buffer /\ flushRequested' = FALSE
    /\ flushVersion' = flushVersion + 1 /\ age' = 0
    /\ snapshots' = Append(snapshots, buffer)
    /\ UNCHANGED <<game, writes, buffer, previousFlushVersion, lock, running, emu,
                   flusher, fileVars>>

Stop ==
    /\ emu = "frames" /\ emu' = "stopping"
    /\ UNCHANGED <<bufferVars, copyVars, previousFlushVersion, age, lock, running,
                   flusher, fileVars>>

\* The destructor tells the flush thread to end, and waits for it.
Destroy ==
    /\ emu = "stopping" /\ ~flushRequested
    /\ emu' = "joining" /\ running' = FALSE
    /\ UNCHANGED <<bufferVars, copyVars, previousFlushVersion, age, lock, flusher,
                   fileVars>>

\* It then flushes itself.
Join ==
    /\ emu = "joining" /\ flusher = "gone"
    /\ emu' = "flushing" /\ flusher' = "needs flush"
    /\ UNCHANGED <<bufferVars, copyVars, previousFlushVersion, age, lock, running,
                   fileVars>>

-----------------------------------------------------------------------------
(* The flush thread, and FlushSecondaryBuffer in both threads.             *)

\* The flush thread sleeps on; the destructor is done.
FlushReturns ==
    IF emu = "flushing" THEN flusher' = "gone" /\ emu' = "closed"
    ELSE flusher' = "asleep" /\ UNCHANGED emu

Wake ==
    /\ flusher = "asleep"
    /\ flusher' = IF running THEN "debounce" ELSE "gone"
    /\ UNCHANGED <<bufferVars, copyVars, previousFlushVersion, age, lock, running, emu,
                   fileVars>>

\* The time is read without the lock.
ReadTime ==
    /\ flusher = "debounce"
    /\ flusher' = IF age = Debounce THEN "needs flush" ELSE "asleep"
    /\ UNCHANGED <<bufferVars, copyVars, previousFlushVersion, age, lock, running, emu,
                   fileVars>>

NeedsFlushTwice == flushVersion > previousFlushVersion + 1   \* faulty variant
NeedsFlush == flushVersion # previousFlushVersion

\* So are SecondaryBuffer and the versions.
CheckNeedsFlush ==
    /\ flusher = "needs flush"
    /\ IF secondaryBuffer # Absent /\ NeedsFlush
       THEN flusher' = "lock" /\ UNCHANGED emu
       ELSE FlushReturns
    /\ UNCHANGED <<bufferVars, copyVars, previousFlushVersion, age, lock, running,
                   fileVars>>

LockBuffer ==
    /\ flusher = "lock" /\ lock = "nobody"
    /\ lock' = "flusher" /\ flusher' = "open"
    /\ UNCHANGED <<bufferVars, copyVars, previousFlushVersion, age, running, emu,
                   fileVars>>

\* Opening truncates the file; a file that does not open is passed over.
OpenFile ==
    /\ flusher = "open"
    /\ \/ /\ flusher' = "write" /\ written' = 0
          /\ UNCHANGED lost
       \/ /\ MayFail
          /\ flusher' = "record" /\ lost' = flushVersion
          /\ UNCHANGED written
    /\ UNCHANGED <<bufferVars, copyVars, previousFlushVersion, age, lock, running, emu,
                   file>>

\* Faulty variant: the lock is given back before the version is recorded.
FileWriteUnlocking ==
    /\ flusher = "write"
    /\ file' = [file EXCEPT ![written] = secondaryBuffer[written]]
    /\ written' = written + 1
    /\ flusher' = IF written + 1 = Size THEN "record" ELSE "write"
    /\ lock' = IF written + 1 = Size THEN "nobody" ELSE lock
    /\ UNCHANGED <<bufferVars, copyVars, previousFlushVersion, age, running, emu, lost>>

\* A write that falls short is not noticed.
FileWrite ==
    /\ flusher = "write"
    /\ \/ /\ file' = [file EXCEPT ![written] = secondaryBuffer[written]]
          /\ written' = written + 1
          /\ flusher' = IF written + 1 = Size THEN "record" ELSE "write"
          /\ UNCHANGED lost
       \/ /\ MayFail
          /\ flusher' = "record" /\ lost' = flushVersion
          /\ UNCHANGED <<file, written>>
    /\ UNCHANGED <<bufferVars, copyVars, previousFlushVersion, age, lock, running, emu>>

RecordVersion ==
    /\ flusher = "record"
    /\ previousFlushVersion' = flushVersion /\ age' = Never /\ lock' = "nobody"
    /\ FlushReturns
    /\ UNCHANGED <<bufferVars, copyVars, running, fileVars>>

Tick ==
    /\ age < Debounce /\ age' = age + 1
    /\ UNCHANGED <<bufferVars, copyVars, previousFlushVersion, lock, running, emu,
                   flusher, fileVars>>

-----------------------------------------------------------------------------
Game == \E offset \in Cells, len \in 1 .. Size : RequestFlush(offset, len)
Stopping == Destroy \/ Join
FlushStep ==
    \/ Wake \/ ReadTime \/ CheckNeedsFlush \/ LockBuffer \/ OpenFile \/ FileWrite
    \/ RecordVersion

Next == Game \/ CheckFlush \/ Stop \/ Stopping \/ FlushStep \/ Tick

Spec == Init /\ [][Next]_vars

\* Frames go on or the emulator stops, the flush thread is scheduled and time passes.
\* The lock is the emulator thread's for one copy a frame, so the flush thread gets it.
FairSpec ==
    /\ Spec /\ WF_vars(Stopping) /\ WF_vars(FlushStep)
    /\ WF_vars(Tick) /\ SF_vars(LockBuffer) /\ SF_vars(CheckFlush)

-----------------------------------------------------------------------------
(* Properties.                                                             *)

Contents == [Cells -> 0 .. MaxWrites]
TypeOK ==
    /\ game \in Contents /\ writes \in 0 .. MaxWrites
    /\ buffer \in Contents \cup {Absent} /\ secondaryBuffer \in Contents \cup {Absent}
    /\ flushRequested \in BOOLEAN /\ running \in BOOLEAN
    /\ flushVersion \in Nat /\ previousFlushVersion \in Nat /\ lost \in Nat
    /\ age \in 0 .. Never /\ lock \in {"nobody", "flusher"}
    /\ emu \in {"frames", "stopping", "joining", "flushing", "closed"}
    /\ flusher \in {"asleep", "debounce", "needs flush", "lock", "open", "write",
                    "record", "gone"}
    /\ written \in 0 .. Size /\ file \in Contents
    /\ snapshots \in Seq(Contents)

\* The copy the manager keeps is the game's save memory, cell by cell, though each
\* request copies only the range written, which may run over the end.
BufferIsSaveMemory == buffer # Absent => buffer = game

\* "We keep versions in case the user closes the application before a flush cycle is
\* finished": once the emulator has stopped the file is the game's save memory,
\* wherever the flush thread was, unless the last write failed.
StopKeepsSave ==
    emu = "closed" => (written = Size /\ file = game) \/ lost = flushVersion

\* The file is only replaced by the latest snapshot, whole: the unlocked reads of the
\* flush thread may hurry a flush but not mix two frames, and a process killed at any
\* other time than while the file is written leaves one that can be read, if the last
\* write did not fail.
Promise == INSTANCE SaveFile
              WITH Unreadable <- Absent,
                   file <- IF written = Size THEN file ELSE Absent
ImplementsSaveFile == Promise!Spec

\* What the game wrote is on disk in the end, or something newer is, with no need to
\* stop: no flush is forgotten when requests and flushes cross.
SaveReachesDisk ==
    \A n \in 1 .. MaxWrites :
        (writes = n) ~> \/ written = Size /\ \E c \in Cells : file[c] >= n
                        \/ lost > 0
=============================================================================
