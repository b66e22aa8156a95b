--------------------------- MODULE RewindManager ---------------------------
(***************************************************************************)
(* The window of states a player can rewind to (RewindManager.cpp, and     *)
(* what MelonInstance.cpp, the JNI and the view model do with it).  The    *)
(* emulator thread captures a state every interval frames into a window of *)
(* buffers, newest first, and reuses the oldest buffer once the window is  *)
(* full.  The list the player picks from does not copy the states: its     *)
(* entries point into the buffers.  It is opened with a pause that does    *)
(* not wait for the frame under way, and picking waits for it.             *)
(*                                                                         *)
(* A state of the console is the number of the frame that led to it, of    *)
(* all frames run since the game was loaded; a state loaded from a slot    *)
(* touches neither the window nor the frame counter and is left out.       *)
(* Settings change and the game is reset while the emulator is paused      *)
(* between frames and no list is open.                                     *)
(***************************************************************************)
EXTENDS Naturals, Sequences, FiniteSets, FiniteSetsExt

CONSTANTS
    Intervals,      \* frames between two captures: what the player may set
    WindowSizes,    \* states that fit a length and an interval the player may set
    MaxSize,        \* no more than this many
    MaxFrames,      \* bound of the model: frames run
    MayFail         \* whether a capture may fail

ASSUME IntervalsAssumption == Intervals # {} /\ Intervals \subseteq Nat \ {0}
ASSUME SizesAssumption ==
    MaxSize \in Nat /\ WindowSizes # {} /\ WindowSizes \subseteq 0 .. MaxSize
ASSUME BoundAssumption == MaxFrames \in Nat /\ MayFail \in BOOLEAN

Buffers == 1 .. MaxSize + 1

\* What a buffer holds: a state of the console, nothing yet, or what a capture that
\* failed half way has left.
Nothing == MaxFrames + 1
Torn == MaxFrames + 2
States == 0 .. MaxFrames
Contents == States \cup {Nothing, Torn}

VARIABLES
    enabled, size, interval,    \* the settings: RewindWindowSize() is size
    frame,              \* MelonInstance::frame
    console,            \* the state the console is in
    running,            \* a frame is under way
    paused,
    window,             \* RewindWindow: a buffer and a frame each
    allocated,          \* the buffers that have been allocated and not deleted
    memory,             \* what each buffer holds
    open, listed,       \* the list on the screen, of RewindSaveStates
    failed,             \* history: buffers whose last capture failed
    played,             \* history: frames run since the game was loaded
    timeline,           \* history: the state each frame led to, as rewinds rewrite it
    since               \* history: the interval is that of every frame after this one

settings == <<enabled, size, interval>>
buffers == <<window, allocated, memory>>
list == <<open, listed>>
history == <<failed, played, timeline, since>>
vars == <<settings, frame, console, running, paused, buffers, list, history>>

Init ==
    /\ enabled \in BOOLEAN /\ size \in WindowSizes /\ interval \in Intervals
    /\ frame = 0 /\ console = 0 /\ running = FALSE /\ paused = FALSE
    /\ window = <<>> /\ allocated = {} /\ memory = [b \in Buffers |-> Nothing]
    /\ open = FALSE /\ listed = <<>>
    /\ failed = {} /\ played = 0 /\ timeline = [f \in States |-> 0]
    /\ since = 0

-----------------------------------------------------------------------------
(* The window.                                                             *)

BuffersOf(entries) == {entries[i].buffer : i \in DOMAIN entries}

ShouldCaptureState(currentFrame) ==
    enabled /\ size # 0 /\ currentFrame % interval = 0

New(currentFrame) == [buffer |-> Min(Buffers \ allocated), frame |-> currentFrame]
Reused(entry, currentFrame) == [entry EXCEPT !.frame = currentFrame]
AllButLast(entries) == SubSeq(entries, 1, Len(entries) - 1)

\* Faulty variants: a reused state keeps its frame, the newest is reused.
GetNextKeepingFrame(currentFrame) ==
    IF Len(window) < size
    THEN /\ window' = <<New(currentFrame)>> \o window
         /\ allocated' = allocated \cup {window'[1].buffer}
    ELSE /\ window' = <<window[Len(window)]>> \o AllButLast(window)
         /\ UNCHANGED allocated
GetNextReusingNewest(currentFrame) ==
    IF Len(window) < size
    THEN /\ window' = <<New(currentFrame)>> \o window
         /\ allocated' = allocated \cup {window'[1].buffer}
    ELSE /\ window' = <<Reused(window[1], currentFrame)>> \o Tail(window)
         /\ UNCHANGED allocated

\* A new buffer while the window is not full, and the oldest one then; it comes first.
GetNextRewindSaveState(currentFrame) ==
    IF Len(window) < size
    THEN /\ window' = <<New(currentFrame)>> \o window
         /\ allocated' = allocated \cup {window'[1].buffer}
    ELSE /\ window' = <<Reused(window[Len(window)], currentFrame)>> \o AllButLast(window)
         /\ UNCHANGED allocated

\* A capture that fails leaves the entry with its new frame and, in a buffer in use,
\* what the buffer held or a part of the new state.
SaveRewindState(buffer, fresh) ==
    \/ /\ memory' = [memory EXCEPT ![buffer] = played']
       /\ failed' = failed \ {buffer}
    \/ /\ MayFail
       /\ \E content \in IF fresh THEN {Nothing} ELSE {memory[buffer], Torn} :
              memory' = [memory EXCEPT ![buffer] = content]
       /\ failed' = failed \cup {buffer}

\* The states from the front whose frame lies ahead of the one rewound to.
Ahead(f) == {i \in DOMAIN window : \A j \in 1 .. i : window[j].frame > f}

\* Faulty variant: the buffers are not deleted.
OnRewindLeaking(f) ==
    /\ window' = SubSeq(window, Cardinality(Ahead(f)) + 1, Len(window))
    /\ UNCHANGED allocated

OnRewindFromState(f) ==
    /\ window' = SubSeq(window, Cardinality(Ahead(f)) + 1, Len(window))
    /\ allocated' = allocated \ {window[i].buffer : i \in Ahead(f)}

\* Faulty variant: the newest states go.
TrimNewest(newSize) ==
    LET gone == IF Len(window) > newSize THEN Len(window) - newSize ELSE 0 IN
    /\ window' = SubSeq(window, gone + 1, Len(window))
    /\ allocated' = allocated \ BuffersOf(SubSeq(window, 1, gone))

Trim(newSize) ==
    /\ window' = SubSeq(window, 1, Min({Len(window), newSize}))
    /\ allocated' = allocated \ BuffersOf(SubSeq(window, newSize + 1, Len(window)))

Reset == window' = <<>> /\ allocated' = allocated \ BuffersOf(window)

-----------------------------------------------------------------------------
(* The emulator thread.                                                    *)

StartFrame ==
    /\ ~running /\ ~paused /\ played < MaxFrames
    /\ running' = TRUE
    /\ UNCHANGED <<settings, frame, console, paused, buffers, list, history>>

\* The frame ends and the state it led to is captured, also after a pause.
EndFrame ==
    /\ running /\ running' = FALSE
    /\ played' = played + 1 /\ console' = played + 1 /\ frame' = frame + 1
    /\ timeline' = [timeline EXCEPT ![frame + 1] = played + 1]
    /\ IF ShouldCaptureState(frame + 1)
       THEN /\ GetNextRewindSaveState(frame + 1)
            /\ SaveRewindState(window'[1].buffer, Len(window) < size)
       ELSE UNCHANGED <<buffers, failed>>
    /\ UNCHANGED <<settings, paused, list, since>>

-----------------------------------------------------------------------------
(* The player.                                                             *)

Pause ==
    /\ ~paused /\ paused' = TRUE
    /\ UNCHANGED <<settings, frame, console, running, buffers, list, history>>

Resume ==
    /\ paused /\ ~open /\ paused' = FALSE
    /\ UNCHANGED <<settings, frame, console, running, buffers, list, history>>

\* getRewindWindow follows the pause at once.  What a buffer holds now is what the
\* list shows of it.
OpenRewind ==
    /\ ~open /\ enabled
    /\ open' = TRUE /\ paused' = TRUE
    /\ listed' = [i \in DOMAIN window |->
                    [buffer |-> window[i].buffer, frame |-> window[i].frame,
                     shown |-> memory[window[i].buffer]]]
    /\ UNCHANGED <<settings, frame, console, running, buffers, history>>

\* A pick closes the list and resumes.  The load may be denied, or fail, in which
\* case the backup is restored; a state of no content cannot be loaded.
CloseRewind ==
    /\ open /\ ~running
    /\ open' = FALSE /\ listed' = <<>> /\ paused' = FALSE
    /\ UNCHANGED <<settings, frame, console, running, buffers, history>>

RewindToState(entry) ==
    /\ open /\ ~running /\ entry.shown # Nothing
    /\ console' = memory[entry.buffer] /\ frame' = entry.frame
    /\ OnRewindFromState(entry.frame)
    /\ since' = Min({since, entry.frame})
    /\ open' = FALSE /\ listed' = <<>> /\ paused' = FALSE
    /\ UNCHANGED <<settings, running, memory, failed, played, timeline>>

UpdateRewindSettings(newEnabled, newSize, newInterval) ==
    /\ paused /\ ~running /\ ~open
    /\ enabled' = newEnabled /\ size' = newSize /\ interval' = newInterval
    /\ since' = IF newInterval = interval THEN since ELSE frame
    /\ IF enabled /\ ~newEnabled THEN Reset
       ELSE IF enabled THEN Trim(newSize)
       ELSE UNCHANGED <<window, allocated>>
    /\ UNCHANGED <<frame, console, running, paused, memory, list, failed, played, timeline>>

\* The console starts anew, the frame counter does not.
ResetGame ==
    /\ paused /\ ~running /\ ~open
    /\ console' = 0 /\ paused' = FALSE
    /\ Reset
    /\ UNCHANGED <<settings, frame, running, memory, list, history>>

-----------------------------------------------------------------------------
EmulatorThread == StartFrame \/ EndFrame
Pick == \E i \in DOMAIN listed : RewindToState(listed[i])
ChangeSettings ==
    \E e \in BOOLEAN, s \in WindowSizes, p \in Intervals : UpdateRewindSettings(e, s, p)
Next ==
    \/ EmulatorThread \/ Pause \/ Resume \/ OpenRewind \/ CloseRewind \/ Pick
    \/ ChangeSettings \/ ResetGame

Spec == Init /\ [][Next]_vars

-----------------------------------------------------------------------------
(* Properties.                                                             *)

Entry == [buffer : Buffers, frame : 1 .. MaxFrames]
TypeOK ==
    /\ enabled \in BOOLEAN /\ size \in WindowSizes /\ interval \in Intervals
    /\ since \in 0 .. frame
    /\ frame \in 0 .. played /\ played \in States /\ console \in States \cup {Torn}
    /\ running \in BOOLEAN /\ paused \in BOOLEAN /\ open \in BOOLEAN
    /\ window \in Seq(Entry) /\ Len(window) <= size
    /\ allocated \subseteq Buffers /\ memory \in [Buffers -> Contents]
    /\ failed \subseteq Buffers /\ timeline \in [States -> States]

\* What can be rewound to is the past and nothing else: after any number of rewinds
\* the window holds no state of a future that was given up, and each state is the one
\* its frame led to, unless its capture failed.
WindowIsThePast ==
    \A i \in DOMAIN window :
        /\ window[i].frame <= frame
        /\ \/ memory[window[i].buffer] = timeline[window[i].frame]
           \/ window[i].buffer \in failed

\* The states are an interval apart, newest first, and the newest is not older than
\* that, whatever was rewound, resized, disabled or reset: since the oldest state there
\* has always been one to go back to.  A new interval counts from the change on, and
\* the states of before the change stay where they are.
LaterOf(f, g) == IF f > g THEN f ELSE g
WindowHasNoGap ==
    /\ \A i \in 1 .. Len(window) - 1 :
          LET newer == window[i].frame
              older == window[i + 1].frame
          IN /\ newer > older
             /\ older > since => newer = older + interval
             /\ newer > since => newer <= LaterOf(older, since) + interval
    /\ window # <<>> => frame - LaterOf(window[1].frame, since) < interval

\* The window owns its buffers: each state has one of its own, none is kept that no
\* state uses and none deleted that one does.
BuffersAreOwned ==
    /\ allocated = BuffersOf(window)
    /\ Cardinality(allocated) = Len(window)

\* The list stays true while it is open: a pick loads what was listed, unless the
\* frame under way at the pause captured a state after the list was made and took the
\* buffer of the oldest.
ListStaysTrue ==
    \A i \in DOMAIN listed :
        /\ listed[i].buffer \in allocated
        /\ \/ memory[listed[i].buffer] = listed[i].shown
           \/ i = Len(listed) /\ i = size /\ window[1].frame > listed[1].frame
=============================================================================
