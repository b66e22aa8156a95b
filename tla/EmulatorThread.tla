--------------------------- MODULE EmulatorThread ---------------------------
(***************************************************************************)
(* The life cycle of the emulator thread: the native calls of              *)
(* MelonDSAndroidJNI.cpp that start, pause, resume, reset, rewind, step    *)
(* and stop it, and its loop.  The calls share plain flags, one mutex and  *)
(* one condition variable.  They come from                                 *)
(*   main     the UI thread, whose calls follow one another;               *)
(*   io       Dispatchers.IO, which loads a ROM and starts the emulator;   *)
(*   Workers  the coroutines that the UI thread launches for a reset, a    *)
(*            debug step or a state file: nothing keeps two of them apart. *)
(* A call is cut where it reads a flag without the mutex, waits, or takes  *)
(* or releases the mutex; a critical section with no wait is one step, but *)
(* for that of a pause or a resume, which may be entered without the mutex *)
(* and is cut at every access.                                             *)
(* The emulated console is "the core": whoever is at "core", and the       *)
(* emulator thread while it runs a frame or tears down, uses it.           *)
(***************************************************************************)
EXTENDS Naturals, FiniteSets

CONSTANTS
    Workers,                          \* coroutines on Dispatchers.Default
    MainCalls, WorkerCalls, IoCalls   \* the calls each thread may ever make

Threads == {"main", "io"} \cup Workers
Calls == [t \in Threads |-> CASE t = "main" -> MainCalls
                              [] t = "io" -> IoCalls
                              [] OTHER -> WorkerCalls]

ASSUME CallsAssumption ==
    /\ MainCalls \subseteq {"pause", "resume", "rewind", "stop"}
    /\ WorkerCalls \subseteq {"reset", "step", "state"}
    /\ IoCalls \subseteq {"start"}

ASSUME WorkersAssumption == {"main", "io", "nobody", "emulator"} \cap Workers = {}

VARIABLES
    started, stop, paused, frameStepRequested, isThreadReallyPaused,
    mutex,       \* who holds emuThreadMutex, or "nobody"
    destroyed,   \* emuThreadMutex has been destroyed
    aborted,     \* a destroyed mutex was locked: bionic aborts the process
    emu,         \* where the emulator thread is
    stepping,    \* its pauseAfterCurrentFrame
    audio,       \* the output stream has been started
    thread,      \* of each calling thread: where it is, in which call and helper
    load,        \* history: the calls each thread makes in this execution
    crossed,     \* history: two calls have been under way that must not be
    trespassed   \* history: a pause or resume was in its section without the mutex

flags == <<started, stop, paused, frameStepRequested>>
mutexState == <<mutex, destroyed, aborted>>
vars == <<started, stop, paused, frameStepRequested, isThreadReallyPaused, mutex,
          destroyed, aborted, emu, stepping, audio, thread>>
history == <<load, crossed, trespassed>>

EmuPlaces == {"none", "starting", "top", "waiting", "woken", "frame", "pausing",
              "muting", "stopping", "exited"}
Section == {"check", "clear", "write", "wake", "unlock"}
Places == Section \cup {"idle", "read", "lock", "audio", "await", "core", "release",
                        "flags", "create", "publish", "join", "cleanup"}

\* A user plays with the calls of the UI thread only, or does anything.
UiLoad == [t \in Threads |-> IF t \in Workers THEN {} ELSE Calls[t]]

Idle == [at |-> "idle", call |-> "none", helper |-> "none", wasPaused |-> FALSE]

Init ==
    /\ started = FALSE /\ stop = FALSE /\ paused = FALSE
    /\ frameStepRequested = FALSE /\ isThreadReallyPaused = FALSE
    /\ mutex = "nobody" /\ destroyed = FALSE /\ aborted = FALSE
    /\ emu = "none" /\ stepping = FALSE /\ audio = FALSE
    /\ thread = [t \in Threads |-> Idle]
    /\ load \in {UiLoad, Calls} /\ crossed = FALSE /\ trespassed = FALSE

At(t, place) == thread[t].at = place
In(t, call) == thread[t].call = call
Goto(t, place) == thread' = [thread EXCEPT ![t].at = place]
Return(t) == thread' = [thread EXCEPT ![t] = Idle]
Help(t, helper) ==
    thread' = [thread EXCEPT ![t].at = "read", ![t].helper = helper]

\* pthread_cond_broadcast: the emulator thread, if it waits, will look again.
Broadcast == emu' = IF emu = "waiting" THEN "woken" ELSE emu
LosingBroadcast == emu' = emu
Loading == At("io", "flags") \/ At("io", "create") \/ At("io", "publish")

\* The UI thread makes a call itself, or hands it to another thread and goes on.
\* A ROM is started when none runs; the other calls are offered to a game that
\* has been loaded, but the activity may be paused at any time.
Begin(t, call) ==
    /\ At("main", "idle") /\ At(t, "idle") /\ call \in load[t]
    /\ CASE call = "start" -> ~started
         [] call = "pause" -> TRUE
         [] call = "stop" -> ~Loading
         [] call = "state" -> started /\ paused /\ ~Loading
         [] OTHER -> started /\ ~Loading
    /\ thread' = [thread EXCEPT ![t].call = call,
                   ![t].at = IF call = "start" THEN "flags"
                             ELSE IF call = "state" THEN "core"
                             ELSE "read",
                   ![t].helper = IF call \in {"pause", "resume"} THEN call ELSE "none"]
    /\ UNCHANGED <<flags, isThreadReallyPaused, mutexState, emu, stepping, audio>>

-----------------------------------------------------------------------------
(* pauseEmulation and resumeEmulation, called from Kotlin or from the other  *)
(* calls; a helper that ends goes where its caller goes on.                  *)

CanLock == mutex = "nobody" /\ ~destroyed /\ ~aborted

\* Locking a destroyed mutex ends the process.
LockDestroyed(t) ==
    /\ destroyed /\ (At(t, "lock") \/ At(t, "release"))
    /\ aborted' = TRUE /\ Return(t)
    /\ UNCHANGED <<flags, isThreadReallyPaused, mutex, destroyed, emu, stepping, audio>>

ReadStarted(t) ==
    /\ At(t, "read")
    /\ \/ /\ started \/ In(t, "reset") \/ In(t, "rewind")
          /\ thread[t].helper = "none"
          /\ Goto(t, "lock")
       \/ /\ ~started /\ In(t, "step")
          /\ Return(t)
       \/ /\ ~started /\ In(t, "stop")
          /\ Goto(t, "cleanup")
       \/ /\ thread[t].helper # "none"
          /\ Goto(t, IF started THEN "lock" ELSE "check")
    /\ UNCHANGED <<flags, isThreadReallyPaused, mutexState, emu, stepping, audio>>

HelperLocks(t) ==
    /\ At(t, "lock") /\ thread[t].helper # "none" /\ CanLock
    /\ mutex' = t /\ Goto(t, "check")
    /\ UNCHANGED <<flags, isThreadReallyPaused, destroyed, aborted, emu, stepping, audio>>

HelperTests(t) ==
    /\ At(t, "check") /\ Goto(t, IF stop THEN "unlock" ELSE "clear")
    /\ UNCHANGED <<flags, isThreadReallyPaused, mutexState, emu, stepping, audio>>

HelperClears(t) ==
    /\ At(t, "clear") /\ Goto(t, "write") /\ frameStepRequested' = FALSE
    /\ UNCHANGED <<started, stop, paused, isThreadReallyPaused, mutexState, emu,
                   stepping, audio>>

HelperWrites(t) ==
    /\ At(t, "write") /\ paused' = (thread[t].helper = "pause")
    /\ Goto(t, IF thread[t].helper = "pause" THEN "unlock" ELSE "wake")
    /\ UNCHANGED <<started, stop, frameStepRequested, isThreadReallyPaused, mutexState,
                   emu, stepping, audio>>

HelperWakes(t) ==
    /\ At(t, "wake") /\ Goto(t, "unlock")
    /\ IF started THEN Broadcast ELSE UNCHANGED emu
    /\ UNCHANGED <<flags, isThreadReallyPaused, mutexState, stepping, audio>>

\* started is read again: it may not be what it was when the mutex was taken.  Then
\* the mutex stays locked, or one is unlocked that this thread does not hold, which
\* bionic lets it do.
HelperUnlocks(t) ==
    /\ At(t, "unlock") /\ Goto(t, "audio")
    /\ mutex' = IF started THEN "nobody" ELSE mutex
    /\ UNCHANGED <<flags, isThreadReallyPaused, destroyed, aborted, emu, stepping, audio>>

HelperReturnsSilent(t) ==
    /\ At(t, "audio")
    /\ audio' = (In(t, "resume"))
    /\ IF thread[t].helper = "pause" /\ ~In(t, "pause") THEN Goto(t, "await") ELSE Return(t)
    /\ UNCHANGED <<flags, isThreadReallyPaused, mutexState, emu, stepping>>

HelperReturns(t) ==
    /\ At(t, "audio")
    /\ audio' = (thread[t].helper = "resume")
    /\ IF thread[t].helper = "pause" /\ ~In(t, "pause") THEN Goto(t, "await") ELSE Return(t)
    /\ UNCHANGED <<flags, isThreadReallyPaused, mutexState, emu, stepping>>

-----------------------------------------------------------------------------
(* resetEmulation, loadRewindState and debugStepFrame.                       *)

Locks(t, call) == At(t, "lock") /\ thread[t].helper = "none" /\ In(t, call) /\ CanLock

\* The first critical section of a reset or a rewind only reads.
EnterCore(t) ==
    /\ Locks(t, "reset") \/ Locks(t, "rewind")
    /\ IF stop THEN Return(t)
       ELSE thread' = [thread EXCEPT ![t].wasPaused = paused,
                        ![t].at = IF paused THEN "await" ELSE "read",
                        ![t].helper = IF paused THEN "none" ELSE "pause"]
    /\ UNCHANGED <<flags, isThreadReallyPaused, mutexState, emu, stepping, audio>>

EnterStep(t) ==
    /\ Locks(t, "step")
    /\ IF stop THEN Return(t) /\ UNCHANGED <<frameStepRequested, paused>>
       ELSE /\ frameStepRequested' = FALSE /\ paused' = TRUE
            /\ thread' = [thread EXCEPT ![t].at = "audio", ![t].helper = "pause"]
    /\ UNCHANGED <<started, stop, isThreadReallyPaused, mutexState, emu, stepping, audio>>

NoAwait(t) ==
    /\ At(t, "await") /\ Goto(t, IF In(t, "step") THEN "release" ELSE "core")
    /\ UNCHANGED <<flags, isThreadReallyPaused, mutexState, emu, stepping, audio>>

\* The busy wait for the thread to be really paused; only the step gives up.
Await(t) ==
    /\ At(t, "await")
    /\ isThreadReallyPaused \/ (In(t, "step") /\ (~started \/ stop))
    /\ Goto(t, IF In(t, "step") THEN "release" ELSE "core")
    /\ UNCHANGED <<flags, isThreadReallyPaused, mutexState, emu, stepping, audio>>

LeaveCoreResuming(t) ==
    /\ At(t, "core")
    /\ IF In(t, "state") THEN Return(t) ELSE Help(t, "resume")
    /\ UNCHANGED <<flags, isThreadReallyPaused, mutexState, emu, stepping, audio>>

\* The core has been reset, rewound, saved or loaded.
LeaveCore(t) ==
    /\ At(t, "core")
    /\ IF In(t, "reset") \/ (In(t, "rewind") /\ ~thread[t].wasPaused)
       THEN Help(t, "resume") ELSE Return(t)
    /\ UNCHANGED <<flags, isThreadReallyPaused, mutexState, emu, stepping, audio>>

ReleaseStep(t) ==
    /\ At(t, "release") /\ CanLock
    /\ IF stop THEN UNCHANGED <<frameStepRequested, paused, emu>>
       ELSE frameStepRequested' = TRUE /\ paused' = FALSE /\ Broadcast
    /\ Return(t)
    /\ UNCHANGED <<started, stop, isThreadReallyPaused, mutexState, stepping, audio>>

-----------------------------------------------------------------------------
(* startEmulation and stopEmulation.                                         *)

StartFlags(t) ==
    /\ At(t, "flags") /\ Goto(t, "create")
    /\ stop' = FALSE /\ frameStepRequested' = FALSE /\ isThreadReallyPaused' = FALSE
    /\ paused' = TRUE
    /\ UNCHANGED <<started, mutexState, emu, stepping, audio>>

CreateThread(t) ==
    /\ At(t, "create") /\ Goto(t, "publish")
    /\ mutex' = "nobody" /\ destroyed' = FALSE /\ emu' = "starting"
    /\ UNCHANGED <<flags, isThreadReallyPaused, aborted, stepping, audio>>

PublishStarted(t) ==
    /\ At(t, "publish") /\ Return(t) /\ started' = TRUE
    /\ UNCHANGED <<stop, paused, frameStepRequested, isThreadReallyPaused, mutexState,
                   emu, stepping, audio>>

RequestStopUnheard(t) ==
    /\ Locks(t, "stop") /\ Goto(t, "join")
    /\ stop' = TRUE /\ paused' = FALSE /\ frameStepRequested' = FALSE /\ started' = FALSE
    /\ LosingBroadcast
    /\ UNCHANGED <<isThreadReallyPaused, mutexState, stepping, audio>>

RequestStop(t) ==
    /\ Locks(t, "stop") /\ Goto(t, "join")
    /\ stop' = TRUE /\ paused' = FALSE /\ frameStepRequested' = FALSE /\ started' = FALSE
    /\ Broadcast
    /\ UNCHANGED <<isThreadReallyPaused, mutexState, stepping, audio>>

\* pthread_mutex_destroy refuses a mutex that is held.
Join(t) ==
    /\ At(t, "join") /\ emu = "exited" /\ Goto(t, "cleanup")
    /\ destroyed' = (mutex = "nobody")
    /\ UNCHANGED <<flags, isThreadReallyPaused, mutex, aborted, emu, stepping, audio>>

Cleanup(t) ==
    /\ At(t, "cleanup") /\ Return(t) /\ audio' = FALSE
    /\ UNCHANGED <<flags, isThreadReallyPaused, mutexState, emu, stepping>>

-----------------------------------------------------------------------------
(* The emulator thread: MelonDSAndroid::start, then the loop of emulate.     *)

EmuStarts ==
    /\ emu = "starting" /\ emu' = "top" /\ audio' = TRUE
    /\ UNCHANGED <<flags, isThreadReallyPaused, mutexState, stepping, thread>>

\* What it does once it need not wait, in the critical section it is in.
Proceed ==
    IF stop THEN emu' = "stopping" /\ UNCHANGED <<stepping, frameStepRequested>>
    ELSE emu' = "frame" /\ stepping' = frameStepRequested /\ frameStepRequested' = FALSE

\* A thread that is paused and stopped does not wait, but sets the flag for a moment.
EmuLooks ==
    /\ emu = "top" /\ CanLock
    /\ IF paused
       THEN /\ isThreadReallyPaused' = TRUE /\ emu' = IF stop THEN "woken" ELSE "waiting"
            /\ UNCHANGED <<stepping, frameStepRequested>>
       ELSE Proceed /\ UNCHANGED isThreadReallyPaused
    /\ UNCHANGED <<started, stop, paused, mutexState, audio, thread>>

\* A condition variable may also wake up by itself.
EmuWakesSpuriously ==
    /\ emu = "waiting" /\ emu' = "woken"
    /\ UNCHANGED <<flags, isThreadReallyPaused, mutexState, stepping, audio, thread>>

EmuLooksAgainStillPaused ==
    /\ emu = "woken" /\ CanLock
    /\ IF paused /\ ~stop
       THEN emu' = "waiting" /\ UNCHANGED <<stepping, frameStepRequested>>
       ELSE Proceed
    /\ UNCHANGED <<started, stop, paused, mutexState, audio, thread, isThreadReallyPaused>>

EmuLooksAgain ==
    /\ emu = "woken" /\ CanLock
    /\ IF paused /\ ~stop
       THEN /\ emu' = "waiting"
            /\ UNCHANGED <<stepping, frameStepRequested, isThreadReallyPaused>>
       ELSE isThreadReallyPaused' = FALSE /\ Proceed
    /\ UNCHANGED <<started, stop, paused, mutexState, audio, thread>>

EmuEndsFrame ==
    /\ emu = "frame" /\ emu' = IF stepping THEN "pausing" ELSE "top"
    /\ UNCHANGED <<flags, isThreadReallyPaused, mutexState, stepping, audio, thread>>

EmuPausesRegardless ==
    /\ emu = "pausing" /\ CanLock /\ emu' = "muting" /\ paused' = TRUE
    /\ UNCHANGED <<started, stop, frameStepRequested, isThreadReallyPaused, mutexState,
                   stepping, audio, thread>>

EmuPausesAfterStep ==
    /\ emu = "pausing" /\ CanLock /\ emu' = "muting"
    /\ paused' = (paused \/ ~stop)
    /\ UNCHANGED <<started, stop, frameStepRequested, isThreadReallyPaused, mutexState,
                   stepping, audio, thread>>

EmuMutesAfterStep ==
    /\ emu = "muting" /\ emu' = "top" /\ audio' = FALSE
    /\ UNCHANGED <<flags, isThreadReallyPaused, mutexState, stepping, thread>>

EmuStops ==
    /\ emu = "stopping" /\ emu' = "exited"
    /\ UNCHANGED <<flags, isThreadReallyPaused, mutexState, stepping, audio, thread>>

CallStep(t) ==
    \/ ReadStarted(t) \/ HelperLocks(t) \/ HelperTests(t) \/ HelperClears(t)
    \/ HelperWrites(t) \/ HelperWakes(t) \/ HelperUnlocks(t) \/ HelperReturns(t)
    \/ EnterCore(t) \/ EnterStep(t) \/ Await(t) \/ LeaveCore(t)
    \/ ReleaseStep(t) \/ StartFlags(t) \/ CreateThread(t) \/ PublishStarted(t)
    \/ RequestStop(t) \/ Join(t) \/ Cleanup(t)

EmuStep ==
    \/ EmuStarts \/ EmuLooks \/ EmuLooksAgain \/ EmuEndsFrame
    \/ EmuPausesAfterStep \/ EmuMutesAfterStep \/ EmuStops

Next ==
    /\ ~aborted
    /\ \/ \E t \in Threads : CallStep(t) \/ LockDestroyed(t) \/ \E call \in Calls[t] : Begin(t, call)
       \/ EmuStep \/ EmuWakesSpuriously

\* Nothing keeps apart the calls that stop the emulator thread, set it going or wait
\* for it, and a state file is not kept from the frame under way.
Disturbs(t) == ~In(t, "none") /\ ~In(t, "pause") /\ ~In(t, "start")
Crossing ==
    \/ \E s, t \in Threads : s # t /\ Disturbs(s) /\ Disturbs(t)
    \/ \E t \in Threads : In(t, "state")

\* A pause that found no session goes on without the mutex when there is one.  From then
\* on the mutex keeps nothing apart: it may be unlocked inside any critical section.
Trespassing == started /\ \E t \in Threads : thread[t].at \in Section /\ mutex # t

Remember ==
    /\ UNCHANGED load
    /\ crossed' = (crossed \/ Crossing')
    /\ trespassed' = (trespassed \/ Trespassing')

Spec == Init /\ [][Next /\ Remember]_<<vars, history>>

-----------------------------------------------------------------------------
(* Properties.  Three of them hold until calls cross: not when a stop, a       *)
(* resume or another reset comes beside a reset, or a state is saved.        *)

\* The threads that use the emulated console.
CoreUsers ==
    {t \in Threads : At(t, "core")}
      \cup (IF emu \in {"starting", "frame", "stopping"} THEN {"emulator"} ELSE {})

\* Two threads never use the emulated console at once unless calls cross: a rewind or
\* a reset finds the emulator thread waiting, although what it looks at is a flag that
\* the emulator thread clears only when it wakes up.
CoreHasOneUser == ~crossed => Cardinality(CoreUsers) <= 1

\* "Make sure that the thread is really paused to avoid data corruption": while the
\* console is reset or rewound the emulator thread runs nothing.
ResetOnlyWhilePaused ==
    \A t \in Threads : At(t, "core") /\ (In(t, "reset") \/ In(t, "rewind")) => emu # "frame"

\* An emulator that runs, with no call under way, is heard: the audio stream and the
\* paused flag are changed one after the other, outside of any common lock.
RunningIsAudible ==
    load = UiLoad /\ (\A t \in Threads : At(t, "idle")) /\ started /\ ~paused
      /\ emu # "starting" => audio

\* A rewind gives the emulator back as it found it: paused if it was, running if not,
\* also after a step or a reset, unless calls cross.
RewindRestoresPause ==
    [][\A t \in Threads : ~crossed' /\ In(t, "rewind") /\ At(t, "idle")'
                           => paused = thread[t].wasPaused]_vars

\* A stop is never taken back: whatever calls cross, nothing pauses the thread or asks
\* it for a frame once it has been told to end, unless a pause that found no session has
\* gone on into one without the mutex: it tests stop, and writes paused after the stop.
StopWins == stop /\ ~trespassed => ~paused /\ ~frameStepRequested

\* What the busy waits of a reset and a rewind rely on: the flag says that the thread
\* waits, also while it wakes up and in a session that follows another.
ReallyPausedMeansWaiting == isThreadReallyPaused <=> emu \in {"waiting", "woken"}

\* No call waits for ever, and none finds its mutex destroyed, until calls cross (the
\* busy wait of a second reset misses the pause that the first one ends) or a section
\* has lost its mutex.  Whoever holds the mutex is about to release it; a reset, a rewind
\* or a step waits for an emulator thread that is paused and on its way to wait; and a
\* stop joins one that has heard it.
EveryWaitIsAnswered ==
    ~crossed /\ ~trespassed =>
        /\ ~aborted
        /\ mutex # "nobody" => thread[mutex].at \in Section
        /\ \A t \in Threads : At(t, "await") =>
               \/ isThreadReallyPaused
               \/ paused /\ emu \in {"starting", "top", "frame", "pausing", "muting"}
        /\ \A t \in Threads : At(t, "join") => stop /\ emu \notin {"none", "waiting"}

=============================================================================
