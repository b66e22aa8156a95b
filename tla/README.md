# ThorDS in TLA+

ThorDS is an Android front end for the melonDS emulator core. The core itself is a
git submodule (`app/src/main/cpp/melonDS`, not in the tree); what this repository
owns is everything around it: the frame pipeline between the emulated console and two
screens, the emulator thread and its life cycle, saves and rewind, RetroAchievements
with an offline ledger, and the Android application. The project beside this file
models the parts whose correctness depends on the *order* in which threads,
calls and crashes happen.

Paths below are relative to the repository; `cpp/` stands for `app/src/main/cpp/` and
`kt/` for `app/src/main/java/me/magnum/melonds/`.

## 1. Inventory

| Component | State | Operations | Interacts with | What is hard |
|---|---|---|---|---|
| **Frame queue** `cpp/renderer/FrameQueue.cpp` | pool of frames, `freeFrames`, `presentQueue`, `previousFrame`, `presentCandidate`, resync flags | get/recycle/discard/push a render frame; get/commit/defer a candidate; resync; fast-forward transition; clear | renderer (emulator thread), presenter, resyncs from both | a frame has one owner through all interleavings; the pool runs dry; policies of different renderers |
| **Presentation** `cpp/MelonInstance.cpp`, `cpp/renderer/VulkanOutput.cpp`, `VulkanSurfacePresenter.cpp` | render frame in hand, candidate in hand, GPU submissions, surfaces | `runFrame`, `presentVulkanFrame`, `requestVulkanPresentationResync`, fast-forward switches | frame queue, GPU, surfaces | retries and fallbacks against a deadline, eight ways out of one loop, a resync in the middle |
| **Surface coordinator** `kt/ui/emulator/render/VulkanFrameRenderCoordinator.kt` | managed surfaces, native ids, generations, pending configuration | surface callbacks, presentation updates, asynchronous background decoding, attach/detach | UI thread, present thread, native presenter | stale attachments and configurations overtaken by newer ones |
| **OpenGL coordinator** `kt/ui/emulator/render/OpenGlFrameRenderCoordinator.kt` | surfaces, GL thread | add, remove, present | frame queue | as above |
| **Emulator thread** `cpp/MelonDSAndroidJNI.cpp` | `started`, `paused`, `stop`, `isThreadReallyPaused`, `stepFrame`, one mutex and condition | start, pause, resume, reset, step, load rewind state, stop; the loop | UI thread, background workers, emulator thread | flags read without the lock; waits that nobody ends |
| **Message queue** `kt/impl/emulator/EmulatorMessageQueue.kt`, `cpp/EmulatorMessageQueueJNI.cpp` | a pipe, framed messages | enqueue, read, stop | emulator thread, collector coroutine | framing, order, shutdown |
| **Session and manager** `kt/impl/emulator/EmulatorSession.kt`, `AndroidEmulatorManager.kt` | session kind, state, running ROM | load, pause, reset, stop, update configuration | view model, JNI | a session replaced while calls of the old one are under way |
| **Save manager** `cpp/SaveManager.cpp` | save buffer, secondary buffer, flush versions | request flush, check flush, background flush, destroy | emulator thread, flush thread, disk | a save newer than the one on disk when the application goes away; a file that will not open |
| **Rewind manager** `cpp/RewindManager.cpp` | ring of rewind states | capture, list, rewind, change settings | emulator thread, UI | reuse of a slot, states of a discarded future |
| **Offline ledger** `kt/impl/retroachievements/offline/OfflineLedgerRepository.kt`, `AndroidEncryptedFileStore.kt` | hash chain of records in one encrypted file | append session, unlock, acknowledgement; reset; discard; verify | view model, sync engine, disk | crash in the middle of a write; records acknowledged twice or never |
| **Smart sync** `kt/impl/retroachievements/offline/SmartSyncEngine.kt` | a snapshot of the pending unlocks | sync, retry, acknowledge | ledger, server | two syncs at once; a crash between award and acknowledgement |
| **RA pending submissions** `kt/ui/emulator/component/*.kt` | hardcore queue, pending leaderboard attempts, modal | submit, retry, log out, resume | server, native client, UI | retries of what was done, log-out during a submission |
| **RA native client** `cpp/retroachievements/RetroAchievementsManager.cpp` | rcheevos client, pending requests | load, frame, award, reset, unload | emulator thread, HTTP threads | callbacks after unload |
| **Enhancement profiles** `kt/domain/model/enhancement/` | none: pure rules | resolve a profile | settings | precedence |
| **Everything else** | file synchronisation (`DldiFolderSyncManager`), settings backup, ROM library, cheats, camera, audio, input, layout editor, migrations | | | mostly I/O and user interface |

What makes each of these correct:

- *Frame queue*: a frame is in one place at a time; no frame leaves the pool; a backlog
  is bounded; the renderer always finds a frame; a resync leaves nothing from
  before it to be shown.
- *Presentation*: every candidate taken is committed, deferred or given back on every way out of
  the call; pictures appear in order; a frame is not rendered into while it is
  shown; a frame taken is eventually shown or superseded.
- *Surface coordinator*: an attached native surface belongs to a live window; the last configuration
  requested is the one applied; nothing presents to a destroyed window.
- *Emulator thread*: a reset or a rewind happens while the thread is really paused; a
  stop always ends; a stopped emulator is never resumed; the mutex is unlocked
  by whoever locked it.
- *Message queue*: messages arrive whole and in order, none after `stop`.
- *Save manager*: the file ends up with the last save; a shorter buffer never overwrites a
  newer one.
- *Rewind manager*: states are listed newest first, the window is respected, and
  after a rewind no state of the discarded future remains.
- *Offline ledger*: the chain stays verifiable through appends and crashes; every unlock is
  pending until it is acknowledged and is acknowledged only for a reason.
- *Smart sync*: an unlock is awarded or skipped, never both lost and acknowledged.

## 2. Plan

Done, in order of importance:

1. `FrameQueue` (+ `FrameQueuePolicies`, `FrameOwnership`): the queue alone under every
   order of calls, for every policy. `FrameQueueProofs` proves its
   invariants, and that it implements `FrameOwnership`.
2. `VulkanPresentation`: the queue with the emulator thread, the presentation thread, the
   GPU and fast-forward. `VulkanPresentationProofs` proves that it implements `FrameQueue`, so that the
   theorems about the queue carry over, and all its own safety properties.
3. `EmulatorThread`: the life cycle of the emulator thread, with any number of workers.
   `EmulatorThreadProofs` proves all its safety properties that hold.
4. `OfflineLedger`: the ledger, its file and two syncs. `OfflineLedgerProofs` proves what it promises.
5. `SaveManager` (+ `SaveFile`): how save memory reaches its file.
   `SaveManagerProofs` proves that it implements `SaveFile`, and what a stop leaves on disk.
6. `RewindManager`: the window of states, its settings and the list the player picks from.
   `RewindManagerProofs` proves all its invariants.
7. `SurfaceCoordinator`: a view's surfaces and presentations, on two threads.
   `SurfaceCoordinatorProofs` proves all its invariants.
8. `LeaderboardRuntime`, `LeaderboardCoordinator`, composed by `LeaderboardSubmissions`:
   attempts at leaderboards and scores that wait for the server, from the native client to
   what the player is told. `LeaderboardSubmissionsInvariant` states the inductive invariant,
   `LeaderboardSubmissionsProofs` proves all its safety properties.

Next, in this order:

9. `MessageQueue`: a bounded pipe, senders that hold the mutex, the shutdown.
   `LeaderboardSubmissions` takes the pipe as a queue that keeps the order.
10. `HardcoreUnlocks`: the queue of hardcore unlocks, the log-out during a drain, the leases of
    the account.
11. `EnhancementProfiles`: the resolver as functions, against a reference definition.
12. `OpenGlPresentation`: the presenter of the other two renderers on `FrameQueue`.
13. `Session`: a session replaced while calls of the old one are under way.

## 3. The modules

Every variable keeps the source's name where it stands for one. `PROJECT.json` maps each
definition to the lines it models. A definition that a comment calls a *faulty variant*,
or that stands before the one it resembles (`NoAwait` before `Await`), is not part of the
specification: it is the mutation that shows that a property can fail.

### 3.1 FrameQueue, FrameQueuePolicies, FrameOwnership

`FrameQueue.cpp` locks `frameLock` for the whole body of each method, so one call is one
action: `GetRenderFrame`, `RecycleRenderFrame`, `DiscardRenderedFrame`,
`PushRenderedFrame` for the emulator thread; `GetPresentFrame`, `GetPresentCandidate`,
`CommitPresentedFrame`, `DeferPresentedFrame` for the presenter;
`RequestPresentationResync`, `RequestFastForwardPresentationTransition` and `Clear` for
anyone. `presentQueue` keeps the newest frame in front, as the code does. Frames are numbers;
`acquiredAt` records, per frame, the number it got when it was last handed out, which is how
later modules tell an older picture from a newer one. The pointers the two callers hold are
`renderFrame` and `pendingPresentFrame`; a caller cannot pass a frame it does not hold,
except to commit and defer, which the code guards against (and so does the model).

`FrameQueuePolicies` is the set of policies `MelonInstance.cpp` builds, with
`constrainGraphicsHardwareFrameQueuePolicy`. `FrameOwnership` is the abstract promise:
each frame has one owner out of free, rendering, queued, pending and shown, and moves as the
two clients may expect. `MCFrameQueue` gives the policies TLC uses, those of the Vulkan renderer. The legacy policy of the
other two renderers lets a renderer take a queued frame back at any time, as fast-forward does in `VulkanRealtime`; the legacy
policy itself is in no run, and only the proofs, which hold for any policies, cover it.

### 3.2 VulkanPresentation

The emulator thread's `runFrame` is three steps (choose a policy, acquire, push or discard), because
fast-forward may be switched in between and the policy chosen first is used to the end.
`presentVulkanFrame` is a program counter (`idle, plan, choose, fallback, examine, show,
commit`) with its locals in `call`; each step makes at most one call of the queue or the GPU.
The GPU finishes submissions in their order. `SetFastForwardEnabled` and
`FinishDisable` are the UI thread's switch, which clears the queue after it has changed the
flag. Resyncs come from the presenter (between two frames, which is where `presenter` calls
it) or, as `"other"`, from any thread at any time. The module's queue is `Queue ==
INSTANCE FrameQueue`, and `ImplementsFrameQueue == Queue!Spec` says that the two threads
use it within its specification.

### 3.3 EmulatorThread

The calls of `MelonDSAndroidJNI.cpp` and the loop `emulate`. The UI thread (`main`) makes its calls one after the
other, and loading a ROM (`io`) starts the emulator. A reset, a debug step and a state file are coroutines that the UI thread
launches (`EmulatorViewModel.kt:1796-1811`) and that move to a thread of `Dispatchers.Default` (`AndroidEmulatorManager.kt:552-558`) or
`Dispatchers.IO`; nothing keeps two of them apart, so each is one of `Workers`, of which there may be any number. `Begin` says which
call may be made when, from the view model and `AndroidEmulatorManager`.

A call is cut where it reads a flag without the mutex, waits, or takes or releases the mutex. A critical
section with no wait is one step, with one exception: `pauseEmulation` and `resumeEmulation` take the mutex only if they
find `started` set, and go on without it otherwise, so theirs is cut at every access (`HelperTests`, `HelperClears`,
`HelperWrites`, `HelperWakes`, `HelperUnlocks`). `thread[t]` says where each calling thread is, in which
call, in which helper (the two are called from Kotlin and by the other calls) and what it read of `paused`. `emu` is the place
of the emulator thread. The mutex itself is modelled, because the helpers read `started` once to decide
whether to lock and once more to decide whether to unlock, and because `stopEmulation` destroys it.

Three history variables say what the properties except. `load` is which calls each thread makes in this
execution: all, or those of a player (`UiLoad`), who makes no use of resets and debug steps. `crossed`: two calls that stop the emulator
thread, set it going or wait for it (resume, rewind, stop, reset, step) have been under way together, or a state file has, which does not
wait for the frame under way. `trespassed`: a pause or resume that found no session has gone on, without the
mutex, into one. From then on the mutex keeps nothing apart, as that helper may unlock what another thread has locked; the
critical sections of the other calls stay one step each, so what such an unlock lets in between their accesses is
not modelled, nor is a section that is overtaken by the destruction of its mutex.

### 3.4 OfflineLedger

One user, one game. The repository's `mutex` is held for each read and each append; an
append is `AppendBegins` (read and verify) and then the steps of `writeAtomically`: delete the
old file, rename the temporary one, or copy it if the rename fails. The sequence number
of a record is its position. The emulator screen (`game`, `handlers`) opens sessions
and appends unlocks from coroutines in any order; a sync (`launch` at the
start of a game, `details` from the details screen) plans from one reading, awards,
retries and acknowledges, one append per unlock. `Faults` selects what may go wrong.
`settled` is what the server has credited, or a sync has skipped for good (the achievement has
gone, or has changed since). `Plans` is every order the planner's comparators allow: unlocks that they do
not tell apart may come in either. `Handlers` is what a coroutine may have to append.

### 3.5 SaveManager, SaveFile

The emulator thread's calls (`RequestFlush` when the game writes, `CheckFlush` at the end of a frame,
`Stop`, `Destroy`, `Join`) and the loop of the flush thread, cut where it reads a member
without `SecondaryBufferLock`: `ReadTime`, `CheckNeedsFlush`, `LockBuffer`, `OpenFile`,
`FileWrite`, `RecordVersion`, after each of which the emulator thread may run. The destructor
ends the thread, joins it and then flushes itself, with the same steps (`flusher` walks them for
both). A write of the game is a range of cells that may run over the end of the save; what
`RequestFlush` copies of it (`Copied`) is compared with what the game wrote. `FileWrite` writes cell by cell, so that the file
may be short. `SaveFile` is the promise: the file is only ever emptied or replaced by the latest
snapshot; a kill at any moment leaves what `file` then is.

### 3.6 RewindManager

`EndFrame` runs the whole of what `runFrame` does at the end of a frame: it counts the frame and, if one is due,
takes a buffer (`GetNextRewindSaveState`) and captures into it (`SaveRewindState`), which may
fail. `OpenRewind` is the view model's pause together with `getRewindWindow`, which does not wait
for the frame under way; the entries of `listed` point into the buffers and remember in
`shown` what they held. `RewindToState` waits for the thread, loads, and drops the states ahead
(`OnRewindFromState`). `timeline` says which state each frame led to, with
rewinds rewriting it: it is what "past" means in `WindowIsThePast`. Buffers are
allocated and deleted one by one (`allocated`), so a leak shows. A change of settings
(`UpdateRewindSettings`) changes the interval as well as the length; `since` remembers the frame at which it last did, as the gap
across it depends on both intervals (`WindowHasNoGap`).

### 3.7 SurfaceCoordinator

One view of `VulkanFrameRenderCoordinator.kt`: the UI thread (`AddSurface`, `RemoveSurface`, the callbacks of
the window, `updateSurfacePresentation`, `stop`) and the render thread, which takes
`attach`, `detach`, `configure` and `stop` messages from `queue` one at a time. The attach is cut where it leaves
`surfacesLock` (request, native attach, publication, refresh, which copies the
presentation and writes it back in another section). Backgrounds are decoded in any order (`decoding`), so
presentations overtake each other; `generation` tells them apart. `raced` collects the
races that have occurred; the properties name those they except (section 6).

### 3.8 LeaderboardRuntime, LeaderboardCoordinator, LeaderboardSubmissions

`LeaderboardRuntime` is `RetroAchievementsManager.cpp` around the calls and callbacks of rc_client: as everything runs
under the runtime lock, each operation is an operator from the state of the manager to the next, with
the events it sends in `out`. `LeaderboardCoordinator` is the pure reducer
`LeaderboardAttemptCoordinator.kt`. `LeaderboardSubmissions` composes them with the pipe of
events, the mirror of waiting scores (`PendingRaSubmissionStore`), its synchronisation, the
dialog of a player who leaves, resets and sessions. A frame is one action, and at most one leaderboard changes in it. The
operators come from the handlers: `Submitted` covers the submission, the first answer and the retry the
client makes at once; `RetryEntry` a retry, whether scheduled or asked for; `Discard` the
all-or-nothing discard of an exit. Three loops of the code are stated by what they add up to. `MarkReady` marks every
submission of its attempt and tells of those that were not told of, in some order: the code goes through a hash map.
`PublishTrackers` compares what is tracked with what is shown, of which a frame changes one. `Refresh` tells of
every submission again in the order in which the code sorts them (`Precedes`). An address of callback data (`Tokens`) is reused once it is
free, as the manager uses addresses as keys.

`muddled` and `resets.crossed` are history: they record that two attempts have been mixed up, or that a wait
for a barrier may be ended by another reset's. Every way for that to happen is named (`SharesAttempt`,
`StraysFrom`, `Orphaned`, crossed resets), and `Sound` ends a behaviour
there: the properties say what holds before, and section 6 what goes wrong in them.

`LeaveGame` and `ResetEmulator` exclude each other, which `requestExitRom` (`EmulatorViewModel.kt:1869-1882`) and
`resetEmulator` (`:1802-1811`) do not. A reset that is under way when the exit pauses the emulator ends with a resume
(`MelonDSAndroidJNI.cpp:2185`), which undoes that pause, so that not one more frame runs beside the exit but any number. Each of them would set
`exit.late`, as the one frame of the model does, and `LeavesNothingUntold` excepts a late frame because it may submit a score
after the question was asked. The guards keep the instance within minutes. Without them, and with any number of frames after such a reset, TLC finds the same
properties to hold in the same instance (1.5 million states).

## 4. The runs

| Run | Instance | States | Shows |
|---|---|---|---|
| `FrameQueueVulkan` | 5 frames, 6 acquisitions, the Vulkan policies | 15 thousand | one owner per frame, changed as `FrameOwnership` allows, none lost, backlog bounded, the renderer always finds a frame, nothing from before a resync is reused |
| `VulkanTemporal` | 3 frames, 4 acquisitions, temporal history comes and goes, surfaces too | 990 thousand | the threads implement `FrameQueue`; no candidate stays pinned, no frame is rendered into while it is shown, none crosses a resync of the presenter |
| `VulkanRealtime` | 3 frames, 4 acquisitions, no temporal history, fast-forward switched between presentations, with fairness | 656 thousand | the picture never goes back; a candidate is shown, or a later one; a renderer in fast-forward finds a frame to take back when the pool is dry |
| `VulkanResyncRace` | resyncs of another thread | | *violation*, finding 1 |
| `EmulatorOverlaps` | two workers with resets, steps and state files beside everything else | 2.7 million (up to symmetry) | one user of the console until calls cross; a stop is never taken back unless a pause has lost its mutex; the flag busy waits read is right; until calls cross, a rewind leaves `paused` as it was and every wait has an answer on its way; a player's emulator that runs is heard |
| `EmulatorResumedReset` | pause, resume, reset, start | | *violation*, finding 2 |
| `OfflineLedgerSync` | 2 achievements, 2 sessions, 2 attempts, every fault | 1.4 million | no single unlock is lost or acknowledged unsettled; order within a session; old hardcore unlocks are left alone |
| `OfflineLedgerKilled` | the same, only kills | | *violation*, finding 3 |
| `SaveManager` | 2 cells, 3 writes, failures, with fairness | 57 thousand | the file only becomes the latest snapshot (`SaveFile`); a stop leaves the save on disk; so does time |
| `RewindManager` | intervals 2 and 3, lengths 0, 2 and 3, changed at will, 8 frames, failures | 2.7 million | the window is the past, without gaps, owns its buffers; the list stays true but for one case |
| `SurfaceCoordinator` | 3 events of the UI thread, failing attaches | 3.5 million | no surface is forgotten or missing, the last presentation stays, but for the races named |
| `LeaderboardSubmissions` | 1 leaderboard, 2 attempts, 2 submissions, 2 outages, 2 sessions, a reset, with fairness | 865 thousand | mirror and indicators are right, nothing is left behind untold, nothing comes from before a reset, every score's fate is told |

**Bounds and why they are enough.**

- *Frames.* The code has 9. Every rule of the queue compares a length with a depth of 1, 2 or
  pool - 1, and touches at most one frame of each owner. Five frames leave the backlog of
  two, its deferred candidate, the previous frame and the renderer's frame each one at once
  (`VulkanRendererNeverStarves` needs three more than the depth); with three
  (`VulkanTemporal`, `VulkanRealtime`) the pool runs dry and queued frames are taken back, which nine would hide. The proofs cover every size of at least three.
- *Acquisitions* (`MaxFrameId`). One more than the pool, so that every frame is rendered into
  a second time, is the least at which a stale pointer or a number of an earlier use would show.
- *Scale* 2 is the case with a backlog of two; at 1 the policies are those of depth 1, which
  the constrained policies contain.
- *Calls.* A thread is in one call at a time, and calls repeat without bound; sessions, too,
  start and stop without bound. Two workers let two resets, or a reset and a step, overlap each other and a call of
  the UI thread. The proofs cover any number of workers.
- *Attempts of an award.* The code tries five times. Two are enough to tell a retry from the last
  attempt, which is all the code distinguishes.
- *Achievements and sessions of the ledger.* Order and loss are about two unlocks, and sessions are
  ordered in pairs.
- *Save memory.* Two cells tell a torn save from a whole one and let a write run over the
  end; three writes leave one on disk, one in the copy and one in the buffer. The
  proofs cover every size and any number of writes.
- *Rewind.* Eight frames at interval 2 are four captures: the longest window of three fills, reuses its oldest buffer and does
  so again after a rewind; two intervals neither of which divides the other, changed in either direction between captures, and length 0 and the
  disabled window are included. The settings offer up to 300 states; the proofs cover every set of intervals and lengths and any number of frames.
- *Surfaces.* Three events (windows, presentations, additions): each race needs one event to be overtaken and one or two that
  overtake it, and three events already give millions of states, because decodings and messages interleave freely.
- *Leaderboards.* What goes wrong takes two attempts of the same leaderboard, one of which
  waits: hence one leaderboard, two attempts, two submissions and as many addresses. Two sessions and one reset let events
  of before either arrive after it. `MaxLag = 0`: a frame starts once the events of the last have been
  read, while the pipe still holds several between the calls of other actors (a reset, a
  synchronisation, a new session). One refresh of the mirror per session comes on top of the dialog's.

`CHECK_DEADLOCK FALSE` stands where the system may stop: in `EmulatorOverlaps` (a stop from the UI thread beside a
reset on a worker, or two resets, can hang or abort the program, section 6), `SaveManager` (the manager is destroyed),
`SurfaceCoordinator` (the coordinator is stopped and its events are used up) and
`LeaderboardSubmissions` (the bounds are used up, or a mix-up has ended the behaviour).

**Fairness.**

- `VulkanPresentation!FairSpec`: the presentation thread is called at each vsync and each call ends
  (weak fairness of its steps, and of the presentation of a frame one way or the other); the GPU finishes
  what it has (weak). `presentFrame` waits for the frame until a deadline, so that a frame tried again and
  again is not refused for ever once the GPU has finished it: strong fairness of `PresentFrame`.
  Nothing is assumed of the emulator thread, the user or resyncs.
- `SaveManager!FairSpec`: a stop, the flush thread and the clock go on (weak). `CheckFlush` is called each frame, and it and the flush
  thread take the lock again and again, which neither holds for long: strong fairness of both. The game need not stop. Without a bound on its writes a game that wrote in every two
  seconds would put the flush off for ever; `MaxWrites` hides that case, and `SaveReachesDisk` is about a
  game that pauses.
- `LeaderboardSubmissions!Fairness`: the app reads what is in the pipe (`WF(Read)`); a synchronisation,
  one call after the other, comes to its end; and a score that is scheduled while frames run again and again is
  answered at last, because the client retries it for as long as it takes. No fairness of the player.

`EmulatorThread` has no fairness. That a call returns is stated as safety instead: `EveryWaitIsAnswered` says of each wait of a call (for
the mutex, for the emulator thread to be really paused, for its end) that what it waits for is on its way: the mutex is held by somebody in
its section, the thread is paused and has not yet come to wait, or it has been told to end and does not wait. With the threads scheduled, and the mutex held for a few instructions at a time, nobody then waits for ever.

## 5. Proofs

Theorems hold for every value of the constants that satisfies the named assumptions.

**FrameQueueProofs** (assumes `SizeAssumption`: at least three frames; `PolicyAssumption`: policies
are records of the right type; `BoundAssumption`). `NoFrameShared` and `NoFrameLost` are not inductive
on their own: a queue with a frame twice in it may satisfy one and break the other after a trim. The
invariant is

    IInv == TypeOK /\ Counted /\ NoFrameShared /\ NoFrameLost

`Counted` says that the lengths of the two queues and the pointers add up to the pool. Each action has
a lemma (`GetRenderFrameIInv` … `ClearIInv`): it shows where each frame went, as a rearrangement of
concatenated sequences; the first part of the module has the facts about `Range`, `IsInjective` and `Len` of
concatenations, prefixes and removals these steps need. From `IInv` follow `SpecTypeOK`,
`SpecNoFrameShared`, `SpecNoFrameLost`, and, by counting, `SpecStealingRendererNeverStarves` (three
pointers and a pool of three leave something to steal). `SpecBacklogBounded` and
`SpecNoReuseAfterResync` have invariants of their own, and `SpecVulkanRendererNeverStarves` follows
from `Counted` and the bound.

The last part of the module, `SpecImplementsOwnership`, is the refinement: the owner of a
frame is read off the place where it is kept (`OwnerOf`). That it is the only place is
`NoFrameShared`, that there is one is `NoFrameLost`, so the refinement rests on `IInv` before and after the
step; `Known` states both together. One lemma per call (`GetRenderFrameOwns` … `ClearOwns`) says which step of
`FrameOwnership` the call is, or that no frame changes hands.

**VulkanPresentationProofs** (assumes `PresentationAssumption`; `QueueAssumption`: at least three frames). The
two threads are shown to implement `FrameQueue`, with the theorems of `FrameQueueProofs` instantiated as
`Proved`: `PoliciesFacts` shows that the policies of `presentVulkanFrame` and `runFrame` are policies of the
queue, which is all those theorems ask for. The invariant

    IInv == Proved!IInv /\ Local /\ Settled

adds to the queue's what a call of `presentVulkanFrame` has in its locals (`Local`) and that a candidate is
held only by the call that took it (`Settled`). Each action has a lemma (`BeginFrameKept` …) which says that it is a call of the queue or leaves it
alone, and that it keeps both. `SpecImplementsFrameQueue` and `SpecNoCandidatePinned` follow, and
`SpecRendererIsServed`: with five frames, counting pointers, the trimmed backlog and what is free leaves
`getRenderFrame` something to hand out; `SpecStealingRendererIsServed`: with three it finds a free frame or a queued one to take back. Four theorems have hypotheses, without which
they are false (section 6): that only the presenter asks for resyncs
(`OnlyPresenterResyncs`); for `SpecNoTornFrame` and `SpecNeverShowsOlderFrame` that fast-forward is not switched in the middle of a
presentation; and for the latter that the device keeps no temporal history (`NoBacklogKept`).
`SpecNoTornFrame` rests on `Held`: the frame in hand is the candidate or the frame shown before, neither
of which the renderer can take. `SpecNoFrameShownAcrossResync` rests on `Fresh`: every frame still to be shown
was acquired after the last resync; only an acquisition adds a frame to them, with a new number.
`SpecNeverShowsOlderFrame` rests on `InOrder`, the order of what is shown, the frame shown before, the candidate, the queue and the
frame being rendered, and on `Plain`: the call's policy neither keeps a backlog nor drops a late frame, for without temporal history
that policy has depth 1 unless fast-forward is on, and a late call began with it off. `SpecTypeOK` rests on `Gpu` (a frame
is submitted once at most, and neither finished nor rendered meanwhile) and on `Counts`: a call
that goes to the previous frame found a fallback left, which a resync of another thread may take away. The code then
counts to -1, which it takes for none.

**EmulatorThreadProofs** (assumes `CallsAssumption`: which thread makes which call; `WorkersAssumption`: workers are told
apart from the other threads and from "nobody"). Nothing is assumed of how many workers there are, or which of the calls are made. The invariant that holds whatever crosses is

    IInv == Callers /\ Accounted /\ Sessions /\ ReallyPausedMeansWaiting

`Callers` says which places a call goes through (`OnRoute`) and who makes it; `Accounted`, that an emulator thread which exists
belongs to a session that is published, about to be, or being joined; `Sessions`, how a session begins and ends. They are needed even
for `SpecReallyPausedMeansWaiting`, since a start clears `isThreadReallyPaused`, which is right only when the last session's
thread is gone. Each of the others adds to `IInv`:

- `SpecStopWins`: `Guarded`, a helper that is about to write has found no stop, which holds as long as the mutex keeps the stop out of its
  section, hence until `trespassed`.
- `SpecCoreHasOneUser`: `Undisturbed`, a rewind or a reset keeps the emulator paused from the write of its helper until its end.
  No other call can set it going before calls cross, because that takes a second call of those in `Crossing`.
- `SpecRewindRestoresPause`: `Resuming`, which also follows the resume at the end of the call.
- `SpecEveryWaitIsAnswered`: `LifeInv`, which holds whatever crosses, says that the thread of a session lives until a stop
  (`Living`), that a stop joins a thread which has heard it (`Joining`), and that a pause of the UI thread which is about to lock is in a session
  (`PauseInSession`); `WaitInv`, which holds until calls cross, that a reset, a rewind or a step is in a session (`InSession`), that a step
  which waits has paused (`Stepping`), and that the mutex is held by somebody in its section (`Holding`).
- `SpecRunningIsAudible` speaks of the load of a player (`UiLoad`). `UiInv` says that no worker is at work (`NoWork`), that no frame is
  ever asked for, so the emulator thread neither pauses by itself nor stops the sound (`NoStep`), and that the
  sound follows the paused flag but for the helper that has changed one and not yet the other (`Heard`).

**SaveManagerProofs** (assumes `SizeAssumption`: at least one cell; `BoundAssumption`). None of the properties is
inductive: what a stop leaves on disk depends on how versions, copies and the file relate wherever the flush
thread is. The invariant

    IInv == TypeOK /\ Versions /\ Locked /\ Copies /\ Flushed /\ Closed /\ Snapshots

says that the version on disk does not run ahead of the copy's (`Versions`), that the lock is held exactly while the file is
written (`Locked`), what the two buffers hold of the save memory (`Copies`), that a file written under the copy's version is the
copy, whole (`Flushed`), how far a stop has come (`Closed`), and that the copy is the latest snapshot (`Snapshots`). `SpecImplementsSaveFile` shows, step by step, that the manager implements `SaveFile` under
the refinement that takes a file being written for unreadable; `SpecStopKeepsSave` that the destructor leaves the
save in the file; `SpecBufferIsSaveMemory` that copying ranges adds up to the whole save memory.

**RewindManagerProofs** (assumes `IntervalsAssumption`: intervals are positive; `SizesAssumption`: lengths have a bound, `MaxSize`, which is any number;
`BoundAssumption`). The four properties hold together or not at all:

    IInv == /\ TypeOK /\ Owned /\ Ordered(window) /\ Spaced(window, interval, since)
            /\ Past /\ Recent /\ Listed /\ Bounded /\ Disabled

`Ordered` says that the window's buffers are distinct and its frames fall; `Spaced`, that those captured since the interval was last
changed are multiples of it and an interval apart: without the multiples, the next capture need not be an interval after the newest
(`NextCapture`). `Recent` says that none was missed since (`NoneMissed`), also across the change (`SomeDue`: any interval's worth of frames
has one that is due). `Listed` says what the open list has to do with the window: it is the window, or the
window has grown by one state, or it has taken the oldest state's buffer for a newer one. Only with that can a
pick be shown to keep `Recent`. `PushFacts`, `PartFacts` and `SplitBuffers` are the facts about sequences of
entries on which each action's lemma rests; `OneBufferEach` counts buffers. From `IInv` follow
`SpecWindowIsThePast`, `SpecWindowHasNoGap`, `SpecBuffersAreOwned` and `SpecListStaysTrue`.

**OfflineLedgerProofs** (assumes `LedgerAssumption`: what names an achievement, a session, a sync and a handler are told
apart; sessions are positive numbers, as `NoSession` is 0). What a sync acknowledges depends on a plan it made from an older ledger, and
resets, failed copies and kills take the ledger from under it. The invariant

    IInv == TypeOK /\ Writes /\ Once /\ HardcoreWaits /\ Planned

says that what is being written follows from what is on disk, and that a sync's record was settled before it is
written (`Writes`); that an achievement is earned once: it is free, or one handler has it, or the ledger has had it
(`Once`); and what has become of each plan (`Planned`): its items are still in the ledger, or none of them will be
in it again and the ledger was reset or is damaged; no item follows one it should come before; and what waits before an item
in its session is in the plan or settled. `Once` is what makes `Planned` last: a new record can bear the number of a plan's item
after a reset, but not its achievement. It also shows why `PendingUntilSettled` must except `overtaken`. `PlanFacts` says what a plan is,
`PlanStands`, `PlanGone` and `PlanGoesOn` what becomes of it, and each action has its lemma. `SpecLegacyHardcoreUntouched`,
`SpecPendingUntilSettled` and `SpecAwardedInSessionOrder` follow.

**SurfaceCoordinatorProofs** (assumes `BoundAssumption`). The properties speak of moments when both threads are at rest; the
invariant says how they come there, and names with each part the races that break it:

    IInv == /\ Types /\ Bounds /\ Identified /\ Managed /\ Stopping /\ Absent /\ Held
            /\ Generations /\ Presenting /\ Attaching

`Held`: a surface is the one of the view, being attached, or about to be detached, and that of the view is on its
window. `Absent`: a view nobody listens to holds nothing. `Stopping`: once stopped, the stop is the next message, and nothing is
left after it. `Generations`: the newest presentation since the view was removed has the highest
generation. `Presenting`: the last presentation is on the surface, or on its way (`Shown`): its background is being decoded, its
message waits, or the render thread, in the last sections of an attach, is about to send it once more. `Attaching`: a view
that has a window and no surface has a request under way. The three senders of presentations share `PresentKeeps`. `SpecNoForgottenSurface`,
`SpecLastPresentationWins` and `SpecViewIsAttached` follow.

**LeaderboardSubmissionsProofs** (assumes `BoundsAssumption`: the bounds are natural numbers; leaderboards and addresses are
any sets). The properties compare two sides of a pipe when it is empty; none says anything of the moments in between. The
invariant, in a module of its own, does:

    IInv == muddled = {} => Base /\ Screen /\ Mirrored /\ Asking

- `Base`: the runtime between two steps is at rest (`Steady`): every submission it keeps waits for a retry, has been told
  of, and belongs to an attempt that is still known and open; no two share an attempt. Nothing in the pipe is newer than what the runtime
  has counted (`Piped`), and the two ends agree about the session (`InSession`).
- `Screen`: attempts and barriers come through the pipe in the order of their numbers (`Numbered`), which is why an
  event below the floor is an old one; the barrier awaited is the one to come (`Awaited`); and what the coordinator
  shows, changed by what it will still heed of the pipe, is what the runtime tracks (`Shown`).
- `Mirrored`: a score has one attempt and an attempt one score (`Once`), so that the store, which ignores a second score
  of an attempt, ignores nothing new; the store, changed by what the pipe says of each submission, is what the runtime has: one that waits is
  there or will be added, one that was accepted is not or will be taken out, and so on (`Reflects`), also while a
  replay has each of them in the pipe twice; and what a synchronisation has found out stays true until it is applied (`Applied`).
- `Asking`: until the exit's barrier is read, what waits is in the store, or is told of in front of that barrier; once the
  exit goes ahead unasked, nothing waits (`Warned`).

Each part rests on those before it. The two that follow are needed at once for `RetryKeepsAttempt` (`Steady`: the
submission that is retried has an attempt that nothing pruned, at an address nothing else uses) and for `NothingFromBeforeReset`
(`Numbered` and `Awaited`). The runtime has too many operations to look at each under each part, so each is first given a contract, which says what it
changes and what it tells (`Start`, `Cancel`, `Submission`, `Retried`, `Restarted`, `Refreshed`, `Discards`), shown
in the lemmas `…Step`; the parts are then proved of the contracts: `…Goes` for `Base`, `…Screens` for `Screen`,
`…Tells` and `…Reflects` for `Mirrored`, `…Warned` for `Asking`. `Refreshed` needs that a finite set of messages can be
listed in order (`Listed`): each goes to the place given by how many come before it. `SpecIInv` puts the steps together; from it follow `SpecRetryKeepsAttempt`, `SpecNothingFromBeforeReset`,
`SpecIndicatorsAreTrue`, `SpecMirrorIsTrue` and `SpecLeavesNothingUntold`. As elsewhere, behaviours end at a mix-up (`Sound`): the theorems are about
what comes before. `IInv` quantifies over all numbers, so TLC checks what follows from it, not `IInv` itself.

Only model-checked: the liveness properties, such as `PendingIsSettled` and `SaveReachesDisk`.

Out of the prover's reach: liveness under fairness and `ENABLED`, and what a recursive definition computes for
every input. `VulkanPresentation` therefore takes the one submission of a frame out of its list by its place
(`Withdrawn`) instead of filtering the list with `SelectSeq`, which the standard module defines by recursion.

## 6. What the models say about the code

Three runs end in a counterexample.

1. **A frame of before a resync is shown after it** (`VulkanResyncRace`).
   `requestVulkanPresentationResync` may run on another thread while `presentVulkanFrame` holds a
   candidate. The queue frees the candidate, `presentFrame` still shows it, and the commit is
   then ignored. The comment in `FrameQueue.cpp:477` says that a resync invalidates all frames in
   flight.
2. **A reset beside a running frame** (`EmulatorResumedReset`). `resetEmulation` waits until the
   thread is really paused and then resets without the mutex, on a background
   dispatcher. A resume from the UI thread in between sets the loop going. The comment says
   "Make sure that the thread is really paused to avoid data corruption".
3. **The ledger is lost by a kill** (`OfflineLedgerKilled`). `writeAtomically` deletes the file
   before it renames the new one; a kill in between leaves only the temporary file, which
   nothing reads.

Also met while modelling, and stated with the properties they limit (each is a hazard in
`PROJECT.json`):

- With `FastForwardToggles = "any time"`, switching fast-forward off between `presentFrame` and
  the commit lets an older picture come back: `NeverShowsOlderFrame` is checked for
  switches between two presentations. With temporal history (`TemporalDevice`) the backlog kept
  when a frame is shown is older than that frame, so the property does not hold there and `VulkanTemporal`
  does not claim it.
- `commitPresentedFrame` releases every queued frame as stale, also one queued while `presentFrame`
  waited; the last picture before a pause may never be shown. `CandidateIsShown` is therefore
  about candidates.
- `waitForFrameConsumption` never waits, since `getRenderFrame` has zeroed the value it looks
  at; `validateRenderFrame` zeroes frame numbers.
- Nothing keeps two resets apart. The second finds `paused` and `isThreadReallyPaused` as the first has set them, and resets while the
  first does, or while the frames run that the resume at the end of the first (`MelonDSAndroidJNI.cpp:2185`) has set going. If that
  resume comes before the second looks at the flag, the second spins in its busy wait (`:2183`) until the next pause. With two
  workers, resets and a start as the only calls, `ResetOnlyWhilePaused` fails without any resume from the UI thread.
- A reset beside a stop may leave the mutex locked (`started` is read twice), spin for ever,
  lock the destroyed mutex, or run beside the end of the thread; a rewind or a step beside a reset waits, or resumes, on account of the other's pause.
  `CoreHasOneUser`, `RewindRestoresPause` and `EveryWaitIsAnswered` therefore hold until calls cross.
- A pause of the activity while a game is being loaded may find no session and go on without the mutex into the one that
  starts; delayed long enough, it sets `paused` after a stop, or unlocks the mutex for another thread. `StopWins` excepts it (`trespassed`).
- Saving and loading a state does not wait for the frame under way: `CoreHasOneUser` counts a state file as a crossing.
- A read of the ledger that fails for a moment makes the next launch delete it; a sync that outlives that
  may acknowledge a new unlock by an old number (`overtaken`). `PendingUntilSettled` leaves both out. That unlock is then
  never awarded while later ones of its session are, which is why `AwardedInSessionOrder` speaks of unlocks that wait.
- An unlock is marked in the database before its record is appended.
- *Frames.* `validateRenderFrame` zeroes the number `getRenderFrame` has just given out when the backend of the frame changes.
- *Saves.* A file that cannot be opened or written in full counts as written; the properties except it (`lost`). A
  flush truncates the file in place: a kill in between leaves it empty or short, and `SaveFile` says that this is the only time.
- *Rewind.* The list is made while the frame under way at the pause still runs. If it captures a state with a full window, the
  list's oldest entry points to a newer state: a pick loads that state under the old frame number and
  empties the window. `ListStaysTrue` names this case; `SpecListStaysTrue` proves that there is no other.
  The window is copied for the list without a lock, which the model takes as one step.
- *Surfaces.* Five races are excepted by name: a stop overtakes the detach of a view just removed, which
  is then dropped (`stop`); a window is replaced while it is being attached (`window`): `SurfaceView` has one `Surface` object for all
  its windows, so the comparison that should notice does not; a presentation is sent to a view that was removed, which makes it known again (`removed`); the
  refresh after an attach writes back what it copied before a presentation or a removal of the UI thread
  (`refresh`); and the generations of a view that is removed and added again start anew, so an old
  presentation decoded late passes for newer (`generation`).
- *Leaderboards.* Five mix-ups end a behaviour. A leaderboard that starts and submits
  within one frame shares the attempt of one that still waits (`SharesAttempt`). A manual retry within a second of the
  submission is taken for a new submission (`StraysFrom`). Barriers of resets are not told apart
  (`resets.crossed`). The frame under way at the pause of an exit may submit a score after the question was
  asked (`exit.late`). Scores discarded natively when the mirror then differs leave attempts that look pending for ever, for no event tells of them
  (`Orphaned`).

## 7. Not modelled

- *Within the modules*: statistics, logging, GL and Vulkan resources; frame pacing and performance
  hints; signatures, the hash chain, expiry and wall clock of the ledger; the record of a
  session's end, which nothing reads; `PreferOldestFrame`, which no policy sets;
  `discardPendingHardcoreUnlocks`, which nothing calls; `SaveManager::SetPath` and flushes to memory,
  which nothing calls either; screenshots of rewind states; sizes of surfaces; scores, names and ranks of leaderboards;
  achievements' submissions, softcore and offline sessions in `LeaderboardRuntime`.
- *rcheevos* (`cpp/rcheevos/`) is vendored. `LeaderboardRuntime` models the lines of `rc_client.c` that the manager's
  callbacks depend on (submission, retry and unload of leaderboard entries) and nothing else of it.
- *The emulator core* is a submodule that is not in the tree; `EmulatorThread` sees a frame as a
  step that ends.
- *Vulkan rendering and filters*: GPU code, shader tables generated into headers
  (`VulkanSurfacePresenterFragmentShaderData.h`, `VulkanCompositorShaderData.h`) and calls to a driver. Their only
  effects on the order of events (whether a frame was prepared, presented, finished) are in `VulkanPresentation`.
- *Native glue, files, settings, input, camera*: I/O and conversions, with
  no order of events to get wrong beyond what the models above include.
- *The message queue, hardcore unlocks and log-out, enhancement profiles, the OpenGL presenter and sessions* are next in the plan
  (9 to 13). `LeaderboardSubmissions` has the exit that the hardcore queue shares.

Because those parts are most of the repository's lines (a view model of 6,600 lines, a presenter of 4,100 lines of driver calls, the
generated tables), the map covers the modules that decide an order of events almost whole and the rest only
where a model uses it.
