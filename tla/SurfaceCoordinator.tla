------------------------ MODULE SurfaceCoordinator ------------------------
(***************************************************************************)
(* How a surface view of the activity gets a Vulkan surface, and the last  *)
(* presentation on it (VulkanFrameRenderCoordinator.kt).  The UI thread    *)
(* adds and removes the view, hears when its window comes and goes, and    *)
(* sends presentations; a render thread attaches, configures and detaches  *)
(* native surfaces, one message at a time.  A presentation reaches the     *)
(* render thread only after its background has been decoded, so they may   *)
(* overtake each other, and are told apart by their generation.            *)
(*                                                                         *)
(* One view: views share the queue and nothing else.  A section under      *)
(* surfacesLock is one step, and so are sections of the UI thread that     *)
(* follow each other with nothing in between for the render thread to do.  *)
(* SurfaceView has one Surface object for all its windows, so the          *)
(* comparisons of surfaces tell only whether there is one.  Presentations  *)
(* are numbered, 0 is null; the background of one has its number.  Sizes   *)
(* and the rendering of frames are left out.                               *)
(***************************************************************************)
EXTENDS Naturals, Sequences

CONSTANTS
    MaxEvents,      \* bound of the model: windows, their changes, presentations and
                    \* additions of the view, together
    MayFail         \* whether an attach may fail

ASSUME BoundAssumption == MaxEvents \in Nat /\ MayFail \in BOOLEAN

VARIABLES
    window,         \* the window of the view, 0 when it has none
    listening,      \* the coordinator hears of the view's window
    stopped,
    ui,             \* what the UI thread is about to do
    managed,        \* the ManagedSurface of the view, or NotManaged
    pendingConfig,  \* of the view, or NoConfig
    decoding,       \* presentations whose background is being decoded
    queue,          \* of the render thread
    render,         \* where the render thread is
    surfaces,       \* native: the attached surfaces
    nextId,
    count,          \* of windows, presentations and all events so far
    latest,         \* history: the last presentation since the view was removed
    era,            \* history: how often the view was removed
    raced           \* history: the races that have occurred

view == <<window, listening, stopped>>
state == <<managed, pendingConfig>>
native == <<surfaces, nextId>>
history == <<latest, era, raced>>
vars == <<view, ui, state, decoding, queue, render, native, count, history>>

NotManaged == [surfaceId |-> 0, config |-> 0, generation |-> 0, pending |-> FALSE,
               known |-> FALSE]
Fresh == [NotManaged EXCEPT !.known = TRUE]
NoConfig == [generation |-> 0, config |-> 0]
Idle == [at |-> "idle", id |-> 0, config |-> 0]
Attach == [what |-> "attach", arg |-> 0, background |-> 0, era |-> 0]
Detach(id) == [what |-> "detach", arg |-> id, background |-> 0, era |-> 0]
StopNow == [what |-> "stop", arg |-> 0, background |-> 0, era |-> 0]
Configure(d) == [what |-> "configure", arg |-> d.generation, background |-> d.config,
                 era |-> d.era]

\* The view has been added and has no window yet.
Init ==
    /\ window = 0 /\ listening = TRUE /\ stopped = FALSE /\ ui = "idle"
    /\ managed = Fresh /\ pendingConfig = NoConfig /\ decoding = {}
    /\ queue = <<>> /\ render = Idle /\ surfaces = {} /\ nextId = 1
    /\ count = [windows |-> 0, updates |-> 0, events |-> 0]
    /\ latest = 0 /\ era = 0 /\ raced = {}

-----------------------------------------------------------------------------
(* What both threads do under the lock.                                    *)

NeedsAttachment(m) == m.known /\ m.surfaceId = 0 /\ ~m.pending
CanAttach(m) == window # 0 /\ NeedsAttachment(m)

\* requestSurfaceAttachmentIfNeeded, for a view in state m
RequestAttachment(m) ==
    /\ managed' = IF CanAttach(m) THEN [m EXCEPT !.pending = TRUE] ELSE m
    /\ queue' = IF CanAttach(m) THEN Append(queue, Attach) ELSE queue

Presented(config) ==
    [managed EXCEPT !.known = TRUE, !.config = config, !.generation = @ + 1]

\* updateSurfacePresentation
Present(config) ==
    LET m == Presented(config) IN
    /\ RequestAttachment(m)
    /\ decoding' = decoding \cup
         {[generation |-> m.generation, config |-> config, era |-> era]}

-----------------------------------------------------------------------------
(* The UI thread.                                                          *)

Counted(next) == /\ count.events < MaxEvents
                 /\ count' = [next EXCEPT !.events = @ + 1]

AddSurface ==
    /\ ui = "idle" /\ ~stopped /\ ~listening
    /\ listening' = TRUE /\ Counted(count)
    /\ RequestAttachment(IF managed.known THEN managed ELSE Fresh)
    /\ ui' = IF window # 0 THEN "refresh" ELSE "idle"
    /\ UNCHANGED <<window, stopped, pendingConfig, decoding, render, native, history>>

RemoveSurface ==
    /\ ui = "idle" /\ ~stopped /\ listening
    /\ listening' = FALSE
    /\ managed' = NotManaged /\ pendingConfig' = NoConfig
    /\ queue' = IF managed.surfaceId = 0 THEN queue
                ELSE Append(queue, Detach(managed.surfaceId))
    /\ latest' = 0 /\ era' = era + 1
    /\ UNCHANGED <<window, stopped, ui, decoding, render, native, count, raced>>

\* A presentation is also sent to a view that was removed; it is then attached though
\* nobody hears of the end of its window.
UpdateSurfacePresentation ==
    /\ ui = "idle" /\ ~stopped
    /\ Counted([count EXCEPT !.updates = @ + 1]) /\ latest' = count.updates + 1
    /\ Present(count.updates + 1)
    /\ raced' = IF ~listening /\ (window # 0 \/ render.at # "idle")
              THEN raced \cup {"removed"} ELSE raced
    /\ UNCHANGED <<view, ui, pendingConfig, render, native, era>>

WindowCreated ==
    /\ ui = "idle" /\ window = 0
    /\ window' = count.windows + 1 /\ Counted([count EXCEPT !.windows = @ + 1])
    /\ ui' = IF listening THEN "created" ELSE "idle"
    /\ UNCHANGED <<listening, stopped, state, decoding, queue, render, native, history>>

WindowChanged ==
    /\ ui = "idle" /\ window # 0 /\ listening
    /\ Counted(count) /\ ui' = "created"
    /\ UNCHANGED <<view, state, decoding, queue, render, native, history>>

\* onSurfaceCreated, and onSurfaceChanged but for the size
OnSurfaceCreated ==
    /\ ui = "created" /\ ui' = "refresh"
    /\ RequestAttachment(managed)
    /\ UNCHANGED <<view, pendingConfig, decoding, render, native, count, history>>

\* refreshSurfacePresentation
Refresh ==
    /\ ui = "refresh" /\ ui' = "idle"
    /\ IF managed.known THEN Present(managed.config)
                        ELSE UNCHANGED <<managed, queue, decoding>>
    /\ UNCHANGED <<view, pendingConfig, render, native, count, history>>

\* The view has no surface any more when the coordinator hears of it.
WindowDestroyed ==
    /\ ui = "idle" /\ window # 0
    /\ window' = 0
    /\ ui' = IF listening THEN "destroyed" ELSE "idle"
    /\ UNCHANGED <<listening, stopped, state, decoding, queue, render, native, count,
                   history>>

OnSurfaceDestroyed ==
    /\ ui = "destroyed" /\ ui' = "detached"
    /\ pendingConfig' = NoConfig /\ managed' = [managed EXCEPT !.pending = FALSE]
    /\ queue' = IF managed.surfaceId = 0 THEN queue
                ELSE Append(queue, Detach(managed.surfaceId))
    /\ UNCHANGED <<view, decoding, render, native, count, history>>

\* Faulty variant: the surface that was detached is still held.
ForgetNothing ==
    /\ ui = "detached" /\ ui' = "idle"
    /\ UNCHANGED <<view, state, decoding, queue, render, native, count, history>>

ForgetSurfaceId ==
    /\ ui = "detached" /\ ui' = "idle"
    /\ managed' = [managed EXCEPT !.surfaceId = 0, !.pending = FALSE]
    /\ UNCHANGED <<view, pendingConfig, decoding, queue, render, native, count, history>>

\* Faulty variant: whichever is decoded last is taken.
ArriveInAnyOrder(d) ==
    /\ ui = "idle" /\ d \in decoding
    /\ decoding' = decoding \ {d}
    /\ pendingConfig' = [generation |-> managed.generation, config |-> d.config]
    /\ queue' = Append(queue, Configure([d EXCEPT !.generation = managed.generation]))
    /\ raced' = IF d.era = era THEN raced ELSE raced \cup {"generation"}
    /\ UNCHANGED <<view, ui, managed, render, native, count, latest, era>>

\* requestSurfaceConfiguration.  The generations of a view that was removed and added
\* again start anew, so an old presentation may pass for a newer one.
Arrive(d) ==
    /\ ui = "idle" /\ d \in decoding
    /\ decoding' = decoding \ {d}
    /\ IF d.generation < pendingConfig.generation
       THEN UNCHANGED <<pendingConfig, queue>>
       ELSE /\ pendingConfig' = [generation |-> d.generation, config |-> d.config]
            /\ queue' = Append(queue, Configure(d))
    /\ raced' = IF d.era = era THEN raced ELSE raced \cup {"generation"}
    /\ UNCHANGED <<view, ui, managed, render, native, count, latest, era>>

\* The activity has removed the view.  The message to stop overtakes all others.
Stop ==
    /\ ui = "idle" /\ ~stopped /\ ~listening
    /\ stopped' = TRUE /\ ui' = "joining" /\ decoding' = {}
    /\ queue' = <<StopNow>> \o queue
    /\ UNCHANGED <<window, listening, state, render, native, count, history>>

-----------------------------------------------------------------------------
(* The render thread.  A message is not handled once the coordinator stops, *)
(* but for a detach and the stop itself.                                    *)

Handling(what) ==
    /\ render.at = "idle" /\ queue # <<>> /\ Head(queue).what = what
    /\ queue' = Tail(queue)

BeginAttach ==
    /\ Handling("attach")
    /\ render' = IF ~stopped /\ managed.known /\ managed.surfaceId = 0
                       /\ managed.pending /\ window # 0
                 THEN [render EXCEPT !.at = "attach"] ELSE Idle
    /\ UNCHANGED <<view, ui, state, decoding, native, count, history>>

SameSurfaceId == nextId     \* faulty variant
NextSurfaceId == nextId + 1

\* attachVulkanSurface: on the window of the moment, if there is one.
AttachNative ==
    /\ render.at = "attach"
    /\ \/ /\ window # 0
          /\ surfaces' = surfaces \cup
               {[id |-> nextId, window |-> window, config |-> 0, background |-> 0]}
          /\ nextId' = NextSurfaceId
          /\ render' = [render EXCEPT !.at = "attached", !.id = nextId]
          /\ UNCHANGED raced
       \/ /\ window = 0 \/ MayFail
          /\ render' = [render EXCEPT !.at = "attached", !.id = 0]
          /\ raced' = IF window # 0 THEN raced \cup {"failed"} ELSE raced
          /\ UNCHANGED native
    /\ UNCHANGED <<view, ui, state, decoding, queue, count, latest, era>>

Unwanted == ~managed.known \/ ~managed.pending \/ window = 0
WindowOf(id) == (CHOOSE s \in surfaces : s.id = id).window
WithConfig(id, config, background) ==
    {IF s.id # id THEN s ELSE [s EXCEPT !.config = config, !.background = background]
        : s \in surfaces}
Without(ids) == {s \in surfaces : s.id \notin ids}

\* Faulty variant: the surface is kept without a second look.
KeepUnchecked ==
    /\ render.at = "attached"
    /\ managed' = [managed EXCEPT !.pending = FALSE, !.surfaceId = render.id]
    /\ surfaces' = IF managed.config # 0 THEN WithConfig(render.id, managed.config, 0)
                   ELSE surfaces
    /\ raced' = raced
    /\ render' = [render EXCEPT !.at = IF render.id # 0 THEN "copy" ELSE "idle"]
    /\ UNCHANGED <<view, ui, pendingConfig, decoding, queue, nextId, count, latest, era>>

\* The surface is detached again if it is not wanted any more, and else configured
\* without a background.  A window that came in place of the attached one passes.
KeepOrDetach ==
    /\ render.at = "attached"
    /\ IF Unwanted
       THEN /\ surfaces' = Without({render.id})
            /\ render' = Idle
            /\ UNCHANGED <<managed, raced>>
       ELSE /\ managed' = [managed EXCEPT !.pending = FALSE, !.surfaceId = render.id]
            /\ surfaces' = IF managed.config # 0
                           THEN WithConfig(render.id, managed.config, 0) ELSE surfaces
            /\ render' = IF render.id # 0 THEN [render EXCEPT !.at = "copy"] ELSE Idle
            /\ raced' = IF render.id # 0 /\ WindowOf(render.id) # window
                        THEN raced \cup {"window"}
                        ELSE IF render.id = 0 THEN raced \cup {"failed"} ELSE raced
    /\ UNCHANGED <<view, ui, pendingConfig, decoding, queue, nextId, count, latest, era>>

\* refreshSurfacePresentation copies the presentation in one section of the lock and
\* writes it in another.
CopyPresentation ==
    /\ render.at = "copy"
    /\ render' = IF managed.known /\ ~stopped
                 THEN [render EXCEPT !.at = "write", !.config = managed.config]
                 ELSE Idle
    /\ UNCHANGED <<view, ui, state, decoding, queue, native, count, history>>

RewritePresentation ==
    /\ render.at = "write" /\ render' = Idle
    /\ IF stopped THEN UNCHANGED <<managed, queue, decoding, raced>>
       ELSE /\ Present(render.config)
            /\ raced' = IF managed.known /\ managed.config = render.config THEN raced
                        ELSE raced \cup {"refresh"}
    /\ UNCHANGED <<view, ui, pendingConfig, native, count, latest, era>>

ConfigureSurface ==
    /\ Handling("configure")
    /\ LET m == Head(queue) IN
       IF stopped \/ managed.surfaceId = 0 \/ managed.generation # m.arg
            \/ pendingConfig.generation # m.arg
       THEN UNCHANGED <<pendingConfig, surfaces, raced>>
       ELSE /\ pendingConfig' = NoConfig
            /\ surfaces' = IF pendingConfig.config = 0 THEN surfaces
                           ELSE WithConfig(managed.surfaceId, pendingConfig.config,
                                           m.background)
            /\ raced' = IF m.era = era THEN raced ELSE raced \cup {"generation"}
    /\ UNCHANGED <<view, ui, managed, decoding, render, nextId, count, latest, era>>

DetachSurface ==
    /\ Handling("detach")
    /\ surfaces' = Without({Head(queue).arg})
    /\ UNCHANGED <<view, ui, state, decoding, render, nextId, count, history>>

\* The other messages are dropped, the detach of the view that was just removed with
\* them; the thread ends, and with it the wait of the UI thread.
StopThread ==
    /\ render.at = "idle" /\ queue # <<>> /\ Head(queue).what = "stop"
    /\ queue' = <<>>
    /\ surfaces' = Without({managed.surfaceId})
    /\ managed' = [managed EXCEPT !.surfaceId = 0, !.pending = FALSE]
    /\ pendingConfig' = NoConfig
    /\ ui' = "idle"
    /\ raced' = IF \E i \in DOMAIN queue : queue[i].what = "detach"
                THEN raced \cup {"stop"} ELSE raced
    /\ UNCHANGED <<view, decoding, render, nextId, count, latest, era>>

-----------------------------------------------------------------------------
\* After a race only the window may go; nothing new is begun.
Ui ==
    \/ /\ raced = {}
       /\ \/ AddSurface \/ RemoveSurface \/ UpdateSurfacePresentation
          \/ WindowCreated \/ WindowChanged \/ Stop
    \/ WindowDestroyed
Continue == OnSurfaceCreated \/ Refresh \/ OnSurfaceDestroyed \/ ForgetSurfaceId
Decoded == \E d \in decoding : Arrive(d)
RenderThread ==
    \/ BeginAttach \/ AttachNative \/ KeepOrDetach \/ CopyPresentation
    \/ RewritePresentation \/ ConfigureSurface \/ DetachSurface \/ StopThread
Next == Ui \/ Continue \/ Decoded \/ RenderThread

Spec == Init /\ [][Next]_vars

-----------------------------------------------------------------------------
(* Properties.                                                             *)

TypeOK ==
    /\ window \in 0 .. MaxEvents /\ listening \in BOOLEAN /\ stopped \in BOOLEAN
    /\ ui \in {"idle", "created", "refresh", "destroyed", "detached", "joining"}
    /\ managed.surfaceId < nextId /\ managed.config <= count.updates
    /\ pendingConfig.config <= count.updates
    /\ render.at \in {"idle", "attach", "attached", "copy", "write"}
    /\ \A s, t \in surfaces : s.id < nextId /\ (s.id = t.id => s = t)

Settled == ui = "idle" /\ render.at = "idle" /\ queue = <<>>

\* No native surface outlives its use: when both threads are at rest, the only one
\* there may be is the one the view holds, and it is on the view's window.  A surface
\* is left behind, or on a window that is gone, only if a stop overtook its detach, a
\* window was replaced while it was attached, a removed view was sent a presentation
\* or was rewritten by the refresh of an attach.
NoForgottenSurface ==
    Settled /\ raced \cap {"stop", "window", "removed", "refresh"} = {} =>
        \A s \in surfaces : s.id = managed.surfaceId /\ s.window = window

\* The last presentation is the one on the screen when everything is decoded and
\* handled, in whatever order the backgrounds were decoded, and wherever an attach
\* stood.  An older one remains only if the refresh of an attach overtook the
\* presentation, or the view was removed while one was decoded.
LastPresentationWins ==
    Settled /\ decoding = {} /\ raced \cap {"refresh", "generation"} = {} =>
        \A s \in surfaces :
            s.id = managed.surfaceId /\ latest # 0 =>
                s.config = latest /\ s.background = latest

\* A view with a window has a surface on it when both threads are at rest: no request
\* to attach is lost to one that was called off, unless the attach itself failed.
ViewIsAttached ==
    Settled /\ raced = {} /\ listening /\ window # 0 =>
        \E s \in surfaces : s.id = managed.surfaceId /\ s.window = window
=============================================================================
