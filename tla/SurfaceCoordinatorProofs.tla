---------------------- MODULE SurfaceCoordinatorProofs ----------------------
(***************************************************************************)
(* Proofs about SurfaceCoordinator, for every bound and whether or not an  *)
(* attach may fail.  The inductive invariant says where each surface is    *)
(* accounted for (Held), which message or thread still brings the last     *)
(* presentation to the surface (Shown) and a surface to a view that has    *)
(* none (Attaching), each but for the races that break it.                 *)
(***************************************************************************)
EXTENDS SurfaceCoordinator, Functions, SequenceTheorems, TLAPS

Messages == [what : {"attach", "configure", "detach", "stop"}, arg : Nat,
             background : Nat, era : Nat]
Presentations == [generation : Nat, config : Nat, era : Nat]
Surfaces == [id : Nat \ {0}, window : Nat \ {0}, config : Nat, background : Nat]
ManagedSurfaces == [surfaceId : Nat, config : Nat, generation : Nat, pending : BOOLEAN,
                    known : BOOLEAN]
Renders == [at : {"idle", "attach", "attached", "copy", "write"}, id : Nat, config : Nat]
Counts == [windows : Nat, updates : Nat, events : Nat]
Waiting == Range(queue)

Types ==
    /\ window \in Nat /\ listening \in BOOLEAN /\ stopped \in BOOLEAN
    /\ ui \in {"idle", "created", "refresh", "destroyed", "detached", "joining"}
    /\ managed \in ManagedSurfaces /\ pendingConfig \in [generation : Nat, config : Nat]
    /\ decoding \subseteq Presentations /\ queue \in Seq(Messages) /\ render \in Renders
    /\ surfaces \subseteq Surfaces /\ nextId \in Nat \ {0} /\ count \in Counts
    /\ latest \in Nat /\ era \in Nat

Bounds ==
    /\ window <= count.windows /\ count.windows <= count.events /\ count.events <= MaxEvents
    /\ managed.config <= count.updates /\ pendingConfig.config <= count.updates
    /\ render.config <= count.updates
    /\ \A d \in decoding : d.config <= count.updates

\* A surface has an id of its own, and the one that is held is not about to be detached,
\* but for a moment when its window is gone.
Identified ==
    /\ \A s, t \in surfaces : s.id < nextId /\ (s.id = t.id => s = t)
    /\ managed.surfaceId < nextId /\ render.id < nextId
    /\ render.at \in {"attach", "attached"} => managed.surfaceId = 0
    /\ \A m \in Waiting : m.what = "detach" =>
          /\ m.arg # 0 /\ m.arg < nextId
          /\ m.arg = managed.surfaceId => ui = "detached"
          /\ render.at = "attached" => m.arg # render.id
    /\ managed.surfaceId # 0 /\ ui # "detached" => \E s \in surfaces : s.id = managed.surfaceId
    /\ render.at = "attached" /\ render.id # 0 => \E s \in surfaces : s.id = render.id

\* What the view is when it has no surface or no listener, and when it has gone.
Managed ==
    /\ ~managed.known => /\ managed.surfaceId = 0 /\ managed.config = 0
                         /\ managed.generation = 0 /\ ~managed.pending
    /\ managed.pending => managed.surfaceId = 0
    /\ listening => managed.known
    /\ ui \in {"destroyed", "detached"} => listening /\ window = 0
    /\ ui \in {"created", "refresh"} => listening /\ window # 0
Stopping ==
    /\ ~stopped => ui # "joining" /\ \A m \in Waiting : m.what # "stop"
    /\ stopped =>
          /\ ui \in {"idle", "joining"} /\ ~listening /\ decoding = {}
          /\ ui = "joining" => queue # <<>> /\ Head(queue).what = "stop"
          /\ ui = "idle" => queue = <<>> /\ render.at = "idle" /\ managed.surfaceId = 0
Absent ==
    ~listening /\ "removed" \notin raced /\ "refresh" \notin raced =>
       managed.surfaceId = 0 /\ ~managed.pending /\ (managed.known => render.at = "idle")

\* A surface is held, being attached, or about to be detached; the one that is held is on
\* the window of the view.
Held ==
    \A s \in surfaces :
       /\ s.id = managed.surfaceId =>
            \/ s.window = window \/ ui \in {"destroyed", "detached"}
            \/ "window" \in raced \/ "removed" \in raced \/ "refresh" \in raced
       /\ \/ s.id = managed.surfaceId /\ ui # "detached"
          \/ (render.at = "attached" /\ render.id = s.id)
          \/ (\E m \in Waiting : m.what = "detach" /\ m.arg = s.id) \/ "stop" \in raced

\* Of the presentations since the view was removed the newest has the highest generation.
Generations ==
    "generation" \notin raced =>
       /\ \A d \in decoding : d.generation # 0 /\ d.era <= era /\
             (d.era = era => d.generation <= managed.generation
                 /\ (d.generation = managed.generation => d.config = managed.config))
       /\ \A m \in Waiting : m.what = "configure" => m.arg # 0 /\ m.era <= era /\
             (m.era = era => m.arg <= managed.generation
                 /\ (m.arg = managed.generation => m.background = managed.config))
       /\ pendingConfig.generation <= managed.generation
       /\ pendingConfig.generation # 0 /\ pendingConfig.generation = managed.generation
            => pendingConfig.config = managed.config

\* The last presentation is on the surface, or on its way: its background is decoded, it
\* waits for the render thread, or that is about to send it once more.
Shown(s) ==
    \/ s.config = latest /\ s.background = latest
    \/ [generation |-> managed.generation, config |-> latest, era |-> era] \in decoding
    \/ /\ pendingConfig = [generation |-> managed.generation, config |-> latest]
       /\ [what |-> "configure", arg |-> managed.generation, background |-> latest,
           era |-> era] \in Waiting
    \/ render.at \in {"copy", "write"}
Presenting ==
    "refresh" \notin raced =>
       /\ managed.config = latest
       /\ "generation" \notin raced /\ ~stopped /\ ui # "detached" /\ latest # 0 =>
             \A s \in surfaces : s.id = managed.surfaceId => Shown(s)

\* A request to attach is under way, and made whenever the view has a window and no surface.
Attaching ==
    raced = {} =>
       /\ managed.pending /\ ui # "destroyed" =>
             window # 0 /\ (Attach \in Waiting \/ render.at \in {"attach", "attached"})
       /\ listening /\ window # 0 /\ managed.surfaceId = 0 => managed.pending \/ ui = "created"

IInv == /\ Types /\ Bounds /\ Identified /\ Managed /\ Stopping /\ Absent /\ Held
        /\ Generations /\ Presenting /\ Attaching

-----------------------------------------------------------------------------
(* What the operators of the model do.                                     *)

\* The message at the head of the queue and those behind it.
LEMMA RangeOfTail ==
    ASSUME NEW S, NEW s \in Seq(S), s # <<>>
    PROVE  /\ Head(s) \in S /\ Tail(s) \in Seq(S)
           /\ Range(s) = Range(Tail(s)) \cup {Head(s)}
<1>1. /\ Head(s) \in S /\ Tail(s) \in Seq(S) /\ Len(Tail(s)) = Len(s) - 1
      /\ \A i \in 1 .. Len(Tail(s)) : Tail(s)[i] = s[i + 1]
  BY HeadTailProperties
<1>2. Len(s) \in Nat /\ Len(s) >= 1 /\ DOMAIN s = 1 .. Len(s) /\ Head(s) = s[1]
  BY LenProperties, EmptySeq
<1>3. DOMAIN Tail(s) = 1 .. Len(s) - 1
  BY <1>1, LenProperties
<1>4. \A i \in 1 .. Len(s) : i # 1 => i - 1 \in 1 .. Len(s) - 1 /\ Tail(s)[i - 1] = s[i]
  BY <1>1, <1>2
<1>5. \A i \in 1 .. Len(s) - 1 : i + 1 \in 1 .. Len(s) /\ s[i + 1] = Tail(s)[i]
  BY <1>1, <1>2
<1>6. ASSUME NEW x \in Range(s) PROVE x \in Range(Tail(s)) \cup {Head(s)}
  BY <1>2, <1>3, <1>4 DEF Range
<1>7. ASSUME NEW x \in Range(Tail(s)) PROVE x \in Range(s)
  BY <1>2, <1>3, <1>5 DEF Range
<1>8. Head(s) \in Range(s)
  BY <1>2 DEF Range
<1> QED BY <1>1, <1>6, <1>7, <1>8

\* The queue of the render thread, as the set of its messages.
LEMMA QueueFacts ==
    ASSUME Types
    PROVE  /\ queue = <<>> => Waiting = {}
           /\ queue # <<>> => Head(queue) \in Messages /\ Head(queue) \in Waiting
           /\ queue' = queue => queue' \in Seq(Messages) /\ Waiting' = Waiting
           /\ queue' = <<>> => queue' \in Seq(Messages) /\ Waiting' = {}
           /\ \A m \in Messages :
                 /\ queue' = Append(queue, m) => queue' \in Seq(Messages) /\ Waiting' = Waiting \cup {m}
                 /\ queue' = <<m>> \o queue =>
                       /\ queue' \in Seq(Messages) /\ Waiting' = Waiting \cup {m}
                       /\ queue' # <<>> /\ Head(queue') = m
           /\ queue # <<>> /\ queue' = Tail(queue) =>
                 queue' \in Seq(Messages) /\ Waiting = Waiting' \cup {Head(queue)}
<1>1. queue \in Seq(Messages)
  BY DEF Types
<1>2. queue' = <<>> => queue' \in Seq(Messages) /\ Range(queue') = {}
  BY DEF Range
<1>3. queue = <<>> => Range(queue) = {}
  BY DEF Range
<1>4. queue # <<>> => /\ Head(queue) \in Messages /\ Tail(queue) \in Seq(Messages)
                      /\ Range(queue) = Range(Tail(queue)) \cup {Head(queue)}
  BY <1>1, RangeOfTail
<1>5. ASSUME NEW m \in Messages
      PROVE  /\ queue' = Append(queue, m) =>
                   queue' \in Seq(Messages) /\ Range(queue') = Range(queue) \cup {m}
             /\ queue' = <<m>> \o queue =>
                   /\ queue' \in Seq(Messages) /\ Range(queue') = Range(queue) \cup {m}
                   /\ queue' # <<>> /\ Head(queue') = m
  <2>1. /\ Append(queue, m) \in Seq(Messages) /\ Range(Append(queue, m)) = Range(queue) \cup {m}
        /\ <<m>> \o queue \in Seq(Messages) /\ Range(<<m>> \o queue) = Range(queue) \cup {m}
    <3>1. <<m>> \in Seq(Messages) /\ Range(<<m>>) = {m}
      BY DEF Range
    <3>2. Append(queue, m) = queue \o <<m>>
      BY <1>1, AppendIsConcat
    <3> DEFINE one == <<m>>
    <3> HIDE DEF one
    <3>3. queue \o one \in Seq(Messages) /\ one \o queue \in Seq(Messages)
      BY <1>1, <3>1, ConcatProperties DEF one
    <3>4. /\ Range(queue \o one) = Range(queue) \cup Range(one)
          /\ Range(one \o queue) = Range(one) \cup Range(queue)
      <4>1. one \in Seq(Messages)
        BY <3>1 DEF one
      <4> QED BY <1>1, <4>1, RangeConcatenation
    <3> QED BY <3>1, <3>2, <3>3, <3>4 DEF one
  <2>2. <<m>> \o queue # <<>> /\ Head(<<m>> \o queue) = m
    BY <1>1
  <2> QED BY <2>1, <2>2
<1> QED BY <1>1, <1>2, <1>3, <1>4, <1>5 DEF Waiting

LEMMA QueueTypes == ASSUME Types PROVE \A m \in Waiting : m \in Messages /\ m.arg \in Nat /\ m.era \in Nat
<1>1. Waiting \subseteq Messages
  BY ElementOfSeq DEF Types, Waiting, Range
<1> QED BY <1>1 DEF Messages

\* A request to attach changes nothing but that it is pending, and queues an attach then.
Asked(m) ==
    /\ managed' \in ManagedSurfaces /\ queue' \in Seq(Messages)
    /\ managed'.surfaceId = m.surfaceId /\ managed'.config = m.config
    /\ managed'.generation = m.generation /\ managed'.known = m.known
    /\ managed'.pending <=> m.pending \/ (window # 0 /\ m.known /\ m.surfaceId = 0)
    /\ \/ Waiting' = Waiting /\ managed' = m
       \/ Waiting' = Waiting \cup {Attach}

LEMMA RequestFacts ==
    ASSUME Types, NEW m \in ManagedSurfaces, RequestAttachment(m)
    PROVE  Asked(m)
<1>1. Attach \in Messages
  BY DEF Attach, Messages
<1>2. CASE CanAttach(m)
  <2>1. managed' = [m EXCEPT !.pending = TRUE] /\ queue' = Append(queue, Attach)
    BY <1>2 DEF RequestAttachment
  <2> QED BY <1>1, <1>2, <2>1, QueueFacts DEF CanAttach, NeedsAttachment, ManagedSurfaces, Asked
<1>3. CASE ~CanAttach(m)
  <2>1. managed' = m /\ queue' = queue
    BY <1>3 DEF RequestAttachment
  <2> QED BY <1>3, <2>1, QueueFacts DEF CanAttach, NeedsAttachment, ManagedSurfaces, Asked
<1> QED BY <1>2, <1>3

LEMMA PresentFacts ==
    ASSUME Types, NEW config \in Nat, Present(config)
    PROVE  /\ Asked(Presented(config)) /\ Presented(config) \in ManagedSurfaces
           /\ Presented(config).surfaceId = managed.surfaceId /\ Presented(config).config = config
           /\ Presented(config).generation = managed.generation + 1
           /\ Presented(config).known = TRUE /\ Presented(config).pending = managed.pending
           /\ decoding' = decoding \cup
                {[generation |-> managed.generation + 1, config |-> config, era |-> era]}
           /\ decoding' \subseteq Presentations
<1>1. /\ Presented(config) \in ManagedSurfaces
      /\ Presented(config).surfaceId = managed.surfaceId /\ Presented(config).config = config
      /\ Presented(config).generation = managed.generation + 1
      /\ Presented(config).known = TRUE /\ Presented(config).pending = managed.pending
  <2>1. managed \in ManagedSurfaces
    BY DEF Types
  <2>2. Presented(config) = [managed EXCEPT !.known = TRUE, !.config = config,
                                            !.generation = managed.generation + 1]
    BY DEF Presented
  <2>3. managed.generation + 1 \in Nat
    BY <2>1 DEF ManagedSurfaces
  <2>4. ASSUME NEW n \in Nat, NEW m,
               m = [managed EXCEPT !.known = TRUE, !.config = config, !.generation = n]
        PROVE  /\ m \in ManagedSurfaces /\ m.surfaceId = managed.surfaceId /\ m.config = config
               /\ m.generation = n /\ m.known = TRUE /\ m.pending = managed.pending
    BY <2>1, <2>4 DEF ManagedSurfaces
  <2> QED BY <2>2, <2>3, <2>4
<1>2. /\ RequestAttachment(Presented(config))
      /\ decoding' = decoding \cup
           {[generation |-> Presented(config).generation, config |-> config, era |-> era]}
  BY DEF Present
<1>3. decoding' \subseteq Presentations
  <2>1. managed.generation + 1 \in Nat /\ era \in Nat /\ decoding \subseteq Presentations
    BY DEF Types, ManagedSurfaces
  <2> QED BY <1>1, <1>2, <2>1 DEF Presentations
<1> QED BY <1>1, <1>2, <1>3, RequestFacts

\* Configuring a surface changes what it shows, and no other surface.
LEMMA WithConfigFacts ==
    ASSUME IInv, NEW id, NEW config \in Nat, NEW background \in Nat
    PROVE  LET after == WithConfig(id, config, background)
           IN  /\ after \subseteq Surfaces
               /\ \A t \in after : \E s \in surfaces : t.id = s.id /\ t.window = s.window
               /\ \A s \in surfaces : \E t \in after : t.id = s.id
               /\ \A s, t \in after : s.id = t.id => s = t
               /\ \A t \in after : t.id = id => t.config = config /\ t.background = background
<1> DEFINE with(s) == IF s.id # id THEN s
                      ELSE [s EXCEPT !.config = config, !.background = background]
<1>1. ASSUME NEW s \in surfaces
      PROVE  /\ with(s) \in Surfaces /\ with(s).id = s.id /\ with(s).window = s.window
             /\ s.id = id => with(s).config = config /\ with(s).background = background
  BY DEF IInv, Types, Surfaces
<1>2. WithConfig(id, config, background) = {with(s) : s \in surfaces}
  BY DEF WithConfig
<1> HIDE DEF with
<1>3. \A s, t \in surfaces : s.id = t.id => s = t
  BY DEF IInv, Identified
<1> QED BY <1>1, <1>2, <1>3

-----------------------------------------------------------------------------
(* The UI thread.                                                          *)

LEMMA AddSurfaceKeeps == ASSUME IInv, AddSurface PROVE IInv'
<1>1. PICK m \in ManagedSurfaces : RequestAttachment(m) /\ m = IF managed.known THEN managed ELSE Fresh
  BY DEF AddSurface, IInv, Types, ManagedSurfaces, Fresh, NotManaged
<1>2. ~managed.known => /\ managed.surfaceId = 0 /\ managed.config = 0
                        /\ managed.generation = 0 /\ managed.pending = FALSE
  BY DEF IInv, Managed, Types, ManagedSurfaces
<1>3. /\ Asked(m) /\ m.known = TRUE /\ m.surfaceId = managed.surfaceId /\ m.config = managed.config
      /\ m.generation = managed.generation /\ m.pending = managed.pending
  BY <1>1, <1>2, RequestFacts DEF Fresh, NotManaged, IInv, Types, ManagedSurfaces
<1>4. /\ listening' = TRUE /\ ~stopped /\ ~listening /\ ui = "idle"
      /\ ui' = IF window # 0 THEN "refresh" ELSE "idle"
      /\ count' \in Counts /\ count'.windows = count.windows /\ count'.updates = count.updates
      /\ count'.events = count.events + 1 /\ count.events < MaxEvents
      /\ UNCHANGED <<window, stopped, pendingConfig, decoding, render, surfaces, nextId, latest, era, raced>>
  BY DEF AddSurface, Counted, IInv, Types, Counts, native, history
<1>5. Types'
  BY <1>3, <1>4 DEF IInv, Types, Asked
<1>6. Bounds'
  <2>1. count.events \in Nat /\ count.windows \in Nat /\ Bounds /\ MaxEvents \in Nat
    BY BoundAssumption DEF IInv, Types, Counts
  <2> QED BY <1>3, <1>4, <2>1 DEF Bounds, Asked
<1>7. Identified' 
  BY <1>3, <1>4 DEF IInv, Identified, Asked, Attach
<1>8. Managed'
  BY <1>3, <1>4 DEF IInv, Managed, Asked
<1>9. Stopping'
  BY <1>3, <1>4 DEF IInv, Stopping, Asked, Attach
<1>10. Absent' /\ Held'
  BY <1>3, <1>4 DEF IInv, Absent, Held, Asked
<1>11. Generations'
  BY <1>3, <1>4 DEF IInv, Generations, Asked, Attach
<1>12. Presenting'
  BY <1>3, <1>4 DEF IInv, Presenting, Shown, Asked
<1>13. Attaching'
  BY <1>3, <1>4 DEF IInv, Attaching, Asked, Absent
<1> QED BY <1>5, <1>6, <1>7, <1>8, <1>9, <1>10, <1>11, <1>12, <1>13 DEF IInv

LEMMA RemoveSurfaceKeeps == ASSUME IInv, RemoveSurface PROVE IInv'
<1>1. /\ ui = "idle" /\ ~stopped /\ listening /\ listening' = FALSE
      /\ managed' = NotManaged /\ pendingConfig' = NoConfig /\ latest' = 0 /\ era' = era + 1
      /\ UNCHANGED <<window, stopped, ui, decoding, render, surfaces, nextId, count, raced>>
  BY DEF RemoveSurface, native
<1>2. /\ NotManaged \in ManagedSurfaces /\ NotManaged.surfaceId = 0 /\ NotManaged.config = 0
      /\ NotManaged.generation = 0 /\ NotManaged.pending = FALSE /\ NotManaged.known = FALSE
  BY DEF NotManaged, ManagedSurfaces
<1>3. /\ NoConfig \in [generation : Nat, config : Nat]
      /\ NoConfig.generation = 0 /\ NoConfig.config = 0
  BY DEF NoConfig
<1>4. /\ queue' \in Seq(Messages)
      /\ IF managed.surfaceId = 0 THEN Waiting' = Waiting
                                  ELSE Waiting' = Waiting \cup {Detach(managed.surfaceId)}
  <2>1. Detach(managed.surfaceId) \in Messages
    BY DEF Detach, Messages, IInv, Types, ManagedSurfaces
  <2> QED BY <2>1, QueueFacts DEF RemoveSurface, IInv
<1>5. managed.surfaceId \in Nat /\ era \in Nat /\ (\A s \in surfaces : s.id # 0)
  BY DEF IInv, Types, ManagedSurfaces, Surfaces
<1>6. /\ Detach(managed.surfaceId).what = "detach" /\ Detach(managed.surfaceId).arg = managed.surfaceId
  BY DEF Detach
<1> USE <1>1, <1>2, <1>3, <1>4, <1>5, <1>6 DEF IInv
<1>7. Types' /\ Bounds'
  <2>1. Types'
    <3>1. Types /\ era + 1 \in Nat /\ 0 \in Nat
      OBVIOUS
    <3> QED BY ONLY <1>1, <1>2, <1>3, <1>4, <3>1 DEF Types
  <2>2. count.updates \in Nat
    BY DEF Types, Counts
  <2> QED BY <2>1, <2>2 DEF Bounds
<1>8. Identified'
  BY DEF Identified, Types
<1>9. Managed' /\ Stopping' /\ Absent'
  BY DEF Managed, Stopping, Absent
<1>10. Held'
  BY DEF Held
<1>11. Generations'
  <2>1. \A d \in decoding : d.era \in Nat
    BY DEF Types, Presentations
  <2>2. \A m \in Waiting : m.era \in Nat
    BY QueueTypes
  <2> QED BY <2>1, <2>2 DEF Generations
<1>12. Presenting' /\ Attaching'
  BY DEF Presenting, Attaching
<1> QED BY <1>7, <1>8, <1>9, <1>10, <1>11, <1>12

\* The events of the view's window.
LEMMA WindowKeeps ==
    ASSUME IInv, WindowCreated \/ WindowChanged \/ WindowDestroyed PROVE IInv'
<1>1. /\ ui = "idle"
      /\ UNCHANGED <<listening, stopped, managed, pendingConfig, decoding, queue, render,
                     surfaces, nextId, latest, era, raced>>
      /\ Waiting' = Waiting
  BY DEF WindowCreated, WindowChanged, WindowDestroyed, view, state, native, history, Waiting
<1>2. /\ count' \in Counts /\ count'.updates = count.updates
      /\ window' \in Nat /\ window' <= count'.windows /\ count'.windows <= count'.events
      /\ count'.events <= MaxEvents
  <2>1. count \in Counts /\ window \in Nat /\ Bounds /\ MaxEvents \in Nat
    BY BoundAssumption DEF IInv, Types
  <2>2. CASE WindowCreated
    <3>1. /\ count.events < MaxEvents /\ window' = count.windows + 1
          /\ count' = [count EXCEPT !.windows = count.windows + 1, !.events = count.events + 1]
      BY <2>2 DEF WindowCreated, Counted
    <3>2. count.windows + 1 \in Nat /\ count.events + 1 \in Nat
      BY <2>1 DEF Counts
    <3>3. ASSUME NEW n \in Nat, NEW e \in Nat,
                 count' = [count EXCEPT !.windows = n, !.events = e]
          PROVE  /\ count' \in Counts /\ count'.updates = count.updates
                 /\ count'.windows = n /\ count'.events = e
      BY <2>1, <3>3 DEF Counts
    <3>4. /\ count' \in Counts /\ count'.updates = count.updates
          /\ count'.windows = count.windows + 1 /\ count'.events = count.events + 1
      BY <3>1, <3>2, <3>3
    <3>5. count.events \in Nat /\ count.windows \in Nat /\ count.windows <= count.events
      BY <2>1 DEF Counts, Bounds
    <3> QED BY <2>1, <3>1, <3>4, <3>5
  <2>3. CASE WindowChanged
    BY <2>1, <2>3 DEF WindowChanged, Counted, Counts, Bounds, view
  <2>4. CASE WindowDestroyed
    BY <2>1, <2>4 DEF WindowDestroyed, Counts, Bounds
  <2> QED BY <2>2, <2>3, <2>4
<1>3. \/ window' = window /\ window # 0 /\ listening /\ ui' = "created"
      \/ window = 0 /\ window' # 0 /\ ui' = IF listening THEN "created" ELSE "idle"
      \/ window' = 0 /\ ui' = IF listening THEN "destroyed" ELSE "idle"
  <2>1. CASE WindowCreated
    <3>1. count.windows + 1 # 0
      BY DEF IInv, Types, Counts
    <3> QED BY <2>1, <3>1 DEF WindowCreated
  <2>2. CASE WindowChanged \/ WindowDestroyed
    BY <2>2 DEF WindowChanged, WindowDestroyed, view
  <2> QED BY <2>1, <2>2
<1>4. \A s \in surfaces : s.id # 0 /\ s.window # 0
  BY DEF IInv, Types, Surfaces
<1> USE <1>1, <1>2, <1>3, <1>4 DEF IInv
<1>5. Types' /\ Bounds' /\ Identified'
  BY DEF Types, Bounds, Identified
<1>6. Managed' /\ Stopping' /\ Absent'
  BY DEF Managed, Stopping, Absent
<1>7. Held'
  BY DEF Held, Absent
<1>8. Generations' /\ Presenting'
  BY DEF Generations, Presenting, Shown
<1>9. Attaching'
  BY DEF Attaching, Absent
<1> QED BY <1>5, <1>6, <1>7, <1>8, <1>9

LEMMA OnSurfaceCreatedKeeps == ASSUME IInv, OnSurfaceCreated PROVE IInv'
<1>1. /\ ui = "created" /\ ui' = "refresh" /\ Asked(managed) /\ window # 0 /\ listening /\ ~stopped
      /\ managed.known
      /\ UNCHANGED <<window, listening, stopped, pendingConfig, decoding, render, surfaces,
                     nextId, count, latest, era, raced>>
  BY RequestFacts DEF OnSurfaceCreated, view, native, history, IInv, Types, Managed, Stopping
<1> USE <1>1 DEF IInv, Asked
<1>2. Types' /\ Bounds'
  BY DEF Types, Bounds
<1>3. Identified' /\ Managed'
  BY DEF Identified, Managed, Attach
<1>4. Stopping' /\ Absent' /\ Held'
  BY DEF Stopping, Absent, Held, Attach
<1>5. Generations' /\ Presenting'
  BY DEF Generations, Presenting, Shown, Attach
<1>6. Attaching'
  BY DEF Attaching
<1> QED BY <1>2, <1>3, <1>4, <1>5, <1>6

LEMMA OnSurfaceDestroyedKeeps == ASSUME IInv, OnSurfaceDestroyed PROVE IInv'
<1>1. /\ ui = "destroyed" /\ ui' = "detached" /\ pendingConfig' = NoConfig
      /\ managed' = [managed EXCEPT !.pending = FALSE]
      /\ UNCHANGED <<window, listening, stopped, decoding, render, surfaces,
                     nextId, count, latest, era, raced>>
  BY DEF OnSurfaceDestroyed, view, native, history
<1>2. /\ managed \in ManagedSurfaces /\ managed' \in ManagedSurfaces
      /\ managed'.surfaceId = managed.surfaceId /\ managed'.config = managed.config
      /\ managed'.generation = managed.generation /\ managed'.known = managed.known
      /\ managed'.pending = FALSE
  BY <1>1 DEF IInv, Types, ManagedSurfaces
<1>3. /\ NoConfig \in [generation : Nat, config : Nat]
      /\ NoConfig.generation = 0 /\ NoConfig.config = 0
  BY DEF NoConfig
<1>4. /\ queue' \in Seq(Messages)
      /\ IF managed.surfaceId = 0 THEN Waiting' = Waiting
                                  ELSE Waiting' = Waiting \cup {Detach(managed.surfaceId)}
  <2>1. Detach(managed.surfaceId) \in Messages
    BY <1>2 DEF Detach, Messages, ManagedSurfaces
  <2> QED BY <2>1, QueueFacts DEF OnSurfaceDestroyed, IInv
<1>5. /\ Detach(managed.surfaceId).what = "detach" /\ Detach(managed.surfaceId).arg = managed.surfaceId
      /\ managed.generation \in Nat /\ managed.surfaceId \in Nat /\ count.updates \in Nat
  BY <1>2 DEF Detach, ManagedSurfaces, IInv, Types, Counts
<1> USE <1>1, <1>2, <1>3, <1>4, <1>5 DEF IInv
<1>6. Types' /\ Bounds'
  BY DEF Types, Bounds
<1>7. Identified' /\ Managed'
  BY DEF Identified, Managed
<1>8. Stopping' /\ Absent' /\ Held'
  <2>1. Stopping' /\ Absent'
    BY DEF Stopping, Absent, Managed
  <2>2. CASE managed.surfaceId = 0
    <3>1. Waiting' = Waiting /\ \A s \in surfaces : s.id # 0
      BY <2>2 DEF Types, Surfaces
    <3> HIDE <1>4
    <3> QED BY <2>1, <2>2, <3>1 DEF Held
  <2>3. CASE managed.surfaceId # 0
    <3>1. Detach(managed.surfaceId) \in Waiting' /\ Waiting \subseteq Waiting'
      BY <2>3
    <3> HIDE <1>4
    <3> QED BY <2>1, <3>1 DEF Held
  <2> QED BY <2>2, <2>3
<1>9. Generations' /\ Presenting' /\ Attaching'
  BY DEF Generations, Presenting, Attaching, Managed
<1> QED BY <1>6, <1>7, <1>8, <1>9

LEMMA ForgetSurfaceIdKeeps == ASSUME IInv, ForgetSurfaceId PROVE IInv'
<1>1. /\ ui = "detached" /\ ui' = "idle"
      /\ managed' = [managed EXCEPT !.surfaceId = 0, !.pending = FALSE]
      /\ UNCHANGED <<window, listening, stopped, pendingConfig, decoding, queue, render,
                     surfaces, nextId, count, latest, era, raced>>
      /\ Waiting' = Waiting
  BY DEF ForgetSurfaceId, view, native, history, Waiting
<1>2. /\ managed \in ManagedSurfaces /\ managed' \in ManagedSurfaces
      /\ managed'.surfaceId = 0 /\ managed'.config = managed.config
      /\ managed'.generation = managed.generation /\ managed'.known = managed.known
      /\ managed'.pending = FALSE
  BY <1>1 DEF IInv, Types, ManagedSurfaces
<1>3. \A s \in surfaces : s.id # 0
  BY DEF IInv, Types, Surfaces
<1> USE <1>1, <1>2, <1>3 DEF IInv
<1>4. Types' /\ Bounds' /\ Managed'
  BY DEF Types, Bounds, Managed
<1>5. Identified'
  BY DEF Identified, Types
<1>6. Stopping' /\ Absent' /\ Held'
  BY DEF Stopping, Absent, Held, Managed
<1>7. Generations' /\ Presenting' /\ Attaching'
  BY DEF Generations, Presenting, Attaching, Managed
<1> QED BY <1>4, <1>5, <1>6, <1>7

-----------------------------------------------------------------------------
(* Presentations.                                                          *)

\* A presentation is numbered with a new generation, on whichever thread it is sent; if it
\* is not the last one, or the view has gone, this is a race.
LEMMA PresentKeeps ==
    ASSUME IInv, NEW config \in Nat, Present(config), ~stopped,
           UNCHANGED <<window, listening, stopped, pendingConfig, surfaces, nextId, era>>,
           count' \in Counts, count'.windows = count.windows, count.updates <= count'.updates,
           count.events <= count'.events, count'.events <= MaxEvents,
           config <= count'.updates, latest' \in Nat, raced \subseteq raced',
           ui' = ui \/ (ui = "refresh" /\ ui' = "idle"),
           render' = render \/ (render.at = "write" /\ render' = Idle),
           "refresh" \notin raced' => config = latest',
           listening \/ "removed" \in raced' \/ "refresh" \in raced'
             \/ (window = 0 /\ render'.at = "idle")
    PROVE  IInv'
<1>1. /\ Asked(Presented(config)) /\ Presented(config).surfaceId = managed.surfaceId
      /\ Presented(config).config = config
      /\ Presented(config).generation = managed.generation + 1
      /\ Presented(config).known = TRUE /\ Presented(config).pending = managed.pending
      /\ decoding' = decoding \cup
           {[generation |-> managed.generation + 1, config |-> config, era |-> era]}
      /\ decoding' \subseteq Presentations
  BY PresentFacts DEF IInv
<1>2. /\ managed' \in ManagedSurfaces /\ queue' \in Seq(Messages)
      /\ managed'.surfaceId = managed.surfaceId /\ managed'.config = config
      /\ managed'.generation = managed.generation + 1 /\ managed'.known = TRUE
      /\ managed'.pending <=> managed.pending \/ (window # 0 /\ managed.surfaceId = 0)
      /\ \/ Waiting' = Waiting /\ (managed'.pending <=> managed.pending)
         \/ Waiting' = Waiting \cup {Attach}
  BY <1>1 DEF Asked
<1>3. /\ Idle \in Renders /\ Idle.at = "idle" /\ Idle.id = 0 /\ Idle.config = 0
      /\ Attach.what = "attach"
  BY DEF Idle, Renders, Attach
<1>4. /\ nextId \in Nat /\ 0 < nextId /\ managed.generation \in Nat /\ era \in Nat
      /\ count'.updates \in Nat /\ count.updates \in Nat /\ count.events \in Nat
      /\ count'.events \in Nat /\ count.windows \in Nat /\ MaxEvents \in Nat
      /\ pendingConfig.config \in Nat /\ pendingConfig.generation \in Nat /\ render.config \in Nat
      /\ \A d \in decoding : d \in Presentations /\ d.config \in Nat /\ d.generation \in Nat
  <2>1. nextId \in Nat /\ 0 < nextId /\ era \in Nat /\ MaxEvents \in Nat
    BY BoundAssumption DEF IInv, Types
  <2>2. managed.generation \in Nat
    BY DEF IInv, Types, ManagedSurfaces
  <2>3. count \in Counts /\ count' \in Counts
    BY DEF IInv, Types
  <2>4. /\ count'.updates \in Nat /\ count.updates \in Nat /\ count.events \in Nat
        /\ count'.events \in Nat /\ count.windows \in Nat
    BY <2>3 DEF Counts
  <2>5. pendingConfig.config \in Nat /\ pendingConfig.generation \in Nat
    BY DEF IInv, Types
  <2>6. render.config \in Nat
    BY DEF IInv, Types, Renders
  <2>7. \A d \in decoding : d \in Presentations
    BY DEF IInv, Types
  <2>8. \A d \in Presentations : d.config \in Nat /\ d.generation \in Nat
    BY DEF Presentations
  <2> QED BY <2>1, <2>2, <2>4, <2>5, <2>6, <2>7, <2>8
<1> DEFINE new == [generation |-> managed.generation + 1, config |-> config, era |-> era]
<1>5. new.generation = managed.generation + 1 /\ new.config = config /\ new.era = era
  OBVIOUS
<1>6. decoding' = decoding \cup {new}
  BY <1>1
<1> HIDE DEF new
<1>7. Types'
  BY <1>1, <1>2, <1>3 DEF IInv, Types
<1>8. Bounds'
  <2>1. /\ window' <= count'.windows /\ count'.windows <= count'.events /\ count'.events <= MaxEvents
        /\ pendingConfig'.config <= count'.updates
    BY <1>4 DEF IInv, Bounds
  <2>2. managed'.config <= count'.updates /\ render'.config <= count'.updates
    BY <1>2, <1>3, <1>4 DEF IInv, Bounds
  <2>3. \A d \in decoding' : d.config <= count'.updates
    BY <1>4, <1>5, <1>6 DEF IInv, Bounds
  <2> QED BY <2>1, <2>2, <2>3 DEF Bounds
<1>9. Identified' /\ Managed' /\ Stopping'
  BY <1>2, <1>3, <1>4 DEF IInv, Identified, Managed, Stopping
<1>10. Absent' /\ Attaching'
  BY <1>2, <1>3, <1>4 DEF IInv, Absent, Attaching
<1>11. Held'
  BY <1>2, <1>3 DEF IInv, Held
<1>12. Generations'
  <2>1. SUFFICES ASSUME "generation" \notin raced' PROVE Generations'
    BY DEF Generations
  <2>2. Generations /\ "generation" \notin raced
    BY <2>1 DEF IInv
  <2>3. \A d \in decoding' : d.generation # 0 /\ d.era <= era /\
           (d.era = era => d.generation <= managed.generation + 1
              /\ (d.generation = managed.generation + 1 => d.config = config))
    BY <1>4, <1>5, <1>6, <2>2 DEF Generations
  <2>4. \A m \in Waiting : m.what = "configure" => m.arg \in Nat
    BY QueueTypes DEF IInv
  <2>5. \A m \in Waiting' : m.what = "configure" => m.arg # 0 /\ m.era <= era /\
           (m.era = era => m.arg <= managed.generation + 1
              /\ (m.arg = managed.generation + 1 => m.background = config))
    BY <1>2, <1>3, <1>4, <2>2, <2>4 DEF Generations
  <2> QED BY <1>2, <1>4, <2>2, <2>3, <2>5 DEF Generations
<1>13. Presenting'
  BY <1>1, <1>2 DEF Presenting, Shown
<1> QED BY <1>7, <1>8, <1>9, <1>10, <1>11, <1>12, <1>13 DEF IInv

LEMMA UpdateKeeps == ASSUME IInv, UpdateSurfacePresentation PROVE IInv'
<1>1. /\ ui = "idle" /\ ~stopped /\ count.events < MaxEvents
      /\ count' = [count EXCEPT !.updates = count.updates + 1, !.events = count.events + 1]
      /\ latest' = count.updates + 1 /\ Present(count.updates + 1)
      /\ raced' = IF ~listening /\ (window # 0 \/ render.at # "idle")
                  THEN raced \cup {"removed"} ELSE raced
      /\ UNCHANGED <<window, listening, stopped, ui, pendingConfig, render, surfaces, nextId, era>>
  BY DEF UpdateSurfacePresentation, Counted, view, native
<1>2. /\ count \in Counts /\ count.updates \in Nat /\ count.events \in Nat
      /\ count.updates + 1 \in Nat /\ count.events + 1 \in Nat /\ MaxEvents \in Nat
  BY BoundAssumption DEF IInv, Types, Counts
<1>3. ASSUME NEW n \in Nat, NEW e \in Nat, count' = [count EXCEPT !.updates = n, !.events = e]
      PROVE  /\ count' \in Counts /\ count'.windows = count.windows
             /\ count'.updates = n /\ count'.events = e
  BY <1>2, <1>3 DEF Counts
<1>4. /\ count' \in Counts /\ count'.windows = count.windows
      /\ count'.updates = count.updates + 1 /\ count'.events = count.events + 1
  BY <1>1, <1>2, <1>3
<1>5. /\ count.updates <= count'.updates /\ count.events <= count'.events
      /\ count'.events <= MaxEvents /\ count.updates + 1 <= count'.updates
  BY <1>1, <1>2, <1>4
<1> QED BY <1>1, <1>2, <1>4, <1>5, PresentKeeps

LEMMA RefreshKeeps == ASSUME IInv, Refresh PROVE IInv'
<1>1. /\ ui = "refresh" /\ ui' = "idle" /\ ~stopped /\ listening /\ managed.known
      /\ Present(managed.config)
      /\ UNCHANGED <<window, listening, stopped, pendingConfig, render, surfaces, nextId, count,
                     latest, era, raced>>
  BY DEF Refresh, view, native, history, IInv, Managed, Stopping
<1>2. /\ managed.config \in Nat /\ count \in Counts /\ count.updates \in Nat
      /\ count.events \in Nat /\ count.events <= MaxEvents /\ latest \in Nat
      /\ managed.config <= count.updates /\ ("refresh" \notin raced => managed.config = latest)
  BY DEF IInv, Types, Bounds, Presenting, ManagedSurfaces, Counts
<1> QED BY <1>1, <1>2, PresentKeeps

LEMMA RewriteKeeps == ASSUME IInv, RewritePresentation PROVE IInv'
<1>1. /\ render.at = "write" /\ render' = Idle
      /\ UNCHANGED <<window, listening, stopped, ui, pendingConfig, surfaces, nextId, count,
                     latest, era>>
  BY DEF RewritePresentation, view, native
<1>2. /\ Idle \in Renders /\ Idle.at = "idle" /\ Idle.id = 0 /\ Idle.config = 0
  BY DEF Idle, Renders
<1>3. CASE stopped
  <2>1. UNCHANGED <<managed, queue, decoding, raced>> /\ Waiting' = Waiting
    BY <1>3 DEF RewritePresentation, Waiting
  <2> USE <1>1, <1>2, <1>3, <2>1 DEF IInv
  <2>2. Types' /\ Bounds' /\ Identified' /\ Managed'
    BY DEF Types, Bounds, Identified, Managed, Counts
  <2>3. Stopping' /\ Absent' /\ Held' /\ Generations'
    BY DEF Stopping, Absent, Held, Generations
  <2>4. Presenting' /\ Attaching'
    BY DEF Presenting, Attaching
  <2> QED BY <2>2, <2>3, <2>4
<1>4. CASE ~stopped
  <2>1. /\ Present(render.config)
        /\ raced' = IF managed.known /\ managed.config = render.config THEN raced
                    ELSE raced \cup {"refresh"}
    BY <1>4 DEF RewritePresentation
  <2>2. /\ render.config \in Nat /\ count \in Counts /\ count.updates \in Nat
        /\ count.events \in Nat /\ count.events <= MaxEvents /\ latest \in Nat
        /\ render.config <= count.updates /\ ("refresh" \notin raced => managed.config = latest)
    BY DEF IInv, Types, Bounds, Presenting, Renders, Counts
  <2>3. listening \/ "removed" \in raced' \/ "refresh" \in raced'
    BY <1>1, <2>1 DEF IInv, Absent
  <2> QED BY <1>1, <1>4, <2>1, <2>2, <2>3, PresentKeeps
<1> QED BY <1>3, <1>4

\* A background that has been decoded: an older presentation than the one that waits is
\* dropped, and one from before the view was removed is a race.
LEMMA ArriveKeeps == ASSUME IInv, NEW d \in decoding, Arrive(d) PROVE IInv'
<1>1. /\ ui = "idle" /\ decoding' = decoding \ {d}
      /\ raced' = IF d.era = era THEN raced ELSE raced \cup {"generation"}
      /\ UNCHANGED <<window, listening, stopped, ui, managed, render, surfaces, nextId, count,
                     latest, era>>
  BY DEF Arrive, view, native
<1>2. /\ d \in Presentations /\ d.generation \in Nat /\ d.config \in Nat /\ d.era \in Nat
      /\ pendingConfig.generation \in Nat /\ managed.generation \in Nat /\ ~stopped
      /\ d = [generation |-> d.generation, config |-> d.config, era |-> d.era]
  BY DEF IInv, Types, Presentations, ManagedSurfaces, Stopping
<1> DEFINE new == [what |-> "configure", arg |-> d.generation, background |-> d.config,
                   era |-> d.era]
<1>3. /\ new \in Messages /\ new.what = "configure" /\ new.arg = d.generation
      /\ new.background = d.config /\ new.era = d.era
  BY <1>2 DEF Messages
<1>4. \/ d.generation < pendingConfig.generation /\ UNCHANGED <<pendingConfig, queue>>
      \/ /\ pendingConfig' = [generation |-> d.generation, config |-> d.config]
         /\ ~(d.generation < pendingConfig.generation)
         /\ queue' = Append(queue, new)
  BY DEF Arrive, Configure
<1> HIDE DEF new
<1>5. /\ queue' = queue => queue' \in Seq(Messages) /\ Waiting' = Waiting
      /\ queue' = Append(queue, new) => queue' \in Seq(Messages) /\ Waiting' = Waiting \cup {new}
  BY <1>3, QueueFacts DEF IInv
<1>6. /\ queue' \in Seq(Messages) /\ pendingConfig' \in [generation : Nat, config : Nat]
      /\ \/ d.generation < pendingConfig.generation /\ pendingConfig' = pendingConfig
            /\ Waiting' = Waiting
         \/ /\ ~(d.generation < pendingConfig.generation)
            /\ pendingConfig' = [generation |-> d.generation, config |-> d.config]
            /\ pendingConfig'.generation = d.generation /\ pendingConfig'.config = d.config
            /\ Waiting' = Waiting \cup {new}
  BY <1>2, <1>4, <1>5 DEF IInv, Types
<1>7. Types' /\ Bounds'
  BY <1>1, <1>2, <1>6 DEF IInv, Types, Bounds
<1>8. Identified' /\ Managed' /\ Stopping'
  BY <1>1, <1>2, <1>3, <1>6 DEF IInv, Identified, Managed, Stopping
<1>9. Absent' /\ Held' /\ Attaching'
  BY <1>1, <1>3, <1>6 DEF IInv, Absent, Held, Attaching
<1>10. ASSUME "generation" \notin raced'
       PROVE  /\ Generations /\ "generation" \notin raced /\ d.era = era /\ d.generation # 0
              /\ d.generation <= managed.generation
              /\ d.generation = managed.generation => d.config = managed.config
              /\ pendingConfig.generation <= managed.generation
  BY <1>1, <1>10 DEF IInv, Generations
<1>11. Generations'
  <2> SUFFICES ASSUME "generation" \notin raced' PROVE Generations'
    BY DEF Generations
  <2> QED BY <1>1, <1>2, <1>3, <1>6, <1>10 DEF Generations
<1>12. Presenting'
  <2>1. SUFFICES ASSUME "refresh" \notin raced', "generation" \notin raced', ui # "detached",
                        latest # 0, NEW s \in surfaces, s.id = managed.surfaceId
                 PROVE  Shown(s)'
    BY <1>1 DEF IInv, Presenting
  <2>2. Shown(s) /\ managed.config = latest
    BY <1>1, <1>2, <1>10, <2>1 DEF IInv, Presenting
  <2> DEFINE last == [generation |-> managed.generation, config |-> latest, era |-> era]
             sent == [what |-> "configure", arg |-> managed.generation, background |-> latest,
                      era |-> era]
  <2>3. CASE d = last
    <3>1. d.generation = managed.generation /\ d.config = latest /\ d.era = era
      BY <2>3
    <3>2. new = sent /\ pendingConfig' = [generation |-> managed.generation, config |-> latest]
      BY <1>2, <1>6, <1>10, <2>1, <3>1 DEF new
    <3>3. sent \in Waiting'
      BY <1>2, <1>6, <1>10, <2>1, <3>1, <3>2
    <3> QED BY <1>1, <3>2, <3>3 DEF Shown
  <2>4. CASE last \in decoding /\ d # last
    BY <1>1, <2>4 DEF Shown
  <2>5. CASE pendingConfig = [generation |-> managed.generation, config |-> latest] /\ sent \in Waiting
    <3>1. pendingConfig.generation = managed.generation /\ sent \in Waiting'
      BY <1>6, <2>5
    <3>2. pendingConfig' = [generation |-> managed.generation, config |-> latest]
      <4>1. CASE d.generation < pendingConfig.generation
        BY <1>6, <2>5, <4>1
      <4>2. CASE ~(d.generation < pendingConfig.generation)
        BY <1>2, <1>6, <1>10, <2>1, <2>2, <3>1, <4>2
      <4> QED BY <4>1, <4>2
    <3> QED BY <1>1, <3>1, <3>2 DEF Shown
  <2>6. CASE (s.config = latest /\ s.background = latest) \/ render.at \in {"copy", "write"}
    BY <1>1, <2>6 DEF Shown
  <2> QED BY <2>2, <2>3, <2>4, <2>5, <2>6 DEF Shown
<1> QED BY <1>7, <1>8, <1>9, <1>11, <1>12 DEF IInv

LEMMA StopKeeps == ASSUME IInv, Stop PROVE IInv'
<1>1. /\ ui = "idle" /\ ~stopped /\ ~listening /\ stopped' = TRUE /\ ui' = "joining"
      /\ decoding' = {} /\ queue' = <<StopNow>> \o queue
      /\ UNCHANGED <<window, listening, managed, pendingConfig, render, surfaces, nextId, count,
                     latest, era, raced>>
  BY DEF Stop, state, native, history
<1>2. StopNow \in Messages /\ StopNow.what = "stop"
  BY DEF StopNow, Messages
<1>3. /\ queue' \in Seq(Messages) /\ Waiting' = Waiting \cup {StopNow}
      /\ queue' # <<>> /\ Head(queue') = StopNow
  BY <1>1, <1>2, QueueFacts DEF IInv
<1> USE <1>1, <1>2, <1>3 DEF IInv
<1>4. Types' /\ Bounds'
  BY DEF Types, Bounds
<1>5. Identified' /\ Managed' /\ Stopping'
  BY DEF Identified, Managed, Stopping
<1>6. Absent' /\ Held' /\ Attaching'
  BY DEF Absent, Held, Attaching
<1>7. Generations' /\ Presenting'
  BY DEF Generations, Presenting
<1> QED BY <1>4, <1>5, <1>6, <1>7

-----------------------------------------------------------------------------
(* The render thread.                                                      *)

\* A message is taken from the queue, and after a stop none but the stop.
LEMMA HandlingFacts ==
    ASSUME IInv, NEW what, Handling(what), what # "stop"
    PROVE  /\ render.at = "idle" /\ ~stopped /\ Head(queue).what = what
           /\ Head(queue) \in Messages /\ Head(queue) \in Waiting
           /\ queue' \in Seq(Messages) /\ Waiting = Waiting' \cup {Head(queue)}
<1>1. /\ render.at = "idle" /\ queue # <<>> /\ Head(queue).what = what /\ queue' = Tail(queue)
  BY DEF Handling
<1>2. ~stopped
  BY <1>1 DEF IInv, Stopping
<1> QED BY <1>1, <1>2, QueueFacts DEF IInv

LEMMA BeginAttachKeeps == ASSUME IInv, BeginAttach PROVE IInv'
<1>1. /\ render' = IF ~stopped /\ managed.known /\ managed.surfaceId = 0
                         /\ managed.pending /\ window # 0
                   THEN [render EXCEPT !.at = "attach"] ELSE Idle
      /\ UNCHANGED <<window, listening, stopped, ui, managed, pendingConfig, decoding, surfaces,
                     nextId, count, latest, era, raced>>
  BY DEF BeginAttach, view, state, native, history
<1>2. /\ render.at = "idle" /\ ~stopped /\ Head(queue).what = "attach"
      /\ queue' \in Seq(Messages) /\ Waiting = Waiting' \cup {Head(queue)}
  BY HandlingFacts DEF BeginAttach
<1>3. /\ render' \in Renders /\ render'.config <= count.updates /\ render'.id < nextId
      /\ IF managed.known /\ managed.surfaceId = 0 /\ managed.pending /\ window # 0
         THEN render'.at = "attach" ELSE render'.at = "idle"
  <2>1. /\ render \in Renders /\ render.config <= count.updates /\ render.id < nextId
        /\ 0 <= count.updates /\ 0 < nextId
    BY DEF IInv, Types, Bounds, Identified, Counts
  <2>2. Idle \in Renders /\ Idle.at = "idle" /\ Idle.id = 0 /\ Idle.config = 0
    BY DEF Idle, Renders
  <2>3. render' = [render EXCEPT !.at = "attach"] =>
           /\ render' \in Renders /\ render'.at = "attach"
           /\ render'.id = render.id /\ render'.config = render.config
    BY <2>1 DEF Renders
  <2> QED BY <1>1, <1>2, <2>1, <2>2, <2>3
<1> USE <1>1, <1>2, <1>3 DEF IInv
<1>4. Types' /\ Bounds'
  BY DEF Types, Bounds
<1>5. Identified' /\ Managed' /\ Stopping'
  BY DEF Identified, Managed, Stopping
<1>6. Absent' /\ Held'
  BY DEF Absent, Held, Managed
<1>7. Generations' /\ Presenting'
  BY DEF Generations, Presenting, Shown
<1>8. Attaching'
  BY DEF Attaching, Managed
<1> QED BY <1>4, <1>5, <1>6, <1>7, <1>8

LEMMA AttachNativeKeeps == ASSUME IInv, AttachNative PROVE IInv'
<1>1. /\ render.at = "attach"
      /\ UNCHANGED <<window, listening, stopped, ui, managed, pendingConfig, decoding, queue,
                     count, latest, era>>
      /\ Waiting' = Waiting
  BY DEF AttachNative, view, state, Waiting
<1> DEFINE new == [id |-> nextId, window |-> window, config |-> 0, background |-> 0]
<1>2. \/ /\ window # 0 /\ surfaces' = surfaces \cup {new} /\ nextId' = nextId + 1
         /\ render' = [render EXCEPT !.at = "attached", !.id = nextId]
         /\ raced' = raced
      \/ /\ UNCHANGED <<surfaces, nextId>>
         /\ render' = [render EXCEPT !.at = "attached", !.id = 0]
         /\ raced' = raced \/ raced' = raced \cup {"failed"}
  BY DEF AttachNative, NextSurfaceId, native
<1>3. /\ render \in Renders /\ window \in Nat /\ nextId \in Nat /\ nextId # 0 /\ nextId + 1 \in Nat
      /\ managed.surfaceId = 0 /\ managed.surfaceId < nextId /\ render.id \in Nat
      /\ \A s \in surfaces : s.id \in Nat /\ s.id # 0 /\ s.id < nextId
      /\ \A m \in Waiting : m.arg \in Nat
  BY <1>1, QueueTypes DEF IInv, Types, Identified, Renders, Surfaces
<1>4. new.id = nextId /\ new.window = window /\ (window # 0 => new \in Surfaces)
  BY <1>3 DEF Surfaces
<1> HIDE DEF new
<1>5. \/ /\ window # 0 /\ surfaces' = surfaces \cup {new} /\ nextId' = nextId + 1
         /\ render' \in Renders /\ render'.at = "attached" /\ render'.id = nextId
         /\ render'.config = render.config /\ raced' = raced
      \/ /\ UNCHANGED <<surfaces, nextId>>
         /\ render' \in Renders /\ render'.at = "attached" /\ render'.id = 0
         /\ render'.config = render.config /\ (raced' = raced \/ raced' = raced \cup {"failed"})
  <2>1. ASSUME NEW i \in Nat, render' = [render EXCEPT !.at = "attached", !.id = i]
        PROVE  /\ render' \in Renders /\ render'.at = "attached" /\ render'.id = i
               /\ render'.config = render.config
    BY <1>3, <2>1 DEF Renders
  <2>2. render' = [render EXCEPT !.at = "attached", !.id = nextId] =>
           /\ render' \in Renders /\ render'.at = "attached" /\ render'.id = nextId
           /\ render'.config = render.config
    BY ONLY <1>3, <2>1
  <2>3. render' = [render EXCEPT !.at = "attached", !.id = 0] =>
           /\ render' \in Renders /\ render'.at = "attached" /\ render'.id = 0
           /\ render'.config = render.config
    BY ONLY <2>1
  <2> QED BY ONLY <1>2, <2>2, <2>3
<1>6. Types' /\ Bounds'
  BY <1>1, <1>3, <1>4, <1>5 DEF IInv, Types, Bounds
<1>7. Identified'
  BY <1>1, <1>3, <1>4, <1>5 DEF IInv, Identified
<1>8. Managed' /\ Stopping' /\ Absent'
  BY <1>1, <1>3, <1>5 DEF IInv, Managed, Stopping, Absent
<1>9. Held'
  BY <1>1, <1>3, <1>4, <1>5 DEF IInv, Held
<1>10. Generations' /\ Presenting'
  BY <1>1, <1>3, <1>4, <1>5 DEF IInv, Generations, Presenting
<1>11. Attaching'
  BY <1>1, <1>5 DEF IInv, Attaching
<1> QED BY <1>6, <1>7, <1>8, <1>9, <1>10, <1>11 DEF IInv

LEMMA CopyKeeps == ASSUME IInv, CopyPresentation PROVE IInv'
<1>1. /\ render.at = "copy"
      /\ render' = IF managed.known /\ ~stopped
                   THEN [render EXCEPT !.at = "write", !.config = managed.config] ELSE Idle
      /\ UNCHANGED <<window, listening, stopped, ui, managed, pendingConfig, decoding, queue,
                     surfaces, nextId, count, latest, era, raced>>
      /\ Waiting' = Waiting
  BY DEF CopyPresentation, view, state, native, history, Waiting
<1>2. /\ managed.config \in Nat /\ managed.config <= count.updates /\ render \in Renders
      /\ render.id < nextId /\ 0 < nextId /\ 0 <= count.updates
  BY DEF IInv, Types, Bounds, Identified, ManagedSurfaces, Counts
<1>3. /\ render' \in Renders /\ render'.config <= count.updates /\ render'.id < nextId
      /\ IF managed.known /\ ~stopped THEN render'.at = "write" ELSE render'.at = "idle"
  <2>1. Idle \in Renders /\ Idle.at = "idle" /\ Idle.id = 0 /\ Idle.config = 0
    BY DEF Idle, Renders
  <2>2. render' = [render EXCEPT !.at = "write", !.config = managed.config] =>
           /\ render' \in Renders /\ render'.at = "write"
           /\ render'.id = render.id /\ render'.config = managed.config
    BY <1>2 DEF Renders
  <2> QED BY <1>1, <1>2, <2>1, <2>2
<1>4. \A s \in surfaces : s.id # 0
  BY DEF IInv, Types, Surfaces
<1> USE <1>1, <1>3, <1>4 DEF IInv
<1>5. Types' /\ Bounds' /\ Identified' /\ Managed'
  BY DEF Types, Bounds, Identified, Managed
<1>6. Stopping' /\ Absent' /\ Held' /\ Attaching'
  BY DEF Stopping, Absent, Held, Attaching
<1>7. Generations' /\ Presenting'
  BY DEF Generations, Presenting, Shown, Managed
<1> QED BY <1>5, <1>6, <1>7

LEMMA DetachKeeps == ASSUME IInv, DetachSurface PROVE IInv'
<1>1. /\ surfaces' = Without({Head(queue).arg})
      /\ UNCHANGED <<window, listening, stopped, ui, managed, pendingConfig, decoding, render,
                     nextId, count, latest, era, raced>>
  BY DEF DetachSurface, view, state, history
<1>2. /\ render.at = "idle" /\ ~stopped /\ Head(queue).what = "detach" /\ Head(queue) \in Waiting
      /\ queue' \in Seq(Messages) /\ Waiting = Waiting' \cup {Head(queue)}
  BY HandlingFacts DEF DetachSurface
<1>3. surfaces' = {s \in surfaces : s.id # Head(queue).arg}
  BY <1>1 DEF Without
<1>4. Head(queue).arg # managed.surfaceId \/ ui = "detached"
  BY <1>2 DEF IInv, Identified
<1> DEFINE first == Head(queue)
<1>5. /\ first.what = "detach" /\ first \in Waiting /\ Waiting = Waiting' \cup {first}
      /\ surfaces' = {s \in surfaces : s.id # first.arg}
      /\ first.arg # managed.surfaceId \/ ui = "detached"
  BY <1>2, <1>3, <1>4
<1>6. [what |-> "configure", arg |-> managed.generation, background |-> latest, era |-> era] # first
  BY <1>5
<1>7. Attach # first
  BY <1>5 DEF Attach
<1> HIDE DEF first
<1>8. Types' /\ Bounds'
  BY <1>1, <1>2, <1>5 DEF IInv, Types, Bounds
<1>9. Identified' /\ Managed'
  BY <1>1, <1>2, <1>5 DEF IInv, Identified, Managed
<1>10. Stopping' /\ Absent' /\ Attaching'
  BY <1>1, <1>2, <1>5, <1>7 DEF IInv, Stopping, Absent, Attaching
<1>11. Held'
  BY <1>1, <1>2, <1>5 DEF IInv, Held
<1>12. Generations'
  BY <1>1, <1>5 DEF IInv, Generations
<1>13. Presenting'
  BY <1>1, <1>5, <1>6 DEF IInv, Presenting, Shown
<1> QED BY <1>8, <1>9, <1>10, <1>11, <1>12, <1>13 DEF IInv

\* An attached surface becomes the one that is held, or is detached again.
LEMMA KeepOrDetachKeeps == ASSUME IInv, KeepOrDetach PROVE IInv'
<1>1. /\ render.at = "attached" /\ managed.surfaceId = 0
      /\ UNCHANGED <<window, listening, stopped, ui, pendingConfig, decoding, queue, nextId, count,
                     latest, era>>
      /\ Waiting' = Waiting
  BY DEF KeepOrDetach, view, IInv, Identified, Waiting
<1>2. /\ render \in Renders /\ managed \in ManagedSurfaces /\ render.id \in Nat
      /\ render.id < nextId /\ managed.config \in Nat
      /\ \A s \in surfaces : s \in Surfaces /\ s.id # 0
  BY DEF IInv, Types, Identified, Renders, ManagedSurfaces, Surfaces
<1>3. Idle \in Renders /\ Idle.at = "idle" /\ Idle.id = 0 /\ Idle.config = 0
  BY DEF Idle, Renders
<1>4. CASE Unwanted
  <2>1. /\ surfaces' = {s \in surfaces : s.id # render.id} /\ render' = Idle
        /\ UNCHANGED <<managed, raced>>
    BY <1>4 DEF KeepOrDetach, Without
  <2> USE <1>1, <1>2, <1>3, <2>1 DEF IInv
  <2>2. Types' /\ Bounds'
    BY DEF Types, Bounds, Counts
  <2>3. Identified' /\ Managed'
    BY DEF Identified, Managed, Types
  <2>4. Stopping' /\ Absent' /\ Held'
    BY DEF Stopping, Absent, Held
  <2>5. Generations' /\ Presenting'
    BY DEF Generations, Presenting
  <2>6. Attaching'
    BY <1>4 DEF Attaching, Unwanted, Managed
  <2> QED BY <2>2, <2>3, <2>4, <2>5, <2>6
<1>5. CASE ~Unwanted
  <2>1. /\ managed.known /\ managed.pending /\ window # 0
        /\ managed' = [managed EXCEPT !.pending = FALSE, !.surfaceId = render.id]
        /\ surfaces' = IF managed.config # 0 THEN WithConfig(render.id, managed.config, 0)
                       ELSE surfaces
        /\ render' = IF render.id # 0 THEN [render EXCEPT !.at = "copy"] ELSE Idle
        /\ raced' = IF render.id # 0 /\ WindowOf(render.id) # window THEN raced \cup {"window"}
                    ELSE IF render.id = 0 THEN raced \cup {"failed"} ELSE raced
    BY <1>5 DEF KeepOrDetach, Unwanted
  <2>2. /\ managed' \in ManagedSurfaces /\ managed'.surfaceId = render.id
        /\ managed'.config = managed.config /\ managed'.generation = managed.generation
        /\ managed'.pending = FALSE /\ managed'.known = managed.known
    BY <1>2, <2>1 DEF ManagedSurfaces
  <2>3. /\ render' \in Renders /\ render'.config <= count.updates /\ render'.id < nextId
        /\ render'.at = IF render.id # 0 THEN "copy" ELSE "idle"
    <3>1. render' = [render EXCEPT !.at = "copy"] =>
             render' \in Renders /\ render'.at = "copy" /\ render'.id = render.id
             /\ render'.config = render.config
      BY <1>2 DEF Renders
    <3>2. render.config <= count.updates /\ 0 <= count.updates /\ render.id < nextId /\ 0 < nextId
      BY DEF IInv, Types, Bounds, Identified, Counts
    <3> QED BY <1>3, <2>1, <3>1, <3>2
  <2>4. /\ surfaces' \subseteq Surfaces
        /\ \A t \in surfaces' : \E s \in surfaces : t.id = s.id /\ t.window = s.window
        /\ \A s \in surfaces : \E t \in surfaces' : t.id = s.id
        /\ \A s, t \in surfaces' : s.id = t.id => s = t
    <3>1. CASE managed.config = 0
      BY <2>1, <3>1 DEF IInv, Types, Identified
    <3>2. CASE managed.config # 0
      BY <1>2, <2>1, <3>2, WithConfigFacts DEF IInv
    <3> QED BY <3>1, <3>2
  <2>5. \A s \in surfaces : s.id = render.id /\ "window" \notin raced' => s.window = window
    <3> SUFFICES ASSUME NEW s \in surfaces, s.id = render.id, "window" \notin raced'
                 PROVE  s.window = window
      OBVIOUS
    <3>1. s.id # 0 /\ \A t \in surfaces : t.id = s.id => t = s
      BY <1>2 DEF IInv, Identified
    <3>2. (CHOOSE t \in surfaces : t.id = render.id) = s
      BY <3>1
    <3> QED BY <2>1, <3>1, <3>2 DEF WindowOf
  <2>6. /\ raced \subseteq raced'
        /\ \A r \in {"removed", "refresh", "generation", "stop"} : r \in raced' <=> r \in raced
        /\ raced' = {} => raced = {} /\ render.id # 0
    BY <2>1
  <2>7. Types' /\ Bounds'
    BY <1>1, <2>2, <2>3, <2>4 DEF IInv, Types, Bounds
  <2>8. Identified'
    <3>1. \A s \in surfaces' : s.id < nextId
      BY <2>4 DEF IInv, Identified
    <3>2. render.id # 0 => \E s \in surfaces' : s.id = render.id
      BY <1>1, <2>4 DEF IInv, Identified
    <3>3. \A m \in Waiting : m.what = "detach" => m.arg # 0 /\ m.arg < nextId /\ m.arg # render.id
      BY <1>1 DEF IInv, Identified
    <3> QED BY <1>1, <1>2, <2>2, <2>3, <2>4, <3>1, <3>2, <3>3 DEF Identified
  <2>9. Managed' /\ Stopping'
    BY <1>1, <2>1, <2>2, <2>3 DEF IInv, Managed, Stopping
  <2>10. Absent'
    BY <1>1, <2>1, <2>6 DEF IInv, Absent
  <2>11. ui # "detached"
    BY <2>1 DEF IInv, Managed
  <2>12. Held'
    <3> SUFFICES ASSUME NEW t \in surfaces'
                 PROVE  /\ t.id = managed'.surfaceId => t.window = window \/ "window" \in raced'
                        /\ \/ t.id = managed'.surfaceId
                           \/ \E m \in Waiting : m.what = "detach" /\ m.arg = t.id
                           \/ "stop" \in raced'
      BY <1>1, <2>11 DEF Held
    <3>1. PICK s \in surfaces : t.id = s.id /\ t.window = s.window
      BY <2>4
    <3>2. \/ s.id = render.id
          \/ \E m \in Waiting : m.what = "detach" /\ m.arg = s.id
          \/ "stop" \in raced
      BY <1>1, <1>2 DEF IInv, Held
    <3> QED BY <2>2, <2>5, <2>6, <3>1, <3>2
  <2>13. Generations' 
    BY <1>1, <2>2, <2>6 DEF IInv, Generations
  <2>14. Presenting'
    <3>1. \A s \in surfaces' : s.id = managed'.surfaceId => render'.at = "copy"
      BY <1>2, <2>2, <2>3, <2>4
    <3> QED BY <1>1, <2>2, <2>6, <3>1 DEF IInv, Presenting, Shown
  <2>15. Attaching'
    BY <1>1, <2>2, <2>6 DEF Attaching
  <2> QED BY <2>7, <2>8, <2>9, <2>10, <2>12, <2>13, <2>14, <2>15 DEF IInv
<1> QED BY <1>4, <1>5

\* A presentation is put on the surface that is held if it is the one that waits.
LEMMA ConfigureKeeps == ASSUME IInv, ConfigureSurface PROVE IInv'
<1> DEFINE first == Head(queue)
           last == [what |-> "configure", arg |-> managed.generation, background |-> latest,
                    era |-> era]
           matches == /\ managed.surfaceId # 0 /\ managed.generation = first.arg
                      /\ pendingConfig.generation = first.arg
<1>1. UNCHANGED <<window, listening, stopped, ui, managed, decoding, render, nextId, count, latest, era>>
  BY DEF ConfigureSurface, view
<1>2. /\ render.at = "idle" /\ ~stopped /\ first.what = "configure" /\ first \in Waiting
      /\ first \in Messages /\ queue' \in Seq(Messages) /\ Waiting = Waiting' \cup {first}
  BY HandlingFacts DEF ConfigureSurface
<1>3. Attach # first /\ (last = first => first.arg = managed.generation)
  BY <1>2 DEF Attach
<1>4. first.arg \in Nat /\ first.background \in Nat /\ first.era \in Nat
  BY <1>2 DEF Messages
<1>5. CASE ~matches
  <2>1. UNCHANGED <<pendingConfig, surfaces, raced>>
    BY <1>2, <1>5 DEF ConfigureSurface
  <2>2. managed.surfaceId # 0 /\ pendingConfig.generation = managed.generation => last # first
    BY <1>3, <1>5
  <2> HIDE DEF first, last, matches
  <2>3. Types' /\ Bounds'
    BY <1>1, <1>2, <2>1 DEF IInv, Types, Bounds
  <2>4. Identified' /\ Managed'
    BY <1>1, <1>2, <2>1 DEF IInv, Identified, Managed
  <2>5. Stopping' /\ Absent' /\ Attaching'
    BY <1>1, <1>2, <1>3, <2>1 DEF IInv, Stopping, Absent, Attaching
  <2>6. Held'
    BY <1>1, <1>2, <2>1 DEF IInv, Held
  <2>7. Generations'
    BY <1>1, <1>2, <2>1 DEF IInv, Generations
  <2>8. Presenting'
    <3> SUFFICES ASSUME "refresh" \notin raced, "generation" \notin raced, ui # "detached",
                        latest # 0, NEW s \in surfaces, s.id = managed.surfaceId
                 PROVE  Shown(s)'
      BY <1>1, <2>1 DEF IInv, Presenting
    <3>1. Shown(s) /\ s.id # 0
      BY <1>2 DEF IInv, Presenting, Types, Surfaces
    <3>2. CASE pendingConfig = [generation |-> managed.generation, config |-> latest]
               /\ last \in Waiting
      <4>1. pendingConfig.generation = managed.generation
        BY <3>2
      <4>2. last \in Waiting'
        BY <1>2, <2>2, <3>1, <3>2, <4>1
      <4> QED BY <1>1, <2>1, <3>2, <4>2 DEF Shown, last
    <3> QED BY <1>1, <2>1, <3>1, <3>2 DEF Shown, last
  <2> QED BY <2>3, <2>4, <2>5, <2>6, <2>7, <2>8 DEF IInv
<1>6. CASE matches
  <2>1. /\ pendingConfig' = NoConfig
        /\ surfaces' = IF pendingConfig.config = 0 THEN surfaces
                       ELSE WithConfig(managed.surfaceId, pendingConfig.config, first.background)
        /\ raced' = IF first.era = era THEN raced ELSE raced \cup {"generation"}
    BY <1>2, <1>6 DEF ConfigureSurface
  <2>2. /\ NoConfig \in [generation : Nat, config : Nat]
        /\ NoConfig.generation = 0 /\ NoConfig.config = 0
    BY DEF NoConfig
  <2>3. pendingConfig.config \in Nat /\ count.updates \in Nat /\ managed.generation \in Nat
    BY DEF IInv, Types, Counts, ManagedSurfaces
  <2>4. /\ surfaces' \subseteq Surfaces
        /\ \A t \in surfaces' : \E s \in surfaces : t.id = s.id /\ t.window = s.window
        /\ \A s \in surfaces : \E t \in surfaces' : t.id = s.id
        /\ \A s, t \in surfaces' : s.id = t.id => s = t
        /\ pendingConfig.config # 0 => \A t \in surfaces' : t.id = managed.surfaceId =>
              t.config = pendingConfig.config /\ t.background = first.background
    <3>1. CASE pendingConfig.config = 0
      BY <2>1, <3>1 DEF IInv, Types, Identified
    <3>2. CASE pendingConfig.config # 0
      <4>1. surfaces' = WithConfig(managed.surfaceId, pendingConfig.config, first.background)
        BY <2>1, <3>2
      <4> QED BY <1>4, <2>3, <4>1, WithConfigFacts DEF IInv
    <3> QED BY <3>1, <3>2
  <2>5. first.arg = managed.generation /\ pendingConfig.generation = managed.generation
    BY <1>6
  <2> HIDE DEF first, last, matches
  <2>6. /\ raced \subseteq raced'
        /\ \A r \in {"removed", "refresh", "window", "stop"} : r \in raced' <=> r \in raced
        /\ raced' = {} => raced = {}
        /\ "generation" \notin raced' => "generation" \notin raced /\ first.era = era
    BY <2>1
  <2>7. Types' /\ Bounds'
    BY <1>1, <1>2, <2>1, <2>2, <2>3, <2>4 DEF IInv, Types, Bounds
  <2>8. Identified' /\ Managed'
    <3>1. /\ \A s \in surfaces' : s.id < nextId
          /\ managed.surfaceId # 0 /\ ui # "detached" => \E s \in surfaces' : s.id = managed.surfaceId
      BY <2>4 DEF IInv, Identified
    <3> QED BY <1>1, <1>2, <2>4, <3>1 DEF IInv, Identified, Managed
  <2>9. Stopping' /\ Absent' /\ Attaching'
    BY <1>1, <1>2, <1>3, <2>6 DEF IInv, Stopping, Absent, Attaching
  <2>10. Held'
    <3> SUFFICES ASSUME NEW t \in surfaces'
                 PROVE  /\ t.id = managed.surfaceId =>
                             \/ t.window = window \/ ui \in {"destroyed", "detached"}
                             \/ "window" \in raced' \/ "removed" \in raced' \/ "refresh" \in raced'
                        /\ \/ t.id = managed.surfaceId /\ ui # "detached"
                           \/ \E m \in Waiting' : m.what = "detach" /\ m.arg = t.id
                           \/ "stop" \in raced'
      BY <1>1 DEF Held
    <3>1. PICK s \in surfaces : t.id = s.id /\ t.window = s.window
      BY <2>4
    <3> QED BY <1>2, <2>6, <3>1 DEF IInv, Held
  <2>11. Generations'
    BY <1>1, <1>2, <2>1, <2>2, <2>3, <2>6 DEF IInv, Generations
  <2>12. Presenting'
    <3> SUFFICES ASSUME "refresh" \notin raced', "generation" \notin raced',
                        latest # 0, NEW t \in surfaces', t.id = managed.surfaceId
                 PROVE  t.config = latest /\ t.background = latest
      BY <1>1, <2>6 DEF IInv, Presenting, Shown
    <3>1. Generations /\ "generation" \notin raced /\ first.era = era /\ managed.config = latest
      BY <2>6 DEF IInv, Presenting
    <3>2. first.arg # 0 /\ first.background = managed.config
      BY <1>2, <2>5, <3>1 DEF Generations
    <3>3. pendingConfig.config = managed.config
      BY <2>5, <3>1, <3>2 DEF Generations
    <3> QED BY <2>4, <3>1, <3>2, <3>3
  <2> QED BY <2>7, <2>8, <2>9, <2>10, <2>11, <2>12 DEF IInv
<1> QED BY <1>5, <1>6

\* The stop empties the queue and detaches the surface that is held.
LEMMA StopThreadKeeps == ASSUME IInv, StopThread PROVE IInv'
<1>1. /\ render.at = "idle" /\ queue # <<>> /\ Head(queue).what = "stop" /\ queue' = <<>>
      /\ surfaces' = {s \in surfaces : s.id # managed.surfaceId}
      /\ managed' = [managed EXCEPT !.surfaceId = 0, !.pending = FALSE]
      /\ pendingConfig' = NoConfig /\ ui' = "idle"
      /\ raced' = IF \E i \in DOMAIN queue : queue[i].what = "detach"
                  THEN raced \cup {"stop"} ELSE raced
      /\ UNCHANGED <<window, listening, stopped, decoding, render, nextId, count, latest, era>>
  BY DEF StopThread, view, Without
<1>2. /\ Waiting' = {} /\ queue' \in Seq(Messages) /\ Head(queue) \in Waiting
  BY <1>1, QueueFacts DEF IInv
<1>3. stopped /\ ~listening /\ decoding = {} /\ ui = "joining"
  BY <1>1, <1>2 DEF IInv, Stopping
<1>4. /\ managed' \in ManagedSurfaces /\ managed'.surfaceId = 0
      /\ managed'.config = managed.config /\ managed'.generation = managed.generation
      /\ managed'.pending = FALSE /\ managed'.known = managed.known
  BY <1>1 DEF IInv, Types, ManagedSurfaces
<1>5. /\ NoConfig \in [generation : Nat, config : Nat]
      /\ NoConfig.generation = 0 /\ NoConfig.config = 0
  BY DEF NoConfig
<1>6. /\ raced \subseteq raced'
      /\ \A r \in {"removed", "refresh", "generation"} : r \in raced' <=> r \in raced
      /\ raced' = {} => raced = {}
      /\ (\E m \in Waiting : m.what = "detach") => "stop" \in raced'
  BY <1>1 DEF Waiting, Range
<1>7. /\ \A s \in surfaces : s.id # 0
      /\ nextId \in Nat /\ 0 < nextId /\ managed.generation \in Nat /\ count.updates \in Nat
  BY DEF IInv, Types, Surfaces, ManagedSurfaces, Counts
<1>8. Types' /\ Bounds'
  BY <1>1, <1>2, <1>4, <1>5, <1>7 DEF IInv, Types, Bounds
<1>9. Identified' /\ Managed'
  BY <1>1, <1>2, <1>4, <1>7 DEF IInv, Identified, Managed
<1>10. Stopping' /\ Absent'
  BY <1>1, <1>2, <1>3, <1>4 DEF IInv, Stopping, Absent
<1>11. Held'
  BY <1>1, <1>3, <1>4, <1>6, <1>7 DEF IInv, Held
<1>12. Generations' /\ Presenting' /\ Attaching'
  BY <1>1, <1>2, <1>3, <1>4, <1>5, <1>6, <1>7 DEF IInv, Generations, Presenting, Attaching
<1> QED BY <1>8, <1>9, <1>10, <1>11, <1>12 DEF IInv

-----------------------------------------------------------------------------
LEMMA InitIInv == Init => IInv
<1> SUFFICES ASSUME Init PROVE IInv
  OBVIOUS
<1>1. Waiting = {} /\ queue \in Seq(Messages)
  BY DEF Init, Waiting, Range
<1>2. /\ managed \in ManagedSurfaces /\ managed.surfaceId = 0 /\ managed.config = 0
      /\ managed.generation = 0 /\ managed.pending = FALSE /\ managed.known = TRUE
  BY DEF Init, Fresh, NotManaged, ManagedSurfaces
<1>3. /\ pendingConfig \in [generation : Nat, config : Nat]
      /\ pendingConfig.generation = 0 /\ pendingConfig.config = 0
      /\ render \in Renders /\ render.at = "idle" /\ render.id = 0 /\ render.config = 0
      /\ count \in Counts /\ count.windows = 0 /\ count.updates = 0 /\ count.events = 0
  BY DEF Init, NoConfig, Idle, Renders, Counts
<1>4. /\ window = 0 /\ listening = TRUE /\ stopped = FALSE /\ ui = "idle" /\ decoding = {}
      /\ surfaces = {} /\ nextId = 1 /\ latest = 0 /\ era = 0 /\ raced = {}
  BY DEF Init
<1>5. Types /\ Bounds /\ Identified /\ Managed
  <2>1. Types
    <3>1. /\ window \in Nat /\ nextId \in Nat \ {0} /\ latest \in Nat /\ era \in Nat
          /\ ui \in {"idle"}
      BY ONLY <1>4
    <3>2. listening \in BOOLEAN /\ stopped \in BOOLEAN
      BY ONLY <1>4
    <3>3. decoding \subseteq Presentations /\ surfaces \subseteq Surfaces
      BY ONLY <1>4
    <3> QED BY ONLY <1>1, <1>2, <1>3, <3>1, <3>2, <3>3 DEF Types
  <2>2. Bounds
    BY <1>2, <1>3, <1>4, BoundAssumption DEF Bounds
  <2>3. Identified /\ Managed
    BY <1>1, <1>2, <1>3, <1>4 DEF Identified, Managed
  <2> QED BY <2>1, <2>2, <2>3
<1>6. Stopping /\ Absent /\ Held /\ Generations /\ Presenting /\ Attaching
  BY <1>1, <1>2, <1>3, <1>4 DEF Stopping, Absent, Held, Generations, Presenting, Attaching
<1> QED BY <1>5, <1>6 DEF IInv

LEMMA NextIInv == IInv /\ [Next]_vars => IInv'
<1> SUFFICES ASSUME IInv, [Next]_vars PROVE IInv'
  OBVIOUS
<1>1. CASE UNCHANGED vars
  BY <1>1 DEF vars, view, state, native, history, IInv, Types, Bounds, Identified, Managed,
              Stopping, Absent, Held, Generations, Presenting, Shown, Attaching, Waiting
<1>2. CASE Ui
  BY <1>2, AddSurfaceKeeps, RemoveSurfaceKeeps, UpdateKeeps, WindowKeeps, StopKeeps DEF Ui
<1>3. CASE Continue
  BY <1>3, OnSurfaceCreatedKeeps, RefreshKeeps, OnSurfaceDestroyedKeeps, ForgetSurfaceIdKeeps
     DEF Continue
<1>4. CASE Decoded
  BY <1>4, ArriveKeeps DEF Decoded
<1>5. CASE RenderThread
  BY <1>5, BeginAttachKeeps, AttachNativeKeeps, KeepOrDetachKeeps, CopyKeeps, RewriteKeeps,
     ConfigureKeeps, DetachKeeps, StopThreadKeeps DEF RenderThread
<1> QED BY <1>1, <1>2, <1>3, <1>4, <1>5 DEF Next

LEMMA SpecIInv == Spec => []IInv
  BY InitIInv, NextIInv, PTL DEF Spec

-----------------------------------------------------------------------------
(* What the runs check.                                                    *)

\* Every surface has an id of its own, never given twice, and no more is shown than has
\* been presented.
THEOREM SpecTypeOK == Spec => []TypeOK
<1>1. IInv => TypeOK
  <2> SUFFICES ASSUME IInv PROVE TypeOK
    OBVIOUS
  <2>1. /\ window \in Nat /\ count.windows \in Nat /\ count.events \in Nat /\ MaxEvents \in Nat
        /\ render.at \in {"idle", "attach", "attached", "copy", "write"}
    BY BoundAssumption DEF IInv, Types, Counts, Renders
  <2>2. window \in 0 .. MaxEvents
    BY <2>1 DEF IInv, Bounds
  <2> QED BY <2>1, <2>2 DEF IInv, Types, Bounds, Identified, TypeOK
<1> QED BY <1>1, SpecIInv, PTL

\* No native surface outlives its use, but for the races named.
THEOREM SpecNoForgottenSurface == Spec => []NoForgottenSurface
<1>1. IInv => NoForgottenSurface
  <2> SUFFICES ASSUME IInv, Settled, raced \cap {"stop", "window", "removed", "refresh"} = {},
                      NEW s \in surfaces
               PROVE  s.id = managed.surfaceId /\ s.window = window
    BY DEF NoForgottenSurface
  <2>1. ui = "idle" /\ render.at = "idle" /\ Waiting = {}
    BY QueueFacts DEF Settled, IInv
  <2> QED BY <2>1 DEF IInv, Held
<1> QED BY <1>1, SpecIInv, PTL

\* The last presentation is the one that stays, in whatever order the backgrounds were
\* decoded and wherever an attach stood, but for the two races named.
THEOREM SpecLastPresentationWins == Spec => []LastPresentationWins
<1>1. IInv => LastPresentationWins
  <2> SUFFICES ASSUME IInv, Settled, decoding = {}, raced \cap {"refresh", "generation"} = {},
                      NEW s \in surfaces, s.id = managed.surfaceId, latest # 0
               PROVE  s.config = latest /\ s.background = latest
    BY DEF LastPresentationWins
  <2>1. ui = "idle" /\ render.at = "idle" /\ Waiting = {}
    BY QueueFacts DEF Settled, IInv
  <2>2. ~stopped
    <3>1. s.id # 0
      BY DEF IInv, Types, Surfaces
    <3> QED BY <2>1, <3>1 DEF IInv, Stopping
  <2> QED BY <2>1, <2>2 DEF IInv, Presenting, Shown
<1> QED BY <1>1, SpecIInv, PTL

\* A view with a window has a surface on it when both threads are at rest and nothing raced.
THEOREM SpecViewIsAttached == Spec => []ViewIsAttached
<1>1. IInv => ViewIsAttached
  <2> SUFFICES ASSUME IInv, Settled, raced = {}, listening, window # 0
               PROVE  \E s \in surfaces : s.id = managed.surfaceId /\ s.window = window
    BY DEF ViewIsAttached
  <2>1. ui = "idle" /\ render.at = "idle" /\ Waiting = {}
    BY QueueFacts DEF Settled, IInv
  <2>2. managed.surfaceId # 0
    BY <2>1 DEF IInv, Attaching
  <2> QED BY <2>1, <2>2 DEF IInv, Identified, Held
<1> QED BY <1>1, SpecIInv, PTL
=============================================================================
