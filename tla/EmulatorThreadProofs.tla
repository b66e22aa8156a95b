------------------------ MODULE EmulatorThreadProofs ------------------------
(***************************************************************************)
(* Proofs about EmulatorThread for every set of workers and every choice   *)
(* of the calls that the threads may make.  None of the properties is      *)
(* inductive.  The strengthening IInv holds for any calls: which places a  *)
(* call goes through (Shape), where a thread that runs is accounted for    *)
(* (Accounted), and what a session is (Sessions).  With it                 *)
(*   a helper that is about to write has found no stop (Guarded);          *)
(*   a rewind or a reset keeps the emulator paused from its helper's pause *)
(*   to its end, until calls cross (Undisturbed, Resuming);                *)
(*   a wait of a call is for something on its way (LifeInv, WaitInv);      *)
(*   the sound follows the paused flag when only the UI thread plays       *)
(*   (Heard).                                                              *)
(***************************************************************************)
EXTENDS EmulatorThread, FiniteSetTheorems, TLAPS

Main == thread["main"]
Io == thread["io"]

\* The places that a call goes through, and the helpers it calls.
AnyCall == {"none", "pause", "resume", "rewind", "stop", "reset", "step", "start", "state"}
Helpers == {"none", "pause", "resume"}
Locals == [at : Places, call : AnyCall, helper : Helpers, wasPaused : BOOLEAN]

Helped == Section \cup {"audio"}
OnRoute(l) ==
    /\ l.call = "none" <=> l.at = "idle"
    /\ l.call = "start" <=> l.at \in {"flags", "create", "publish"}
    /\ l.at \in {"join", "cleanup"} => l.call = "stop"
    /\ l.at = "release" => l.call = "step"
    /\ l.at = "await" => l.call \in {"rewind", "reset", "step"}
    /\ l.at = "core" => l.call \in {"rewind", "reset", "state"}
    /\ l.at = "wake" => l.helper = "resume"
    /\ l.at \in Helped => l.helper # "none"
    /\ l.at \in Section => l.call # "step"
    /\ l.helper # "none" => l.call \in {l.helper, "rewind", "reset", "step"}
    /\ l.call \in {"pause", "resume"} => l.helper = l.call
    /\ l.call = "rewind" /\ l.helper # "none" => ~l.wasPaused
    /\ l.call = "step" => l.helper # "resume" /\ (l.at \in {"read", "lock"} => l.helper = "none")
Shape(t) == OnRoute(thread[t]) /\ thread[t].call \in {"none"} \cup Calls[t]

Callers ==
    /\ paused \in BOOLEAN
    /\ thread \in [Threads -> Locals]
    /\ \A t \in Threads : Shape(t)

\* A thread that exists belongs to a session that has started, is about to be said to
\* have, or is being joined; and there is none while a new one is set up.
Gone == {"none", "exited"}
Accounted ==
    /\ emu \in Gone \/ started \/ Io.at = "publish" \/ Main.at = "join"
    /\ Io.at \in {"flags", "create"} => emu \in Gone

\* A session starts with the UI thread idle or pausing, not told to stop and with a mutex
\* that is not destroyed; it lasts until the UI thread ends it, and so do the calls that
\* the UI thread makes in it.
Sessions ==
    /\ stop \/ destroyed \/ Main.at \in {"join", "cleanup"} => ~started
    /\ Main.call \in {"resume", "rewind"} \/ (Main.call = "stop" /\ Main.at = "lock") => started
    /\ Io.call = "start" => ~started /\ Main.call \in {"none", "pause"}
    /\ Io.at \in {"create", "publish"} => ~stop
    /\ Io.at = "publish" => ~destroyed

IInv == Callers /\ Accounted /\ Sessions /\ ReallyPausedMeansWaiting

\* How a step changes the locals of a thread.
Moves(t, place, call, helper, was) ==
    /\ thread' \in [Threads -> Locals]
    /\ \A s \in Threads \ {t} : thread'[s] = thread[s]
    /\ thread'[t].at = place /\ thread'[t].call = call
    /\ thread'[t].helper = helper /\ thread'[t].wasPaused = was

-----------------------------------------------------------------------------
\* The history only remembers; the steps are the same.
LEMMA HistoryOnlyRemembers == [Next /\ Remember]_<<vars, history>> => [Next]_vars
  BY DEF vars

\* What the four threads and the sets of calls are.
LEMMA ThreadFacts ==
    /\ "main" \in Threads /\ "io" \in Threads
    /\ \A w \in Workers : w \notin {"main", "io"}
    /\ \A t \in Threads : t \in {"main", "io"} \cup Workers
    /\ Calls["main"] \subseteq {"pause", "resume", "rewind", "stop"}
    /\ Calls["io"] \subseteq {"start"}
    /\ \A w \in Workers : Calls[w] \subseteq {"reset", "step", "state"}
<1>1. \A w \in Workers : w # "main" /\ w # "io"
  BY WorkersAssumption
<1> QED BY <1>1, CallsAssumption DEF Threads, Calls

\* Whose a call is.
LEMMA CallOwners ==
    ASSUME Callers, NEW t \in Threads
    PROVE  /\ thread[t].call \in {"pause", "resume", "rewind", "stop"} => t = "main"
           /\ thread[t].call = "start" => t = "io"
           /\ thread[t].call \in {"reset", "step", "state"} => t \in Workers
           /\ t \in Workers => thread[t].call \in {"none", "reset", "step", "state"}
           /\ t = "io" => thread[t].call \in {"none", "start"}
           /\ t = "main" => thread[t].call \in {"none", "pause", "resume", "rewind", "stop"}
<1>1. thread[t].call \in {"none"} \cup Calls[t]
  BY DEF Callers, Shape
<1>2. CASE t = "main"
  BY <1>1, <1>2, ThreadFacts
<1>3. CASE t = "io"
  BY <1>1, <1>3, ThreadFacts
<1>4. CASE t \in Workers
  BY <1>1, <1>4, ThreadFacts
<1> QED BY <1>2, <1>3, <1>4, ThreadFacts

\* The ways in which the locals of a call change.
LEMMA LocalsMove ==
    ASSUME Callers, NEW t \in Threads
    PROVE  /\ \A place \in Places : Goto(t, place) =>
                 Moves(t, place, thread[t].call, thread[t].helper, thread[t].wasPaused)
           /\ Return(t) => Moves(t, "idle", "none", "none", FALSE)
           /\ \A helper \in Helpers : Help(t, helper) =>
                 Moves(t, "read", thread[t].call, helper, thread[t].wasPaused)
           /\ \A place \in Places, helper \in Helpers :
                 thread' = [thread EXCEPT ![t].at = place, ![t].helper = helper]
                 => Moves(t, place, thread[t].call, helper, thread[t].wasPaused)
           /\ \A place \in Places, helper \in Helpers, was \in BOOLEAN :
                 thread' = [thread EXCEPT ![t].wasPaused = was, ![t].at = place,
                                          ![t].helper = helper]
                 => Moves(t, place, thread[t].call, helper, was)
           /\ \A call \in AnyCall, place \in Places, helper \in Helpers :
                 thread' = [thread EXCEPT ![t].call = call, ![t].at = place,
                                          ![t].helper = helper]
                 => Moves(t, place, call, helper, thread[t].wasPaused)
<1>1. thread \in [Threads -> Locals] /\ thread[t] \in Locals
  BY DEF Callers
<1>2. Idle \in Locals
  BY DEF Idle, Locals, Places, AnyCall, Helpers
<1>3. "read" \in Places
  BY DEF Places
<1>4. ASSUME NEW place \in Places, Goto(t, place)
      PROVE  Moves(t, place, thread[t].call, thread[t].helper, thread[t].wasPaused)
  BY <1>1, <1>4 DEF Moves, Goto, Locals
<1>5. ASSUME Return(t) PROVE Moves(t, "idle", "none", "none", FALSE)
  BY <1>1, <1>2, <1>5 DEF Moves, Return, Idle
<1>6. ASSUME NEW place \in Places, NEW helper \in Helpers,
             thread' = [thread EXCEPT ![t].at = place, ![t].helper = helper]
      PROVE  Moves(t, place, thread[t].call, helper, thread[t].wasPaused)
  BY <1>1, <1>6 DEF Moves, Locals
<1>7. ASSUME NEW place \in Places, NEW helper \in Helpers, NEW was \in BOOLEAN,
             thread' = [thread EXCEPT ![t].wasPaused = was, ![t].at = place,
                                      ![t].helper = helper]
      PROVE  Moves(t, place, thread[t].call, helper, was)
  BY <1>1, <1>7 DEF Moves, Locals
<1>8. ASSUME NEW call \in AnyCall, NEW place \in Places, NEW helper \in Helpers,
             thread' = [thread EXCEPT ![t].call = call, ![t].at = place, ![t].helper = helper]
      PROVE  Moves(t, place, call, helper, thread[t].wasPaused)
  BY <1>1, <1>8 DEF Moves, Locals
<1>9. ASSUME NEW helper \in Helpers, Help(t, helper)
      PROVE  Moves(t, "read", thread[t].call, helper, thread[t].wasPaused)
  BY <1>3, <1>6, <1>9 DEF Help
<1> QED BY <1>4, <1>5, <1>6, <1>7, <1>8, <1>9

\* Where each step of a call goes.
To(t, place, helper) == Moves(t, place, thread[t].call, helper, thread[t].wasPaused)
Ends(t) == Moves(t, "idle", "none", "none", FALSE)
Stays(t, place) == To(t, place, thread[t].helper)

LEMMA CallMoves ==
    ASSUME Callers, NEW t \in Threads
    PROVE  /\ ReadStarted(t) => thread[t].at = "read" /\
                 \/ Stays(t, "lock")
                 \/ ~started /\ thread[t].helper # "none" /\ Stays(t, "check")
                 \/ ~started /\ thread[t].call = "step" /\ Ends(t)
                 \/ ~started /\ thread[t].call = "stop" /\ Stays(t, "cleanup")
           /\ ReadStarted(t) /\ thread[t].call = "stop" /\ started => Stays(t, "lock")
           /\ HelperLocks(t) => thread[t].at = "lock" /\ thread[t].helper # "none" /\ Stays(t, "check")
           /\ HelperTests(t) => thread[t].at = "check" /\
                 IF stop THEN Stays(t, "unlock") ELSE Stays(t, "clear")
           /\ HelperClears(t) => thread[t].at = "clear" /\ Stays(t, "write")
           /\ HelperWrites(t) => thread[t].at = "write" /\
                 IF thread[t].helper = "pause" THEN Stays(t, "unlock") ELSE Stays(t, "wake")
           /\ HelperWakes(t) => thread[t].at = "wake" /\ Stays(t, "unlock")
           /\ HelperUnlocks(t) => thread[t].at = "unlock" /\ Stays(t, "audio")
           /\ HelperReturns(t) => thread[t].at = "audio" /\
                 IF thread[t].helper = "pause" /\ thread[t].call # "pause"
                 THEN Stays(t, "await") ELSE Ends(t)
           /\ EnterCore(t) => /\ thread[t].at = "lock" /\ thread[t].helper = "none"
                              /\ thread[t].call \in {"reset", "rewind"}
                              /\ \/ stop /\ Ends(t)
                                 \/ ~stop /\ paused /\ Moves(t, "await", thread[t].call, "none", TRUE)
                                 \/ ~stop /\ ~paused /\ Moves(t, "read", thread[t].call, "pause", FALSE)
           /\ EnterStep(t) => /\ thread[t].at = "lock" /\ thread[t].call = "step"
                              /\ Ends(t) \/ To(t, "audio", "pause")
           /\ Await(t) => thread[t].at = "await" /\
                 IF thread[t].call = "step" THEN Stays(t, "release")
                 ELSE isThreadReallyPaused /\ Stays(t, "core")
           /\ LeaveCore(t) => thread[t].at = "core" /\
                 IF thread[t].call = "reset" \/ (thread[t].call = "rewind" /\ ~thread[t].wasPaused)
                 THEN To(t, "read", "resume") ELSE Ends(t)
           /\ ReleaseStep(t) => thread[t].at = "release" /\ Ends(t)
           /\ StartFlags(t) => thread[t].at = "flags" /\ Stays(t, "create")
           /\ CreateThread(t) => thread[t].at = "create" /\ Stays(t, "publish")
           /\ PublishStarted(t) => thread[t].at = "publish" /\ Ends(t)
           /\ RequestStop(t) => /\ thread[t].at = "lock" /\ thread[t].call = "stop"
                                /\ Stays(t, "join")
           /\ Join(t) => thread[t].at = "join" /\ Stays(t, "cleanup")
           /\ Cleanup(t) => thread[t].at = "cleanup" /\ Ends(t)
           /\ LockDestroyed(t) => destroyed /\ Ends(t)
<1>1. /\ \A place \in Places : Goto(t, place) => Stays(t, place)
      /\ Return(t) => Ends(t)
      /\ \A helper \in Helpers : Help(t, helper) => To(t, "read", helper)
      /\ \A place \in Places, helper \in Helpers :
            thread' = [thread EXCEPT ![t].at = place, ![t].helper = helper]
            => To(t, place, helper)
  BY LocalsMove DEF To, Stays, Ends
<1>2. Places = Section \cup {"idle", "read", "lock", "audio", "await", "core", "release",
                             "flags", "create", "publish", "join", "cleanup"}
      /\ Section = {"check", "clear", "write", "wake", "unlock"}
  BY DEF Places, Section
<1>3. \A place : At(t, place) <=> thread[t].at = place
  BY DEF At
<1>4. \A call : In(t, call) <=> thread[t].call = call
  BY DEF In
<1>5. \A call : Locks(t, call) => thread[t].at = "lock" /\ thread[t].call = call
                                 /\ thread[t].helper = "none"
  BY <1>3, <1>4 DEF Locks
<1>6. OnRoute(thread[t])
  BY DEF Callers, Shape
<1> USE <1>1, <1>2, <1>3, <1>4, <1>5
<1>7. ASSUME ReadStarted(t) PROVE thread[t].at = "read" /\
                 \/ Stays(t, "lock")
                 \/ ~started /\ thread[t].helper # "none" /\ Stays(t, "check")
                 \/ ~started /\ thread[t].call = "step" /\ Ends(t)
                 \/ ~started /\ thread[t].call = "stop" /\ Stays(t, "cleanup")
  BY ONLY <1>1, <1>2, <1>3, <1>4, <1>7 DEF ReadStarted
<1>8. ReadStarted(t) /\ thread[t].call = "stop" /\ started => Stays(t, "lock")
  BY ONLY <1>1, <1>2, <1>3, <1>4 DEF ReadStarted
<1>9. HelperLocks(t) => thread[t].at = "lock" /\ thread[t].helper # "none" /\ Stays(t, "check")
  BY ONLY <1>1, <1>2, <1>3 DEF HelperLocks
<1>10. HelperTests(t) => thread[t].at = "check" /\
                 IF stop THEN Stays(t, "unlock") ELSE Stays(t, "clear")
  BY ONLY <1>1, <1>2, <1>3 DEF HelperTests
<1>11. /\ HelperClears(t) => thread[t].at = "clear" /\ Stays(t, "write")
       /\ HelperWakes(t) => thread[t].at = "wake" /\ Stays(t, "unlock")
       /\ HelperUnlocks(t) => thread[t].at = "unlock" /\ Stays(t, "audio")
  BY ONLY <1>1, <1>2, <1>3 DEF HelperClears, HelperWakes, HelperUnlocks
<1>12. HelperWrites(t) => thread[t].at = "write" /\
                 IF thread[t].helper = "pause" THEN Stays(t, "unlock") ELSE Stays(t, "wake")
  BY ONLY <1>1, <1>2, <1>3 DEF HelperWrites
<1>13. HelperReturns(t) => thread[t].at = "audio" /\
                 IF thread[t].helper = "pause" /\ thread[t].call # "pause"
                 THEN Stays(t, "await") ELSE Ends(t)
  BY ONLY <1>1, <1>2, <1>3, <1>4 DEF HelperReturns
<1>14. ASSUME EnterCore(t)
       PROVE  /\ thread[t].at = "lock" /\ thread[t].helper = "none"
              /\ thread[t].call \in {"reset", "rewind"}
              /\ \/ stop /\ Ends(t)
                 \/ ~stop /\ paused /\ Moves(t, "await", thread[t].call, "none", TRUE)
                 \/ ~stop /\ ~paused /\ Moves(t, "read", thread[t].call, "pause", FALSE)
  <2>1. /\ thread[t].at = "lock" /\ thread[t].helper = "none"
        /\ thread[t].call \in {"reset", "rewind"}
    BY ONLY <1>5, <1>14 DEF EnterCore
  <2>2. \A place \in Places, helper \in Helpers, was \in BOOLEAN :
           thread' = [thread EXCEPT ![t].wasPaused = was, ![t].at = place,
                                    ![t].helper = helper]
           => Moves(t, place, thread[t].call, helper, was)
    BY LocalsMove
  <2>3. {"await", "read"} \subseteq Places /\ {"none", "pause"} \subseteq Helpers
    BY ONLY <1>2 DEF Helpers
  <2>4. ASSUME ~stop, paused PROVE Moves(t, "await", thread[t].call, "none", TRUE)
    <3>1. thread' = [thread EXCEPT ![t].wasPaused = TRUE, ![t].at = "await", ![t].helper = "none"]
      <4>1. paused = TRUE
        BY <2>4 DEF Callers
      <4> QED BY ONLY <1>14, <2>4, <4>1 DEF EnterCore
    <3> QED BY ONLY <2>2, <2>3, <3>1
  <2>5. ASSUME ~stop, ~paused PROVE Moves(t, "read", thread[t].call, "pause", FALSE)
    <3>1. thread' = [thread EXCEPT ![t].wasPaused = FALSE, ![t].at = "read", ![t].helper = "pause"]
      <4>1. paused = FALSE
        BY <2>5 DEF Callers
      <4> QED BY ONLY <1>14, <2>5, <4>1 DEF EnterCore
    <3> QED BY ONLY <2>2, <2>3, <3>1
  <2>6. stop => Ends(t)
    BY ONLY <1>1, <1>14 DEF EnterCore
  <2> QED BY ONLY <2>1, <2>4, <2>5, <2>6
<1>15. EnterStep(t) => /\ thread[t].at = "lock" /\ thread[t].call = "step"
                       /\ Ends(t) \/ To(t, "audio", "pause")
  BY ONLY <1>1, <1>2, <1>5 DEF EnterStep, Helpers
<1>16. Await(t) => thread[t].at = "await" /\
                 IF thread[t].call = "step" THEN Stays(t, "release")
                 ELSE isThreadReallyPaused /\ Stays(t, "core")
  BY ONLY <1>1, <1>2, <1>3, <1>4 DEF Await
<1>17. LeaveCore(t) => thread[t].at = "core" /\
                 IF thread[t].call = "reset" \/ (thread[t].call = "rewind" /\ ~thread[t].wasPaused)
                 THEN To(t, "read", "resume") ELSE Ends(t)
  BY ONLY <1>1, <1>3, <1>4 DEF LeaveCore, Helpers
<1>18. ReleaseStep(t) => thread[t].at = "release" /\ Ends(t)
  BY ONLY <1>1, <1>3 DEF ReleaseStep
<1>19. /\ StartFlags(t) => thread[t].at = "flags" /\ Stays(t, "create")
       /\ CreateThread(t) => thread[t].at = "create" /\ Stays(t, "publish")
       /\ PublishStarted(t) => thread[t].at = "publish" /\ Ends(t)
  BY ONLY <1>1, <1>2, <1>3 DEF StartFlags, CreateThread, PublishStarted
<1>20. /\ RequestStop(t) => /\ thread[t].at = "lock" /\ thread[t].call = "stop"
                            /\ Stays(t, "join")
       /\ Join(t) => thread[t].at = "join" /\ Stays(t, "cleanup")
       /\ Cleanup(t) => thread[t].at = "cleanup" /\ Ends(t)
       /\ LockDestroyed(t) => destroyed /\ Ends(t)
  BY ONLY <1>1, <1>2, <1>3, <1>5 DEF RequestStop, Join, Cleanup, LockDestroyed
<1> QED BY ONLY <1>7, <1>8, <1>9, <1>10, <1>11, <1>12, <1>13, <1>14, <1>15, <1>16, <1>17,
                <1>18, <1>19, <1>20

\* A step of a call leaves the other threads where they are.
LEMMA OthersStay ==
    ASSUME Callers, NEW t \in Threads, CallStep(t) \/ LockDestroyed(t)
    PROVE  \A s \in Threads \ {t} : thread'[s] = thread[s]
  BY CallMoves DEF CallStep, Moves, To, Stays, Ends

-----------------------------------------------------------------------------
(* What holds for any calls.                                               *)

\* A call keeps to its route.
LEMMA RouteKept ==
    ASSUME Callers, NEW t \in Threads, CallStep(t) \/ LockDestroyed(t) PROVE Callers'
<1>1. OnRoute(thread[t]) /\ thread[t].call \in {"none"} \cup Calls[t] /\ paused \in BOOLEAN
  BY DEF Callers, Shape
<1>2. thread[t].helper \in Helpers /\ thread[t].wasPaused \in BOOLEAN
  BY DEF Callers, Locals
<1>3. Helpers = {"none", "pause", "resume"} /\ Section = {"check", "clear", "write", "wake", "unlock"}
  BY DEF Helpers, Section
<1>4. OnRoute(thread'[t]) /\ thread'[t].call \in {thread[t].call, "none"}
      /\ thread' \in [Threads -> Locals] /\ \A s \in Threads \ {t} : thread'[s] = thread[s]
  <2> USE DEF OnRoute, Moves, To, Stays, Ends, Helped
  <2>1. CASE ReadStarted(t)
    <3>1. /\ thread[t].at = "read"
          /\ \/ Ends(t)
             \/ Stays(t, "lock")
             \/ thread[t].helper # "none" /\ Stays(t, "check")
             \/ thread[t].call = "stop" /\ Stays(t, "cleanup")
      BY ONLY <2>1, CallMoves, Callers, t \in Threads
    <3> QED BY ONLY <1>1, <1>2, <1>3, <3>1
  <2>2. CASE HelperLocks(t) \/ HelperTests(t) \/ HelperClears(t)
    <3>1. \/ thread[t].at = "lock" /\ thread[t].helper # "none" /\ Stays(t, "check")
          \/ thread[t].at = "check" /\ (Stays(t, "unlock") \/ Stays(t, "clear"))
          \/ thread[t].at = "clear" /\ Stays(t, "write")
      BY ONLY <2>2, CallMoves, Callers, t \in Threads
    <3> QED BY ONLY <1>1, <1>2, <1>3, <3>1
  <2>3. CASE HelperWrites(t) \/ HelperWakes(t) \/ HelperUnlocks(t)
    <3>1. \/ thread[t].at \in {"write", "wake"} /\ Stays(t, "unlock")
          \/ thread[t].at = "write" /\ thread[t].helper # "pause" /\ Stays(t, "wake")
          \/ thread[t].at = "unlock" /\ Stays(t, "audio")
      BY ONLY <2>3, CallMoves, Callers, t \in Threads
    <3> QED BY ONLY <1>1, <1>2, <1>3, <3>1
  <2>4. CASE HelperReturns(t)
    <3>1. thread[t].at = "audio" /\ (Ends(t) \/ (thread[t].call # "pause" /\ Stays(t, "await")
                                                /\ thread[t].helper = "pause"))
      BY ONLY <2>4, CallMoves, Callers, t \in Threads
    <3> QED BY ONLY <1>1, <1>2, <1>3, <3>1
  <2>5. CASE EnterCore(t)
    <3>1. /\ thread[t].at = "lock" /\ thread[t].call \in {"reset", "rewind"}
          /\ \/ Ends(t)
             \/ Moves(t, "await", thread[t].call, "none", TRUE)
             \/ Moves(t, "read", thread[t].call, "pause", FALSE)
      BY ONLY <2>5, CallMoves, Callers, t \in Threads
    <3> QED BY ONLY <1>1, <1>2, <1>3, <3>1
  <2>9. CASE EnterStep(t)
    <3>1. thread[t].at = "lock" /\ thread[t].call = "step" /\ (Ends(t) \/ To(t, "audio", "pause"))
      BY ONLY <2>9, CallMoves, Callers, t \in Threads
    <3> QED BY ONLY <1>1, <1>2, <1>3, <3>1
  <2>6. CASE Await(t) \/ ReleaseStep(t)
    <3>1. \/ thread[t].at = "await" /\ thread[t].call = "step" /\ Stays(t, "release")
          \/ thread[t].at = "await" /\ thread[t].call # "step" /\ Stays(t, "core")
          \/ thread[t].at = "release" /\ Ends(t)
      BY ONLY <2>6, CallMoves, Callers, t \in Threads
    <3> QED BY ONLY <1>1, <1>2, <1>3, <3>1
  <2>10. CASE LeaveCore(t)
    <3>1. /\ thread[t].at = "core"
          /\ \/ Ends(t)
             \/ /\ thread[t].call = "reset" \/ (thread[t].call = "rewind" /\ ~thread[t].wasPaused)
                /\ To(t, "read", "resume")
      BY ONLY <2>10, CallMoves, Callers, t \in Threads
    <3> QED BY ONLY <1>1, <1>2, <1>3, <3>1
  <2>7. CASE StartFlags(t) \/ CreateThread(t) \/ PublishStarted(t)
    BY ONLY <1>1, <1>2, <1>3, <2>7, CallMoves, Callers, t \in Threads
  <2>8. CASE RequestStop(t) \/ Join(t) \/ Cleanup(t) \/ LockDestroyed(t)
    <3>1. \/ thread[t].at = "lock" /\ thread[t].call = "stop" /\ Stays(t, "join")
          \/ thread[t].at = "join" /\ Stays(t, "cleanup")
          \/ Ends(t)
      BY ONLY <2>8, CallMoves, Callers, t \in Threads
    <3> QED BY ONLY <1>1, <1>2, <1>3, <3>1
  <2> QED BY <2>1, <2>2, <2>3, <2>4, <2>5, <2>6, <2>7, <2>8, <2>9, <2>10 DEF CallStep
<1>5. paused' \in BOOLEAN
  BY <1>1 DEF CallStep, LockDestroyed, ReadStarted, HelperLocks, HelperTests, HelperClears,
      HelperWrites, HelperWakes, HelperUnlocks, HelperReturns, EnterCore, EnterStep, Await,
      LeaveCore, ReleaseStep, StartFlags, CreateThread, PublishStarted, RequestStop, Join,
      Cleanup, flags
<1>6. \A s \in Threads : Calls[s] = Calls[s]' /\ Shape(s)'
  BY <1>1, <1>4 DEF Callers, Shape, Calls, Threads
<1> QED BY <1>4, <1>5, <1>6 DEF Callers

\* A step that is not part of a start or of the end of a stop: nothing of a session changes.
Quiet ==
    /\ UNCHANGED <<started, stop, destroyed, isThreadReallyPaused>>
    /\ emu' = emu \/ Broadcast
    /\ Io' = Io
    /\ Main'.at = "join" <=> Main.at = "join"
    /\ Main'.at \in {"join", "cleanup"} =>
          Main.at \in {"join", "cleanup"} \/ (~started /\ Main.call = "stop")
    /\ Main'.call \in {Main.call, "none"}
    /\ Main'.call = "stop" /\ Main'.at = "lock" => started

LEMMA QuietKeepsSessions == IInv /\ Quiet /\ Callers' => IInv'
<1> SUFFICES ASSUME IInv, Quiet, Callers' PROVE IInv'
  OBVIOUS
<1> USE DEF IInv, Quiet
<1>1. Accounted'
  BY DEF Accounted, Gone, Broadcast
<1>2. Sessions'
  BY DEF Sessions
<1>3. ReallyPausedMeansWaiting'
  BY DEF ReallyPausedMeansWaiting, Broadcast
<1> QED BY <1>1, <1>2, <1>3

LEMMA CallStepsQuiet ==
    ASSUME IInv, NEW t \in Threads,
           \/ ReadStarted(t) \/ HelperLocks(t) \/ HelperTests(t) \/ HelperClears(t)
           \/ HelperWrites(t) \/ HelperWakes(t) \/ HelperUnlocks(t) \/ HelperReturns(t)
           \/ EnterCore(t) \/ EnterStep(t) \/ Await(t) \/ LeaveCore(t)
           \/ ReleaseStep(t) \/ Cleanup(t) \/ LockDestroyed(t)
    PROVE  Quiet
<1>1. Callers /\ OnRoute(thread[t])
  BY DEF IInv, Callers, Shape
<1>2. /\ UNCHANGED <<started, stop, destroyed, isThreadReallyPaused>>
      /\ emu' = emu \/ Broadcast
  BY DEF ReadStarted, HelperLocks, HelperTests, HelperClears, HelperWrites, HelperWakes,
      HelperUnlocks, HelperReturns, EnterCore, EnterStep, Await, LeaveCore, ReleaseStep,
      Cleanup, LockDestroyed, flags, mutexState
<1>3. /\ \A s \in Threads \ {t} : thread'[s] = thread[s]
      /\ thread[t].at \notin {"flags", "create", "publish", "join"}
      /\ thread'[t].at # "join" /\ thread'[t].call \in {thread[t].call, "none"}
      /\ thread'[t].at = "cleanup" => ~started /\ thread[t].call = "stop"
      /\ thread[t].call = "stop" /\ thread'[t].at = "lock" => started
      /\ thread'[t].call = "none" => thread'[t].at = "idle"
  <2> USE <1>1 DEF Moves, To, Stays, Ends
  <2>1. CASE ReadStarted(t)
    <3>1. thread[t].call = "stop" => thread[t].helper = "none"
      BY <1>1 DEF OnRoute, IInv, Callers, Locals, Helpers
    <3>2. ReadStarted(t) /\ thread[t].call = "stop" /\ ~started => Goto(t, "cleanup")
      BY <3>1 DEF ReadStarted, In
    <3>3. Goto(t, "cleanup") => Stays(t, "cleanup")
      BY LocalsMove DEF Places
    <3> QED BY <2>1, <3>2, <3>3, CallMoves DEF OnRoute
  <2>2. CASE HelperLocks(t) \/ HelperTests(t) \/ HelperClears(t) \/ HelperWrites(t)
             \/ HelperWakes(t) \/ HelperUnlocks(t)
    BY ONLY <1>1, <2>2, CallMoves, Callers, t \in Threads DEF Moves, To, Stays, OnRoute
  <2>3. CASE HelperReturns(t) \/ EnterCore(t) \/ EnterStep(t)
    BY ONLY <1>1, <2>3, CallMoves, Callers, t \in Threads DEF Moves, To, Stays, Ends, OnRoute
  <2>4. CASE Await(t) \/ LeaveCore(t) \/ ReleaseStep(t) \/ Cleanup(t)
    BY ONLY <1>1, <2>4, CallMoves, Callers, t \in Threads DEF Moves, To, Stays, Ends, OnRoute
  <2>5. CASE LockDestroyed(t)
    BY <2>5, CallMoves DEF LockDestroyed, At
  <2> QED BY <2>1, <2>2, <2>3, <2>4, <2>5
<1>4. CASE t = "main"
  BY <1>1, <1>2, <1>3, <1>4, ThreadFacts DEF Quiet, Main, Io, OnRoute
<1>5. CASE t = "io"
  <2>1. thread[t].at = "idle"
    BY <1>1, <1>3, <1>5, CallOwners DEF OnRoute
  <2>2. ~LockDestroyed(t)
    BY <2>1 DEF LockDestroyed, At
  <2> QED BY <1>1, <2>1, <2>2, CallMoves
<1>6. CASE t \in Workers
  <2>1. Main' = Main /\ Io' = Io
    BY <1>3, <1>6, ThreadFacts DEF Main, Io
  <2>2. OnRoute(Main)
    BY <1>1, ThreadFacts DEF Callers, Shape, Main
  <2> QED BY <1>2, <2>1, <2>2 DEF Quiet, IInv, Sessions, OnRoute
<1> QED BY <1>4, <1>5, <1>6, ThreadFacts

LEMMA CallStepKeepsIInv == ASSUME IInv, NEW t \in Threads, CallStep(t) PROVE IInv'
<1>1. Callers /\ Callers' /\ OnRoute(thread[t]) /\ OnRoute(thread'[t])
  <2>1. Callers'
    BY RouteKept DEF IInv
  <2>2. Calls' = Calls /\ Threads' = Threads
    BY DEF Calls, Threads
  <2> QED BY <2>1, <2>2 DEF IInv, Callers, Shape
<1>2. Accounted /\ Sessions /\ ReallyPausedMeansWaiting
  BY DEF IInv
<1>3. CASE StartFlags(t) \/ CreateThread(t) \/ PublishStarted(t)
  <2>1. thread[t].call = "start" /\ t = "io"
    <3>1. thread[t].at \in {"flags", "create", "publish"}
      BY <1>1, <1>3, CallMoves
    <3> QED BY <1>1, <3>1, CallOwners DEF OnRoute
  <2>2. Io = thread[t] /\ Io' = thread'[t]
    BY <2>1 DEF Io
  <2>3. (Stays(t, "create") \/ Stays(t, "publish") \/ Ends(t)) => Main' = Main
    BY <2>1, ThreadFacts DEF Stays, To, Ends, Moves, Main
  <2>7. OnRoute(Main)
    BY <1>1, ThreadFacts DEF Callers, Shape, Main
  <2>8. thread[t].at = "publish" => Main.at \notin {"join", "cleanup"}
    BY <1>1, <1>2, <2>1, <2>2, <2>7 DEF OnRoute, Sessions
  <2> USE <2>8, <1>1, <1>2, <2>1, <2>2, <2>3, CallMoves
          DEF Accounted, Sessions, ReallyPausedMeansWaiting, Gone, flags, mutexState,
              Stays, To, Ends, Moves
  <2>4. CASE StartFlags(t)
    BY <2>4 DEF StartFlags, IInv
  <2>5. CASE CreateThread(t)
    BY <2>5 DEF CreateThread, IInv
  <2>6. CASE PublishStarted(t)
    BY <2>6 DEF PublishStarted, IInv
  <2> QED BY <1>3, <2>4, <2>5, <2>6
<1>4. CASE RequestStop(t) \/ Join(t)
  <2>1. thread[t].call = "stop" /\ t = "main"
    <3>1. thread[t].call = "stop"
      BY <1>1, <1>4, CallMoves DEF OnRoute
    <3> QED BY <1>1, <3>1, CallOwners
  <2>2. Main = thread[t] /\ Main' = thread'[t]
    BY <2>1 DEF Main
  <2>3. (Stays(t, "join") \/ Stays(t, "cleanup")) => Io' = Io
    BY <2>1, ThreadFacts DEF Stays, To, Moves, Io
  <2>4. OnRoute(Io)
    BY <1>1, ThreadFacts DEF Callers, Shape, Io
  <2> USE <1>1, <1>2, <2>1, <2>2, <2>3, <2>4, CallMoves
          DEF Accounted, Sessions, ReallyPausedMeansWaiting, Gone, flags, mutexState,
              Stays, To, Moves, Broadcast, OnRoute
  <2>5. CASE RequestStop(t)
    BY <2>5 DEF RequestStop, IInv
  <2>6. CASE Join(t)
    BY <2>6 DEF Join, IInv
  <2> QED BY <1>4, <2>5, <2>6
<1> QED BY <1>1, <1>3, <1>4, CallStepsQuiet, QuietKeepsSessions DEF CallStep

\* A session starts when the last one has stopped, in a call of the UI thread that
\* hands it on and makes no call meanwhile.
LEMMA BeginMoves ==
    ASSUME Callers, NEW t \in Threads, NEW call \in Calls[t], Begin(t, call)
    PROVE  /\ Moves(t, IF call = "start" THEN "flags" ELSE IF call = "state" THEN "core" ELSE "read",
                    call, IF call \in {"pause", "resume"} THEN call ELSE "none", thread[t].wasPaused)
           /\ call \in AnyCall /\ Main.at = "idle" /\ thread[t].at = "idle" /\ call \in load[t]
           /\ UNCHANGED <<flags, isThreadReallyPaused, mutexState, emu, stepping, audio>>
<1> DEFINE place == IF call = "start" THEN "flags" ELSE IF call = "state" THEN "core" ELSE "read"
           helper == IF call \in {"pause", "resume"} THEN call ELSE "none"
<1>1. thread' = [thread EXCEPT ![t].call = call, ![t].at = place, ![t].helper = helper]
  BY DEF Begin
<1>2. place \in Places /\ helper \in Helpers
  BY DEF Places, Helpers
<1>3. call \in AnyCall
  BY ThreadFacts DEF AnyCall
<1>4. Moves(t, place, call, helper, thread[t].wasPaused)
  <2> HIDE DEF place, helper
  <2> QED BY <1>1, <1>2, <1>3, LocalsMove
<1> QED BY <1>3, <1>4 DEF Begin, At, Main

LEMMA BeginKeepsIInv ==
    ASSUME IInv, NEW t \in Threads, NEW call \in Calls[t], Begin(t, call) PROVE IInv'
<1>1. Callers /\ OnRoute(thread[t]) /\ OnRoute(Main) /\ OnRoute(Io)
  BY ThreadFacts DEF IInv, Callers, Shape, Main, Io
<1>2. /\ thread' \in [Threads -> Locals]
      /\ \A s \in Threads \ {t} : thread'[s] = thread[s]
      /\ thread'[t].call = call
      /\ thread'[t].at = IF call = "start" THEN "flags" ELSE IF call = "state" THEN "core" ELSE "read"
      /\ thread'[t].helper = IF call \in {"pause", "resume"} THEN call ELSE "none"
      /\ UNCHANGED <<started, stop, paused, destroyed, isThreadReallyPaused, emu>>
      /\ Main.at = "idle" /\ thread[t].at = "idle" /\ call \in AnyCall
  BY <1>1, BeginMoves DEF Moves, flags, mutexState
<1>3. call # "none" /\ (call = "start" => t = "io") /\ (t = "io" => call = "start")
      /\ (t = "main" => call \in {"pause", "resume", "rewind", "stop"})
  BY ThreadFacts
<1>4. OnRoute(thread'[t])
  BY <1>2, <1>3 DEF OnRoute, Helped, Section, AnyCall
<1>5. Callers'
  <2>1. Calls' = Calls /\ Threads' = Threads
    BY DEF Calls, Threads
  <2> QED BY <1>1, <1>2, <1>4, <2>1 DEF Callers, Shape
<1>6. CASE t = "io"
  <2>1. Io'.at = "flags" /\ Io'.call = "start" /\ Main' = Main /\ ~started
    BY <1>2, <1>3, <1>6, ThreadFacts DEF Begin, Main, Io
  <2>2. Accounted'
    BY <1>1, <1>2, <1>6, <2>1 DEF IInv, Accounted, Gone, Io, Main
  <2>3. Sessions'
    BY <1>1, <1>2, <2>1 DEF IInv, Sessions, OnRoute
  <2> QED BY <1>2, <1>5, <2>2, <2>3 DEF IInv, ReallyPausedMeansWaiting
<1>7. CASE t = "main"
  <2>1. Main'.at = "read" /\ Main'.call = call /\ Io' = Io
    BY <1>2, <1>3, <1>7, ThreadFacts DEF Main, Io
  <2>2. call = "pause" \/ Io.at \notin {"flags", "create", "publish"}
    BY <1>3, <1>7 DEF Begin, Loading, At, Io
  <2>3. call \in {"resume", "rewind"} => started
    BY DEF Begin
  <2>4. Accounted'
    BY <1>2, <2>1 DEF IInv, Accounted
  <2>5. Sessions'
    BY <1>1, <1>2, <2>1, <2>2, <2>3 DEF IInv, Sessions, OnRoute
  <2> QED BY <1>2, <1>5, <2>4, <2>5 DEF IInv, ReallyPausedMeansWaiting
<1>8. CASE t \in Workers
  <2>1. Main' = Main /\ Io' = Io
    BY <1>2, <1>8, ThreadFacts DEF Main, Io
  <2> QED BY <1>2, <1>5, <2>1 DEF IInv, Accounted, Sessions, ReallyPausedMeansWaiting
<1> QED BY <1>6, <1>7, <1>8, ThreadFacts

LEMMA EmulatorKeepsIInv == IInv /\ (EmuStep \/ EmuWakesSpuriously) => IInv'
<1> SUFFICES ASSUME IInv, EmuStep \/ EmuWakesSpuriously PROVE IInv'
  OBVIOUS
<1>1. UNCHANGED <<thread, started, stop, destroyed>> /\ paused' \in BOOLEAN
  BY DEF IInv, Callers, EmuStep, EmuWakesSpuriously, EmuStarts, EmuLooks, EmuLooksAgain,
         EmuEndsFrame, EmuPausesAfterStep, EmuMutesAfterStep, EmuStops, flags, mutexState
<1>2. emu \notin Gone /\ (isThreadReallyPaused' <=> emu' \in {"waiting", "woken"})
  BY DEF IInv, ReallyPausedMeansWaiting, Gone, EmuStep, EmuWakesSpuriously, EmuStarts,
         EmuLooks, EmuLooksAgain, Proceed, EmuEndsFrame, EmuPausesAfterStep,
         EmuMutesAfterStep, EmuStops
<1>3. Callers'
  BY <1>1 DEF IInv, Callers, Shape, Calls, Threads
<1> QED BY <1>1, <1>2, <1>3
    DEF IInv, Accounted, Sessions, ReallyPausedMeansWaiting, Main, Io

LEMMA IInvNext == IInv /\ [Next]_vars => IInv'
<1>1. ASSUME IInv, UNCHANGED vars PROVE IInv'
  BY <1>1 DEF vars, IInv, Callers, Shape, Calls, Threads, Accounted, Sessions,
              ReallyPausedMeansWaiting, Main, Io
<1>2. ASSUME IInv, NEW t \in Threads, LockDestroyed(t) PROVE IInv'
  BY <1>2, CallStepsQuiet, QuietKeepsSessions, RouteKept DEF IInv
<1> QED BY <1>1, <1>2, CallStepKeepsIInv, BeginKeepsIInv, EmulatorKeepsIInv DEF Next

LEMMA SpecIInv == Spec => []IInv
<1>1. Init => IInv
  <2>1. Idle \in Locals /\ OnRoute(Idle)
    BY DEF Idle, Locals, Places, AnyCall, Helpers, OnRoute, Helped, Section
  <2>2. ASSUME Init PROVE Callers
    <3>1. /\ thread \in [Threads -> Locals] /\ paused \in BOOLEAN
          /\ \A t \in Threads : thread[t] = Idle
      BY <2>1, <2>2 DEF Init
    <3>2. Idle.call = "none"
      BY DEF Idle
    <3> QED BY ONLY <2>1, <3>1, <3>2 DEF Callers, Shape
  <2>3. ASSUME Init PROVE Main = Idle /\ Io = Idle
    <3>1. \A t \in Threads : thread[t] = Idle
      BY ONLY <2>3 DEF Init
    <3>2. "main" \in Threads /\ "io" \in Threads
      BY ThreadFacts
    <3> QED BY ONLY <3>1, <3>2 DEF Main, Io
  <2>4. Idle.at = "idle" /\ Idle.call = "none"
    BY DEF Idle
  <2>5. ASSUME Init PROVE Accounted /\ Sessions /\ ReallyPausedMeansWaiting
    BY <2>3, <2>4, <2>5 DEF Init, Accounted, Sessions, ReallyPausedMeansWaiting, Gone
  <2> QED BY <2>2, <2>5 DEF IInv
<1> QED BY <1>1, IInvNext, HistoryOnlyRemembers, PTL DEF Spec

\* The flag that resets, rewinds and steps wait for says at any time that the thread
\* waits, in every session: no order of calls leaves it set for a thread that runs.
THEOREM SpecReallyPausedMeansWaiting == Spec => []ReallyPausedMeansWaiting
<1>1. IInv => ReallyPausedMeansWaiting
  BY DEF IInv
<1> QED BY <1>1, SpecIInv, PTL

-----------------------------------------------------------------------------
(* A stop wins.                                                            *)

\* A helper that is about to write has found no stop, and none comes while it holds the
\* mutex; it holds it whenever there is a session, as long as none has trespassed.
Guarded == \A t \in Threads : thread[t].at \in {"clear", "write"} => ~stop
StopInv ==
    /\ Trespassing => trespassed
    /\ ~trespassed => (stop => ~paused /\ ~frameStepRequested) /\ Guarded

\* A step of a call: only a stop sets the flag that says so.
LEMMA StopInvCallStep ==
    ASSUME IInv, StopInv, ~trespassed, NEW t \in Threads, CallStep(t)
    PROVE  (stop' => ~paused' /\ ~frameStepRequested') /\ Guarded'
<1>1. /\ Callers /\ Sessions /\ (stop => ~paused /\ ~frameStepRequested) /\ ~Trespassing
      /\ \A s \in Threads : thread[s].at \in {"clear", "write"} => ~stop
  BY DEF IInv, StopInv, Guarded
<1>2. \A s \in Threads \ {t} : thread'[s] = thread[s]
  BY <1>1, OthersStay
<1>3. CASE RequestStop(t)
  <2>1. started /\ mutex = "nobody"
    <3>1. t = "main" /\ thread[t].call = "stop" /\ thread[t].at = "lock"
      BY <1>1, <1>3, CallMoves, CallOwners
    <3>2. Main = thread[t]
      BY <3>1 DEF Main
    <3> QED BY <1>1, <1>3, <3>1, <3>2 DEF Sessions, RequestStop, Locks, CanLock
  <2>2. \A s \in Threads : s # "nobody"
    BY WorkersAssumption DEF Threads
  <2>3. \A s \in Threads : thread[s].at \notin Section
    BY <1>1, <2>1, <2>2 DEF Trespassing
  <2>4. thread'[t].at = "join"
    BY <1>1, <1>3, CallMoves DEF Moves, To, Stays
  <2> QED BY <1>2, <1>3, <2>3, <2>4 DEF RequestStop, Guarded, Section
<1>4. CASE StartFlags(t)
  BY <1>4 DEF StartFlags, Guarded
<1>5. CASE HelperTests(t)
  <2>1. thread'[t].at \in {"clear", "write"} => ~stop
    BY <1>1, <1>5, CallMoves DEF Moves, To, Stays
  <2> QED BY <1>1, <1>2, <1>5, <2>1 DEF HelperTests, flags, Guarded
<1>6. CASE HelperClears(t)
  <2>1. thread[t].at = "clear"
    BY <1>1, <1>6, CallMoves
  <2> QED BY <1>1, <1>2, <1>6, <2>1 DEF HelperClears, Guarded
<1>7. CASE HelperWrites(t)
  <2>1. thread[t].at = "write" /\ thread'[t].at \in {"unlock", "wake"}
    BY <1>1, <1>7, CallMoves DEF Moves, To, Stays
  <2> QED BY <1>1, <1>2, <1>7, <2>1 DEF HelperWrites, Guarded
<1>8. CASE EnterStep(t) \/ ReleaseStep(t)
  <2>1. thread'[t].at \notin {"clear", "write"}
    BY <1>1, <1>8, CallMoves DEF Moves, To, Ends
  <2>2. stop' = stop
    BY <1>8 DEF EnterStep, ReleaseStep
  <2>3. stop => UNCHANGED <<paused, frameStepRequested>>
    <3>1. EnterStep(t) /\ stop => UNCHANGED <<paused, frameStepRequested>>
      BY ONLY DEF EnterStep
    <3>2. ReleaseStep(t) /\ stop => UNCHANGED <<paused, frameStepRequested>>
      BY ONLY DEF ReleaseStep
    <3> QED BY <1>8, <3>1, <3>2
  <2> QED BY <1>1, <1>2, <2>1, <2>2, <2>3 DEF Guarded
<1>9. ASSUME \/ ReadStarted(t) \/ HelperLocks(t) \/ HelperWakes(t) \/ HelperUnlocks(t)
             \/ HelperReturns(t) \/ EnterCore(t) \/ Await(t) \/ LeaveCore(t)
             \/ CreateThread(t) \/ PublishStarted(t) \/ Join(t) \/ Cleanup(t)
      PROVE  (stop' => ~paused' /\ ~frameStepRequested') /\ Guarded'
  <2>1. thread'[t].at \notin {"clear", "write"}
    BY <1>1, <1>9, CallMoves DEF Moves, To, Stays, Ends
  <2>2. UNCHANGED <<stop, paused, frameStepRequested>>
    BY <1>9 DEF ReadStarted, HelperLocks, HelperWakes, HelperUnlocks, HelperReturns, EnterCore,
                Await, LeaveCore, CreateThread, PublishStarted, Join, Cleanup, flags
  <2> QED BY <1>1, <1>2, <2>1, <2>2 DEF Guarded
<1> QED BY <1>3, <1>4, <1>5, <1>6, <1>7, <1>8, <1>9 DEF CallStep

LEMMA StopInvNext ==
    IInv /\ StopInv /\ [Next /\ Remember]_<<vars, history>> => StopInv'
<1> SUFFICES ASSUME IInv, StopInv, [Next /\ Remember]_<<vars, history>> PROVE StopInv'
  OBVIOUS
<1>1. CASE UNCHANGED <<vars, history>>
  BY <1>1 DEF vars, history, StopInv, Trespassing, Guarded, Threads
<1>2. CASE Next /\ Remember
  <2>1. (Trespassing => trespassed)' /\ (~trespassed' => ~trespassed)
    BY <1>2 DEF Remember
  <2> SUFFICES ASSUME ~trespassed PROVE (stop' => ~paused' /\ ~frameStepRequested') /\ Guarded'
    BY <2>1 DEF StopInv
  <2>2. ASSUME NEW t \in Threads,
               LockDestroyed(t) \/ \E call \in Calls[t] : Begin(t, call)
        PROVE  (stop' => ~paused' /\ ~frameStepRequested') /\ Guarded'
    <3>1. /\ UNCHANGED <<stop, paused, frameStepRequested>>
          /\ \A s \in Threads \ {t} : thread'[s] = thread[s]
          /\ thread'[t].at \notin {"clear", "write"}
      BY <2>2, CallMoves, BeginMoves DEF IInv, LockDestroyed, flags, Moves, Ends
    <3> QED BY <3>1 DEF StopInv, Guarded
  <2>3. ASSUME EmuStep \/ EmuWakesSpuriously
        PROVE  (stop' => ~paused' /\ ~frameStepRequested') /\ Guarded'
    <3>1. UNCHANGED <<thread, stop>> /\ (~frameStepRequested => ~frameStepRequested')
      BY <2>3 DEF EmuStep, EmuWakesSpuriously, EmuStarts, EmuLooks, EmuLooksAgain, Proceed,
                  EmuEndsFrame, EmuPausesAfterStep, EmuMutesAfterStep, EmuStops, flags
    <3>2. paused' = paused \/ EmuPausesAfterStep
      BY <2>3 DEF EmuStep, EmuWakesSpuriously, EmuStarts, EmuLooks, EmuLooksAgain,
                  EmuEndsFrame, EmuMutesAfterStep, EmuStops, flags
    <3>3. EmuPausesAfterStep => (stop /\ ~paused => ~paused')
      BY ONLY DEF EmuPausesAfterStep
    <3> QED BY <3>1, <3>2, <3>3 DEF StopInv, Guarded
  <2> QED BY <1>2, <2>2, <2>3, StopInvCallStep DEF Next
<1> QED BY <1>1, <1>2

\* Once the thread has been told to end, nothing pauses it or asks it for a frame, for any
\* calls that cross in any way: the critical sections of a step and of a helper test stop,
\* and so does the thread.  The exception is a helper that runs without the mutex.
THEOREM SpecStopWins == Spec => []StopWins
<1>1. Init => StopInv
  <2>1. ASSUME Init PROVE \A t \in Threads : thread[t].at = "idle"
    BY <2>1 DEF Init, Idle
  <2> QED BY <2>1 DEF Init, StopInv, Trespassing, Guarded
<1>2. StopInv => StopWins
  BY DEF StopInv, StopWins
<1> QED BY <1>1, <1>2, StopInvNext, SpecIInv, PTL DEF Spec

-----------------------------------------------------------------------------
(* Until calls cross: a rewind or a reset, with at most a pause or a start   *)
(* beside it, keeps the emulator paused until it is done.                    *)

\* A rewind or a reset that has paused the emulator: first no stop is under way, then the
\* emulator is paused, and at the end its thread waits.
Undisturbed(t) ==
    thread[t].call \in {"rewind", "reset"} =>
       /\ thread[t].helper = "pause" /\ thread[t].at \in {"read", "lock", "check", "clear", "write"}
             => ~stop
       /\ (thread[t].helper = "pause" /\ thread[t].at \in {"unlock", "audio"})
             \/ thread[t].at \in {"await", "core"} => ~stop /\ paused
       /\ thread[t].at = "core" => emu \in {"waiting", "woken"}

CalmInv ==
    /\ Crossing => crossed
    /\ ~crossed => \A t \in Threads : Undisturbed(t)

\* Beside a rewind or a reset others pause or start, and no state file is under way.
LEMMA CalmFacts ==
    ASSUME Callers, ~Crossing, NEW t \in Threads
    PROVE  /\ thread[t].call # "state"
           /\ thread[t].call \in {"rewind", "reset"} =>
                 \A s \in Threads \ {t} : thread[s].call \in {"none", "pause", "start"}
  BY DEF Crossing, Disturbs, In

\* A step of the rewind or the reset itself.
LEMMA UndisturbedOwnStep ==
    ASSUME IInv, NEW t \in Threads, Undisturbed(t), CallStep(t) PROVE Undisturbed(t)'
<1>1. Callers /\ Callers' /\ OnRoute(thread[t]) /\ ReallyPausedMeansWaiting
  BY RouteKept DEF IInv, Callers, Shape
<1>2. SUFFICES ASSUME thread'[t].call \in {"rewind", "reset"} PROVE Undisturbed(t)'
  BY DEF Undisturbed
<1> USE <1>1, <1>2, CallMoves DEF Undisturbed, Moves, To, Stays, Ends
<1>3. CASE ReadStarted(t) \/ HelperLocks(t) \/ HelperTests(t) \/ HelperClears(t)
  <2>1. UNCHANGED <<stop, paused, emu>>
    BY <1>3 DEF ReadStarted, HelperLocks, HelperTests, HelperClears, flags
  <2> QED BY <1>3, <2>1
<1>4. CASE HelperWrites(t)
  <2>1. thread[t].at = "write" /\ thread[t].call = thread'[t].call
        /\ thread[t].helper = thread'[t].helper /\ thread'[t].at \in {"unlock", "wake"}
    BY <1>4
  <2>2. stop' = stop
    BY <1>4 DEF HelperWrites
  <2>3. thread[t].helper = "pause" => paused'
    BY ONLY <1>4 DEF HelperWrites
  <2> QED BY <2>1, <2>2, <2>3
<1>5. CASE HelperWakes(t) \/ HelperUnlocks(t) \/ HelperReturns(t)
  <2>1. UNCHANGED <<stop, paused>> /\ (emu' = emu \/ Broadcast)
    BY <1>5 DEF HelperWakes, HelperUnlocks, HelperReturns, flags
  <2> QED BY <1>5, <2>1 DEF Broadcast, OnRoute
<1>6. CASE EnterCore(t) \/ Await(t) \/ LeaveCore(t)
  <2>1. UNCHANGED <<stop, paused, emu>>
    BY <1>6 DEF EnterCore, Await, LeaveCore, flags
  <2> QED BY <1>6, <2>1 DEF OnRoute, ReallyPausedMeansWaiting
<1>7. CASE EnterStep(t) \/ ReleaseStep(t) \/ StartFlags(t) \/ CreateThread(t)
           \/ PublishStarted(t) \/ RequestStop(t) \/ Join(t) \/ Cleanup(t)
  <2>1. thread[t].at \in {"lock", "release", "flags", "create", "publish", "join", "cleanup"}
        /\ (thread[t].at = "lock" => thread[t].call \in {"step", "stop"})
        /\ thread'[t].call \in {thread[t].call, "none"}
    BY <1>7
  <2> QED BY <2>1 DEF OnRoute
<1> QED BY <1>3, <1>4, <1>5, <1>6, <1>7 DEF CallStep

\* It is left alone by what keeps its place, and the emulator paused and waiting.
LEMMA LeftAlone ==
    ASSUME NEW t \in Threads, Undisturbed(t), thread'[t] = thread[t],
           ~stop => ~stop' /\ (paused => paused'),
           emu \in {"waiting", "woken"} /\ paused /\ ~stop => emu' \in {"waiting", "woken"}
    PROVE  Undisturbed(t)'
  BY DEF Undisturbed

\* A step of another call, which pauses or starts: a start cannot create a thread while a
\* rewind holds the thread of the session waiting, for there is none at that point.
LEMMA UndisturbedOtherStep ==
    ASSUME IInv, NEW t \in Threads, NEW s \in Threads \ {t}, Undisturbed(t),
           thread[s].call \in {"none", "pause", "start"}, CallStep(s)
    PROVE  Undisturbed(t)'
<1>1. Callers /\ OnRoute(thread[s]) /\ Accounted
  BY DEF IInv, Callers, Shape
<1>2. thread'[t] = thread[t]
  BY <1>1, OthersStay
<1>3. /\ thread[s].at \in Helped => thread[s].helper = "pause"
      /\ thread[s].at \notin {"wake", "join", "cleanup", "release", "await", "core"}
      /\ thread[s].helper = "none" => thread[s].call # "pause"
  BY <1>1 DEF OnRoute, Helped, Section
<1>4. \/ ReadStarted(s) \/ HelperLocks(s) \/ HelperTests(s) \/ HelperClears(s)
      \/ HelperWrites(s) \/ HelperUnlocks(s) \/ HelperReturns(s)
      \/ StartFlags(s) \/ CreateThread(s) \/ PublishStarted(s)
  BY <1>1, <1>3, CallMoves DEF CallStep
<1>5. CASE HelperWrites(s)
  <2>1. thread[s].helper = "pause"
    BY <1>1, <1>3, <1>5, CallMoves DEF Helped, Section
  <2>2. paused' /\ UNCHANGED <<stop, emu>>
    BY ONLY <1>5, <2>1 DEF HelperWrites
  <2> QED BY <1>2, <2>2, LeftAlone
<1>6. CASE StartFlags(s)
  BY <1>2, <1>6, LeftAlone DEF StartFlags
<1>7. CASE CreateThread(s)
  <2>1. thread[s].at = "create" /\ s = "io"
    BY <1>1, <1>7, CallMoves, CallOwners DEF OnRoute
  <2>2. emu \in Gone
    BY <1>1, <2>1 DEF Accounted, Io
  <2> QED BY <1>2, <1>7, <2>2, LeftAlone DEF CreateThread, Gone, flags
<1>8. ASSUME \/ ReadStarted(s) \/ HelperLocks(s) \/ HelperTests(s) \/ HelperClears(s)
             \/ HelperUnlocks(s) \/ HelperReturns(s) \/ PublishStarted(s)
      PROVE  Undisturbed(t)'
  <2>1. UNCHANGED <<stop, paused, emu>>
    BY <1>8 DEF ReadStarted, HelperLocks, HelperTests, HelperClears, HelperUnlocks,
                HelperReturns, PublishStarted, flags
  <2> QED BY <1>2, <2>1, LeftAlone
<1> QED BY <1>4, <1>5, <1>6, <1>7, <1>8

LEMMA UndisturbedByEmulator ==
    ASSUME NEW t \in Threads, Undisturbed(t), EmuStep \/ EmuWakesSpuriously
    PROVE  Undisturbed(t)'
<1>1. UNCHANGED thread /\ stop' = stop /\ (paused /\ ~stop => paused')
  <2>1. UNCHANGED <<thread, stop>> /\ (paused' = paused \/ EmuPausesAfterStep)
    BY DEF EmuStep, EmuWakesSpuriously, EmuStarts, EmuLooks, EmuLooksAgain, EmuEndsFrame,
           EmuPausesAfterStep, EmuMutesAfterStep, EmuStops, flags
  <2>2. EmuPausesAfterStep => (paused /\ ~stop => paused')
    BY ONLY DEF EmuPausesAfterStep
  <2> QED BY <2>1, <2>2
<1>2. emu \in {"waiting", "woken"} /\ paused /\ ~stop => emu' \in {"waiting", "woken"}
  BY DEF EmuStep, EmuWakesSpuriously, EmuStarts, EmuLooks, EmuLooksAgain, EmuEndsFrame,
         EmuPausesAfterStep, EmuMutesAfterStep, EmuStops
<1> QED BY <1>1, <1>2, LeftAlone

LEMMA UndisturbedBegin ==
    ASSUME IInv, NEW t \in Threads, Undisturbed(t), NEW s \in Threads,
           LockDestroyed(s) \/ \E call \in Calls[s] : Begin(s, call)
    PROVE  Undisturbed(t)'
<1>1. UNCHANGED <<stop, paused, emu>> /\ (s # t => thread'[t] = thread[t])
  BY CallMoves, BeginMoves DEF IInv, LockDestroyed, flags, Moves, Ends
<1>2. CASE LockDestroyed(t)
  BY <1>2, CallMoves DEF IInv, Undisturbed, Moves, Ends
<1>3. ASSUME NEW call \in Calls[t], Begin(t, call) PROVE Undisturbed(t)'
  <2>1. /\ thread'[t].call = call
        /\ thread'[t].at = IF call = "start" THEN "flags" ELSE IF call = "state" THEN "core" ELSE "read"
        /\ thread'[t].helper = IF call \in {"pause", "resume"} THEN call ELSE "none"
    BY <1>3, BeginMoves DEF IInv, Moves
  <2> QED BY <2>1 DEF Undisturbed
<1> QED BY <1>1, <1>2, <1>3, LeftAlone

LEMMA CalmInvNext ==
    IInv /\ CalmInv /\ [Next /\ Remember]_<<vars, history>> => CalmInv'
<1> SUFFICES ASSUME IInv, CalmInv, [Next /\ Remember]_<<vars, history>> PROVE CalmInv'
  OBVIOUS
<1>1. CASE UNCHANGED <<vars, history>>
  BY <1>1 DEF vars, history, CalmInv, Crossing, Disturbs, In, Undisturbed, Threads
<1>2. CASE Next /\ Remember
  <2>1. (Crossing => crossed)' /\ (~crossed' => ~crossed)
    BY <1>2 DEF Remember
  <2>2. Threads' = Threads
    BY DEF Threads
  <2> SUFFICES ASSUME ~crossed, NEW t \in Threads PROVE Undisturbed(t)'
    BY <2>1, <2>2 DEF CalmInv
  <2>3. ~Crossing /\ Undisturbed(t) /\ Callers
    BY DEF CalmInv, IInv
  <2>4. ASSUME NEW s \in Threads \ {t}, CallStep(s) PROVE Undisturbed(t)'
    <3>1. CASE thread[t].call \in {"rewind", "reset"}
      BY <2>3, <2>4, <3>1, CalmFacts, UndisturbedOtherStep
    <3>2. CASE thread[t].call \notin {"rewind", "reset"}
      <4>1. thread'[t] = thread[t]
        BY <2>3, <2>4, OthersStay
      <4> QED BY <3>2, <4>1 DEF Undisturbed
    <3> QED BY <3>1, <3>2
  <2>5. ASSUME CallStep(t) PROVE Undisturbed(t)'
    BY <2>3, <2>5, UndisturbedOwnStep
  <2> QED BY <1>2, <2>3, <2>4, <2>5, UndisturbedByEmulator, UndisturbedBegin DEF Next
<1> QED BY <1>1, <1>2

LEMMA SpecCalmInv == Spec => []CalmInv
<1>1. Init => CalmInv
  <2>1. ASSUME Init PROVE \A t \in Threads : thread[t].at = "idle" /\ thread[t].call = "none"
    BY <2>1 DEF Init, Idle
  <2> QED BY <2>1 DEF CalmInv, Crossing, Disturbs, In, Undisturbed
<1> QED BY <1>1, CalmInvNext, SpecIInv, PTL DEF Spec

\* Two threads never use the emulated console at once as long as no calls cross, however
\* many workers there are and however often a game is started, paused, rewound, reset,
\* stepped and stopped: the flag that a rewind or a reset waits for, read without the
\* mutex, is enough.
THEOREM SpecCoreHasOneUser == Spec => []CoreHasOneUser
<1>1. ASSUME IInv, CalmInv, ~crossed PROVE Cardinality(CoreUsers) <= 1
  <2>1. Callers /\ ~Crossing /\ \A t \in Threads : Undisturbed(t) /\ OnRoute(thread[t])
    BY <1>1 DEF IInv, CalmInv, Callers, Shape
  <2>2. ASSUME NEW t \in Threads, At(t, "core")
        PROVE  emu \in {"waiting", "woken"} /\ \A s \in Threads \ {t} : ~At(s, "core")
    <3>1. thread[t].call \in {"rewind", "reset"}
      BY <2>1, <2>2, CalmFacts DEF At, OnRoute
    <3>2. \A s \in Threads \ {t} : thread[s].call \in {"none", "pause", "start"}
      BY <2>1, <3>1, CalmFacts
    <3>3. \A s \in Threads \ {t} : thread[s].at # "core"
      BY <2>1, <3>2 DEF OnRoute
    <3> QED BY <2>1, <2>2, <3>1, <3>3 DEF At, Undisturbed
  <2>3. CASE \E t \in Threads : At(t, "core")
    <3>1. PICK t \in Threads : At(t, "core")
      BY <2>3
    <3>2. CoreUsers = {t}
      BY <2>2, <3>1 DEF CoreUsers
    <3> QED BY <3>2, FS_Singleton
  <2>4. CASE ~\E t \in Threads : At(t, "core")
    <3>1. CoreUsers = {} \/ CoreUsers = {"emulator"}
      BY <2>4 DEF CoreUsers
    <3> QED BY <3>1, FS_EmptySet, FS_Singleton
  <2> QED BY <2>3, <2>4
<1>2. IInv /\ CalmInv => CoreHasOneUser
  BY <1>1 DEF CoreHasOneUser
<1> QED BY <1>2, SpecIInv, SpecCalmInv, PTL

-----------------------------------------------------------------------------
(* Every wait is answered.                                                   *)

\* A session has an emulator thread that has not been told to end, and a stop joins one
\* that has been told and has heard it.  A pause that locks has found a session, which only
\* the thread that makes it could end.
Living ==
    /\ emu \in EmuPlaces
    /\ started \/ Io.at = "publish" => emu \notin {"none", "stopping", "exited"}
Joining == Main.at = "join" => stop /\ emu \notin {"none", "waiting"}
PauseInSession == Main.call = "pause" /\ Main.at = "lock" => started
LifeInv == Living /\ Joining /\ PauseInSession

\* A pause goes on to lock the mutex only in a session.
LEMMA PauseLocksInSession ==
    ASSUME Callers, ReadStarted("main"), Main'.at = "lock", Main.call = "pause" PROVE started
<1>1. "main" \in Threads /\ OnRoute(Main)
  BY ThreadFacts DEF Callers, Shape, Main
<1>2. thread["main"].call = "pause" /\ thread["main"].helper # "none"
  BY <1>1 DEF OnRoute, Main
<1>3. Goto("main", IF started THEN "lock" ELSE "check")
  BY ONLY <1>2, ReadStarted("main") DEF ReadStarted, In
<1>4. ASSUME ~started PROVE FALSE
  <2>1. Goto("main", "check") /\ "check" \in Places
    BY <1>3, <1>4 DEF Places, Section
  <2>2. thread'["main"].at = "check"
    BY <1>1, <2>1, LocalsMove DEF Moves
  <2> QED BY <2>2 DEF Main
<1> QED BY <1>4

\* The step of a call that begins or ends a session, or wakes the thread, and any other.
LEMMA LifeInvCallStep == ASSUME IInv, LifeInv, NEW t \in Threads, CallStep(t) PROVE LifeInv'
<1>1. /\ Callers /\ Sessions /\ Living /\ Joining /\ PauseInSession
      /\ OnRoute(Main) /\ OnRoute(Io) /\ OnRoute(thread[t])
      /\ "main" \in Threads /\ "io" \in Threads /\ "main" # "io"
  BY ThreadFacts DEF IInv, LifeInv, Callers, Shape, Main, Io
<1>2. /\ t # "main" => Main' = Main
      /\ t # "io" => Io' = Io
  BY <1>1, OthersStay DEF Main, Io
<1>3. CASE RequestStop(t)
  <2>1. t = "main" /\ Main.call = "stop" /\ Main.at = "lock"
        /\ Main'.at = "join" /\ Main'.call = "stop"
    <3>1. t = "main"
      BY <1>1, <1>3, CallMoves, CallOwners
    <3> QED BY <1>1, <1>3, <3>1, CallMoves DEF Main, Moves, To, Stays
  <2>2. started /\ Io'.at # "publish"
    BY <1>1, <1>2, <2>1 DEF Sessions, OnRoute
  <2>3. stop' /\ ~started' /\ Broadcast
    BY <1>3 DEF RequestStop
  <2>4. emu # "none" /\ emu' \in EmuPlaces \ {"none", "waiting"}
    BY <1>1, <2>2, <2>3 DEF Living, Broadcast, EmuPlaces
  <2> QED BY <2>1, <2>2, <2>3, <2>4 DEF LifeInv, Living, Joining, PauseInSession
<1>4. CASE StartFlags(t) \/ CreateThread(t) \/ PublishStarted(t)
  <2>1. t = "io" /\ Io.call = "start"
    <3>1. thread[t].at \in {"flags", "create", "publish"}
      BY <1>1, <1>4, CallMoves
    <3>2. thread[t].call = "start"
      BY <1>1, <3>1 DEF OnRoute
    <3> QED BY <1>1, <3>2, CallOwners DEF Io
  <2>2. Main' = Main /\ Main.at # "join" /\ ~started
    BY <1>1, <1>2, <2>1 DEF Sessions, OnRoute
  <2>3. CASE StartFlags(t)
    <3>1. Io'.at = "create" /\ started' = started /\ emu' = emu
      BY <1>1, <2>1, <2>3, CallMoves DEF StartFlags, Moves, To, Stays, Io
    <3> QED BY <1>1, <2>2, <3>1 DEF LifeInv, Living, Joining, PauseInSession
  <2>4. CASE CreateThread(t)
    <3>1. started' = started /\ emu' = "starting"
      BY <2>4 DEF CreateThread, flags
    <3> QED BY <1>1, <2>2, <3>1 DEF LifeInv, Living, Joining, PauseInSession, EmuPlaces
  <2>5. CASE PublishStarted(t)
    <3>1. started' /\ emu' = emu /\ Io.at = "publish"
      BY <1>1, <2>1, <2>5, CallMoves DEF PublishStarted, Io
    <3> QED BY <1>1, <2>2, <3>1 DEF LifeInv, Living, Joining, PauseInSession
  <2> QED BY <1>4, <2>3, <2>4, <2>5
<1>5. ASSUME ~RequestStop(t), ~(StartFlags(t) \/ CreateThread(t) \/ PublishStarted(t))
      PROVE  LifeInv'
  <2>1. UNCHANGED <<started, stop>> /\ (emu' = emu \/ Broadcast)
    BY <1>5 DEF CallStep, ReadStarted, HelperLocks, HelperTests, HelperClears, HelperWrites,
                HelperWakes, HelperUnlocks, HelperReturns, EnterCore, EnterStep, Await,
                LeaveCore, ReleaseStep, Join, Cleanup, flags
  <2>2. /\ thread'[t].at \notin {"publish", "join"}
        /\ thread'[t].at = "lock" => ReadStarted(t) /\ thread'[t].call = thread[t].call
    BY <1>1, <1>5, CallMoves DEF CallStep, Moves, To, Stays, Ends
  <2>3. emu' \in EmuPlaces /\ (emu \notin {"none", "stopping", "exited"}
                                  => emu' \notin {"none", "stopping", "exited"})
        /\ (emu \notin {"none", "waiting"} => emu' \notin {"none", "waiting"})
    BY <1>1, <2>1 DEF Living, Broadcast, EmuPlaces
  <2>4. Living'
    BY <1>1, <1>2, <2>1, <2>2, <2>3 DEF Living, Io
  <2>5. Joining'
    BY <1>1, <1>2, <2>1, <2>2, <2>3 DEF Joining, Main
  <2>6. PauseInSession'
    <3>1. CASE t = "main"
      BY <1>1, <2>1, <2>2, <3>1, PauseLocksInSession DEF PauseInSession, Main
    <3> QED BY <1>1, <1>2, <2>1, <3>1 DEF PauseInSession
  <2> QED BY <2>4, <2>5, <2>6 DEF LifeInv
<1> QED BY <1>3, <1>4, <1>5

\* The emulator thread ends only when it has been told to, and does not wait then.
LEMMA LifeInvByEmulator ==
    ASSUME IInv, LifeInv, EmuStep \/ EmuWakesSpuriously PROVE LifeInv'
<1>1. UNCHANGED <<thread, started, stop>>
  BY DEF EmuStep, EmuWakesSpuriously, EmuStarts, EmuLooks, EmuLooksAgain, EmuEndsFrame,
         EmuPausesAfterStep, EmuMutesAfterStep, EmuStops, flags
<1>2. started \/ Io.at = "publish" => ~stop
  BY DEF IInv, Sessions
<1>3. emu' \in EmuPlaces \ {"none"} /\ (stop => emu' # "waiting" \/ emu = "waiting")
      /\ (emu' \in {"stopping", "exited"} => stop \/ emu \in {"stopping", "exited"})
  BY DEF EmuPlaces, EmuStep, EmuWakesSpuriously, EmuStarts, EmuLooks, EmuLooksAgain, Proceed,
         EmuEndsFrame, EmuPausesAfterStep, EmuMutesAfterStep, EmuStops
<1> QED BY <1>1, <1>2, <1>3 DEF LifeInv, Living, Joining, PauseInSession, Main, Io

LEMMA LifeInvNext == IInv /\ LifeInv /\ [Next]_vars => LifeInv'
<1>1. ASSUME LifeInv, UNCHANGED vars PROVE LifeInv'
  BY <1>1 DEF vars, flags, LifeInv, Living, Joining, PauseInSession, Main, Io
<1>2. ASSUME IInv, LifeInv, NEW t \in Threads,
             LockDestroyed(t) \/ \E call \in Calls[t] : Begin(t, call)
      PROVE  LifeInv'
  <2>1. /\ UNCHANGED <<started, stop, emu>>
        /\ \A s \in Threads \ {t} : thread'[s] = thread[s]
        /\ thread'[t].at \notin {"publish", "join", "lock"}
    BY <1>2, CallMoves, BeginMoves DEF IInv, LockDestroyed, flags, Moves, Ends
  <2> QED BY <1>2, <2>1, ThreadFacts DEF LifeInv, Living, Joining, PauseInSession, Main, Io
<1> QED BY <1>1, <1>2, LifeInvCallStep, LifeInvByEmulator DEF Next

LEMMA SpecLifeInv == Spec => []LifeInv
<1>1. Init => LifeInv
  <2>1. ASSUME Init PROVE Main.at = "idle" /\ Io.at = "idle"
    BY <2>1, ThreadFacts DEF Init, Idle, Main, Io
  <2> QED BY <2>1 DEF Init, LifeInv, Living, Joining, PauseInSession, EmuPlaces
<1> QED BY <1>1, LifeInvNext, SpecIInv, HistoryOnlyRemembers, PTL DEF Spec

\* Until calls cross, a reset, a rewind or a step stays in the session it was made in, a
\* step that waits has paused the emulator, and, while no helper runs without the mutex,
\* whoever holds the mutex is about to release it.
InSession == \A t \in Threads : thread[t].call \in {"reset", "rewind", "step"} => started
Stepping == \A t \in Threads :
    thread[t].call = "step" /\ thread[t].at \in {"audio", "await"} => paused
Holding ==
    ~trespassed /\ mutex # "nobody" =>
        mutex \in Threads /\ thread[mutex].at \in Section /\ started
WaitInv == ~crossed => InSession /\ Stepping /\ Holding /\ ~aborted

\* A thread that is about to lock the mutex is in a session.
LEMMA LockInSession ==
    ASSUME IInv, LifeInv, InSession, ~Crossing, NEW t \in Threads,
           thread[t].at \in {"lock", "release"}
    PROVE  started
<1>1. Callers /\ Sessions /\ OnRoute(thread[t]) /\ OnRoute(Main) /\ thread[t].call # "state"
  BY CalmFacts, ThreadFacts DEF IInv, Callers, Shape, Main
<1>2. thread[t].call \in AnyCall \ {"none", "start", "state"}
  BY <1>1 DEF Callers, Locals, OnRoute
<1>3. CASE thread[t].call \in {"reset", "rewind", "step"}
  BY <1>3 DEF InSession
<1>4. CASE thread[t].call \in {"pause", "resume", "stop"}
  <2>1. t = "main"
    BY <1>1, <1>4, CallOwners
  <2>2. Main = thread[t]
    BY <2>1 DEF Main
  <2> QED BY <1>1, <1>4, <2>2 DEF Sessions, LifeInv, PauseInSession, OnRoute
<1> QED BY <1>2, <1>3, <1>4 DEF AnyCall

\* What a call beside a reset, a rewind or a step may be.
LEMMA BesideNeedy ==
    ASSUME Callers, ~Crossing, NEW t \in Threads, NEW s \in Threads \ {t},
           thread[t].call \in {"reset", "rewind", "step"}
    PROVE  thread[s].call \in {"none", "pause", "start"}
  BY DEF Crossing, Disturbs, In

LEMMA InSessionKept ==
    ASSUME IInv, InSession, ~Crossing, NEW t \in Threads, CallStep(t) PROVE InSession'
<1>1. Callers /\ \A s \in Threads \ {t} : thread'[s] = thread[s]
  BY OthersStay DEF IInv
<1>2. CASE RequestStop(t)
  <2>1. thread[t].call = "stop" /\ thread'[t].call = "stop"
    BY <1>1, <1>2, CallMoves DEF Moves, To, Stays
  <2>2. \A s \in Threads \ {t} : thread[s].call \notin {"reset", "rewind", "step"}
    BY <1>1, <2>1, BesideNeedy
  <2> QED BY <1>1, <2>1, <2>2 DEF InSession, Threads
<1>3. ASSUME ~RequestStop(t) PROVE InSession'
  <2>1. started => started'
    BY <1>3 DEF CallStep, ReadStarted, HelperLocks, HelperTests, HelperClears, HelperWrites,
                HelperWakes, HelperUnlocks, HelperReturns, EnterCore, EnterStep, Await,
                LeaveCore, ReleaseStep, StartFlags, CreateThread, PublishStarted, Join,
                Cleanup, flags
  <2>2. thread'[t].call \in {thread[t].call, "none"}
    BY <1>1, CallMoves DEF CallStep, Moves, To, Stays, Ends
  <2> QED BY <1>1, <2>1, <2>2 DEF InSession, Threads
<1> QED BY <1>2, <1>3

\* The emulator stays paused while a step waits: the others only pause or start.
LEMMA SteppingKept ==
    ASSUME IInv, Stepping, ~Crossing, NEW t \in Threads, CallStep(t) PROVE Stepping'
<1>1. /\ Callers /\ OnRoute(thread[t])
      /\ \A s \in Threads \ {t} : thread'[s] = thread[s]
  BY OthersStay DEF IInv, Callers, Shape
<1>2. SUFFICES ASSUME NEW s \in Threads, thread'[s].call = "step",
                      thread'[s].at \in {"audio", "await"}
               PROVE  paused'
  BY DEF Stepping, Threads
<1>3. CASE s = t
  <2>1. thread[t].call = "step" /\ (EnterStep(t) \/ (HelperReturns(t) /\ thread[t].at = "audio"))
    <3>1. thread'[t].at # "idle" /\ thread'[t].call = "step"
      BY <1>2, <1>3
    <3>2. thread[t].call = "step"
      BY <1>1, <3>1, CallMoves DEF CallStep, Moves, To, Stays, Ends
    <3>3. thread[t].at \notin Section
      BY <1>1, <3>2 DEF OnRoute
    <3>4. ~HelperUnlocks(t) /\ ~EnterCore(t)
      BY <1>1, <3>2, <3>3, CallMoves DEF Section
    <3>5. EnterStep(t) \/ HelperReturns(t)
      BY <1>1, <1>2, <1>3, <3>4, CallMoves DEF CallStep, Moves, To, Stays, Ends
    <3> QED BY <1>1, <3>2, <3>5, CallMoves
  <2>2. HelperReturns(t) => paused' = paused
    BY DEF HelperReturns, flags
  <2>3. EnterStep(t) /\ ~stop => paused'
    BY ONLY DEF EnterStep
  <2>4. EnterStep(t) /\ stop => thread'[t].at = "idle"
    <3>1. EnterStep(t) /\ stop => Return(t)
      BY ONLY DEF EnterStep
    <3> QED BY <1>1, <3>1, LocalsMove DEF Moves
  <2> QED BY <1>2, <1>3, <2>1, <2>2, <2>3, <2>4 DEF Stepping
<1>4. CASE s # t
  <2>1. thread'[s] = thread[s] /\ paused
    BY <1>1, <1>2, <1>4 DEF Stepping
  <2>2. thread[t].call \in {"none", "pause", "start"}
    BY <1>1, <1>2, <1>4, <2>1, BesideNeedy
  <2>3. CASE HelperWrites(t)
    <3>1. thread[t].helper = "pause"
      BY <1>1, <2>2, <2>3, CallMoves DEF OnRoute, Helped, Section
    <3> QED BY ONLY <2>3, <3>1 DEF HelperWrites
  <2>4. ~EnterStep(t) /\ ~ReleaseStep(t) /\ ~RequestStop(t)
    BY <1>1, <2>2, CallMoves DEF OnRoute
  <2>5. ASSUME ~HelperWrites(t), ~StartFlags(t) PROVE paused' = paused
    BY <2>4, <2>5 DEF CallStep, ReadStarted, HelperLocks, HelperTests, HelperClears,
                HelperWakes, HelperUnlocks, HelperReturns, EnterCore, Await,
                LeaveCore, CreateThread, PublishStarted, Join, Cleanup, flags
  <2>6. StartFlags(t) => paused'
    BY DEF StartFlags
  <2> QED BY <2>1, <2>3, <2>5, <2>6
<1> QED BY <1>3, <1>4

\* The mutex is taken in a session and released there.
LEMMA HoldingKept ==
    ASSUME IInv, LifeInv, InSession, Holding, ~Crossing, ~trespassed, NEW t \in Threads,
           CallStep(t)
    PROVE  mutex' # "nobody" =>
               mutex' \in Threads /\ thread'[mutex'].at \in Section /\ started'
<1>1. /\ Callers /\ OnRoute(thread[t]) /\ \A s \in Threads \ {t} : thread'[s] = thread[s]
      /\ mutex # "nobody" => mutex \in Threads /\ thread[mutex].at \in Section /\ started
  BY OthersStay DEF IInv, Callers, Shape, Holding
<1>2. CASE HelperLocks(t)
  <2>1. thread'[t].at = "check" /\ started
    BY <1>1, <1>2, CallMoves, LockInSession DEF Moves, To, Stays
  <2> QED BY <1>2, <2>1 DEF HelperLocks, flags, Section
<1>3. CASE HelperUnlocks(t)
  BY <1>1, <1>3 DEF HelperUnlocks
<1>4. CASE CreateThread(t)
  BY <1>4 DEF CreateThread
<1>5. CASE RequestStop(t)
  <2>1. mutex = "nobody" /\ mutex' = mutex
    BY <1>5 DEF RequestStop, Locks, CanLock, mutexState
  <2> QED BY <2>1
<1>6. CASE HelperTests(t) \/ HelperClears(t) \/ HelperWrites(t) \/ HelperWakes(t)
  <2>1. thread'[t].at \in Section
    BY <1>1, <1>6, CallMoves DEF Moves, To, Stays, Section
  <2>2. mutex' = mutex /\ started' = started
    BY <1>6 DEF HelperTests, HelperClears, HelperWrites, HelperWakes, flags, mutexState
  <2> QED BY <1>1, <2>1, <2>2
<1>7. ASSUME \/ ReadStarted(t) \/ HelperReturns(t) \/ EnterCore(t) \/ EnterStep(t)
             \/ Await(t) \/ LeaveCore(t) \/ ReleaseStep(t) \/ StartFlags(t)
             \/ PublishStarted(t) \/ Join(t) \/ Cleanup(t)
      PROVE  mutex' # "nobody" =>
                 mutex' \in Threads /\ thread'[mutex'].at \in Section /\ started'
  <2>1. thread[t].at \notin Section
    BY <1>1, <1>7, CallMoves DEF Section
  <2>2. mutex' = mutex /\ (started => started')
    BY <1>7 DEF ReadStarted, HelperReturns, EnterCore, EnterStep, Await, LeaveCore,
                ReleaseStep, StartFlags, PublishStarted, Join, Cleanup, flags, mutexState
  <2> QED BY <1>1, <2>1, <2>2
<1> QED BY <1>2, <1>3, <1>4, <1>5, <1>6, <1>7 DEF CallStep

LEMMA WaitInvNext ==
    IInv /\ LifeInv /\ CalmInv /\ WaitInv /\ [Next /\ Remember]_<<vars, history>> => WaitInv'
<1> SUFFICES ASSUME IInv, LifeInv, CalmInv, WaitInv, [Next /\ Remember]_<<vars, history>>
             PROVE  WaitInv'
  OBVIOUS
<1>1. CASE UNCHANGED <<vars, history>>
  BY <1>1 DEF vars, flags, mutexState, history, WaitInv, InSession, Stepping, Holding, Threads
<1>2. CASE Next /\ Remember
  <2> SUFFICES ASSUME ~crossed' PROVE InSession' /\ Stepping' /\ Holding' /\ ~aborted'
    BY DEF WaitInv
  <2>1. /\ ~crossed /\ (~trespassed' => ~trespassed) /\ Threads' = Threads
        /\ InSession /\ Stepping /\ Holding /\ ~aborted /\ ~Crossing /\ Callers /\ Sessions
    BY <1>2 DEF Remember, WaitInv, CalmInv, IInv, Threads
  <2>2. ASSUME NEW t \in Threads, CallStep(t)
        PROVE  InSession' /\ Stepping' /\ Holding' /\ ~aborted'
    <3>1. aborted' = aborted
      BY <2>2 DEF CallStep, ReadStarted, HelperLocks, HelperTests, HelperClears, HelperWrites,
                  HelperWakes, HelperUnlocks, HelperReturns, EnterCore, EnterStep, Await,
                  LeaveCore, ReleaseStep, StartFlags, CreateThread, PublishStarted,
                  RequestStop, Join, Cleanup, mutexState
    <3> QED BY <2>1, <2>2, <3>1, InSessionKept, SteppingKept, HoldingKept DEF Holding
  <2>3. ASSUME NEW t \in Threads, LockDestroyed(t) PROVE FALSE
    <3>1. destroyed /\ thread[t].at \in {"lock", "release"}
      BY <2>3 DEF LockDestroyed, At
    <3> QED BY <2>1, <3>1, LockInSession DEF Sessions
  <2>4. ASSUME NEW t \in Threads, NEW call \in Calls[t], Begin(t, call)
        PROVE  InSession' /\ Stepping' /\ Holding' /\ ~aborted'
    <3>1. /\ UNCHANGED <<started, paused, mutex, aborted>>
          /\ \A s \in Threads \ {t} : thread'[s] = thread[s]
          /\ thread'[t].call = call /\ thread'[t].at \in {"flags", "core", "read"}
          /\ thread[t].at = "idle"
      BY <2>1, <2>4, BeginMoves DEF Moves, flags, mutexState
    <3>2. call \in {"reset", "rewind", "step"} => started
      BY <2>4 DEF Begin
    <3> QED BY <2>1, <3>1, <3>2 DEF InSession, Stepping, Holding, Section
  <2>5. ASSUME EmuStep \/ EmuWakesSpuriously
        PROVE  InSession' /\ Stepping' /\ Holding' /\ ~aborted'
    <3>1. UNCHANGED <<thread, started, mutex, aborted>>
          /\ (paused' = paused \/ EmuPausesAfterStep)
      BY <2>5 DEF EmuStep, EmuWakesSpuriously, EmuStarts, EmuLooks, EmuLooksAgain,
                  EmuEndsFrame, EmuPausesAfterStep, EmuMutesAfterStep, EmuStops, flags,
                  mutexState
    <3>2. EmuPausesAfterStep => (paused => paused')
      BY ONLY DEF EmuPausesAfterStep
    <3> QED BY <2>1, <3>1, <3>2 DEF InSession, Stepping, Holding
  <2> QED BY <1>2, <2>2, <2>3, <2>4, <2>5 DEF Next
<1> QED BY <1>1, <1>2

\* Until calls cross or a section has lost its mutex, no call waits for what may never
\* come, and none locks a destroyed mutex: a mutex that is held is about to be released,
\* an emulator thread that is waited for is paused and on its way to wait, and one that is
\* joined has heard the stop.
THEOREM SpecEveryWaitIsAnswered == Spec => []EveryWaitIsAnswered
<1>1. Init => WaitInv
  <2>1. ASSUME Init PROVE \A t \in Threads : thread[t].at = "idle" /\ thread[t].call = "none"
    BY <2>1 DEF Init, Idle
  <2> QED BY <2>1 DEF Init, WaitInv, InSession, Stepping, Holding
<1>2. ASSUME IInv, LifeInv, CalmInv, WaitInv, ~crossed, ~trespassed
      PROVE  EveryWaitIsAnswered
  <2>1. /\ Callers /\ ReallyPausedMeansWaiting /\ Living /\ Joining
        /\ InSession /\ Stepping /\ Holding /\ ~aborted /\ ~Crossing
        /\ \A t \in Threads : Undisturbed(t) /\ OnRoute(thread[t])
    BY <1>2 DEF IInv, LifeInv, CalmInv, WaitInv, Callers, Shape
  <2>2. ASSUME NEW t \in Threads, At(t, "await")
        PROVE  isThreadReallyPaused
                 \/ (paused /\ emu \in {"starting", "top", "frame", "pausing", "muting"})
    <3>1. thread[t].call \in {"rewind", "reset", "step"} /\ thread[t].at = "await"
      BY <2>1, <2>2 DEF At, OnRoute
    <3>2. started /\ paused
      BY <2>1, <3>1 DEF InSession, Stepping, Undisturbed
    <3> QED BY <2>1, <3>2 DEF Living, EmuPlaces, ReallyPausedMeansWaiting
  <2>3. ASSUME NEW t \in Threads, At(t, "join") PROVE stop /\ emu \notin {"none", "waiting"}
    <3>1. thread[t].at = "join" /\ t = "main"
      BY <2>1, <2>3, CallOwners DEF At, OnRoute
    <3>2. Main.at = "join"
      BY <3>1 DEF Main
    <3> QED BY <2>1, <3>2 DEF Joining
  <2>4. mutex # "nobody" => thread[mutex].at \in Section
    BY <1>2, <2>1 DEF Holding
  <2> QED BY <2>1, <2>2, <2>3, <2>4 DEF EveryWaitIsAnswered
<1>3. IInv /\ LifeInv /\ CalmInv /\ WaitInv => EveryWaitIsAnswered
  BY <1>2 DEF EveryWaitIsAnswered
<1> QED BY <1>1, <1>3, WaitInvNext, SpecIInv, SpecLifeInv, SpecCalmInv, PTL DEF Spec

-----------------------------------------------------------------------------
(* Until calls cross, a rewind gives the emulator back as it found it.       *)

\* While a rewind resumes the emulator it is paused and waits, until the rewind clears the
\* flag; then it runs, and not for one frame only, since the request for a step has been
\* cleared before.
Resuming ==
    Main.call = "rewind" /\ Main.helper = "resume" =>
       /\ Main.at \in {"read", "lock", "check", "clear", "write"} =>
             paused /\ emu \in {"waiting", "woken"}
       /\ Main.at = "write" => ~frameStepRequested
       /\ Main.at \in {"wake", "unlock", "audio"} =>
             /\ ~paused /\ ~frameStepRequested
             /\ emu \in {"waiting", "woken"} \/ (emu \in {"top", "frame"} /\ ~stepping)

\* During a rewind the session goes on, and no other call is under way.
LEMMA RewindFacts ==
    ASSUME IInv, ~Crossing, Main.call = "rewind"
    PROVE  /\ ~stop /\ ~destroyed /\ started /\ Main.at # "idle" /\ OnRoute(Main)
           /\ \A t \in Threads \ {"main"} : thread[t].call = "none" /\ thread[t].at = "idle"
<1>1. Callers /\ Sessions /\ OnRoute(Main) /\ "main" \in Threads
  BY ThreadFacts DEF IInv, Callers, Shape, Main
<1>2. ASSUME NEW t \in Threads \ {"main"} PROVE thread[t].call = "none" /\ thread[t].at = "idle"
  <2>1. thread[t].call \in {"none", "pause", "start"}
    BY <1>1, CalmFacts DEF Main
  <2>2. thread[t].call # "start"
    BY <1>1, CallOwners DEF Sessions, Io
  <2>3. OnRoute(thread[t])
    BY <1>1 DEF Callers, Shape
  <2> QED BY <1>1, <2>1, <2>2, <2>3, CallOwners DEF OnRoute
<1> QED BY <1>1, <1>2 DEF Sessions, OnRoute

LEMMA ResumingCallStep ==
    ASSUME IInv, ~Crossing, Undisturbed("main"), Resuming, CallStep("main") PROVE Resuming'
<1>1. /\ Callers /\ Callers' /\ "main" \in Threads /\ OnRoute(Main) /\ Main = thread["main"]
      /\ Main' = thread'["main"]
  BY RouteKept, ThreadFacts DEF IInv, Callers, Shape, Main
<1> SUFFICES ASSUME Main'.call = "rewind", Main'.helper = "resume" PROVE Resuming'
  BY DEF Resuming
<1> DEFINE t == "main"
<1>2. CASE LeaveCore(t)
  <2>1. Main.at = "core" /\ Main.call = "rewind" /\ Main'.at = "read"
    BY <1>1, <1>2, CallMoves DEF Moves, To, Ends
  <2>2. paused /\ emu \in {"waiting", "woken"}
    BY <1>1, <2>1 DEF Undisturbed
  <2> QED BY <1>2, <2>1, <2>2 DEF LeaveCore, Resuming, flags
<1>3. CASE ~LeaveCore(t)
  <2>1. Main.call = "rewind" /\ Main.helper = "resume" /\ ~stop
    <3>1. Main.call = "rewind" /\ Main.helper = "resume"
      BY <1>1, <1>3, CallMoves DEF CallStep, Moves, To, Stays, Ends
    <3> QED BY <3>1, RewindFacts
  <2> HIDE DEF t
  <2> USE <1>1, <2>1, CallMoves DEF Resuming, Moves, To, Stays, Ends
  <2>2. CASE ReadStarted(t) \/ HelperLocks(t) \/ HelperTests(t) \/ HelperUnlocks(t)
    <3>1. UNCHANGED <<paused, frameStepRequested, emu, stepping>>
      BY <2>2 DEF ReadStarted, HelperLocks, HelperTests, HelperUnlocks, flags
    <3> QED BY <2>2, <3>1 DEF t
  <2>3. CASE HelperClears(t)
    BY <2>3 DEF HelperClears, t
  <2>4. CASE HelperWrites(t)
    <3>1. ~paused' /\ UNCHANGED <<frameStepRequested, emu>>
      BY <1>1, <2>1, <2>4 DEF HelperWrites, t
    <3> QED BY <2>4, <3>1 DEF t
  <2>5. CASE HelperWakes(t)
    <3>1. UNCHANGED <<paused, frameStepRequested, stepping>> /\ (emu' = emu \/ Broadcast)
      BY <2>5 DEF HelperWakes, flags
    <3> QED BY <2>5, <3>1 DEF Broadcast, t
  <2>6. CASE HelperReturns(t)
    BY <2>6 DEF t
  <2>7. CASE EnterCore(t) \/ EnterStep(t) \/ Await(t) \/ ReleaseStep(t) \/ StartFlags(t)
             \/ CreateThread(t) \/ PublishStarted(t) \/ RequestStop(t) \/ Join(t) \/ Cleanup(t)
    <3>1. Main'.at \notin {"read", "lock", "check", "clear", "write", "wake", "unlock", "audio"}
      BY <2>7 DEF t, OnRoute
    <3> QED BY <3>1
  <2> QED BY <1>3, <2>2, <2>3, <2>4, <2>5, <2>6, <2>7 DEF CallStep, t
<1> QED BY <1>2, <1>3

LEMMA ResumingByEmulator ==
    ASSUME Resuming, Main.call = "rewind" => ~stop, EmuStep \/ EmuWakesSpuriously PROVE Resuming'
<1> SUFFICES ASSUME Main.call = "rewind", Main.helper = "resume", ~stop PROVE Resuming'
  <2>1. Main' = Main
    BY DEF EmuStep, EmuWakesSpuriously, EmuStarts, EmuLooks, EmuLooksAgain, EmuEndsFrame,
           EmuPausesAfterStep, EmuMutesAfterStep, EmuStops, Main
  <2> QED BY <2>1 DEF Resuming
<1>1. Main' = Main /\ (paused' = paused \/ EmuPausesAfterStep)
  BY DEF EmuStep, EmuWakesSpuriously, EmuStarts, EmuLooks, EmuLooksAgain, EmuEndsFrame,
         EmuPausesAfterStep, EmuMutesAfterStep, EmuStops, Main, flags
<1>2. CASE Main.at \in {"read", "lock", "check", "clear", "write"}
  <2>1. paused /\ emu \in {"waiting", "woken"}
    BY <1>2 DEF Resuming
  <2>2. emu' \in {"waiting", "woken"} /\ UNCHANGED <<paused, frameStepRequested>>
    BY <2>1 DEF EmuStep, EmuWakesSpuriously, EmuStarts, EmuLooks, EmuLooksAgain, EmuEndsFrame,
           EmuPausesAfterStep, EmuMutesAfterStep, EmuStops, flags
  <2> QED BY <1>1, <1>2, <2>1, <2>2 DEF Resuming
<1>3. CASE Main.at \in {"wake", "unlock", "audio"}
  <2>1. /\ ~paused /\ ~frameStepRequested
        /\ emu \in {"waiting", "woken"} \/ (emu \in {"top", "frame"} /\ ~stepping)
    BY <1>3 DEF Resuming
  <2>2. /\ paused' = paused /\ ~frameStepRequested'
        /\ emu' \in {"waiting", "woken"} \/ (emu' \in {"top", "frame"} /\ ~stepping')
    BY <2>1 DEF EmuStep, EmuWakesSpuriously, EmuStarts, EmuLooks, EmuLooksAgain, Proceed,
           EmuEndsFrame, EmuPausesAfterStep, EmuMutesAfterStep, EmuStops, flags
  <2> QED BY <1>1, <1>3, <2>1, <2>2 DEF Resuming
<1>4. CASE Main.at \notin {"read", "lock", "check", "clear", "write", "wake", "unlock", "audio"}
  BY <1>1, <1>4 DEF Resuming
<1> QED BY <1>2, <1>3, <1>4

RewindInv == ~crossed => Resuming

LEMMA SpecRewindInv == Spec => []RewindInv
<1>1. Init => RewindInv
  <2>1. ASSUME Init PROVE Main.call = "none"
    <3>1. \A t \in Threads : thread[t] = Idle
      BY <2>1 DEF Init
    <3> QED BY <3>1, ThreadFacts DEF Main, Idle
  <2> QED BY <2>1 DEF RewindInv, Resuming
<1>2. IInv /\ CalmInv /\ RewindInv /\ [Next /\ Remember]_<<vars, history>> => RewindInv'
  <2> SUFFICES ASSUME IInv, CalmInv, RewindInv, [Next /\ Remember]_<<vars, history>>
               PROVE  RewindInv'
    OBVIOUS
  <2>1. CASE UNCHANGED <<vars, history>>
    BY <2>1 DEF vars, history, RewindInv, Resuming, Main
  <2>2. CASE Next /\ Remember
    <3>1. (~crossed' => ~crossed)
      BY <2>2 DEF Remember
    <3> SUFFICES ASSUME ~crossed PROVE Resuming'
      BY <3>1 DEF RewindInv
    <3>2. ~Crossing /\ Undisturbed("main") /\ Resuming /\ Callers
      BY ThreadFacts DEF CalmInv, RewindInv, IInv
    <3>3. ASSUME NEW t \in Threads \ {"main"}, CallStep(t) \/ LockDestroyed(t) PROVE Resuming'
      <4>1. CASE Main.call = "rewind"
        <5>1. thread[t].at = "idle"
          BY <3>2, <4>1, RewindFacts
        <5>2. ~LockDestroyed(t)
          BY <5>1 DEF LockDestroyed, At
        <5> QED BY <3>2, <3>3, <5>1, <5>2, CallMoves DEF CallStep
      <4>2. CASE Main.call # "rewind"
        <5>1. Main' = Main
          BY <3>2, <3>3, OthersStay, ThreadFacts DEF Main
        <5> QED BY <4>2, <5>1 DEF Resuming
      <4> QED BY <4>1, <4>2
    <3>4. ASSUME LockDestroyed("main") PROVE Resuming'
      <4>1. Main'.call = "none"
        BY <3>2, <3>4, CallMoves, ThreadFacts DEF Moves, Ends, Main
      <4> QED BY <4>1 DEF Resuming
    <3>5. ASSUME NEW t \in Threads, NEW call \in Calls[t], Begin(t, call) PROVE Resuming'
      <4>1. Main.at = "idle" /\ OnRoute(Main)
        BY <3>2, <3>5, BeginMoves, ThreadFacts DEF Callers, Shape, Main
      <4>2. CASE t = "main"
        <5>1. Main'.call = "rewind" => Main'.helper = "none"
          BY <3>2, <3>5, <4>2, BeginMoves DEF Moves, Main
        <5> QED BY <5>1 DEF Resuming
      <4>3. CASE t # "main"
        <5>1. Main' = Main
          BY <3>2, <3>5, <4>3, BeginMoves, ThreadFacts DEF Moves, Main
        <5> QED BY <4>1, <5>1 DEF Resuming, OnRoute
      <4> QED BY <4>2, <4>3
    <3>6. ASSUME CallStep("main") PROVE Resuming'
      BY <3>2, <3>6, ResumingCallStep
    <3>7. ASSUME EmuStep \/ EmuWakesSpuriously PROVE Resuming'
      BY <3>2, <3>7, ResumingByEmulator, RewindFacts
    <3> QED BY <2>2, <3>3, <3>4, <3>5, <3>6, <3>7 DEF Next
  <2> QED BY <2>1, <2>2
<1> QED BY <1>1, <1>2, SpecIInv, SpecCalmInv, PTL DEF Spec

\* A rewind that returns has found the emulator paused, or has resumed it.
LEMMA RewindEnds ==
    ASSUME IInv, ~Crossing, Undisturbed("main"), Resuming, CallStep("main"),
           Main.call = "rewind", Main'.at = "idle"
    PROVE  paused = Main.wasPaused
<1>1. /\ Callers /\ "main" \in Threads /\ Main = thread["main"] /\ Main' = thread'["main"]
      /\ paused \in BOOLEAN /\ Main.wasPaused \in BOOLEAN /\ Main.helper \in Helpers
  BY ThreadFacts DEF IInv, Callers, Locals, Main
<1>2. ~stop /\ started /\ OnRoute(Main)
  BY RewindFacts
<1>3. HelperReturns("main") \/ LeaveCore("main")
  BY <1>1, <1>2, CallMoves DEF CallStep, Moves, To, Stays, Ends, OnRoute
<1>4. CASE HelperReturns("main")
  <2>1. Main.at = "audio" /\ Main.helper = "resume"
    BY <1>1, <1>2, <1>4, CallMoves DEF Moves, To, Stays, Helpers, OnRoute, Helped
  <2> QED BY <1>1, <1>2, <2>1 DEF Resuming, OnRoute
<1>5. CASE LeaveCore("main")
  <2>1. Main.at = "core" /\ Main.wasPaused
    BY <1>1, <1>5, CallMoves DEF Moves, To
  <2> QED BY <1>1, <2>1 DEF Undisturbed
<1> QED BY <1>3, <1>4, <1>5

\* A rewind gives the emulator back as it found it, also after a step or a reset: until
\* calls cross, only the UI thread changes the paused flag while it is in a rewind, and it
\* ends none without the resume that its pause needs.
THEOREM SpecRewindRestoresPause == Spec => RewindRestoresPause
<1> DEFINE Restores == \A t \in Threads : ~crossed' /\ In(t, "rewind") /\ At(t, "idle")'
                                          => paused = thread[t].wasPaused
<1>1. IInv /\ CalmInv /\ RewindInv /\ [Next /\ Remember]_<<vars, history>> => [Restores]_vars
  <2> SUFFICES ASSUME IInv, CalmInv, RewindInv, Next, Remember, NEW t \in Threads, ~crossed',
                      In(t, "rewind"), At(t, "idle")'
               PROVE  paused = thread[t].wasPaused
    BY DEF vars, history
  <2>1. ~Crossing /\ Undisturbed("main") /\ Resuming /\ Callers
    BY ThreadFacts DEF Remember, CalmInv, RewindInv, IInv
  <2>2. t = "main" /\ Main = thread[t] /\ Main.call = "rewind" /\ Main'.at = "idle"
    BY <2>1, CallOwners DEF In, At, Main
  <2>3. /\ Main.at # "idle" /\ ~destroyed
        /\ \A s \in Threads \ {"main"} : thread[s].at = "idle"
    BY <2>1, <2>2, RewindFacts
  <2>4. ASSUME NEW s \in Threads, CallStep(s) PROVE s = "main"
    BY <2>1, <2>3, <2>4, CallMoves DEF CallStep
  <2>5. ASSUME NEW s \in Threads, LockDestroyed(s) PROVE FALSE
    BY <2>3, <2>5 DEF LockDestroyed
  <2>6. ASSUME NEW s \in Threads, NEW call, Begin(s, call) PROVE FALSE
    BY <2>3, <2>6 DEF Begin, At, Main
  <2>7. Main' # Main
    BY <2>2, <2>3
  <2>8. ~(EmuStep \/ EmuWakesSpuriously)
    BY <2>7 DEF EmuStep, EmuWakesSpuriously, EmuStarts, EmuLooks, EmuLooksAgain, EmuEndsFrame,
         EmuPausesAfterStep, EmuMutesAfterStep, EmuStops, Main
  <2> QED BY <2>1, <2>2, <2>4, <2>5, <2>6, <2>8, RewindEnds DEF Next
<1> QED BY <1>1, SpecIInv, SpecCalmInv, SpecRewindInv, PTL DEF Spec, RewindRestoresPause

-----------------------------------------------------------------------------
(* Playing with the calls of the UI thread only: what is heard.            *)

\* No worker has a call, and no frame is stepped.
NoWork == \A w \in Workers : thread[w].call = "none"
NoStep == ~frameStepRequested /\ ~stepping /\ emu \notin {"pausing", "muting"}

\* The sound follows the paused flag, but for the helper that has changed one and not yet
\* the other; a session starts paused.
Heard ==
    /\ Io.at \in {"create", "publish"} => paused
    /\ Main.at \in {"unlock", "audio"} /\ Main.helper = "pause" => paused \/ stop
    /\ started /\ ~paused /\ emu # "starting" =>
          audio \/ (Main.at \in {"wake", "unlock", "audio"} /\ Main.helper = "resume")

UiInv == NoWork /\ NoStep /\ Heard

\* A step of the UI thread: a resume, and a rewind, have a session and no stop.
LEMMA UiMainStep ==
    ASSUME IInv, UiInv, CallStep("main") PROVE UiInv'
<1>1. /\ Callers /\ Sessions /\ "main" \in Threads /\ OnRoute(Main) /\ Main = thread["main"]
      /\ Main' = thread'["main"] /\ Main.helper \in Helpers
  BY ThreadFacts DEF IInv, Callers, Shape, Locals, Main
<1>2. Main.call \in {"none", "pause", "resume", "rewind", "stop"}
  BY <1>1, CallOwners DEF Main
<1>3. Main.helper = "resume" => started /\ ~stop /\ Io.at \notin {"create", "publish"}
  <2>1. OnRoute(Io)
    BY ThreadFacts DEF IInv, Callers, Shape, Io
  <2> QED BY <1>1, <1>2, <2>1 DEF OnRoute, Sessions
<1>4. NoWork' /\ Io' = Io
  <2>1. \A t \in Threads \ {"main"} : thread'[t] = thread[t]
    BY <1>1, OthersStay
  <2>2. \A w \in Workers : w \in Threads \ {"main"}
    BY ThreadFacts DEF Threads
  <2> QED BY <2>1, <2>2, ThreadFacts DEF UiInv, NoWork, Io
<1>5. NoStep /\ Heard
  BY DEF UiInv
<1> SUFFICES NoStep' /\ Heard'
  BY <1>4 DEF UiInv
<1> DEFINE t == "main"
<1>6. \A place, helper : Stays(t, place) => Main'.at = place /\ Main'.helper = Main.helper
  BY <1>1 DEF Stays, To, Moves
<1>7. Ends(t) => Main'.at = "idle" /\ Main'.helper = "none"
  BY <1>1 DEF Ends, Moves
<1> HIDE DEF t
<1> USE DEF NoStep, Heard, flags, mutexState
<1>8. CASE HelperTests(t)
  <2>1. /\ Main.at = "check" /\ Main'.helper = Main.helper
        /\ Main'.at = IF stop THEN "unlock" ELSE "clear"
    BY <1>1, <1>6, <1>8, CallMoves DEF t
  <2>2. UNCHANGED <<started, stop, paused, frameStepRequested, emu, stepping, audio>>
    BY <1>8 DEF HelperTests
  <2> QED BY <1>4, <1>5, <2>1, <2>2
<1>9. CASE HelperClears(t)
  <2>1. Main.at = "clear" /\ Main'.at = "write"
    BY <1>1, <1>6, <1>9, CallMoves DEF t
  <2>2. UNCHANGED <<started, stop, paused, emu, stepping, audio>> /\ ~frameStepRequested'
    BY <1>9 DEF HelperClears
  <2> QED BY <1>4, <1>5, <2>1, <2>2
<1>10. CASE HelperWrites(t)
  <2>1. /\ Main.at = "write" /\ Main'.helper = Main.helper
        /\ Main'.at = IF Main.helper = "pause" THEN "unlock" ELSE "wake"
    BY <1>1, <1>6, <1>10, CallMoves DEF t
  <2>2. /\ UNCHANGED <<started, stop, frameStepRequested, emu, stepping, audio>>
        /\ paused' <=> Main.helper = "pause"
    BY <1>1, <1>10 DEF HelperWrites, t
  <2>3. Main.helper \in {"pause", "resume"}
    BY <1>1, <2>1 DEF OnRoute, Helped, Section, Helpers
  <2> QED BY <1>3, <1>4, <1>5, <2>1, <2>2, <2>3
<1>11. CASE HelperWakes(t)
  <2>1. Main.at = "wake" /\ Main'.at = "unlock" /\ Main'.helper = Main.helper /\ Main.helper = "resume"
    BY <1>1, <1>6, <1>11, CallMoves DEF t, OnRoute
  <2>2. /\ UNCHANGED <<started, stop, paused, frameStepRequested, stepping, audio>>
        /\ emu' = emu \/ (emu = "waiting" /\ emu' = "woken")
    BY <1>11 DEF HelperWakes, Broadcast
  <2> QED BY <1>4, <1>5, <2>1, <2>2
<1>12. CASE HelperUnlocks(t)
  <2>1. Main.at = "unlock" /\ Main'.at = "audio" /\ Main'.helper = Main.helper
    BY <1>1, <1>6, <1>12, CallMoves DEF t
  <2>2. UNCHANGED <<started, stop, paused, frameStepRequested, emu, stepping, audio>>
    BY <1>12 DEF HelperUnlocks
  <2> QED BY <1>4, <1>5, <2>1, <2>2
<1>13. CASE HelperReturns(t)
  <2>1. Main.at = "audio" /\ Main'.at \in {"await", "idle"} /\ Main.helper \in {"pause", "resume"}
    BY <1>1, <1>6, <1>7, <1>13, CallMoves DEF t, OnRoute, Helped, Helpers
  <2>2. /\ UNCHANGED <<started, stop, paused, frameStepRequested, emu, stepping>>
        /\ Main.helper = "resume" => audio'
    BY <1>1, <1>13 DEF HelperReturns, t
  <2> QED BY <1>1, <1>4, <1>5, <2>1, <2>2 DEF Sessions
<1>14. CASE EnterStep(t) \/ ReleaseStep(t) \/ StartFlags(t) \/ CreateThread(t) \/ PublishStarted(t)
  BY <1>1, <1>2, <1>14, CallMoves DEF t, OnRoute
<1>15. CASE ReadStarted(t) \/ HelperLocks(t) \/ EnterCore(t) \/ Await(t) \/ LeaveCore(t)
  <2>1. Main.at \notin {"wake", "unlock", "audio"} /\ Main'.at \notin {"wake", "unlock", "audio"}
    BY <1>1, <1>15, CallMoves DEF t, Moves, To, Stays, Ends
  <2>2. UNCHANGED <<started, stop, paused, frameStepRequested, emu, stepping, audio>>
    BY <1>15 DEF ReadStarted, HelperLocks, EnterCore, Await, LeaveCore
  <2> QED BY <1>4, <1>5, <2>1, <2>2
<1>16. CASE RequestStop(t)
  <2>1. Main'.at = "join"
    BY <1>1, <1>6, <1>16, CallMoves DEF t
  <2>2. Io.at \notin {"create", "publish"}
    <3>1. OnRoute(Io)
      BY ThreadFacts DEF IInv, Callers, Shape, Io
    <3> QED BY <1>1, <1>16, <3>1, CallMoves DEF t, OnRoute, Sessions
  <2>3. ~started' /\ ~frameStepRequested' /\ UNCHANGED stepping
        /\ (emu' = emu \/ (emu = "waiting" /\ emu' = "woken"))
    BY <1>16 DEF RequestStop, Broadcast
  <2> QED BY <1>4, <1>5, <2>1, <2>2, <2>3
<1>17. CASE Join(t) \/ Cleanup(t)
  <2>1. Main.at \in {"join", "cleanup"} /\ Main'.at \in {"cleanup", "idle"}
    BY <1>1, <1>6, <1>7, <1>17, CallMoves DEF t
  <2>2. UNCHANGED <<started, stop, paused, frameStepRequested, emu, stepping>>
    BY <1>17 DEF Join, Cleanup
  <2> QED BY <1>1, <1>4, <1>5, <2>1, <2>2 DEF Sessions
<1> QED BY <1>8, <1>9, <1>10, <1>11, <1>12, <1>13, <1>14, <1>15, <1>16, <1>17 DEF CallStep, t

\* A start finds no session, so not the sound of one.
LEMMA UiStartStep ==
    ASSUME IInv, UiInv, CallStep("io") PROVE UiInv'
<1>1. Callers /\ Sessions /\ OnRoute(Io) /\ "io" \in Threads /\ Io = thread["io"] /\ Io' = thread'["io"]
  BY ThreadFacts DEF IInv, Callers, Shape, Io
<1>2. Io.call \in {"none", "start"}
  BY <1>1, CallOwners DEF Io
<1>3. StartFlags("io") \/ CreateThread("io") \/ PublishStarted("io")
  BY <1>1, <1>2, CallMoves DEF CallStep, OnRoute
<1>4. NoWork' /\ Main' = Main
  <2>1. \A t \in Threads \ {"io"} : thread'[t] = thread[t]
    BY <1>1, OthersStay
  <2>2. \A w \in Workers : w \in Threads \ {"io"}
    BY ThreadFacts DEF Threads
  <2> QED BY <2>1, <2>2, ThreadFacts DEF UiInv, NoWork, Main
<1>5. /\ StartFlags("io") => Io.at = "flags" /\ Io'.at = "create"
      /\ CreateThread("io") => Io.at = "create" /\ Io'.at = "publish"
      /\ PublishStarted("io") => Io.at = "publish" /\ Io'.at = "idle"
  BY <1>1, CallMoves DEF Stays, To, Ends, Moves
<1>6. Io.at \in {"flags", "create", "publish"} => ~started
  BY <1>1 DEF Sessions, OnRoute
<1> USE <1>4, <1>5, <1>6 DEF UiInv, NoStep, Heard, flags
<1>7. CASE StartFlags("io")
  BY <1>7 DEF StartFlags
<1>8. CASE CreateThread("io")
  BY <1>8 DEF CreateThread
<1>9. CASE PublishStarted("io")
  BY <1>9 DEF PublishStarted
<1> QED BY <1>3, <1>7, <1>8, <1>9

\* The emulator thread starts the sound as it starts, and stops it only after a step.
LEMMA UiEmulatorStep ==
    ASSUME UiInv, EmuStep \/ EmuWakesSpuriously PROVE UiInv'
<1>1. UNCHANGED <<thread, started, stop>>
  BY DEF EmuStep, EmuWakesSpuriously, EmuStarts, EmuLooks, EmuLooksAgain, EmuEndsFrame,
         EmuPausesAfterStep, EmuMutesAfterStep, EmuStops, flags
<1>2. Main' = Main /\ Io' = Io /\ NoWork'
  BY <1>1 DEF Main, Io, UiInv, NoWork
<1>3. paused' = paused /\ NoStep'
  BY DEF UiInv, NoStep, EmuStep, EmuWakesSpuriously, EmuStarts, EmuLooks, EmuLooksAgain,
         EmuEndsFrame, EmuPausesAfterStep, EmuMutesAfterStep, EmuStops, Proceed, flags
<1>4. IF emu = "starting" THEN audio' = TRUE ELSE audio' = audio
  BY DEF UiInv, NoStep, EmuStep, EmuWakesSpuriously, EmuStarts, EmuLooks, EmuLooksAgain,
         EmuEndsFrame, EmuPausesAfterStep, EmuMutesAfterStep, EmuStops
<1> QED BY <1>1, <1>2, <1>3, <1>4 DEF UiInv, Heard

\* The other calls do not begin, and a call that has outlived its session is not heard.
LEMMA UiBeginStep ==
    ASSUME IInv, UiInv, load = UiLoad, NEW t \in Threads,
           LockDestroyed(t) \/ \E call \in Calls[t] : Begin(t, call)
    PROVE  UiInv'
<1>1. Callers /\ Sessions /\ OnRoute(Main) /\ OnRoute(thread[t])
  BY ThreadFacts DEF IInv, Callers, Shape, Main
<1>2. /\ UNCHANGED <<started, stop, paused, frameStepRequested, emu, stepping, audio>>
      /\ \A s \in Threads \ {t} : thread'[s] = thread[s]
      /\ thread'[t].at \in {"idle", "read", "flags", "core"}
  BY <1>1, CallMoves, BeginMoves DEF LockDestroyed, flags, Moves, Ends
<1>3. t \notin Workers
  <2>1. ASSUME t \in Workers, LockDestroyed(t) PROVE FALSE
    BY <1>1, <2>1 DEF UiInv, NoWork, OnRoute, LockDestroyed, At
  <2>2. ASSUME t \in Workers, NEW call \in Calls[t], Begin(t, call) PROVE FALSE
    <3>1. call \in load[t]
      BY <2>2, <1>1, BeginMoves
    <3> QED BY <2>2, <3>1 DEF UiLoad
  <2> QED BY <2>1, <2>2
<1>4. NoWork'
  <2>1. \A w \in Workers : w \in Threads \ {t}
    BY <1>3 DEF Threads
  <2> QED BY <1>2, <2>1 DEF UiInv, NoWork
<1>5. CASE t = "main"
  <2>1. Main'.at \in {"idle", "read", "flags", "core"} /\ Io' = Io
    BY <1>2, <1>5, ThreadFacts DEF Main, Io
  <2>2. LockDestroyed("main") \/ Main.at = "idle"
    BY <1>1, <1>5, BeginMoves
  <2>3. LockDestroyed("main") => ~started
    BY <1>1 DEF LockDestroyed, Sessions
  <2> QED BY <1>2, <1>4, <2>1, <2>2, <2>3 DEF UiInv, NoStep, Heard
<1>6. CASE t = "io"
  <2>1. Io'.at \in {"idle", "read", "flags", "core"} /\ Main' = Main
    BY <1>2, <1>6, ThreadFacts DEF Main, Io
  <2> QED BY <1>2, <1>4, <2>1 DEF UiInv, NoStep, Heard
<1> QED BY <1>3, <1>5, <1>6 DEF Threads

Playing == load = UiLoad => UiInv

LEMMA SpecPlaying == Spec => []Playing
<1>1. Init => Playing
  <2>1. ASSUME Init PROVE Main = Idle /\ Io = Idle /\ \A w \in Workers : thread[w] = Idle
    <3>1. \A t \in Threads : thread[t] = Idle
      BY <2>1 DEF Init
    <3> QED BY <3>1, ThreadFacts DEF Main, Io, Threads
  <2>2. Idle.at = "idle" /\ Idle.call = "none"
    BY DEF Idle
  <2> QED BY <2>1, <2>2 DEF Init, Playing, UiInv, NoWork, NoStep, Heard
<1>2. IInv /\ Playing /\ [Next /\ Remember]_<<vars, history>> => Playing'
  <2> SUFFICES ASSUME IInv, Playing, [Next /\ Remember]_<<vars, history>>, (load = UiLoad)'
               PROVE  UiInv'
    BY DEF Playing
  <2>1. load' = load /\ [Next]_vars
    BY DEF vars, history, Remember
  <2>2. load = UiLoad /\ UiInv
    BY <2>1 DEF UiLoad, Calls, Threads, Playing
  <2>3. CASE UNCHANGED vars
    BY <2>2, <2>3 DEF vars, UiInv, NoWork, NoStep, Heard, Main, Io
  <2>4. ASSUME NEW t \in Workers, CallStep(t) PROVE UiInv'
    <3>1. thread[t].at = "idle" /\ Callers /\ t \in Threads
      BY <2>2 DEF IInv, Callers, Shape, OnRoute, UiInv, NoWork, Threads
    <3> QED BY <2>4, <3>1, CallMoves DEF CallStep
  <2> QED BY <2>1, <2>2, <2>3, <2>4, UiMainStep, UiStartStep, UiEmulatorStep, UiBeginStep,
             ThreadFacts DEF Next
<1> QED BY <1>1, <1>2, SpecIInv, PTL DEF Spec

\* An emulator that runs, with no call under way, is heard: the helper that changes the
\* paused flag and then the sound is the only one, and the emulator thread touches the
\* sound only before its first frame.
THEOREM SpecRunningIsAudible == Spec => []RunningIsAudible
<1>1. Playing => RunningIsAudible
  BY ThreadFacts DEF Playing, RunningIsAudible, UiInv, Heard, At, Main
<1> QED BY <1>1, SpecPlaying, PTL
=============================================================================
