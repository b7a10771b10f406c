------------------------- MODULE AppLifecycleProofs -------------------------
(***************************************************************************)
(* An interrupted server does not cut off a pass of the App that was       *)
(* interrupted, however many times the retry policy has started one.       *)
(*                                                                         *)
(* GracefulStop is not inductive: that no pass can begin between the       *)
(* return of wg.Wait and the end of the process rests on where the         *)
(* goroutines are when the wait group lets the main goroutine go, and on   *)
(* the ticker of one that joins after that.                                *)
(***************************************************************************)
EXTENDS AppLifecycle, TLAPS

(* The current App has been made; once App.Start waits for it, both of its *)
(* goroutines have been started.                                           *)
Spawned ==
  /\ main \in {"start", "spawn", "select", "stopped"} \union Waiting =>
       app \in Apps
  /\ main \in {"select", "stopped"} \union Waiting =>
       http[app] # "none" /\ indexer[app] # "none"

(* Apps that are still to be started have no service, and one that listens *)
(* has a service that has not begun to shut down.                          *)
Listening ==
  \A a \in Apps :
    /\ a > app \/ (a = app /\ main \in {"start", "spawn"}) => http[a] = "none"
    /\ listener[a] = "listening" => http[a] = "serving"

(* wg.Wait has let the main goroutine go. *)
LetGo == {"woken", "return", "stopped"}

(* Whoever counts in the wait group when App.Start begins to wait is done  *)
(* when it is let go; an indexer that gets to run after that is at most    *)
(* waiting for a ticker it has just made.                                  *)
Settled ==
  /\ main \in Waiting \union {"stopped"} =>
       (served => http[app] \in {"serving", "shutdown", "done"})
  /\ main \in LetGo =>
       /\ served => http[app] = "done"
       /\ \/ indexer[app] \in {"begun", "done"}
          \/ indexer[app] = "waiting" /\ fresh[app]

StopInv == TypeOK /\ Spawned /\ Listening /\ Settled

(* The steps of the goroutines of app a, and those of nobody in particular. *)
Goroutine(a) ==
  \/ Service(a)      \/ ListenerFails(a) \/ StartIndexer(a)
  \/ IndexPass(a)    \/ EndPass(a)       \/ PassPanics(a)
  \/ StopIndexer(a)

LEMMA InitStop == Init => StopInv
<1> SUFFICES ASSUME Init PROVE StopInv
  OBVIOUS
<1>1. TypeOK
  <2>1. served \in BOOLEAN
    BY DEF Init
  <2> QED
    BY <2>1, LifecycleAssumption DEF Init, TypeOK, Ends
<1>2. Spawned /\ Listening /\ Settled
  BY DEF Init, Spawned, Listening, Settled, LetGo, Waiting
<1> QED
  BY <1>1, <1>2 DEF StopInv

LEMMA NextSorts ==
  ASSUME [Next]_vars
  PROVE  \/ Command \/ Interrupt
         \/ \E a \in Apps : Goroutine(a)
         \/ PortReleased \/ DelayPasses \/ UNCHANGED vars
BY DEF Next, Goroutine

-----------------------------------------------------------------------------
(* The types are kept by every step. *)
LEMMA NextTypes == TypeOK /\ Spawned /\ [Next]_vars => TypeOK'
<1> SUFFICES ASSUME TypeOK, Spawned, [Next]_vars PROVE TypeOK'
  OBVIOUS
<1> USE DEF TypeOK, clock
<1>1. CASE UNCHANGED vars
  BY <1>1 DEF vars
<1>2. CASE Command
  <2>1. CASE Retry \/ GiveUp
    BY <2>1, LifecycleAssumption DEF Retry, GiveUp, Ends
  <2>2. CASE StartDB \/ StartDBFails
    BY <2>2 DEF StartDB, StartDBFails
  <2>3. CASE Spawn \/ ReceiveError
    BY <2>3 DEF Spawn, ReceiveError
  <2>4. CASE WaitReturns \/ WaitBlocks \/ Wake \/ WaitPanics \/ Exit
    BY <2>4 DEF WaitReturns, WaitBlocks, Wake, WaitPanics, Exit, Proceed,
                Waiting, Ends
  <2> QED
    BY <1>2, <2>1, <2>2, <2>3, <2>4 DEF Command
<1>3. CASE Interrupt
  BY <1>3 DEF Interrupt, Waiting, Ends
<1>4. CASE PortReleased \/ DelayPasses
  BY <1>4 DEF PortReleased, DelayPasses
<1>5. ASSUME NEW a \in Apps, Goroutine(a)
      PROVE  TypeOK'
  <2>1. CASE StartHTTP(a) \/ Listen(a) \/ Shutdown(a) \/ ListenerFails(a)
    BY <2>1 DEF StartHTTP, Listen, Shutdown, ListenerFails
  <2>2. CASE StopHTTP(a) \/ StopIndexer(a)
    BY <2>2 DEF StopHTTP, StopIndexer, Done, Waiting
  <2>3. CASE StartIndexer(a) \/ IndexPass(a) \/ EndPass(a)
    BY <2>3 DEF StartIndexer, IndexPass, EndPass
  <2>4. CASE PassPanics(a)
    BY <2>4 DEF PassPanics, Ends
  <2> QED
    BY <1>5, <2>1, <2>2, <2>3, <2>4 DEF Goroutine, Service
<1> QED
  BY <1>1, <1>2, <1>3, <1>4, <1>5, NextSorts

-----------------------------------------------------------------------------
(* What a step of a goroutine of app a does to the others. *)
LEMMA GoroutineFrame ==
  ASSUME TypeOK, NEW a \in Apps, Goroutine(a)
  PROVE  /\ Running
         /\ UNCHANGED <<app, served, quit>>
         /\ \A b \in Apps : /\ http[b] # "none" => http'[b] # "none"
                            /\ http[b] = "none" => http'[b] = "none"
                            /\ indexer[b] # "none" => indexer'[b] # "none"
         /\ \/ main' = main
            \/ main' = "crashed"
            \/ /\ main = "blocked" /\ main' = "woken"
               /\ WaitGroup(app)' = 0
<1> USE DEF TypeOK, clock
<1>1. CASE StartHTTP(a) \/ Listen(a) \/ Shutdown(a) \/ ListenerFails(a)
  BY <1>1 DEF StartHTTP, Listen, Shutdown, ListenerFails
<1>2. CASE StopHTTP(a) \/ StopIndexer(a)
  <2>1. main' = main \/ (/\ main = "blocked" /\ main' = "woken"
                         /\ WaitGroup(app)' = 0)
    <3>1. Done(a) /\ app' = app
      BY <1>2 DEF StopHTTP, StopIndexer
    <3>2. CASE main = "blocked" /\ a = app /\ WaitGroup(a)' = 0
      <4>1. WaitGroup(app)' = 0
        BY <3>1, <3>2 DEF WaitGroup
      <4> QED
        BY <3>1, <3>2, <4>1 DEF Done
    <3>3. CASE ~(main = "blocked" /\ a = app /\ WaitGroup(a)' = 0)
      BY <3>1, <3>3 DEF Done
    <3> QED
      BY <3>2, <3>3
  <2> QED
    BY <1>2, <2>1 DEF StopHTTP, StopIndexer
<1>3. CASE StartIndexer(a) \/ IndexPass(a) \/ EndPass(a)
  BY <1>3 DEF StartIndexer, IndexPass, EndPass
<1>4. CASE PassPanics(a)
  BY <1>4 DEF PassPanics
<1> QED
  BY <1>1, <1>2, <1>3, <1>4 DEF Goroutine, Service

LEMMA NextSpawned == TypeOK /\ Spawned /\ [Next]_vars => Spawned'
<1> SUFFICES ASSUME TypeOK, Spawned, [Next]_vars PROVE Spawned'
  OBVIOUS
<1> USE DEF Spawned, Waiting
<1>1. CASE UNCHANGED vars
  BY <1>1 DEF vars
<1>2. CASE Command
  <2>1. CASE Retry
    BY <2>1, LifecycleAssumption DEF Retry, TypeOK, Apps
  <2>2. CASE GiveUp \/ StartDB \/ StartDBFails
    BY <2>2 DEF GiveUp, StartDB, StartDBFails
  <2>3. CASE Spawn
    BY <2>3 DEF Spawn, TypeOK
  <2>4. CASE ReceiveError
    BY <2>4 DEF ReceiveError
  <2>5. CASE WaitReturns \/ WaitBlocks \/ Wake \/ WaitPanics \/ Exit
    BY <2>5 DEF WaitReturns, WaitBlocks, Wake, WaitPanics, Exit, Proceed
  <2> QED
    BY <1>2, <2>1, <2>2, <2>3, <2>4, <2>5 DEF Command
<1>3. CASE Interrupt \/ PortReleased \/ DelayPasses
  BY <1>3 DEF Interrupt, PortReleased, DelayPasses
<1>4. ASSUME NEW a \in Apps, Goroutine(a)
      PROVE  Spawned'
  BY <1>4, GoroutineFrame
<1> QED
  BY <1>1, <1>2, <1>3, <1>4, NextSorts

-----------------------------------------------------------------------------
LEMMA NextListening ==
  TypeOK /\ Spawned /\ Listening /\ [Next]_vars => Listening'
<1> SUFFICES ASSUME TypeOK, Spawned, Listening, [Next]_vars PROVE Listening'
  OBVIOUS
<1> USE DEF Listening
<1>1. CASE UNCHANGED vars
  BY <1>1 DEF vars
<1>2. CASE Command
  <2>1. CASE Retry
    BY <2>1 DEF Retry, TypeOK, Apps
  <2>2. CASE GiveUp \/ StartDB \/ StartDBFails
    BY <2>2 DEF GiveUp, StartDB, StartDBFails
  <2>3. CASE Spawn
    <3>1. app \in Apps /\ http[app] = "none" /\ app \in Nat
      BY <2>3 DEF Spawn, Spawned, TypeOK, Apps
    <3>2. \A a \in Apps : a > app => a # app
      BY <3>1 DEF Apps
    <3> QED
      BY <2>3, <3>1, <3>2 DEF Spawn, TypeOK
  <2>4. CASE ReceiveError
    BY <2>4 DEF ReceiveError, TypeOK
  <2>5. CASE WaitReturns \/ WaitBlocks \/ Wake \/ WaitPanics \/ Exit
    BY <2>5 DEF WaitReturns, WaitBlocks, Wake, WaitPanics, Exit, Proceed
  <2> QED
    BY <1>2, <2>1, <2>2, <2>3, <2>4, <2>5 DEF Command
<1>3. CASE Interrupt \/ PortReleased \/ DelayPasses
  BY <1>3 DEF Interrupt, PortReleased, DelayPasses
<1>4. ASSUME NEW a \in Apps, Goroutine(a)
      PROVE  Listening'
  <2>1. ASSUME NEW b \in Apps,
               b > app' \/ (b = app' /\ main' \in {"start", "spawn"})
        PROVE  http'[b] = "none"
    BY <1>4, <2>1, GoroutineFrame
  <2>2. ASSUME NEW b \in Apps, listener'[b] = "listening"
        PROVE  http'[b] = "serving"
    BY <1>4, <2>2
       DEF Goroutine, Service, StartHTTP, Listen, Shutdown, StopHTTP,
           ListenerFails, StartIndexer, IndexPass, EndPass, PassPanics,
           StopIndexer, TypeOK
  <2> QED
    BY <2>1, <2>2
<1> QED
  BY <1>1, <1>2, <1>3, <1>4, NextSorts

-----------------------------------------------------------------------------
(* At zero nobody counts in the wait group. *)
LEMMA NobodyCounts ==
  WaitGroup(app) = 0 => /\ http[app] \notin {"serving", "shutdown"}
                        /\ indexer[app] \notin {"waiting", "pass"}
BY DEF WaitGroup

LEMMA NextSettled == StopInv /\ [Next]_vars => Settled'
<1> SUFFICES ASSUME StopInv, [Next]_vars PROVE Settled'
  OBVIOUS
<1> USE DEF StopInv, Settled, Waiting, LetGo
<1>1. CASE UNCHANGED vars
  BY <1>1 DEF vars
<1>2. CASE Command
  <2>1. CASE \/ Retry \/ GiveUp \/ StartDB \/ StartDBFails \/ Spawn
             \/ ReceiveError
    BY <2>1 DEF Retry, GiveUp, StartDB, StartDBFails, Spawn, ReceiveError
  <2>2. CASE WaitReturns \/ Wake
    <3>1. main \in {"wait", "woken"} /\ main' = "return" /\ WaitGroup(app) = 0
          /\ UNCHANGED <<app, http, indexer, fresh, served>>
      BY <2>2 DEF WaitReturns, Wake, Proceed, clock
    <3>2. indexer[app] \in {"begun", "done"}
      BY <3>1, NobodyCounts DEF Spawned, TypeOK
    <3>3. served => http[app] = "done"
      BY <3>1, NobodyCounts
    <3> QED
      BY <3>1, <3>2, <3>3
  <2>3. CASE WaitBlocks \/ WaitPanics \/ Exit
    BY <2>3 DEF WaitBlocks, WaitPanics, Exit, Proceed, clock
  <2> QED
    BY <1>2, <2>1, <2>2, <2>3 DEF Command
<1>3. CASE Interrupt
  BY <1>3 DEF Interrupt, Listening, Spawned
<1>4. CASE PortReleased \/ DelayPasses
  BY <1>4 DEF PortReleased, DelayPasses, Ends
<1>5. ASSUME NEW a \in Apps, Goroutine(a)
      PROVE  Settled'
  <2>1. CASE main' = "crashed"
    BY <2>1
  <2>2. CASE main = "blocked" /\ main' = "woken" /\ WaitGroup(app)' = 0
    <3>1. /\ app' = app /\ served' = served /\ app \in Apps
          /\ http'[app] \notin {"none", "serving", "shutdown"}
          /\ indexer'[app] \notin {"none", "waiting", "pass"}
      BY <1>5, <2>2, GoroutineFrame DEF WaitGroup, Spawned
    <3>2. indexer'[app] \in {"begun", "done"}
      BY <3>1, NextTypes DEF TypeOK
    <3>3. http'[app] # "begun" \/ http[app] = "begun"
      BY <1>5, <3>1
         DEF Goroutine, Service, StartHTTP, Listen, Shutdown, StopHTTP,
             ListenerFails, StartIndexer, IndexPass, EndPass, PassPanics,
             StopIndexer, TypeOK
    <3>4. served => http'[app] = "done"
      BY <2>2, <3>1, <3>3, NextTypes DEF TypeOK
    <3> QED
      BY <2>2, <3>1, <3>2, <3>4
  <2>3. CASE main' = main /\ main \in Waiting \union {"stopped"}
    <3>1. /\ app' = app /\ served' = served /\ app \in Apps
          /\ main # "stopped"
      BY <1>5, <2>3, GoroutineFrame DEF Spawned, Running, Ends
    <3>2. /\ http[app] \in {"serving", "shutdown", "done"} =>
               http'[app] \in {"serving", "shutdown", "done"}
          /\ http[app] = "done" => http'[app] = "done"
      BY <1>5, <3>1
         DEF Goroutine, Service, StartHTTP, Listen, Shutdown, StopHTTP,
             ListenerFails, StartIndexer, IndexPass, EndPass, PassPanics,
             StopIndexer, TypeOK
    <3>3. \/ indexer[app] \in {"begun", "done"}
          \/ indexer[app] = "waiting" /\ fresh[app]
          => \/ indexer'[app] \in {"begun", "done"}
             \/ indexer'[app] = "waiting" /\ fresh'[app]
      BY <1>5, <3>1
         DEF Goroutine, Service, StartHTTP, Listen, Shutdown, StopHTTP,
             ListenerFails, StartIndexer, IndexPass, EndPass, PassPanics,
             StopIndexer, TypeOK, clock
    <3> QED
      BY <2>3, <3>1, <3>2, <3>3
  <2>4. CASE main' = main /\ main \notin Waiting \union {"stopped"}
    BY <2>4
  <2> QED
    BY <1>5, <2>1, <2>2, <2>3, <2>4, GoroutineFrame
<1> QED
  BY <1>1, <1>2, <1>3, <1>4, <1>5, NextSorts

LEMMA StopInvHolds == Spec => []StopInv
<1>1. StopInv /\ [Next]_vars => StopInv'
  BY NextTypes, NextSpawned, NextListening, NextSettled DEF StopInv
<1> QED
  BY <1>1, InitStop, PTL DEF Spec

-----------------------------------------------------------------------------
(* The state of the process keeps its type (App.Start, HTTP.Start,         *)
(* Indexer.Start).                                                         *)
THEOREM LifecycleTypeCorrect == Spec => []TypeOK
<1>1. StopInv => TypeOK
  BY DEF StopInv
<1> QED
  BY <1>1, StopInvHolds, PTL

(* However many Apps the retry policy has started: when the process exits  *)
(* after an interrupt, the App that was interrupted has no pass under way, *)
(* and its service has been shut down if it was listening.                 *)
THEOREM StopsGracefully == Spec => []GracefulStop
<1>1. StopInv => GracefulStop
  BY DEF StopInv, Settled, LetGo, Waiting, GracefulStop
<1> QED
  BY <1>1, StopInvHolds, PTL
=============================================================================
