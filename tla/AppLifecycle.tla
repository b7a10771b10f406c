---------------------------- MODULE AppLifecycle ----------------------------
(***************************************************************************)
(* The life of the process "kudzu server": the server command, pkg/app,    *)
(* HTTP.Start and Indexer.Start.                                           *)
(*                                                                         *)
(* The command calls App.Start, which starts the HTTP service and the      *)
(* indexer in goroutines and then waits for an interrupt or for an error   *)
(* of the service.  After an error the command waits and starts a new App; *)
(* the goroutines of the old one are not told.  After an interrupt it      *)
(* closes quitChan and waits for both, and the process exits.              *)
(***************************************************************************)
EXTENDS Naturals

CONSTANTS
  MaxApps,      \* how many times the retry policy lets App.Start be called
  NoIndexer     \* the --no-indexer flag

ASSUME LifecycleAssumption == MaxApps \in Nat \ {0} /\ NoIndexer \in BOOLEAN

VARIABLES
  main,       \* the main goroutine: in the command, or in App.Start
  app,        \* the app that the main goroutine has made last
  http,       \* per app: the goroutine of HTTP.Start
  listener,   \* per app: the goroutine of ListenAndServe
  indexer,    \* per app: the goroutine of Indexer.Start
  quit,       \* per app: quitChan is closed
  fresh,      \* per app: its ticker was made less than a Delay ago
  served,     \* the service was listening when the interrupt came
  portTaken   \* another process has the port

clock == <<fresh, served, portTaken>>
vars  == <<main, app, http, listener, indexer, quit, fresh, served, portTaken>>

Apps == 1..MaxApps

(* Where App.Start is once it has closed quitChan: about to call wg.Wait,   *)
(* blocked in it, woken in it, or back from it.                            *)
Waiting == {"wait", "blocked", "woken", "return"}

(* "stopped" is exit after an interrupt, "failed" exit when no retry is    *)
(* left, "killed" the default action of SIGINT, "crashed" a panic.         *)
Ends == {"stopped", "failed", "killed", "crashed"}

TypeOK ==
  /\ main \in {"backoff", "start", "spawn", "select"} \union Waiting
                \union Ends
  /\ app \in 0..MaxApps
  /\ http \in [Apps -> {"none", "begun", "serving", "shutdown", "done"}]
  /\ listener \in [Apps -> {"none", "begun", "listening", "error", "done"}]
  /\ indexer \in [Apps -> {"none", "begun", "waiting", "pass", "done"}]
  /\ quit \in [Apps -> BOOLEAN]
  /\ fresh \in [Apps -> BOOLEAN]
  /\ served \in BOOLEAN
  /\ portTaken \in BOOLEAN

Init ==
  /\ main = "backoff"
  /\ app = 0
  /\ http = [a \in Apps |-> "none"]
  /\ listener = [a \in Apps |-> "none"]
  /\ indexer = [a \in Apps |-> "none"]
  /\ quit = [a \in Apps |-> FALSE]
  /\ fresh = [a \in Apps |-> FALSE]
  /\ served = FALSE
  /\ portTaken \in BOOLEAN

-----------------------------------------------------------------------------
Running == main \notin Ends

(* Slips: the indexer does not report to the wait group; it adds itself    *)
(* and is never done.                                                      *)
WaitGroupHTTP(a) == IF http[a] \in {"serving", "shutdown"} THEN 1 ELSE 0

WaitGroupNoDone(a) ==
  (IF http[a] \in {"serving", "shutdown"} THEN 1 ELSE 0) +
  (IF indexer[a] \in {"waiting", "pass", "done"} THEN 1 ELSE 0)

(* The counter of the wait group: each goroutine adds itself when it gets  *)
(* to run, and is done when it has stopped.                                *)
WaitGroup(a) ==
  (IF http[a] \in {"serving", "shutdown"} THEN 1 ELSE 0) +
  (IF indexer[a] \in {"waiting", "pass"} THEN 1 ELSE 0)

(* Some app has called signal.Notify: SIGINT no longer ends the process. *)
Notified == main = "spawn" \/ \E a \in Apps : http[a] # "none"

-----------------------------------------------------------------------------
(* The main goroutine *)

(* A slip: one call more than the policy allows. *)
RetryOnceMore ==
  /\ main = "backoff"
  /\ app <= MaxApps
  /\ app' = app + 1
  /\ main' = "start"
  /\ UNCHANGED <<http, listener, indexer, quit, clock>>

(* The retry policy lets the command make another App. *)
Retry ==
  /\ main = "backoff"
  /\ app < MaxApps
  /\ app' = app + 1
  /\ main' = "start"
  /\ UNCHANGED <<http, listener, indexer, quit, clock>>

GiveUp ==
  /\ main = "backoff"
  /\ app > 0
  /\ main' = "failed"
  /\ UNCHANGED <<app, http, listener, indexer, quit, clock>>

StartDB ==
  /\ main = "start"
  /\ main' = "spawn"
  /\ UNCHANGED <<app, http, listener, indexer, quit, clock>>

(* db.Start fails, to connect or to migrate. *)
StartDBFails ==
  /\ main = "start"
  /\ main' = "backoff"
  /\ UNCHANGED <<app, http, listener, indexer, quit, clock>>

Spawn ==
  /\ main = "spawn"
  /\ http' = [http EXCEPT ![app] = "begun"]
  /\ indexer' = [indexer EXCEPT ![app] = "begun"]
  /\ main' = "select"
  /\ UNCHANGED <<app, listener, quit, clock>>

(* err := <-errChan of the current app; its goroutines are not told. *)
ReceiveError ==
  /\ main = "select"
  /\ listener[app] = "error"
  /\ listener' = [listener EXCEPT ![app] = "done"]
  /\ main' = "backoff"
  /\ UNCHANGED <<app, http, indexer, quit, clock>>

(* The operator interrupts the process.  The stop channel has no buffer,   *)
(* so the signal is dropped when the main goroutine is not in the select.  *)
Interrupt ==
  /\ Running
  /\ \/ /\ main = "select"
        /\ quit' = [quit EXCEPT ![app] = TRUE]
        /\ served' = (listener[app] = "listening")
        /\ main' = "wait"
     \/ /\ ~Notified
        /\ main' = "killed"
        /\ UNCHANGED <<quit, served>>
  /\ UNCHANGED <<app, http, listener, indexer, fresh, portTaken>>

(* The main goroutine moves on, and nothing else changes. *)
Proceed(from, to) ==
  /\ main = from
  /\ main' = to
  /\ UNCHANGED <<app, http, listener, indexer, quit, clock>>

(* wg.Wait: returns at once when the counter is zero, and blocks until a   *)
(* Done takes it there otherwise.                                          *)
WaitReturns == Proceed("wait", "return") /\ WaitGroup(app) = 0

WaitBlocks == Proceed("wait", "blocked") /\ WaitGroup(app) > 0

(* The main goroutine runs again, after others may have run.  Wait panics  *)
(* when it finds that the wait group has been used again.                  *)
Wake == Proceed("woken", "return") /\ WaitGroup(app) = 0

WaitPanics == Proceed("woken", "crashed") /\ WaitGroup(app) > 0

(* App.Start and the command return nil, and so does main. *)
Exit == Proceed("return", "stopped")

(* wg.Done of a goroutine of app a, which stops. *)
Done(a) ==
  main' = IF main = "blocked" /\ a = app /\ WaitGroup(a)' = 0 THEN "woken"
                                                             ELSE main

-----------------------------------------------------------------------------
(* HTTP.Start of app a *)

StartHTTP(a) ==
  /\ Running
  /\ http[a] = "begun"
  /\ http' = [http EXCEPT ![a] = "serving"]
  /\ listener' = [listener EXCEPT ![a] = "begun"]
  /\ UNCHANGED <<main, app, indexer, quit, clock>>

(* The port is free when no other process and no other app listens. *)
PortFree == ~portTaken /\ \A a \in Apps : listener[a] # "listening"

(* A slip: the error of ListenAndServe is dropped. *)
ListenSilently(a) ==
  /\ Running
  /\ listener[a] = "begun"
  /\ listener' = [listener EXCEPT ![a] =
                    IF PortFree /\ http[a] = "serving" THEN "listening"
                                                       ELSE "done"]
  /\ UNCHANGED <<main, app, http, indexer, quit, clock>>

(* ListenAndServe; the error it returns is sent on errChan, which has no   *)
(* buffer.                                                                 *)
Listen(a) ==
  /\ Running
  /\ listener[a] = "begun"
  /\ listener' = [listener EXCEPT ![a] =
                    IF PortFree /\ http[a] = "serving" THEN "listening"
                                                       ELSE "error"]
  /\ UNCHANGED <<main, app, http, indexer, quit, clock>>

(* Accept fails for good, and the socket is closed. *)
ListenerFails(a) ==
  /\ Running
  /\ listener[a] = "listening"
  /\ listener' = [listener EXCEPT ![a] = "error"]
  /\ UNCHANGED <<main, app, http, indexer, quit, clock>>

(* quitChan is closed: Shutdown makes ListenAndServe return. *)
Shutdown(a) ==
  /\ Running
  /\ http[a] = "serving"
  /\ quit[a]
  /\ http' = [http EXCEPT ![a] = "shutdown"]
  /\ listener' = [listener EXCEPT ![a] =
                    IF @ = "listening" THEN "error" ELSE @]
  /\ UNCHANGED <<main, app, indexer, quit, clock>>

StopHTTP(a) ==
  /\ Running
  /\ http[a] = "shutdown"
  /\ http' = [http EXCEPT ![a] = "done"]
  /\ UNCHANGED <<app, listener, indexer, quit, clock>>
  /\ Done(a)

-----------------------------------------------------------------------------
(* Indexer.Start of app a *)

StartIndexer(a) ==
  /\ Running
  /\ indexer[a] = "begun"
  /\ indexer' = [indexer EXCEPT ![a] = "waiting"]
  /\ fresh' = [fresh EXCEPT ![a] = TRUE]
  /\ UNCHANGED <<main, app, http, listener, quit, served, portTaken>>

(* A Delay goes by.  It is seconds long, and what is left to do for a main *)
(* goroutine that wg.Wait lets go, to return, takes far less.              *)
DelayPasses ==
  /\ main \notin {"woken", "return"} \union Ends
  /\ \E a \in Apps : fresh[a]
  /\ fresh' = [a \in Apps |-> FALSE]
  /\ UNCHANGED <<main, app, http, listener, indexer, quit, served, portTaken>>

(* case <-ticker.C *)
IndexPass(a) ==
  /\ Running
  /\ indexer[a] = "waiting"
  /\ ~fresh[a]
  /\ ~NoIndexer
  /\ indexer' = [indexer EXCEPT ![a] = "pass"]
  /\ UNCHANGED <<main, app, http, listener, quit, clock>>

EndPass(a) ==
  /\ Running
  /\ indexer[a] = "pass"
  /\ indexer' = [indexer EXCEPT ![a] = "waiting"]
  /\ UNCHANGED <<main, app, http, listener, quit, clock>>

(* NextIdentity returned an error: Index logs it and panics. *)
PassPanics(a) ==
  /\ Running
  /\ indexer[a] = "pass"
  /\ main' = "crashed"
  /\ UNCHANGED <<app, http, listener, indexer, quit, clock>>

(* case <-i.QuitChan *)
StopIndexer(a) ==
  /\ Running
  /\ indexer[a] = "waiting"
  /\ quit[a]
  /\ indexer' = [indexer EXCEPT ![a] = "done"]
  /\ UNCHANGED <<app, http, listener, quit, clock>>
  /\ Done(a)

-----------------------------------------------------------------------------
(* The other process releases the port. *)
PortReleased ==
  /\ Running
  /\ portTaken
  /\ portTaken' = FALSE
  /\ UNCHANGED <<main, app, http, listener, indexer, quit, fresh, served>>

Command ==
  \/ Retry \/ GiveUp \/ StartDB \/ StartDBFails \/ Spawn \/ ReceiveError
  \/ WaitReturns \/ WaitBlocks \/ Wake \/ WaitPanics \/ Exit

Service(a) == StartHTTP(a) \/ Listen(a) \/ Shutdown(a) \/ StopHTTP(a)

Next ==
  \/ Command \/ Interrupt \/ PortReleased \/ DelayPasses
  \/ \E a \in Apps : \/ Service(a) \/ ListenerFails(a)
                     \/ StartIndexer(a) \/ IndexPass(a) \/ EndPass(a)
                     \/ PassPanics(a) \/ StopIndexer(a)

Spec == Init /\ [][Next]_vars

(* Goroutines that can run do; a pass ends (PassEnds in module Indexer);   *)
(* a select with several cases ready picks one at random, so it does not   *)
(* prefer the ticker to quitChan for ever.                                 *)
Fairness ==
  /\ WF_vars(Command)
  /\ \A a \in Apps : /\ WF_vars(Service(a))
                     /\ WF_vars(StartIndexer(a))
                     /\ WF_vars(EndPass(a))
                     /\ SF_vars(StopIndexer(a))

FairSpec == Spec /\ Fairness

-----------------------------------------------------------------------------
(* Properties *)

(* When the process exits after an interrupt, no pass of the app that was  *)
(* interrupted is cut off, and its service has been shut down if it was    *)
(* listening when the interrupt came.  The goroutines join the wait group  *)
(* only when they get to run, which may be after wg.Wait has returned; but *)
(* then the ticker of the indexer has not fired yet.                       *)
GracefulStop ==
  main = "stopped" => /\ indexer[app] # "pass"
                      /\ served => http[app] = "done"

(* An interrupt that App.Start has received ends the process. *)
StopTerminates == main = "wait" ~> ~Running

(* The process never runs on with a service that does not listen: it       *)
(* leaves App.Start, and the command tries again or gives up.              *)
NeverDeaf ==
  \A a \in Apps :
    (main = "select" /\ app = a /\ http[a] = "serving"
       /\ listener[a] \notin {"begun", "listening"})
      ~> (main # "select" \/ app # a)
=============================================================================
