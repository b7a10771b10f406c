------------------------------ MODULE GetData ------------------------------
(***************************************************************************)
(* Thingful.GetData (pkg/thingful): one call, made by the time series      *)
(* handler, that fetches several things in parallel.                       *)
(*                                                                         *)
(* The caller starts a goroutine for every uid, then one that closes the   *)
(* response channel when the wait group is down to zero, and receives      *)
(* until the channel is closed.  It returns at once when a uid does not    *)
(* make a URL, a fetch failed or an answer is not JSON, and nobody         *)
(* receives from then on.                                                  *)
(*                                                                         *)
(* The channel is a set: the goroutines send in any order, so the order in *)
(* which the channel hands out what it holds makes no difference.          *)
(***************************************************************************)
EXTENDS Naturals, FiniteSets

CONSTANTS
  NumUids,       \* how many uids the caller asks for (at most 10)
  Concurrency    \* t.concurrency: capacity of the response channel

ASSUME GetDataAssumption ==
  /\ NumUids \in Nat \ {0}
  /\ Concurrency \in Nat

VARIABLES
  main,       \* what the caller does
  next,       \* the uid the caller spawns a goroutine for next
  fetcher,    \* per uid: where its goroutine is
  answer,     \* per uid: what its goroutine has to send
  channel,    \* the uids whose answers are in the channel
  closer,     \* the goroutine that waits on the wait group
  things      \* the uids whose things the caller has collected

vars == <<main, next, fetcher, answer, channel, closer, things>>

Uids == 1..NumUids

Answers == {"thing", "garbage", "error"}

TypeOK ==
  /\ main \in {"spawn", "receive", "ok", "error"}
  /\ next \in 1..(NumUids + 1)
  /\ fetcher \in [Uids -> {"none", "fetch", "send", "finish", "done"}]
  /\ answer \in [Uids -> Answers \union {"none"}]
  /\ channel \in SUBSET Uids
  /\ closer \in {"none", "wait", "closed"}
  /\ things \in SUBSET {k \in Uids : answer[k] = "thing"}

Init ==
  /\ main = "spawn"
  /\ next = 1
  /\ fetcher = [k \in Uids |-> "none"]
  /\ answer = [k \in Uids |-> "none"]
  /\ channel = {}
  /\ closer = "none"
  /\ things = {}

-----------------------------------------------------------------------------
(* A slip: wg.Add(1) moved into the goroutine, behind the fetch. *)
AddAfterFetch == {k \in Uids : fetcher[k] \in {"send", "finish"}}

(* The goroutines the wait group waits for: Add is called before the       *)
(* goroutine starts, Done when it has sent its answer.                     *)
WaitGroup == {k \in Uids : fetcher[k] \in {"fetch", "send", "finish"}}

Returned == main \in {"ok", "error"}

(* A slip: the channel is made without a capacity. *)
CanSendUnbuffered == main = "receive" /\ channel = {}

(* A send succeeds while the buffer has room; on a channel without a       *)
(* buffer it needs a receiver that has not been handed anything yet.       *)
CanSend ==
  \/ Cardinality(channel) < Concurrency
  \/ Concurrency = 0 /\ main = "receive" /\ channel = {}

-----------------------------------------------------------------------------
(* The caller *)

Spawn ==
  /\ main = "spawn"
  /\ next \in Uids
  /\ fetcher' = [fetcher EXCEPT ![next] = "fetch"]
  /\ next' = next + 1
  /\ UNCHANGED <<main, answer, channel, closer, things>>

(* url.Parse rejects a uid; the goroutines of the ones before it run on. *)
ParseFails ==
  /\ main = "spawn"
  /\ next \in Uids
  /\ main' = "error"
  /\ UNCHANGED <<next, fetcher, answer, channel, closer, things>>

SpawnCloser ==
  /\ main = "spawn"
  /\ next = NumUids + 1
  /\ closer' = "wait"
  /\ main' = "receive"
  /\ UNCHANGED <<next, fetcher, answer, channel, things>>

(* Slips: an answer that is an error is skipped; the error of buildThing   *)
(* is not looked at; the caller waits for the goroutines before it         *)
(* receives.                                                               *)
SkipErrors ==
  /\ main = "receive"
  /\ \E k \in channel :
       /\ channel' = channel \ {k}
       /\ IF answer[k] = "thing" THEN things' = things \union {k}
                                 ELSE UNCHANGED things
  /\ UNCHANGED <<main, next, fetcher, answer, closer>>

UseAnything ==
  /\ main = "receive"
  /\ \E k \in channel :
       /\ channel' = channel \ {k}
       /\ \/ /\ answer[k] # "error"
             /\ things' = things \union {k}
             /\ UNCHANGED main
          \/ /\ answer[k] = "error"
             /\ main' = "error"
             /\ UNCHANGED things
  /\ UNCHANGED <<next, fetcher, answer, closer>>

WaitThenReceive ==
  /\ main = "receive"
  /\ closer = "closed"
  /\ \E k \in channel :
       /\ channel' = channel \ {k}
       /\ \/ /\ answer[k] = "thing"
             /\ things' = things \union {k}
             /\ UNCHANGED main
          \/ /\ answer[k] # "thing"
             /\ main' = "error"
             /\ UNCHANGED things
  /\ UNCHANGED <<next, fetcher, answer, closer>>

(* One turn of the range over the channel; the first error is returned. *)
Receive ==
  /\ main = "receive"
  /\ \E k \in channel :
       /\ channel' = channel \ {k}
       /\ \/ /\ answer[k] = "thing"
             /\ things' = things \union {k}
             /\ UNCHANGED main
          \/ /\ answer[k] # "thing"
             /\ main' = "error"
             /\ UNCHANGED things
  /\ UNCHANGED <<next, fetcher, answer, closer>>

(* The channel is closed and drained. *)
Return ==
  /\ main = "receive"
  /\ closer = "closed"
  /\ channel = {}
  /\ main' = "ok"
  /\ UNCHANGED <<next, fetcher, answer, channel, closer, things>>

-----------------------------------------------------------------------------
(* The goroutines *)

Fetch(k) ==
  /\ fetcher[k] = "fetch"
  /\ answer' \in {[answer EXCEPT ![k] = a] : a \in Answers}
  /\ fetcher' = [fetcher EXCEPT ![k] = "send"]
  /\ UNCHANGED <<main, next, channel, closer, things>>

Send(k) ==
  /\ fetcher[k] = "send"
  /\ CanSend
  /\ channel' = channel \union {k}
  /\ fetcher' = [fetcher EXCEPT ![k] = "finish"]
  /\ UNCHANGED <<main, next, answer, closer, things>>

(* defer wg.Done() *)
Done(k) ==
  /\ fetcher[k] = "finish"
  /\ fetcher' = [fetcher EXCEPT ![k] = "done"]
  /\ UNCHANGED <<main, next, answer, channel, closer, things>>

Close ==
  /\ closer = "wait"
  /\ WaitGroup = {}
  /\ closer' = "closed"
  /\ UNCHANGED <<main, next, fetcher, answer, channel, things>>

-----------------------------------------------------------------------------
Caller == Spawn \/ ParseFails \/ SpawnCloser \/ Receive \/ Return

Fetcher(k) == Fetch(k) \/ Send(k) \/ Done(k)

Next == Caller \/ Close \/ \E k \in Uids : Fetcher(k)

Spec == Init /\ [][Next]_vars

(* The scheduler runs every goroutine that can run, and every fetch comes  *)
(* back: the HTTP client has a timeout.                                    *)
Fairness ==
  /\ WF_vars(Caller)
  /\ WF_vars(Close)
  /\ \A k \in Uids : WF_vars(Fetcher(k))

FairSpec == Spec /\ Fairness

-----------------------------------------------------------------------------
(* Properties *)

(* A call that returns without an error returns the thing of every uid:    *)
(* the handler builds a response from what it gets and has no way to see   *)
(* that one is missing.                                                    *)
AllOrError == main = "ok" => things = Uids

(* Nothing is sent on a closed channel, which would panic and take the     *)
(* process down.                                                           *)
NoSendAfterClose ==
  closer = "closed" => \A k \in Uids : fetcher[k] \in {"none", "done"}

(* Every answer is in one place: with its goroutine, in the channel, or    *)
(* collected; the strengthening that makes AllOrError inductive.           *)
Accounted ==
  /\ \A k \in Uids : /\ fetcher[k] = "none" <=> k >= next
                     /\ k \in channel \union things =>
                          fetcher[k] \in {"finish", "done"}
  /\ main # "error" =>
       \A k \in Uids : \/ fetcher[k] \in {"none", "fetch", "send"}
                       \/ k \in channel
                       \/ k \in things
  /\ main \in {"receive", "ok"} => next = NumUids + 1
  /\ main = "spawn" => closer = "none"
  /\ main = "ok" => closer = "closed" /\ channel = {}

(* Goroutines blocked for good: the caller has gone and the channel is     *)
(* full.                                                                   *)
Stuck ==
  IF Returned /\ ~CanSend THEN {k \in Uids : fetcher[k] = "send"} ELSE {}

(* A call that returns an error leaves behind at most the goroutines that  *)
(* neither the receive that failed nor the buffer had a place for.         *)
LeakBound ==
  \/ Stuck = {}
  \/ Cardinality(Stuck) + Concurrency + 1 <= NumUids

(* Every call returns, also when goroutines outnumber the buffer. *)
CallReturns == <>Returned

(* What the comment in GetData says of the last goroutine: it waits for    *)
(* all of them to finish, and then closes the channel.                     *)
ChannelGetsClosed == (closer = "wait") ~> (closer = "closed")

(* The caller cannot tell a call from one that collects the things one     *)
(* after the other and then returns them all, or gives up with an error    *)
(* and returns none.                                                       *)
Promise ==
  INSTANCE Fetch WITH
    Calls     <- {Uids},
    wanted    <- Uids,
    collected <- things,
    status    <- IF Returned THEN main ELSE "pending"

ImplementsFetch == Promise!FetchSpec
=============================================================================
