--------------------------- MODULE GetDataProofs ---------------------------
(***************************************************************************)
(* Proofs about GetData: for any number of uids and any capacity of the    *)
(* response channel, a call that succeeds has the thing of every uid,      *)
(* nothing is sent on the closed channel, and a call that fails leaves no  *)
(* more goroutines behind than find no place in the buffer.                *)
(*                                                                         *)
(* It also implements Fetch, which is all that the handler relies on.      *)
(*                                                                         *)
(* AllOrError is not inductive: that the channel is closed and empty says  *)
(* something about the answers only together with where every answer that  *)
(* was not collected can be (Accounted), and with the fact that no         *)
(* goroutine has one left when the channel closes (NoSendAfterClose).      *)
(***************************************************************************)
EXTENDS GetData, FiniteSetTheorems, TLAPS

GetDataInv == TypeOK /\ Accounted /\ NoSendAfterClose

LEMMA InitInv == GetDataAssumption /\ Init => GetDataInv
BY DEF GetDataAssumption, Init, GetDataInv, TypeOK, Accounted,
       NoSendAfterClose, Uids

(* The steps of the caller. *)
LEMMA CallerInv ==
  ASSUME GetDataAssumption, GetDataInv, Caller
  PROVE  GetDataInv'
<1> USE DEF GetDataInv, TypeOK, Accounted, NoSendAfterClose, Uids
<1>1. CASE Spawn
  <2> USE DEF GetDataAssumption
  <2>1. TypeOK'
    BY <1>1 DEF Spawn
  <2>2. \A k \in Uids : fetcher'[k] = IF k = next THEN "fetch" ELSE fetcher[k]
    BY <1>1 DEF Spawn
  <2>3. Accounted'
    BY <1>1, <2>2 DEF Spawn
  <2>4. NoSendAfterClose'
    BY <1>1 DEF Spawn
  <2> QED
    BY <2>1, <2>3, <2>4
<1>2. CASE ParseFails
  BY <1>2 DEF ParseFails
<1>3. CASE SpawnCloser
  BY <1>3 DEF SpawnCloser, GetDataAssumption
<1>4. CASE Receive
  BY <1>4 DEF Receive
<1>5. CASE Return
  BY <1>5 DEF Return
<1> QED
  BY <1>1, <1>2, <1>3, <1>4, <1>5 DEF Caller

(* The steps of a goroutine that fetches. *)
LEMMA FetcherInv ==
  ASSUME GetDataInv, NEW k \in Uids, Fetcher(k)
  PROVE  GetDataInv'
<1> USE DEF GetDataInv, TypeOK, Accounted, NoSendAfterClose
<1>1. CASE Fetch(k)
  <2>1. PICK a \in Answers : answer' = [answer EXCEPT ![k] = a]
    BY <1>1 DEF Fetch
  <2>2. k \notin things
    BY <1>1 DEF Fetch
  <2> QED
    BY <1>1, <2>1, <2>2 DEF Fetch
<1>2. CASE Send(k)
  BY <1>2 DEF Send
<1>3. CASE Done(k)
  BY <1>3 DEF Done
<1> QED
  BY <1>1, <1>2, <1>3 DEF Fetcher

(* The channel is closed when no goroutine has an answer left to send. *)
LEMMA CloseInv == GetDataInv /\ Close => GetDataInv'
BY DEF GetDataInv, TypeOK, Accounted, NoSendAfterClose, Close, WaitGroup

LEMMA NextInv == GetDataAssumption /\ GetDataInv /\ [Next]_vars => GetDataInv'
<1> SUFFICES ASSUME GetDataAssumption, GetDataInv, [Next]_vars
             PROVE  GetDataInv'
  OBVIOUS
<1>1. CASE UNCHANGED vars
  BY <1>1 DEF vars, GetDataInv, TypeOK, Accounted, NoSendAfterClose
<1> QED
  BY <1>1, CallerInv, FetcherInv, CloseInv DEF Next

(* The strengthened invariant holds in every state. *)
THEOREM GetDataInvariant == Spec => []GetDataInv
BY GetDataAssumption, InitInv, NextInv, PTL DEF Spec

(* Every variable keeps its type. *)
THEOREM GetDataTypeCorrect == Spec => []TypeOK
BY GetDataInvariant, PTL DEF GetDataInv

(* When the caller has returned without an error, it has all things. *)
LEMMA CompleteInv == GetDataInv => AllOrError
<1> SUFFICES ASSUME GetDataInv, main = "ok"
             PROVE  things = Uids
  BY DEF AllOrError
<1> USE DEF GetDataInv, TypeOK, Accounted, NoSendAfterClose
<1>1. things \subseteq Uids
  OBVIOUS
<1>2. ASSUME NEW k \in Uids
      PROVE  k \in things
  <2>1. fetcher[k] # "none"
    BY GetDataAssumption DEF GetDataAssumption, Uids
  <2>2. fetcher[k] = "done" /\ channel = {}
    BY <2>1
  <2> QED
    BY <2>2
<1> QED
  BY <1>1, <1>2

(* A call that returns no error returns the things of all uids. *)
THEOREM SuccessIsComplete == Spec => []AllOrError
BY CompleteInv, GetDataInvariant, PTL

(* No goroutine sends on the closed channel. *)
THEOREM ChannelSafe == Spec => []NoSendAfterClose
BY GetDataInvariant, PTL DEF GetDataInv

-----------------------------------------------------------------------------
(* A call that failed has done with one answer, or never asked for it: the *)
(* one that was an error, or the uid that makes no URL.                    *)
FailedOne ==
  main = "error" =>
    \E k \in Uids : /\ k \notin channel
                    /\ fetcher[k] \in {"none", "finish", "done"}

LEMMA FailedOneNext ==
  ASSUME GetDataInv, FailedOne, [Next]_vars
  PROVE  FailedOne'
<1> USE DEF GetDataInv, TypeOK, Accounted, FailedOne
<1>1. CASE Spawn \/ SpawnCloser \/ Return
  BY <1>1 DEF Spawn, SpawnCloser, Return
<1>2. CASE ParseFails
  BY <1>2 DEF ParseFails
<1>3. CASE Receive
  BY <1>3 DEF Receive
<1>4. ASSUME NEW j \in Uids, Fetcher(j)
      PROVE  FailedOne'
  <2>1. main' = main /\ channel' \subseteq channel \union {j}
    BY <1>4 DEF Fetcher, Fetch, Send, Done
  <2>2. \A k \in Uids : k # j => fetcher'[k] = fetcher[k]
    BY <1>4 DEF Fetcher, Fetch, Send, Done
  <2>3. CASE fetcher[j] \in {"fetch", "send"}
    BY <2>1, <2>2, <2>3
  <2>4. CASE Done(j)
    BY <2>4 DEF Done
  <2> QED
    BY <1>4, <2>3, <2>4 DEF Fetcher, Fetch, Send
<1>5. CASE Close
  BY <1>5 DEF Close
<1>6. CASE UNCHANGED vars
  BY <1>6 DEF vars
<1> QED
  BY <1>1, <1>2, <1>3, <1>4, <1>5, <1>6 DEF Next, Caller

(* The goroutines that are stuck, the buffer, and the one answer that was  *)
(* dealt with are apart.                                                   *)
LEMMA LeakIsBound == GetDataInv /\ FailedOne => LeakBound
<1> SUFFICES ASSUME GetDataInv, FailedOne, Stuck # {}
             PROVE  Cardinality(Stuck) + Concurrency + 1 <= NumUids
  BY DEF LeakBound
<1>1. /\ Returned /\ ~CanSend
      /\ Stuck = {k \in Uids : fetcher[k] = "send"}
  BY DEF Stuck
<1>2. main = "error"
  BY <1>1 DEF Returned, GetDataInv, Accounted, NoSendAfterClose
<1>3. PICK k \in Uids : /\ k \notin channel
                       /\ fetcher[k] \in {"none", "finish", "done"}
  BY <1>2 DEF FailedOne
<1>4. /\ Stuck \intersect channel = {}
      /\ k \notin Stuck \union channel
      /\ Stuck \union channel \union {k} \subseteq Uids
  BY <1>1, <1>3 DEF GetDataInv, TypeOK, Accounted
<1>5. IsFiniteSet(Uids) /\ Cardinality(Uids) = NumUids
  BY FS_Interval, GetDataAssumption DEF Uids, GetDataAssumption
<1>6. IsFiniteSet(Stuck) /\ IsFiniteSet(channel)
  BY <1>4, <1>5, FS_Subset
<1>7. /\ IsFiniteSet(Stuck \union channel)
      /\ Cardinality(Stuck \union channel) =
           Cardinality(Stuck) + Cardinality(channel)
  <2>1. Cardinality(Stuck \intersect channel) = 0
    BY <1>4, FS_EmptySet
  <2>2. Cardinality(Stuck \union channel) =
          Cardinality(Stuck) + Cardinality(channel)
            - Cardinality(Stuck \intersect channel)
    BY <1>6, FS_Union
  <2> QED
    BY <1>6, <2>1, <2>2, FS_Union, FS_CardinalityType
<1>8. Cardinality(Stuck \union channel \union {k}) =
        Cardinality(Stuck) + Cardinality(channel) + 1
  BY <1>4, <1>7, FS_AddElement
<1>9. Cardinality(Stuck \union channel \union {k}) <= NumUids
  BY <1>4, <1>5, FS_Subset
<1>10. /\ Cardinality(Stuck) \in Nat
       /\ Cardinality(channel) \in Nat
  BY <1>6, FS_CardinalityType
<1>11. Cardinality(channel) >= Concurrency
  BY <1>1, <1>10, GetDataAssumption DEF CanSend, GetDataAssumption
<1> QED
  BY <1>8, <1>9, <1>10, <1>11, GetDataAssumption DEF GetDataAssumption

(* A call that fails leaves behind at most the goroutines for which there  *)
(* is no place in the buffer, but for the one whose answer failed.         *)
THEOREM FewGoroutinesLeak == Spec => []LeakBound
<1>1. Init => FailedOne
  BY DEF Init, FailedOne
<1> QED
  BY <1>1, FailedOneNext, LeakIsBound, GetDataInvariant, PTL DEF Spec

-----------------------------------------------------------------------------
(* Every step of the call is a step of Fetch, or none that its caller can  *)
(* notice.                                                                 *)
LEMMA StepImplementsFetch ==
  ASSUME GetDataInv, GetDataInv', [Next]_vars
  PROVE  [Promise!FetchNext]_(Promise!call)
<1> USE DEF Promise!FetchNext, Promise!call, Returned
<1>1. CASE Receive
  <2>1. PICK k \in channel :
          \/ answer[k] = "thing" /\ things' = things \union {k} /\ main' = main
          \/ answer[k] # "thing" /\ main' = "error" /\ things' = things
    BY <1>1 DEF Receive
  <2>2. main = "receive" /\ k \in Uids
    BY <1>1, <2>1 DEF Receive, GetDataInv, TypeOK
  <2>3. CASE k \in things /\ main' = main
    BY <2>1, <2>2, <2>3
  <2>4. CASE k \notin things /\ main' = main
    BY <2>1, <2>2, <2>4 DEF Promise!Collect
  <2>5. CASE main' = "error"
    BY <2>1, <2>2, <2>5 DEF Promise!Fail
  <2> QED
    BY <2>1, <2>3, <2>4, <2>5
<1>2. CASE Return
  <2>1. AllOrError'
    BY CompleteInv, PTL
  <2>2. things = Uids
    BY <1>2, <2>1 DEF Return, AllOrError, Uids
  <2> QED
    BY <1>2, <2>2 DEF Return, Promise!Succeed
<1>3. CASE ParseFails
  BY <1>3 DEF ParseFails, Promise!Fail
<1>4. CASE Spawn \/ SpawnCloser
  BY <1>4 DEF Spawn, SpawnCloser
<1>5. ASSUME NEW k \in Uids, Fetcher(k)
      PROVE  UNCHANGED <<main, things>>
  BY <1>5 DEF Fetcher, Fetch, Send, Done
<1>6. CASE Close
  BY <1>6 DEF Close
<1>7. CASE UNCHANGED vars
  BY <1>7 DEF vars
<1> QED
  BY <1>1, <1>2, <1>3, <1>4, <1>5, <1>6, <1>7 DEF Next, Caller

(* GetData keeps the promise of Fetch. *)
THEOREM GetDataImplementsFetch == Spec => ImplementsFetch
<1>1. Init => Promise!FetchInit
  BY DEF Init, Promise!FetchInit, Returned
<1> QED
  BY <1>1, StepImplementsFetch, GetDataInvariant, PTL
     DEF ImplementsFetch, Promise!FetchSpec, Spec
=============================================================================
