-------------------------------- MODULE Fetch --------------------------------
(***************************************************************************)
(* What a call of Thingful.GetData promises to the handler that makes it:  *)
(* it collects the things of the uids asked for, one at a time and in any  *)
(* order, and returns them all, or it returns an error.  GetData says how  *)
(* the call does it and is shown to implement this; Timeseries, which      *)
(* makes the call, needs no more than this.                                *)
(*                                                                         *)
(* A call is made for the positions of a list of uids: the list may name   *)
(* one uid twice.                                                          *)
(***************************************************************************)

CONSTANT Calls      \* the sets of positions a call may be made for

VARIABLES
  wanted,      \* the positions asked for
  collected,   \* the positions whose things have been received
  status       \* "pending", "ok" or "error"

call == <<wanted, collected, status>>

Begin(positions) ==
  /\ wanted' = positions
  /\ collected' = {}
  /\ status' = "pending"

FetchInit ==
  /\ wanted \in Calls
  /\ collected = {}
  /\ status = "pending"

Collect(k) ==
  /\ status = "pending"
  /\ k \in wanted \ collected
  /\ collected' = collected \union {k}
  /\ UNCHANGED <<wanted, status>>

Succeed ==
  /\ status = "pending"
  /\ collected = wanted
  /\ status' = "ok"
  /\ UNCHANGED <<wanted, collected>>

Fail ==
  /\ status = "pending"
  /\ status' = "error"
  /\ UNCHANGED <<wanted, collected>>

FetchNext == Succeed \/ Fail \/ \E k \in wanted : Collect(k)

FetchSpec == FetchInit /\ [][FetchNext]_call
=============================================================================
