--------------------------- MODULE MCTransactions ---------------------------
(***************************************************************************)
(* Small instances of Transactions for TLC: u1 and u2 are one person, who  *)
(* may register again after having been deleted.                           *)
(***************************************************************************)
EXTENDS Transactions

CONSTANTS a1

OnePerson == [u \in Users |-> a1]

AllRows == [uid : UIDs, owner : Users, nickname : Nicknames]
=============================================================================
