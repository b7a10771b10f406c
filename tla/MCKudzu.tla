------------------------------ MODULE MCKudzu ------------------------------
(* Small instances of Kudzu for TLC: one account, whose owner may register *)
(* again after having been deleted.                                        *)
EXTENDS Kudzu, TLC

CONSTANTS a1, p1

OneAccount == [u \in Users |-> a1]

AllOwned == [u \in Users |-> Locations]

AllHome == [l \in Locations |-> p1]

NoLegacy == Empty
=============================================================================
