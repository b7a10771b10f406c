------------------------------- MODULE MCApi -------------------------------
(***************************************************************************)
(* Small instances of Api for TLC.  One scope is refused, one is the       *)
(* default, and one has two claims.                                        *)
(***************************************************************************)
EXTENDS Api, TLC

AskedScopes ==
  {<<>>, <<"metadata", "create-users">>, <<"bananas", "timeseries">>}

ApiSymmetry == Permutations(Requests)
=============================================================================
