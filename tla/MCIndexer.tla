----------------------------- MODULE MCIndexer -----------------------------
(***************************************************************************)
(* Small instances of Indexer for TLC.  u1 has locations l1 and l2 at      *)
(* Parrot, u2 has l3; the .cfg files choose which of them exist.           *)
(***************************************************************************)
EXTENDS Indexer, TLC

CONSTANTS u1, l1, l2, p1, x1

(* One user with all the locations. *)
OneOwner == [u \in Users |-> IF u = u1 THEN Locations ELSE {}]

(* The first user has all locations but l2, the others have l2. *)
TwoOwners ==
  [u \in Users |-> IF u = u1 THEN Locations \ {l2} ELSE Locations \intersect {l2}]

AllHome == [l \in Locations |-> p1]

NoLegacy == Empty

(* l1 was created by an earlier release: it has a uid, but no watermark. *)
LegacyL1 == [l \in {l1} |-> [uid |-> x1, owner |-> u1]]

IndexerSymmetry == Permutations(Indexers)

-----------------------------------------------------------------------------
(***************************************************************************)
(* A clock and failures that do not run out, in finitely many states.      *)
(* Whether an identity is due and which of two comes first depend on the   *)
(* order of the times, and on their distance from the present up to one    *)
(* Period.  So an instant further back than that and in no row can be      *)
(* taken out of the calendar: every later time moves down by one, and the  *)
(* clock has room for another Tick.                                        *)
(***************************************************************************)
Instants ==
  {identities[u].indexed_at : u \in DOMAIN identities} \union
  {identities[u].created_at : u \in DOMAIN identities} \union
  {since[i] : i \in Indexers}

Earlier(t, gap) == IF t > gap THEN t - 1 ELSE t

Rebase ==
  \E gap \in (1..(now - Period - 1)) \ Instants :
    /\ now' = Earlier(now, gap)
    /\ identities' = [u \in DOMAIN identities |->
                        LET r == identities[u]
                        IN  [created_at |-> Earlier(r.created_at, gap),
                             indexed_at |-> Earlier(r.indexed_at, gap)]]
    /\ since' = [i \in Indexers |-> Earlier(since[i], gap)]
    /\ UNCHANGED <<parrot, remote, things, pc, user, todo, loc, isNew, copy,
                   faults>>

(* A user other than u1 may have taken back the access to Parrot: every    *)
(* pass over that identity fails.                                          *)
Denied ==
  \E i \in Indexers :
    /\ pc[i] = "status"
    /\ user[i] # u1
    /\ EndPass(i)
    /\ UNCHANGED <<external, remote, tables, faults>>

EndlessSpec == Init /\ [][Next \/ Rebase \/ Denied]_vars /\ Fairness
=============================================================================
