------------------------------ MODULE Delivery ------------------------------
(***************************************************************************)
(* What the indexer promises to the readers of its two stores: Thingful    *)
(* holds things with their observations, the database records for every    *)
(* location the thing that carries its samples and a number of samples     *)
(* that have been delivered there.                                         *)
(*                                                                         *)
(* A step changes one of the two stores, at one place, and nothing that    *)
(* has been delivered or recorded is ever taken back: the observations of  *)
(* a thing only grow, a location keeps its record and its thing.  A record *)
(* never runs ahead of what Thingful holds.  How many indexers there are,  *)
(* in which windows they copy and what fails is not said here: Indexer     *)
(* says it and is shown to implement this.                                 *)
(***************************************************************************)
EXTENDS Integers

CONSTANTS UIDs, Locations

VARIABLES
  stored,      \* Thingful: uid -> [location, obs]
  recorded     \* the database: location -> [uid, upto]

delivery == <<stored, recorded>>

(* The first n samples of location l are stored under uid. *)
Delivered(l, uid, n) ==
  /\ uid \in DOMAIN stored
  /\ stored[uid].location = l
  /\ 1..n \subseteq stored[uid].obs

(* Things and records of an earlier release may be there already. *)
DeliveryInit ==
  /\ DOMAIN stored \subseteq UIDs
  /\ DOMAIN recorded \subseteq Locations
  /\ \A l \in DOMAIN recorded :
       Delivered(l, recorded[l].uid, recorded[l].upto)

(* Everything of a table but the row of "key" stays as it is. *)
Keeps(old, new, key) == \A k \in DOMAIN old \ {key} : new[k] = old[k]

(* A thing for a location appears, with its first samples. *)
Announce(uid) ==
  /\ DOMAIN stored' = DOMAIN stored \union {uid}
  /\ uid \notin DOMAIN stored
  /\ stored'[uid].location \in Locations
  /\ Keeps(stored, stored', uid)
  /\ UNCHANGED recorded

(* More samples are stored with a thing. *)
Deliver(uid) ==
  /\ uid \in DOMAIN stored
  /\ DOMAIN stored' = DOMAIN stored
  /\ stored'[uid].location = stored[uid].location
  /\ stored[uid].obs \subseteq stored'[uid].obs
  /\ Keeps(stored, stored', uid)
  /\ UNCHANGED recorded

(* A location is recorded, with a thing of its own. *)
Enter(l) ==
  /\ l \notin DOMAIN recorded
  /\ DOMAIN recorded' = DOMAIN recorded \union {l}
  /\ Delivered(l, recorded'[l].uid, recorded'[l].upto)
  /\ \A m \in DOMAIN recorded : recorded[m].uid # recorded'[l].uid
  /\ Keeps(recorded, recorded', l)
  /\ UNCHANGED stored

(* The number of samples recorded changes.  It may go down when two passes *)
(* over one identity overlap, and samples are then delivered twice.        *)
Mark(l) ==
  /\ l \in DOMAIN recorded
  /\ DOMAIN recorded' = DOMAIN recorded
  /\ recorded'[l].uid = recorded[l].uid
  /\ Delivered(l, recorded[l].uid, recorded'[l].upto)
  /\ Keeps(recorded, recorded', l)
  /\ UNCHANGED stored

DeliveryNext ==
  \/ \E uid \in UIDs : Announce(uid) \/ Deliver(uid)
  \/ \E l \in Locations : Enter(l) \/ Mark(l)

DeliverySpec == DeliveryInit /\ [][DeliveryNext]_delivery
=============================================================================
