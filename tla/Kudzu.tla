-------------------------------- MODULE Kudzu --------------------------------
(***************************************************************************)
(* The indexer together with the handlers of the HTTP API that write the   *)
(* same tables and the same things at Thingful (pkg/http/handlers):        *)
(*                                                                         *)
(*   newUserHandler         one statement inserts user and identity        *)
(*   deleteUserHandler      one statement, subject to the foreign keys     *)
(*   updateLocationHandler  UPDATE things, and then PATCH at Thingful      *)
(*                                                                         *)
(* A user and its identity come and go together, so the domain of          *)
(* identities is the set of users.  The audit trail of geolocations, which *)
(* a trigger writes and nothing reads, is left out.                        *)
(***************************************************************************)
EXTENDS Indexer

CONSTANTS
  Requests,     \* the calls of updateLocationHandler that run at a time
  Accounts,     \* accounts at Parrot
  Account       \* Account[u]: the account the access token of u gives

(* A person who was deleted and registers again is another user with the   *)
(* same account; no location is listed for two accounts, and Parrot's      *)
(* answers are finite.                                                     *)
ASSUME AccountAssumption ==
  /\ Account \in [Users -> Accounts]
  /\ \A u \in Users : IsFiniteSet(Owned[u])
  /\ \A u, v \in Users : IF Account[u] = Account[v]
                           THEN Owned[u] = Owned[v]
                           ELSE Owned[u] \intersect Owned[v] = {}
  /\ \A u, v \in Registered : Account[u] = Account[v] => u = v

VARIABLES
  request,      \* per call of updateLocationHandler: what it will send
  deleted       \* the users that have been deleted; ids are not reused

handlers == <<request, deleted>>

(* What the UPDATE of the handler returns and Thingful is sent. *)
Geolocation == [uid : UIDs, title : Nicknames \union {None}, geo : Places]

KudzuTypeOK ==
  /\ TypeOK
  /\ request \in [Requests -> Geolocation \union {None}]
  /\ deleted \in SUBSET (Users \ DOMAIN identities)

KudzuInit ==
  /\ Init
  /\ request = [r \in Requests |-> None]
  /\ deleted = {}

-----------------------------------------------------------------------------
(* updateLocationHandler *)

(* The UPDATE finds the row of a uid, and returns it.  An unknown uid is   *)
(* an error that leaves everything as it is.                               *)
UpdateLocation(r) ==
  /\ request[r] = None
  /\ \E l \in DOMAIN things : \E place \in Places :
       /\ things' = UpdateGeolocation(things, l, place)
       /\ request' = [request EXCEPT ![r] =
                        [uid |-> things[l].uid, title |-> things[l].nickname,
                         geo |-> place]]
  /\ UNCHANGED <<external, remote, identities, pc, locals, faults, deleted>>

(* The handler answers 500, but the COMMIT may have been executed. *)
UpdateLocationFails(r) ==
  /\ request[r] = None
  /\ Fault("db")
  /\ \E l \in DOMAIN things : \E place \in Places :
       things' = UpdateGeolocation(things, l, place)
  /\ UNCHANGED <<external, remote, identities, pc, locals, handlers>>

(* thingful.UpdateThing without readings. *)
StoreGeolocation(r) ==
  LET sent == request[r] IN
  remote' = Put(remote, sent.uid,
                [location |-> remote[sent.uid].location,
                 title |-> sent.title, geo |-> sent.geo,
                 obs |-> remote[sent.uid].obs])

PushLocation(r) ==
  /\ request[r] # None
  /\ StoreGeolocation(r)
  /\ request' = [request EXCEPT ![r] = None]
  /\ UNCHANGED <<external, tables, pc, locals, faults, deleted>>

(* The handler answers 500, or its process dies; the database keeps the    *)
(* new place, and Thingful may have it.                                    *)
PushLocationFails(r) ==
  /\ request[r] # None
  /\ Fault("thingful") \/ Fault("crash")
  /\ \/ UNCHANGED remote
     \/ StoreGeolocation(r)
  /\ request' = [request EXCEPT ![r] = None]
  /\ UNCHANGED <<external, tables, pc, locals, deleted>>

-----------------------------------------------------------------------------
(* newUserHandler and deleteUserHandler *)

(* parrot_id is UNIQUE.  What the handler does next, asking Parrot for the *)
(* locations, changes its answer and nothing else.  An error leaves things *)
(* as they are, or comes after a COMMIT that was executed: neither needs   *)
(* an action of its own.                                                   *)
SaveUser(u) ==
  /\ u \notin DOMAIN identities \union deleted
  /\ \A v \in DOMAIN identities : Account[v] # Account[u]
  /\ identities' = InsertUser(identities, u, now)
  /\ UNCHANGED <<external, remote, things, pc, locals, faults, handlers>>

(* A slip: the rows of table things do not hold a user back. *)
DeleteAnyUser(u) ==
  /\ u \in DOMAIN identities \ Locked
  /\ identities' = DeleteUserRow(identities, u)
  /\ deleted' = deleted \union {u}
  /\ UNCHANGED <<external, remote, things, pc, locals, faults, request>>

(* The DELETE waits for a row that NextIdentity has locked.  A pass over   *)
(* the user's locations goes on.                                           *)
DeleteUser(u) ==
  /\ u \in DOMAIN identities \ Locked
  /\ CanDeleteUser(things, u)
  /\ identities' = DeleteUserRow(identities, u)
  /\ deleted' = deleted \union {u}
  /\ UNCHANGED <<external, remote, things, pc, locals, faults, request>>

-----------------------------------------------------------------------------
Handler ==
  \/ \E r \in Requests : \/ UpdateLocation(r) \/ UpdateLocationFails(r)
                         \/ PushLocation(r)   \/ PushLocationFails(r)
  \/ \E u \in Users : SaveUser(u) \/ DeleteUser(u)

KudzuNext ==
  \/ Next /\ UNCHANGED handlers
  \/ Handler

KudzuSpec == KudzuInit /\ [][KudzuNext]_<<vars, handlers>>

(* As in Indexer: nothing is assumed of clients, sensors and faults. *)
KudzuFairSpec == KudzuSpec /\ \A i \in Indexers :
                   WF_<<vars, handlers>>(Step(i) /\ UNCHANGED handlers)

-----------------------------------------------------------------------------
(* Properties *)

(* The users that have been deleted, each with each of its locations.      *)
Abandoned == {p \in deleted \X Locations : p[2] \in Owned[p[1]]}

(* Besides one thing for each fault, what is stranded at Thingful are      *)
(* things of users deleted in the middle of a pass: for each location of   *)
(* such a user the pass may still create a thing, whose INSERT the foreign *)
(* key then rejects, but none of them twice.                               *)
StrandedByDeletion ==
  Cardinality(Stranded) <= faults + Cardinality(Abandoned)

(* Every thing in the table belongs to a user who is registered, although  *)
(* passes insert things for the identity they read at their start.         *)
OwnersRegistered ==
  \A l \in DOMAIN things : things[l].owner \in DOMAIN identities

(* Whether Parrot lists l for user u in the answers to the next pass. *)
Listed(u, l) == l \in Owned[u] \intersect Fitted /\ IsValid(l)

(* A nickname that Parrot shows when an identity is due reaches the row of *)
(* the location, new data or not, unless the plant is renamed again, the   *)
(* user is deleted or a call fails.                                        *)
NicknameFollows ==
  \A u \in Users : \A l \in Locations : \A n \in Nicknames :
    (Pending(u) /\ Listed(u, l) /\ parrot[l].nickname = n)
      ~> \/ l \in DOMAIN things /\ things[l].nickname = n
         \/ parrot[l].nickname # n
         \/ u \notin DOMAIN identities
         \/ faults > 0

(* Whether Thingful shows the place of the row of l. *)
Shown(l, p) == things[l].geo = p /\ remote[things[l].uid].geo = p

(* The place that a handler has stored reaches Thingful with the next pass *)
(* that has samples to send, though the handler's own call, or a chunk of  *)
(* an earlier pass, may have left an older place there: a disagreement of  *)
(* the database and Thingful does not outlive new data.                    *)
GeolocationRepaired ==
  \A u \in Users : \A l \in Locations : \A p \in Places :
    (/\ Pending(u) /\ Listed(u, l) /\ \A i \in Indexers : user[i] # u
     /\ l \in DOMAIN things
     /\ things[l].geo = p
     /\ things[l].uploaded < parrot[l].last)
      ~> (l \in DOMAIN things /\ (things[l].geo = p => Shown(l, p)))
         \/ faults > 0
=============================================================================
