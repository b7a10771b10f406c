------------------------------ MODULE Postgres ------------------------------
(***************************************************************************)
(* The tables of Kudzu's database that more than one component works on,   *)
(* and the SQL statements of pkg/postgres as operators on them.            *)
(*                                                                         *)
(* A table is a function from its key to its row; the rows it holds are    *)
(* its domain, so "sql.ErrNoRows" is key \notin DOMAIN table.  Every       *)
(* operator here is one statement, which PostgreSQL runs atomically; the   *)
(* modules that use them decide what happens between two statements.       *)
(*                                                                         *)
(*   identities   user   -> [created_at, indexed_at]                       *)
(*   things       location_identifier ->                                   *)
(*                  [uid, owner, nickname, geo, last, uploaded]            *)
(*                                                                         *)
(* Sample times count from the first sample of a location, which is 1, and *)
(* clock times start at 1; 0 is a NULL column, which Go reads as the zero  *)
(* time and compares as earlier than every other.                          *)
(***************************************************************************)
EXTENDS Integers

Null == 0

(* A table holding no row. *)
Empty == [k \in {} |-> Null]

(* The table with the row of "key" inserted or replaced. *)
Put(table, key, row) ==
  [k \in DOMAIN table \union {key} |-> IF k = key THEN row ELSE table[k]]

(* The table without the row of "key". *)
Remove(table, key) == [k \in DOMAIN table \ {key} |-> table[k]]

(* Whether t is a table whose keys are in K and whose rows are in R. *)
IsTable(t, K, R) == DOMAIN t \subseteq K /\ t \in [DOMAIN t -> R]

-----------------------------------------------------------------------------
(* identities *)

(* WHERE indexed_at IS NULL OR indexed_at < NOW() - interval '24 hours' *)
IsDue(identity, now, period) ==
  \/ identity.indexed_at = Null
  \/ identity.indexed_at < now - period

(* A slip: ORDER BY indexed_at DESC NULLS FIRST, the latest comes first.   *)
IsBeforeLatestFirst(r, s) ==
  \/ r.indexed_at = Null /\ s.indexed_at # Null
  \/ s.indexed_at # Null /\ r.indexed_at > s.indexed_at
  \/ r.indexed_at = s.indexed_at /\ r.created_at > s.created_at

(* ORDER BY indexed_at ASC NULLS FIRST, created_at DESC: NULL, being 0,    *)
(* is below every time.                                                    *)
IsBefore(r, s) ==
  \/ r.indexed_at < s.indexed_at
  \/ r.indexed_at = s.indexed_at /\ r.created_at > s.created_at

(* The identities the query of NextIdentity may return: the first in order *)
(* of those that are due and whose row no other transaction has locked     *)
(* (FOR UPDATE SKIP LOCKED LIMIT 1), one of several when they tie.         *)
NextIdentities(identities, locked, now, period) ==
  LET due == {u \in DOMAIN identities \ locked :
                 IsDue(identities[u], now, period)}
  IN  {u \in due : \A v \in due : ~IsBefore(identities[v], identities[u])}

(* A slip: the claim leaves no mark. *)
LeaveUnmarked(identities, u, now) == identities

(* UPDATE identities SET indexed_at = NOW() *)
SetIndexed(identities, u, now) ==
  [identities EXCEPT ![u].indexed_at = now]

(* SaveUser: one statement inserts the user and its identity. *)
InsertUser(identities, u, now) ==
  Put(identities, u, [created_at |-> now, indexed_at |-> Null])

(* DeleteUser: the identity goes with its user (ON DELETE CASCADE). *)
DeleteUserRow(identities, u) == Remove(identities, u)

(* The DELETE fails for a user with things: their owner_id would be set to *)
(* NULL (ON DELETE SET NULL), which the column does not allow.             *)
CanDeleteUser(things, u) == \A l \in DOMAIN things : things[l].owner # u

-----------------------------------------------------------------------------
(* things *)

(* Whether the INSERT of CreateThing meets the table's constraints: the    *)
(* location_identifier and the uid are UNIQUE, owner_id REFERENCES users.  *)
CanInsertThing(things, identities, location, row) ==
  /\ location \notin DOMAIN things
  /\ \A l \in DOMAIN things : things[l].uid # row.uid
  /\ row.owner \in DOMAIN identities

(* A slip: the watermark becomes the last sample known, not the last one   *)
(* uploaded.                                                               *)
UpdateThingToLast(things, location, row) ==
  [l \in DOMAIN things |->
     IF l = location
       THEN [things[l] EXCEPT !.nickname = row.nickname,
                              !.last     = row.last,
                              !.uploaded = row.last]
       ELSE things[l]]

(* UpdateThing writes nickname, sample times and watermark of the row with *)
(* that location_identifier, whatever it holds now; owner, uid and         *)
(* geolocation keep the values in the table.  No such row is no error.     *)
UpdateThing(things, location, row) ==
  [l \in DOMAIN things |->
     IF l = location
       THEN [things[l] EXCEPT !.nickname = row.nickname,
                              !.last     = row.last,
                              !.uploaded = row.uploaded]
       ELSE things[l]]

UpdateNickname(things, location, nickname) ==
  [l \in DOMAIN things |->
     IF l = location THEN [things[l] EXCEPT !.nickname = nickname]
                     ELSE things[l]]

(* UpdateGeolocation finds the row by its uid, which is UNIQUE too. *)
UpdateGeolocation(things, location, place) ==
  [l \in DOMAIN things |->
     IF l = location THEN [things[l] EXCEPT !.geo = place] ELSE things[l]]
=============================================================================
