------------------------------- MODULE Tables -------------------------------
(***************************************************************************)
(* The database as the rest of Kudzu may think of it: every transaction of *)
(* pkg/postgres is one step that either happens as a whole or not at all,  *)
(* and happens only when the constraints of the schema allow it.  Indexer  *)
(* and Kudzu use the statements of Postgres in this way; Transactions says *)
(* how the transactions really run, with their locks and failures, and is  *)
(* shown to implement this.                                                *)
(***************************************************************************)
EXTENDS Postgres

CONSTANTS
  Users,        \* ids of rows of table users
  Accounts,     \* accounts at Parrot (column parrot_id)
  Account,      \* Account[u]: the account of user u
  Locations,    \* Parrot's location identifiers
  Rows,         \* rows of table things
  Nicknames,    \* plant nicknames
  Sources       \* the data sources a thing has a channel for

VARIABLES
  identities,   \* table identities, and with it table users
  things,       \* table things
  channels      \* table channels: pairs of a thing's uid and a data source

database == <<identities, things, channels>>

(* The time of the transactions, and the rest between two claims. *)
Today == 1
Rest  == 1

TablesInit ==
  /\ things = Empty
  /\ channels = {}
  /\ DOMAIN identities \subseteq Users
  /\ \A u \in DOMAIN identities :
       identities[u] = [created_at |-> Today, indexed_at |-> Null]
  /\ \A u, v \in DOMAIN identities : Account[u] = Account[v] => u = v

(* A thing comes with a channel for every data source. *)
CreateThing(l, row) ==
  /\ CanInsertThing(things, identities, l, row)
  /\ things' = Put(things, l, row)
  /\ channels' = channels \union ({row.uid} \X Sources)
  /\ UNCHANGED identities

UpdateThings(l, nickname) ==
  /\ things' = UpdateNickname(things, l, nickname)
  /\ UNCHANGED <<identities, channels>>

(* Only a user whom no row of table things refers to can be deleted. *)
DeleteUser(u) ==
  /\ CanDeleteUser(things, u)
  /\ identities' = DeleteUserRow(identities, u)
  /\ UNCHANGED <<things, channels>>

(* parrot_id is UNIQUE. *)
SaveUser(u) ==
  /\ \A v \in DOMAIN identities : Account[v] # Account[u]
  /\ identities' = InsertUser(identities, u, Today)
  /\ UNCHANGED <<things, channels>>

(* An identity that is claimed is due and not claimed by anyone else. *)
NextIdentity(u) ==
  /\ u \in DOMAIN identities
  /\ IsDue(identities[u], Today, Rest)
  /\ identities' = SetIndexed(identities, u, Today)
  /\ UNCHANGED <<things, channels>>

TablesNext ==
  \/ \E l \in Locations :
       \/ \E row \in Rows : CreateThing(l, row)
       \/ \E nickname \in Nicknames : UpdateThings(l, nickname)
  \/ \E u \in Users : DeleteUser(u) \/ SaveUser(u) \/ NextIdentity(u)

TablesSpec == TablesInit /\ [][TablesNext]_database
=============================================================================
