---------------------------- MODULE Transactions ----------------------------
(***************************************************************************)
(* The transactions of pkg/postgres, statement by statement, as PostgreSQL *)
(* runs them at its default level READ COMMITTED:                          *)
(*                                                                         *)
(*   create   CreateThing: INSERT INTO things, then for each data source   *)
(*            an upsert and an INSERT INTO channels                        *)
(*   update   UpdateThing, UpdateNickname and UpdateGeolocation: one       *)
(*            UPDATE of one row of things                                  *)
(*   delete   DeleteUser: DELETE FROM users, with what the foreign keys    *)
(*            make of it                                                   *)
(*   save     SaveUser: users and identities, in one statement             *)
(*   claim    NextIdentity: select and update with FOR UPDATE SKIP LOCKED  *)
(*                                                                         *)
(* A statement that touches a row waits for the transactions that have     *)
(* locked it, and its own locks stay until its transaction has ended.      *)
(* What a transaction has written is seen by others when it has committed. *)
(* A key of a UNIQUE index is locked like a row.                           *)
(***************************************************************************)
EXTENDS Tables

CONSTANTS
  Sessions,     \* connections to the database, each with its client
  UIDs,         \* uids of things
  Registered,   \* the users at the start
  MaxFaults,    \* bound: statements, commits and connections that fail
  NumSources,   \* how many data sources makeChannels lists
  None          \* no transaction

ASSUME TransactionsAssumption ==
  /\ NumSources \in Nat \ {0}
  /\ Sources = 1..NumSources
  /\ MaxFaults \in Nat
  /\ Account \in [Users -> Accounts]
  /\ Registered \subseteq Users
  /\ \A u, v \in Registered : Account[u] = Account[v] => u = v

VARIABLES
  at,           \* per session: the statement it runs next
  work,         \* per session: the transaction it runs, with its arguments
  next,         \* per session: the number of the next data source
  held,         \* per session: its locks
  ids,          \* history: the user ids given out, which are not reused
  faults        \* how many faults have happened

sessions == <<at, work, next, held>>
vars     == <<identities, things, channels, at, work, next, held, ids, faults>>

(* Locks on rows, and on keys of a UNIQUE index. *)
Thing(l)    == <<"thing", l>>
User(u)     == <<"user", u>>
Identity(u) == <<"identity", u>>
Source(k)   == <<"source", k>>
Parrot(a)   == <<"account", a>>

Locks ==
  {Thing(l) : l \in Locations} \union {User(u) : u \in Users} \union
  {Identity(u) : u \in Users} \union {Source(k) : k \in Sources} \union
  {Parrot(a) : a \in Accounts}

Creates == [kind : {"create"}, location : Locations, row : Rows]
Updates == [kind : {"update"}, location : Locations, nickname : Nicknames]
OnUsers == [kind : {"delete", "save", "claim"}, user : Users]

(* The columns of table things that the transactions look at; no session   *)
(* runs None.                                                              *)
ASSUME RowsAssumption ==
  /\ Rows = [uid : UIDs, owner : Users, nickname : Nicknames]
  /\ None \notin Creates \union Updates \union OnUsers

Statements == {"idle", "insertThing", "checkOwner", "upsert", "channel",
               "updateThing", "deleteUser", "cascade", "setNull",
               "insertUser", "commit"}

TypeOK ==
  /\ IsTable(identities, Users, [created_at : Nat, indexed_at : Nat])
  /\ IsTable(things, Locations, Rows)
  /\ channels \in SUBSET (UIDs \X Sources)
  /\ at \in [Sessions -> Statements]
  /\ work \in [Sessions -> Creates \union Updates \union OnUsers \union {None}]
  /\ next \in [Sessions -> 1..(NumSources + 1)]
  /\ held \in [Sessions -> SUBSET Locks]
  /\ ids \in SUBSET Users
  /\ faults \in 0..MaxFaults

Init ==
  /\ identities = [u \in Registered |-> [created_at |-> Today,
                                         indexed_at |-> Null]]
  /\ things = Empty
  /\ channels = {}
  /\ at = [s \in Sessions |-> "idle"]
  /\ work = [s \in Sessions |-> None]
  /\ next = [s \in Sessions |-> 1]
  /\ held = [s \in Sessions |-> {}]
  /\ ids = Registered
  /\ faults = 0

-----------------------------------------------------------------------------
(* Locks *)

(* The foreign key of an INSERT INTO things locks the row of the user FOR  *)
(* KEY SHARE: inserts share it, a DELETE does not.                         *)
Shared(s, t, lock) ==
  /\ \E u \in Users : lock = User(u)
  /\ at[s] = "checkOwner"
  /\ work[t] \in Creates

Conflict(s, t, lock) ==
  /\ t # s
  /\ lock \in held[t]
  /\ ~Shared(s, t, lock)

Free(s, lock) == \A t \in Sessions : ~Conflict(s, t, lock)

Hold(s, locks) == held' = [held EXCEPT ![s] = @ \union locks]

Goto(s, statement) == at' = [at EXCEPT ![s] = statement]

(* The transaction of s is over, and its locks are released. *)
End(s) ==
  /\ Goto(s, "idle")
  /\ work' = [work EXCEPT ![s] = None]
  /\ next' = [next EXCEPT ![s] = 1]
  /\ held' = [held EXCEPT ![s] = {}]

(* A slip: an error path that returns without tx.Rollback(). *)
Abandon(s) ==
  /\ Goto(s, "idle")
  /\ work' = [work EXCEPT ![s] = None]
  /\ next' = [next EXCEPT ![s] = 1]
  /\ UNCHANGED held

(* tx.Rollback(), on every error path. *)
Rollback(s) == End(s)

-----------------------------------------------------------------------------
(* BEGIN *)

(* Thingful gives a uid to one thing only. *)
FreeUIDs ==
  UIDs \ ({things[l].uid : l \in DOMAIN things} \union
          {work[s].row.uid : s \in {t \in Sessions :
             work[t] # None /\ work[t].kind = "create"}})

Begin(s, statement, w) ==
  /\ at[s] = "idle"
  /\ Goto(s, statement)
  /\ work' = [work EXCEPT ![s] = w]
  /\ UNCHANGED <<database, next, faults>>

(* A pass stores a thing for the identity it has read; the user may be     *)
(* deleted before the INSERT is run.                                       *)
BeginCreate(s) ==
  /\ FreeUIDs # {}
  /\ \E l \in Locations : \E row \in Rows :
       /\ row.uid = CHOOSE uid \in FreeUIDs : TRUE
       /\ row.owner \in DOMAIN identities
       /\ Begin(s, "insertThing",
                [kind |-> "create", location |-> l, row |-> row])
  /\ UNCHANGED <<held, ids>>

(* The rows that are updated have been read, or inserted, before. *)
BeginUpdate(s) ==
  /\ \E l \in DOMAIN things : \E nickname \in Nicknames :
       Begin(s, "updateThing",
             [kind |-> "update", location |-> l, nickname |-> nickname])
  /\ UNCHANGED <<held, ids>>

BeginDelete(s) ==
  /\ \E u \in DOMAIN identities :
       Begin(s, "deleteUser", [kind |-> "delete", user |-> u])
  /\ UNCHANGED <<held, ids>>

BeginSave(s) ==
  /\ \E u \in Users \ ids :
       /\ Begin(s, "insertUser", [kind |-> "save", user |-> u])
       /\ ids' = ids \union {u}
  /\ UNCHANGED held

(* The rows that SKIP LOCKED passes over. *)
LockedIdentities ==
  {u \in Users : \E t \in Sessions : Identity(u) \in held[t]}

(* NextIdentity is one statement that never waits. *)
BeginClaim(s) ==
  /\ \E u \in NextIdentities(identities, LockedIdentities, Today, Rest) :
       /\ Begin(s, "commit", [kind |-> "claim", user |-> u])
       /\ Hold(s, {Identity(u)})
  /\ UNCHANGED ids

-----------------------------------------------------------------------------
(* CreateThing *)

(* The location and the uid are UNIQUE: the INSERT waits for a transaction *)
(* that inserts or updates a row with this location, and fails if there is *)
(* one in the table then.                                                  *)
InsertThing(s) ==
  LET w == work[s] IN
  /\ at[s] = "insertThing"
  /\ Free(s, Thing(w.location))
  /\ \/ /\ w.location \notin DOMAIN things
        /\ Hold(s, {Thing(w.location)})
        /\ Goto(s, "checkOwner")
        /\ UNCHANGED <<work, next>>
     \/ /\ w.location \in DOMAIN things
        /\ Rollback(s)
  /\ UNCHANGED <<database, ids, faults>>

(* A slip: the owner is looked up, and its row is not locked. *)
LookUpOwner(s) ==
  LET u == work[s].row.owner IN
  /\ at[s] = "checkOwner"
  /\ Free(s, User(u))
  /\ \/ /\ u \in DOMAIN identities
        /\ Goto(s, "upsert")
        /\ UNCHANGED <<work, next, held>>
     \/ /\ u \notin DOMAIN identities
        /\ Rollback(s)
  /\ UNCHANGED <<database, ids, faults>>

(* The foreign key on owner_id is checked at the end of the INSERT. *)
CheckOwner(s) ==
  LET u == work[s].row.owner IN
  /\ at[s] = "checkOwner"
  /\ Free(s, User(u))
  /\ \/ /\ u \in DOMAIN identities
        /\ Hold(s, {User(u)})
        /\ Goto(s, "upsert")
        /\ UNCHANGED <<work, next>>
     \/ /\ u \notin DOMAIN identities
        /\ Rollback(s)
  /\ UNCHANGED <<database, ids, faults>>

(* A slip: the data sources come out of a map, in any order. *)
SourceInAnyOrder(s) ==
  LET first == CHOOSE uid \in UIDs : TRUE IN
  Source(IF work[s].row.uid = first THEN NumSources + 1 - next[s] ELSE next[s])

(* makeChannels lists the data sources in an order that is always the      *)
(* same.                                                                   *)
NextSource(s) == Source(next[s])

(* INSERT ... ON CONFLICT (name) DO UPDATE locks the data source, whether  *)
(* the row is new or not.                                                  *)
UpsertSource(s) ==
  /\ at[s] = "upsert"
  /\ Free(s, NextSource(s))
  /\ Hold(s, {NextSource(s)})
  /\ Goto(s, "channel")
  /\ UNCHANGED <<database, work, next, ids, faults>>

(* A slip: the loop over the data sources runs once too often. *)
InsertOneMoreChannel(s) ==
  /\ at[s] = "channel"
  /\ next' = [next EXCEPT ![s] = @ + 1]
  /\ Goto(s, IF next[s] > NumSources THEN "commit" ELSE "upsert")
  /\ UNCHANGED <<database, work, held, ids, faults>>

(* INSERT INTO channels refers to rows this transaction has locked. *)
InsertChannel(s) ==
  /\ at[s] = "channel"
  /\ next' = [next EXCEPT ![s] = @ + 1]
  /\ Goto(s, IF next[s] = NumSources THEN "commit" ELSE "upsert")
  /\ UNCHANGED <<database, work, held, ids, faults>>

-----------------------------------------------------------------------------
(* UpdateThing, UpdateNickname and UpdateGeolocation *)

(* Rows of table things are never removed.                                 *)
UpdateRow(s) ==
  /\ at[s] = "updateThing"
  /\ Free(s, Thing(work[s].location))
  /\ Hold(s, {Thing(work[s].location)})
  /\ Goto(s, "commit")
  /\ UNCHANGED <<database, work, next, ids, faults>>

-----------------------------------------------------------------------------
(* DeleteUser *)

(* The DELETE locks the row, and with it the key of its account.  A user   *)
(* who is gone by now is no error.                                         *)
DeleteRow(s) ==
  LET u == work[s].user IN
  /\ at[s] = "deleteUser"
  /\ Free(s, User(u))
  /\ \/ /\ u \in DOMAIN identities
        /\ Hold(s, {User(u), Parrot(Account[u])})
        /\ Goto(s, "cascade")
     \/ /\ u \notin DOMAIN identities
        /\ Goto(s, "commit")
        /\ UNCHANGED held
  /\ UNCHANGED <<database, work, next, ids, faults>>

(* identities.owner_id ON DELETE CASCADE *)
Cascade(s) ==
  LET u == work[s].user IN
  /\ at[s] = "cascade"
  /\ Free(s, Identity(u))
  /\ Hold(s, {Identity(u)})
  /\ Goto(s, "setNull")
  /\ UNCHANGED <<database, work, next, ids, faults>>

ThingsOf(u) == {l \in DOMAIN things : things[l].owner = u}

(* things.owner_id ON DELETE SET NULL, but the column is NOT NULL: the     *)
(* first row fails, once it is not locked.                                 *)
SetOwnerNull(s) ==
  LET u == work[s].user IN
  /\ at[s] = "setNull"
  /\ \/ /\ ThingsOf(u) = {}
        /\ Goto(s, "commit")
        /\ UNCHANGED <<work, next, held>>
     \/ /\ \E l \in ThingsOf(u) : Free(s, Thing(l))
        /\ Rollback(s)
  /\ UNCHANGED <<database, ids, faults>>

-----------------------------------------------------------------------------
(* SaveUser *)

(* parrot_id is UNIQUE: the INSERT waits for a transaction that inserts or *)
(* deletes a user with this account, and fails if there is one then.       *)
InsertUserRow(s) ==
  LET a == Account[work[s].user] IN
  /\ at[s] = "insertUser"
  /\ Free(s, Parrot(a))
  /\ \/ /\ \A v \in DOMAIN identities : Account[v] # a
        /\ Hold(s, {Parrot(a)})
        /\ Goto(s, "commit")
        /\ UNCHANGED <<work, next>>
     \/ /\ \E v \in DOMAIN identities : Account[v] = a
        /\ Rollback(s)
  /\ UNCHANGED <<database, ids, faults>>

-----------------------------------------------------------------------------
(* COMMIT *)

(* The channels the transaction of s has inserted. *)
NewChannels(s) == {work[s].row.uid} \X {k \in Sources : k < next[s]}

(* What the transaction of s has written becomes visible, all at once.  A  *)
(* DELETE that found no row has written nothing.                           *)
Publish(s) ==
  LET w == work[s] IN
  \/ /\ w.kind = "create"
     /\ things' = Put(things, w.location, w.row)
     /\ channels' = channels \union NewChannels(s)
     /\ UNCHANGED identities
  \/ /\ w.kind = "update"
     /\ things' = UpdateNickname(things, w.location, w.nickname)
     /\ UNCHANGED <<identities, channels>>
  \/ /\ w.kind = "delete"
     /\ identities' = IF User(w.user) \in held[s]
                        THEN DeleteUserRow(identities, w.user)
                        ELSE identities
     /\ UNCHANGED <<things, channels>>
  \/ /\ w.kind = "save"
     /\ identities' = InsertUser(identities, w.user, Today)
     /\ UNCHANGED <<things, channels>>
  \/ /\ w.kind = "claim"
     /\ identities' = SetIndexed(identities, w.user, Today)
     /\ UNCHANGED <<things, channels>>

Commit(s) ==
  /\ at[s] = "commit"
  /\ Publish(s)
  /\ End(s)
  /\ UNCHANGED <<ids, faults>>

Fault ==
  /\ faults < MaxFaults
  /\ faults' = faults + 1

(* The client is told of an error; the transaction may have committed. *)
CommitFails(s) ==
  /\ at[s] = "commit"
  /\ Fault
  /\ Publish(s) \/ UNCHANGED database
  /\ End(s)
  /\ UNCHANGED ids

(* A statement fails and the code rolls back, or the connection is lost    *)
(* and the server does.                                                    *)
StatementFails(s) ==
  /\ at[s] \notin {"idle", "commit"}
  /\ Fault
  /\ Rollback(s)
  /\ UNCHANGED <<database, ids>>

-----------------------------------------------------------------------------
BeginTransaction(s) ==
  \/ BeginCreate(s) \/ BeginUpdate(s) \/ BeginDelete(s)
  \/ BeginSave(s)   \/ BeginClaim(s)

Step(s) ==
  \/ InsertThing(s)  \/ CheckOwner(s) \/ UpsertSource(s) \/ InsertChannel(s)
  \/ UpdateRow(s)    \/ DeleteRow(s)  \/ Cascade(s)      \/ SetOwnerNull(s)
  \/ InsertUserRow(s) \/ Commit(s)

Next ==
  \E s \in Sessions :
    BeginTransaction(s) \/ Step(s) \/ CommitFails(s) \/ StatementFails(s)

Spec == Init /\ [][Next]_vars

(* PostgreSQL grants a lock to those that wait for it in their order, so a *)
(* statement that finds the lock free again and again gets it.  Nobody has *)
(* to begin a transaction.                                                 *)
Fairness == \A s \in Sessions : SF_vars(Step(s))

FairSpec == Spec /\ Fairness

-----------------------------------------------------------------------------
(* Properties *)

(* The locks the next statement of s asks for; of the things of a user it  *)
(* may be any.                                                             *)
Wanted(s) ==
  LET w == work[s] IN
  CASE at[s] = "insertThing" -> {Thing(w.location)}
    [] at[s] = "checkOwner"  -> {User(w.row.owner)}
    [] at[s] = "upsert"      -> {NextSource(s)}
    [] at[s] = "updateThing" -> {Thing(w.location)}
    [] at[s] = "deleteUser"  -> {User(w.user)}
    [] at[s] = "cascade"     -> {Identity(w.user)}
    [] at[s] = "setNull"     -> {Thing(l) : l \in ThingsOf(w.user)}
    [] at[s] = "insertUser"  -> {Parrot(Account[w.user])}
    [] OTHER                 -> {}

WaitsFor(s, t) == \E lock \in Wanted(s) : Conflict(s, t, lock)

(* No transactions ever wait for one another in a circle: of any of them,  *)
(* one waits for none of the others.  All of them take locks in one order: *)
(* thing, user, then the data sources as makeChannels lists them, or user, *)
(* identity, things.                                                       *)
NoWaitCycle ==
  \A S \in SUBSET Sessions :
    S # {} => \E s \in S : \A t \in S : ~WaitsFor(s, t)

(* A transaction of several statements, with others between them, has the  *)
(* effect of one step that checks the constraints of the schema and writes *)
(* everything: a thing with all its channels, a deletion of nobody's owner.*)
ImplementsTables == TablesSpec

(* Every transaction that is begun ends, whatever locks it waits for and   *)
(* whatever fails: no error path leaves its locks behind.                  *)
EveryTransactionEnds == \A s \in Sessions : (at[s] # "idle") ~> (at[s] = "idle")
=============================================================================
