------------------------- MODULE TransactionsProofs -------------------------
(***************************************************************************)
(* The transactions of pkg/postgres do not deadlock and are atomic, for    *)
(* any number of sessions, users, locations and data sources.              *)
(*                                                                         *)
(* Both rest on LocksInv: which locks a session has at each statement,     *)
(* that two sessions share nothing but the key-share lock of an owner, and *)
(* that what a session has found in the tables stays true until it ends,   *)
(* because the locks it has keep the others from changing it.              *)
(***************************************************************************)
EXTENDS Transactions, WellFoundedInduction, TLAPS

(* The locks a CreateThing has when it has inserted the thing and n - 1 of *)
(* its channels.                                                           *)
CreateLocks(w, n) ==
  {Thing(w.location), User(w.row.owner)} \union
  {Source(k) : k \in {j \in Sources : j < n}}

(* The locks a DeleteUser has before it comes to the things.               *)
DeleteLocks(u) == {User(u), Parrot(Account[u]), Identity(u)}

(* What session s runs and which locks it has, by its next statement.      *)
SessionOK(s) ==
  LET w == work[s] IN
  /\ at[s] = "idle" => w = None /\ next[s] = 1 /\ held[s] = {}
  /\ at[s] = "insertThing" => w \in Creates /\ next[s] = 1 /\ held[s] = {}
  /\ at[s] = "checkOwner" =>
       w \in Creates /\ next[s] = 1 /\ held[s] = {Thing(w.location)}
  /\ at[s] = "upsert" =>
       /\ w \in Creates
       /\ next[s] <= NumSources
       /\ held[s] = CreateLocks(w, next[s])
  /\ at[s] = "channel" =>
       /\ w \in Creates
       /\ next[s] <= NumSources
       /\ held[s] = CreateLocks(w, next[s] + 1)
  /\ at[s] = "updateThing" => w \in Updates /\ held[s] = {}
  /\ at[s] = "deleteUser" =>
       w \in OnUsers /\ w.kind = "delete" /\ held[s] = {}
  /\ at[s] = "cascade" =>
       /\ w \in OnUsers /\ w.kind = "delete"
       /\ held[s] = {User(w.user), Parrot(Account[w.user])}
  /\ at[s] = "setNull" =>
       /\ w \in OnUsers /\ w.kind = "delete"
       /\ held[s] = DeleteLocks(w.user)
  /\ at[s] = "insertUser" => w \in OnUsers /\ w.kind = "save" /\ held[s] = {}
  /\ at[s] = "commit" =>
       \/ /\ w \in Creates
          /\ next[s] = NumSources + 1
          /\ held[s] = CreateLocks(w, next[s])
       \/ w \in Updates /\ held[s] = {Thing(w.location)}
       \/ /\ w \in OnUsers /\ w.kind = "delete"
          /\ held[s] = {} \/ held[s] = DeleteLocks(w.user)
       \/ /\ w \in OnUsers /\ w.kind = "save"
          /\ held[s] = {Parrot(Account[w.user])}
       \/ /\ w \in OnUsers /\ w.kind = "claim"
          /\ held[s] = {Identity(w.user)}

(* Only the key-share lock on the owner is held by two: CreateThings.      *)
Apart(s, t) ==
  /\ \A lock \in held[s] \intersect held[t] :
       /\ work[s] \in Creates /\ work[t] \in Creates
       /\ \E u \in Users : lock = User(u)
  /\ work[s] \in Creates /\ work[t] \in Creates =>
       work[s].row.uid # work[t].row.uid

(* What the statements of session s have found is still true of the tables. *)
FoundOK(s) ==
  LET w == work[s] IN
  /\ w \in Creates =>
       /\ \A l \in DOMAIN things : things[l].uid # w.row.uid
       /\ at[s] # "insertThing" => w.location \notin DOMAIN things
       /\ at[s] \in {"upsert", "channel", "commit"} =>
            w.row.owner \in DOMAIN identities
  /\ w \in OnUsers /\ w.kind = "delete" /\ held[s] # {} =>
       w.user \in DOMAIN identities
  /\ at[s] = "commit" /\ w \in OnUsers =>
       /\ w.kind = "delete" /\ held[s] # {} => CanDeleteUser(things, w.user)
       /\ w.kind = "save" =>
            \A v \in DOMAIN identities : Account[v] # Account[w.user]
       /\ w.kind = "claim" => /\ w.user \in DOMAIN identities
                              /\ IsDue(identities[w.user], Today, Rest)

(* parrot_id is UNIQUE.                                                    *)
UniqueAccounts ==
  \A u, v \in DOMAIN identities : Account[u] = Account[v] => u = v

LocksInv ==
  /\ TypeOK
  /\ UniqueAccounts
  /\ \A s \in Sessions : SessionOK(s) /\ FoundOK(s)
  /\ \A s, t \in Sessions : s # t => Apart(s, t)

(* The kinds of work exclude one another.                                  *)
LEMMA Kinds ==
  /\ \A w \in Creates : w # None /\ w \notin OnUsers /\ w \notin Updates
  /\ \A w \in Updates : w # None /\ w \notin OnUsers
  /\ \A w \in OnUsers : w # None
BY RowsAssumption DEF Creates, Updates, OnUsers

-----------------------------------------------------------------------------
(* A step by its effect on the sessions *)

OnlySession(s) ==
  \A t \in Sessions \ {s} :
    /\ at'[t] = at[t]
    /\ work'[t] = work[t]
    /\ next'[t] = next[t]
    /\ held'[t] = held[t]

(* A session that changes no table has its own part of the invariant to    *)
(* keep, and to stay apart from the others.                                *)
LEMMA SessionStep ==
  ASSUME LocksInv, TypeOK', UNCHANGED database,
         NEW s \in Sessions, OnlySession(s),
         SessionOK(s)', FoundOK(s)',
         \A t \in Sessions \ {s} : Apart(s, t)'
  PROVE  LocksInv'
<1>1. ASSUME NEW t \in Sessions, t # s
      PROVE  SessionOK(t)' /\ FoundOK(t)'
  <2>1. SessionOK(t) /\ FoundOK(t)
    BY DEF LocksInv
  <2>2. SessionOK(t)'
    BY <1>1, <2>1 DEF OnlySession, SessionOK
  <2>3. FoundOK(t)'
    BY <1>1, <2>1 DEF OnlySession, FoundOK, database, CanDeleteUser
  <2> QED
    BY <2>2, <2>3
<1>2. ASSUME NEW t \in Sessions, NEW r \in Sessions, t # r
      PROVE  Apart(t, r)'
  <2>1. CASE t = s
    BY <1>2, <2>1
  <2>2. CASE r = s
    <3>1. Apart(r, t)'
      BY <1>2, <2>2
    <3> QED
      BY <3>1 DEF Apart
  <2>3. CASE t # s /\ r # s
    <3>1. Apart(t, r)
      BY <1>2 DEF LocksInv
    <3> QED
      BY <2>3, <3>1 DEF OnlySession, Apart
  <2> QED
    BY <2>1, <2>2, <2>3
<1>3. UniqueAccounts'
  BY DEF LocksInv, UniqueAccounts, database
<1> QED
  BY <1>1, <1>2, <1>3 DEF LocksInv

(* Rolling back gives up the work and the locks.                           *)
LEMMA RollbackStep ==
  ASSUME LocksInv, NEW s \in Sessions, End(s), UNCHANGED <<database, ids>>,
         faults' \in 0..MaxFaults
  PROVE  LocksInv'
<1>0. TypeOK
  BY DEF LocksInv
<1>1. /\ at'[s] = "idle" /\ work'[s] = None /\ next'[s] = 1 /\ held'[s] = {}
      /\ OnlySession(s)
  BY <1>0 DEF End, Goto, TypeOK, OnlySession
<1>2. TypeOK'
  <2>1. /\ at' \in [Sessions -> Statements]
        /\ work' \in [Sessions -> Creates \union Updates \union OnUsers
                                    \union {None}]
        /\ held' \in [Sessions -> SUBSET Locks]
    BY <1>0 DEF End, Goto, TypeOK, Statements
  <2>2. next' \in [Sessions -> 1..(NumSources + 1)]
    BY <1>0, TransactionsAssumption DEF End, TypeOK
  <2> QED
    BY <1>0, <2>1, <2>2 DEF TypeOK, database, IsTable
<1>3. None \notin Creates /\ None \notin OnUsers
  BY RowsAssumption
<1>4. SessionOK(s)' /\ FoundOK(s)' /\ \A t \in Sessions \ {s} : Apart(s, t)'
  BY <1>1, <1>3 DEF SessionOK, FoundOK, Apart
<1> QED
  BY <1>1, <1>2, <1>4, SessionStep

(* The next statement of s is set, and some locks are added to its own.    *)
LEMMA HoldEffect ==
  ASSUME TypeOK, NEW s \in Sessions, NEW statement, NEW locks,
         Goto(s, statement), Hold(s, locks), UNCHANGED <<work, next>>
  PROVE  /\ at'[s] = statement
         /\ held'[s] = held[s] \union locks
         /\ OnlySession(s)
BY DEF TypeOK, Goto, Hold, OnlySession

(* A statement that gets its locks: nobody else has them, unless they are  *)
(* the key-share lock of an INSERT INTO things.                            *)
LEMMA HoldStep ==
  ASSUME LocksInv, NEW s \in Sessions, NEW statement \in Statements,
         NEW locks \in SUBSET Locks,
         Goto(s, statement), Hold(s, locks),
         UNCHANGED <<database, work, next, ids, faults>>,
         \A lock \in locks : \A t \in Sessions \ {s} :
           lock \in held[t] => /\ work[s] \in Creates /\ work[t] \in Creates
                               /\ \E u \in Users : lock = User(u),
         SessionOK(s)', FoundOK(s)'
  PROVE  LocksInv'
<1>0. TypeOK
  BY DEF LocksInv
<1>1. /\ at'[s] = statement
      /\ held'[s] = held[s] \union locks
      /\ OnlySession(s)
  BY <1>0, HoldEffect
<1>2. TypeOK'
  <2>1. /\ at' \in [Sessions -> Statements]
        /\ held' \in [Sessions -> SUBSET Locks]
    BY <1>0 DEF Goto, Hold, TypeOK
  <2> QED
    BY <1>0, <2>1 DEF TypeOK, database, IsTable
<1>3. ASSUME NEW t \in Sessions \ {s}
      PROVE  Apart(s, t)'
  <2>1. Apart(s, t)
    BY DEF LocksInv
  <2>2. work'[s] = work[s] /\ work'[t] = work[t] /\ held'[t] = held[t]
    BY <1>1 DEF OnlySession
  <2> QED
    BY <1>1, <2>1, <2>2 DEF Apart
<1> QED
  BY <1>1, <1>2, <1>3, SessionStep DEF database

-----------------------------------------------------------------------------
(* BEGIN *)

LEMMA BeginEffect ==
  ASSUME TypeOK, NEW s \in Sessions, NEW statement, NEW w,
         Begin(s, statement, w)
  PROVE  /\ at[s] = "idle"
         /\ at'[s] = statement
         /\ work'[s] = w
         /\ next'[s] = next[s]
         /\ \A t \in Sessions \ {s} : at'[t] = at[t] /\ work'[t] = work[t]
         /\ UNCHANGED <<database, next, faults>>
BY DEF TypeOK, Begin, Goto, database

(* A transaction begins, with the locks it has from the start.             *)
LEMMA BeginStep ==
  ASSUME LocksInv, NEW s \in Sessions, NEW statement \in Statements,
         NEW w \in Creates \union Updates \union OnUsers,
         NEW locks \in SUBSET Locks,
         Begin(s, statement, w), Hold(s, locks), ids' \in SUBSET Users,
         \A lock \in locks : \A t \in Sessions : lock \notin held[t],
         w \in Creates =>
           \A t \in Sessions :
             work[t] \in Creates => work[t].row.uid # w.row.uid,
         SessionOK(s)', FoundOK(s)'
  PROVE  LocksInv'
<1>0. TypeOK /\ SessionOK(s)
  BY DEF LocksInv
<1>1. /\ at[s] = "idle" /\ at'[s] = statement /\ work'[s] = w
      /\ \A t \in Sessions \ {s} : at'[t] = at[t] /\ work'[t] = work[t]
      /\ UNCHANGED <<database, next, faults>>
  BY <1>0, BeginEffect
<1>2. held'[s] = locks /\ \A t \in Sessions \ {s} : held'[t] = held[t]
  BY <1>0, <1>1 DEF TypeOK, SessionOK, Hold
<1>3. OnlySession(s)
  BY <1>1, <1>2 DEF OnlySession
<1>4. TypeOK'
  <2>1. /\ at' \in [Sessions -> Statements]
        /\ work' \in [Sessions -> Creates \union Updates \union OnUsers
                                    \union {None}]
        /\ held' \in [Sessions -> SUBSET Locks]
    BY <1>0 DEF Begin, Goto, Hold, TypeOK
  <2> QED
    BY <1>0, <1>1, <2>1 DEF TypeOK, database, IsTable
<1>5. ASSUME NEW t \in Sessions \ {s}
      PROVE  Apart(s, t)'
  BY <1>1, <1>2 DEF Apart
<1> QED
  BY <1>1, <1>3, <1>4, <1>5, SessionStep

(* A transaction begins without a lock.                                    *)
LEMMA NoLockYet ==
  ASSUME TypeOK, NEW s \in Sessions, UNCHANGED held
  PROVE  Hold(s, {})
BY DEF TypeOK, Hold

(* The uid that BeginCreate takes is nobody's.                             *)
LEMMA FreshUID ==
  ASSUME TypeOK, FreeUIDs # {}
  PROVE  LET uid == CHOOSE x \in FreeUIDs : TRUE
         IN  /\ \A l \in DOMAIN things : things[l].uid # uid
             /\ \A t \in Sessions : work[t] \in Creates => work[t].row.uid # uid
<1> DEFINE uid == CHOOSE x \in FreeUIDs : TRUE
<1>1. uid \in FreeUIDs
  OBVIOUS
<1> HIDE DEF uid
<1>2. ASSUME NEW t \in Sessions, work[t] \in Creates
      PROVE  work[t] # None /\ work[t].kind = "create"
  BY <1>2, RowsAssumption DEF Creates
<1>3. /\ \A l \in DOMAIN things : things[l].uid # uid
      /\ \A t \in Sessions : work[t] \in Creates => work[t].row.uid # uid
  BY <1>1, <1>2 DEF FreeUIDs
<1> QED
  BY <1>3 DEF uid

LEMMA BeginCreateInv ==
  ASSUME LocksInv, NEW s \in Sessions, BeginCreate(s)
  PROVE  LocksInv'
<1>0. TypeOK /\ SessionOK(s)
  BY DEF LocksInv
<1>1. PICK l \in Locations, row \in Rows :
        /\ row.uid = CHOOSE uid \in FreeUIDs : TRUE
        /\ Begin(s, "insertThing",
                 [kind |-> "create", location |-> l, row |-> row])
  BY DEF BeginCreate
<1> DEFINE w == [kind |-> "create", location |-> l, row |-> row]
<1>2. w \in Creates /\ w.row = row
  BY DEF Creates
<1>3. /\ \A m \in DOMAIN things : things[m].uid # w.row.uid
      /\ \A t \in Sessions : work[t] \in Creates => work[t].row.uid # w.row.uid
  BY <1>0, <1>1, <1>2, FreshUID DEF BeginCreate
<1>4. Begin(s, "insertThing", w)
  BY <1>1
<1> HIDE DEF w
<1>5. /\ at[s] = "idle" /\ at'[s] = "insertThing" /\ work'[s] = w
      /\ next'[s] = next[s] /\ held' = held /\ ids' = ids
      /\ UNCHANGED <<database, next, faults>>
  BY <1>0, <1>4, BeginEffect DEF BeginCreate
<1>6. next[s] = 1 /\ held[s] = {}
  BY <1>0, <1>5 DEF SessionOK
<1>7. SessionOK(s)'
  BY <1>2, <1>5, <1>6 DEF SessionOK
<1>8. w \notin OnUsers
  BY <1>2 DEF Creates, OnUsers
<1>9. FoundOK(s)'
  BY <1>3, <1>5, <1>8 DEF FoundOK, database
<1> QED
  BY <1>0, <1>2, <1>3, <1>4, <1>5, <1>7, <1>9, NoLockYet, BeginStep
     DEF Statements, TypeOK

LEMMA BeginUpdateInv ==
  ASSUME LocksInv, NEW s \in Sessions, BeginUpdate(s)
  PROVE  LocksInv'
<1>0. TypeOK /\ SessionOK(s)
  BY DEF LocksInv
<1>1. PICK l \in DOMAIN things, nickname \in Nicknames :
        Begin(s, "updateThing",
              [kind |-> "update", location |-> l, nickname |-> nickname])
  BY DEF BeginUpdate
<1> DEFINE w == [kind |-> "update", location |-> l, nickname |-> nickname]
<1>2. w \in Updates
  BY <1>0 DEF Updates, TypeOK, IsTable
<1>3. Begin(s, "updateThing", w)
  BY <1>1
<1> HIDE DEF w
<1>4. /\ at[s] = "idle" /\ at'[s] = "updateThing" /\ work'[s] = w
      /\ next'[s] = next[s] /\ held' = held /\ ids' = ids
  BY <1>0, <1>3, BeginEffect DEF BeginUpdate
<1>5. w \notin Creates /\ w \notin OnUsers
  BY <1>2 DEF Creates, Updates, OnUsers
<1>6. SessionOK(s)' /\ FoundOK(s)'
  BY <1>0, <1>2, <1>4, <1>5 DEF SessionOK, FoundOK
<1> QED
  BY <1>0, <1>2, <1>3, <1>4, <1>5, <1>6, NoLockYet, BeginStep
     DEF Statements, TypeOK

LEMMA BeginDeleteInv ==
  ASSUME LocksInv, NEW s \in Sessions, BeginDelete(s)
  PROVE  LocksInv'
<1>0. TypeOK /\ SessionOK(s)
  BY DEF LocksInv
<1>1. PICK u \in DOMAIN identities :
        Begin(s, "deleteUser", [kind |-> "delete", user |-> u])
  BY DEF BeginDelete
<1> DEFINE w == [kind |-> "delete", user |-> u]
<1>2. w \in OnUsers /\ w.kind = "delete"
  BY <1>0 DEF OnUsers, TypeOK, IsTable
<1>3. Begin(s, "deleteUser", w)
  BY <1>1
<1> HIDE DEF w
<1>4. /\ at[s] = "idle" /\ at'[s] = "deleteUser" /\ work'[s] = w
      /\ next'[s] = next[s] /\ held' = held /\ ids' = ids
  BY <1>0, <1>3, BeginEffect DEF BeginDelete
<1>5. w \notin Creates
  BY <1>2 DEF Creates, OnUsers
<1>6. SessionOK(s)' /\ FoundOK(s)'
  BY <1>0, <1>2, <1>4, <1>5 DEF SessionOK, FoundOK
<1> QED
  BY <1>0, <1>2, <1>3, <1>4, <1>5, <1>6, NoLockYet, BeginStep
     DEF Statements, TypeOK

LEMMA BeginSaveInv ==
  ASSUME LocksInv, NEW s \in Sessions, BeginSave(s)
  PROVE  LocksInv'
<1>0. TypeOK /\ SessionOK(s)
  BY DEF LocksInv
<1>1. PICK u \in Users \ ids :
        /\ Begin(s, "insertUser", [kind |-> "save", user |-> u])
        /\ ids' = ids \union {u}
  BY DEF BeginSave
<1> DEFINE w == [kind |-> "save", user |-> u]
<1>2. w \in OnUsers /\ w.kind = "save"
  BY DEF OnUsers
<1>3. Begin(s, "insertUser", w) /\ ids' \in SUBSET Users
  BY <1>0, <1>1 DEF TypeOK
<1> HIDE DEF w
<1>4. /\ at[s] = "idle" /\ at'[s] = "insertUser" /\ work'[s] = w
      /\ next'[s] = next[s] /\ held' = held
  BY <1>0, <1>3, BeginEffect DEF BeginSave
<1>5. w \notin Creates
  BY <1>2 DEF Creates, OnUsers
<1>6. SessionOK(s)' /\ FoundOK(s)'
  BY <1>0, <1>2, <1>4, <1>5 DEF SessionOK, FoundOK
<1> QED
  BY <1>0, <1>2, <1>3, <1>4, <1>5, <1>6, NoLockYet, BeginStep
     DEF Statements, TypeOK

LEMMA BeginClaimInv ==
  ASSUME LocksInv, NEW s \in Sessions, BeginClaim(s)
  PROVE  LocksInv'
<1>0. TypeOK /\ SessionOK(s)
  BY DEF LocksInv
<1>1. PICK u \in NextIdentities(identities, LockedIdentities, Today, Rest) :
        /\ Begin(s, "commit", [kind |-> "claim", user |-> u])
        /\ Hold(s, {Identity(u)})
  BY DEF BeginClaim
<1>2. /\ u \in DOMAIN identities /\ u \in Users /\ u \notin LockedIdentities
      /\ IsDue(identities[u], Today, Rest)
  BY <1>0 DEF NextIdentities, TypeOK, IsTable
<1> DEFINE w == [kind |-> "claim", user |-> u]
<1>3. w \in OnUsers /\ w.kind = "claim" /\ w.user = u
  BY <1>2 DEF OnUsers
<1>4. Begin(s, "commit", w)
  BY <1>1
<1> HIDE DEF w
<1>5. /\ at[s] = "idle" /\ at'[s] = "commit" /\ work'[s] = w
      /\ next'[s] = next[s] /\ ids' = ids
      /\ UNCHANGED <<database, next, faults>>
  BY <1>0, <1>4, BeginEffect DEF BeginClaim
<1>6. held[s] = {}
  BY <1>0, <1>5 DEF SessionOK
<1>7. held'[s] = {Identity(u)}
  BY <1>0, <1>1, <1>6 DEF Hold, TypeOK
<1>8. w \notin Creates
  BY <1>3 DEF Creates, OnUsers
<1>9. SessionOK(s)'
  BY <1>3, <1>5, <1>7 DEF SessionOK
<1>10. FoundOK(s)'
  BY <1>2, <1>3, <1>5, <1>8 DEF FoundOK, database
<1>11. \A t \in Sessions : Identity(u) \notin held[t]
  BY <1>2 DEF LockedIdentities
<1>12. {Identity(u)} \in SUBSET Locks
  BY <1>2 DEF Locks
<1> QED
  BY <1>0, <1>1, <1>3, <1>4, <1>5, <1>8, <1>9, <1>10, <1>11, <1>12, BeginStep
     DEF Statements, TypeOK

-----------------------------------------------------------------------------
(* Statements *)

LEMMA InsertThingInv ==
  ASSUME LocksInv, NEW s \in Sessions, InsertThing(s)
  PROVE  LocksInv'
<1>0. TypeOK /\ SessionOK(s) /\ FoundOK(s)
  BY DEF LocksInv
<1> DEFINE w == work[s]
<1>1. /\ at[s] = "insertThing" /\ w \in Creates /\ next[s] = 1 /\ held[s] = {}
      /\ Free(s, Thing(w.location)) /\ UNCHANGED <<database, ids, faults>>
  BY <1>0 DEF InsertThing, SessionOK
<1>2. CASE End(s)
  BY <1>0, <1>1, <1>2, RollbackStep DEF TypeOK
<1>3. CASE /\ w.location \notin DOMAIN things
           /\ Hold(s, {Thing(w.location)})
           /\ Goto(s, "checkOwner")
           /\ UNCHANGED <<work, next>>
  <2>1. /\ at'[s] = "checkOwner" /\ held'[s] = {Thing(w.location)}
        /\ work' = work /\ next' = next
    BY <1>0, <1>1, <1>3, HoldEffect
  <2>2. {Thing(w.location)} \in SUBSET Locks
    BY <1>1 DEF Creates, Locks
  <2>3. \A t \in Sessions \ {s} : Thing(w.location) \notin held[t]
    BY <1>1 DEF Free, Conflict, Shared
  <2>4. SessionOK(s)'
    BY <1>1, <2>1 DEF SessionOK
  <2>5. FoundOK(s)'
    BY <1>0, <1>1, <1>3, <2>1, Kinds DEF FoundOK, database
  <2> QED
    BY <1>1, <1>3, <2>2, <2>3, <2>4, <2>5, HoldStep DEF Statements
<1> QED
  BY <1>2, <1>3 DEF InsertThing, Rollback

LEMMA CheckOwnerInv ==
  ASSUME LocksInv, NEW s \in Sessions, CheckOwner(s)
  PROVE  LocksInv'
<1>0. TypeOK /\ SessionOK(s) /\ FoundOK(s)
  BY DEF LocksInv
<1> DEFINE w == work[s]
           u == w.row.owner
<1>1. /\ at[s] = "checkOwner" /\ w \in Creates /\ next[s] = 1
      /\ held[s] = {Thing(w.location)}
      /\ Free(s, User(u)) /\ UNCHANGED <<database, ids, faults>>
  BY <1>0 DEF CheckOwner, SessionOK
<1>2. CASE End(s)
  BY <1>0, <1>1, <1>2, RollbackStep DEF TypeOK
<1>3. CASE /\ u \in DOMAIN identities
           /\ Hold(s, {User(u)})
           /\ Goto(s, "upsert")
           /\ UNCHANGED <<work, next>>
  <2>1. /\ at'[s] = "upsert" /\ held'[s] = {Thing(w.location), User(u)}
        /\ work' = work /\ next' = next
    BY <1>0, <1>1, <1>3, HoldEffect
  <2>2. u \in Users
    BY <1>0, <1>3 DEF TypeOK, IsTable
  <2>3. {User(u)} \in SUBSET Locks
    BY <2>2 DEF Locks
  <2>4. \A t \in Sessions \ {s} : User(u) \in held[t] => work[t] \in Creates
    BY <1>1 DEF Free, Conflict, Shared
  <2>5. SessionOK(s)'
    <3>1. CreateLocks(w, 1) = {Thing(w.location), User(u)}
      BY TransactionsAssumption DEF CreateLocks
    <3> QED
      BY <1>1, <2>1, <3>1, TransactionsAssumption DEF SessionOK
  <2>6. FoundOK(s)'
    BY <1>0, <1>1, <1>3, <2>1, Kinds DEF FoundOK, database
  <2> QED
    BY <1>1, <1>3, <2>2, <2>3, <2>4, <2>5, <2>6, HoldStep DEF Statements
<1> QED
  BY <1>2, <1>3 DEF CheckOwner, Rollback

LEMMA UpsertSourceInv ==
  ASSUME LocksInv, NEW s \in Sessions, UpsertSource(s)
  PROVE  LocksInv'
<1>0. TypeOK /\ SessionOK(s) /\ FoundOK(s)
  BY DEF LocksInv
<1> DEFINE w == work[s]
           k == next[s]
<1>1. /\ at[s] = "upsert" /\ w \in Creates /\ k \in Sources
      /\ held[s] = CreateLocks(w, k)
      /\ Free(s, Source(k)) /\ Hold(s, {Source(k)}) /\ Goto(s, "channel")
      /\ UNCHANGED <<database, work, next, ids, faults>>
  BY <1>0, TransactionsAssumption
     DEF UpsertSource, NextSource, SessionOK, TypeOK
<1>2. /\ at'[s] = "channel" /\ held'[s] = CreateLocks(w, k) \union {Source(k)}
      /\ work' = work /\ next' = next
  BY <1>0, <1>1, HoldEffect
<1>3. {Source(k)} \in SUBSET Locks
  BY <1>1 DEF Locks
<1>4. \A t \in Sessions \ {s} : Source(k) \notin held[t]
  BY <1>1 DEF Free, Conflict, Shared
<1>5. CreateLocks(w, k + 1) = CreateLocks(w, k) \union {Source(k)}
  BY <1>1, TransactionsAssumption DEF CreateLocks
<1>6. SessionOK(s)'
  BY <1>0, <1>1, <1>2, <1>5 DEF SessionOK
<1>7. FoundOK(s)'
  BY <1>0, <1>1, <1>2, Kinds DEF FoundOK, database
<1> QED
  BY <1>1, <1>3, <1>4, <1>6, <1>7, HoldStep DEF Statements

LEMMA InsertChannelInv ==
  ASSUME LocksInv, NEW s \in Sessions, InsertChannel(s)
  PROVE  LocksInv'
<1>0. TypeOK /\ SessionOK(s) /\ FoundOK(s)
  BY DEF LocksInv
<1> DEFINE w == work[s]
           k == next[s]
<1>1. /\ at[s] = "channel" /\ w \in Creates /\ k \in 1..NumSources
      /\ held[s] = CreateLocks(w, k + 1)
      /\ UNCHANGED <<database, work, held, ids, faults>>
  BY <1>0, TransactionsAssumption DEF InsertChannel, SessionOK, TypeOK
<1>2. /\ next'[s] = k + 1
      /\ at'[s] = IF k = NumSources THEN "commit" ELSE "upsert"
      /\ OnlySession(s)
  BY <1>0, <1>1 DEF InsertChannel, Goto, OnlySession, TypeOK
<1>3. TypeOK'
  <2>1. at' \in [Sessions -> Statements]
    BY <1>0 DEF InsertChannel, Goto, Statements, TypeOK
  <2>2. next' \in [Sessions -> 1..(NumSources + 1)]
    BY <1>0, <1>1, TransactionsAssumption DEF InsertChannel, TypeOK
  <2> QED
    BY <1>0, <1>1, <2>1, <2>2 DEF TypeOK, database, IsTable
<1>4. SessionOK(s)'
  BY <1>1, <1>2, TransactionsAssumption DEF SessionOK
<1>5. w \notin OnUsers
  BY <1>1 DEF Creates, OnUsers
<1>6. FoundOK(s)'
  BY <1>0, <1>1, <1>2, <1>5 DEF FoundOK, database
<1>7. \A t \in Sessions \ {s} : Apart(s, t)'
  BY <1>1 DEF LocksInv, Apart
<1> QED
  BY <1>1, <1>2, <1>3, <1>4, <1>6, <1>7, SessionStep

LEMMA UpdateRowInv ==
  ASSUME LocksInv, NEW s \in Sessions, UpdateRow(s)
  PROVE  LocksInv'
<1>0. TypeOK /\ SessionOK(s) /\ FoundOK(s)
  BY DEF LocksInv
<1> DEFINE w == work[s]
<1>1. /\ at[s] = "updateThing" /\ w \in Updates /\ held[s] = {}
      /\ Free(s, Thing(w.location)) /\ Hold(s, {Thing(w.location)})
      /\ Goto(s, "commit") /\ UNCHANGED <<database, work, next, ids, faults>>
  BY <1>0 DEF UpdateRow, SessionOK
<1>2. /\ at'[s] = "commit" /\ held'[s] = {Thing(w.location)}
      /\ work' = work /\ next' = next
  BY <1>0, <1>1, HoldEffect
<1>3. {Thing(w.location)} \in SUBSET Locks
  BY <1>1 DEF Updates, Locks
<1>4. \A t \in Sessions \ {s} : Thing(w.location) \notin held[t]
  BY <1>1 DEF Free, Conflict, Shared
<1>5. w \notin Creates /\ w \notin OnUsers
  BY <1>1 DEF Creates, Updates, OnUsers
<1>6. SessionOK(s)' /\ FoundOK(s)'
  BY <1>1, <1>2, <1>5 DEF SessionOK, FoundOK
<1> QED
  BY <1>1, <1>3, <1>4, <1>6, HoldStep DEF Statements

(* What a lock says about the session that has it.                         *)
LEMMA Holder ==
  ASSUME TypeOK, NEW s \in Sessions, SessionOK(s), NEW lock \in held[s]
  PROVE  LET w == work[s] IN
         \/ w \in Creates /\ lock \in CreateLocks(w, next[s] + 1)
         \/ w \in Updates /\ at[s] = "commit" /\ lock = Thing(w.location)
         \/ /\ w \in OnUsers /\ w.kind = "delete"
            /\ lock \in DeleteLocks(w.user) /\ User(w.user) \in held[s]
         \/ /\ w \in OnUsers /\ w.kind = "save" /\ at[s] = "commit"
            /\ lock = Parrot(Account[w.user])
         \/ /\ w \in OnUsers /\ w.kind = "claim" /\ at[s] = "commit"
            /\ lock = Identity(w.user)
<1> DEFINE w == work[s]
           n == next[s]
<1>1. at[s] \in Statements /\ n \in Nat
  BY TransactionsAssumption DEF TypeOK
<1>2. /\ CreateLocks(w, n) \subseteq CreateLocks(w, n + 1)
      /\ Thing(w.location) \in CreateLocks(w, n + 1)
  BY <1>1, TransactionsAssumption DEF CreateLocks
<1>3. CASE held[s] = {}
  BY <1>3
<1>4. CASE at[s] \in {"checkOwner", "upsert", "channel"}
  BY <1>2, <1>4 DEF SessionOK
<1>5. CASE at[s] \in {"cascade", "setNull"}
  BY <1>5 DEF SessionOK, DeleteLocks
<1>6. CASE at[s] = "commit"
  BY <1>2, <1>6 DEF SessionOK, DeleteLocks
<1> QED
  BY <1>1, <1>3, <1>4, <1>5, <1>6 DEF SessionOK, Statements

LEMMA DeleteRowInv ==
  ASSUME LocksInv, NEW s \in Sessions, DeleteRow(s)
  PROVE  LocksInv'
<1>0. TypeOK /\ SessionOK(s) /\ FoundOK(s)
  BY DEF LocksInv
<1> DEFINE w == work[s]
           u == w.user
           locks == {User(u), Parrot(Account[u])}
<1>1. /\ at[s] = "deleteUser" /\ w \in OnUsers /\ w.kind = "delete"
      /\ held[s] = {} /\ Free(s, User(u))
      /\ UNCHANGED <<database, work, next, ids, faults>>
  BY <1>0 DEF DeleteRow, SessionOK
<1>2. w \notin Creates /\ u \in Users
  BY <1>1 DEF Creates, OnUsers
<1>3. CASE u \in DOMAIN identities /\ Hold(s, locks) /\ Goto(s, "cascade")
  <2>1. /\ at'[s] = "cascade" /\ held'[s] = locks
        /\ work' = work /\ next' = next
    BY <1>0, <1>1, <1>3, HoldEffect
  <2>2. locks \in SUBSET Locks
    BY <1>2, TransactionsAssumption DEF Locks
  <2>3. ASSUME NEW t \in Sessions \ {s}
        PROVE  User(u) \notin held[t] /\ Parrot(Account[u]) \notin held[t]
    <3>1. User(u) \notin held[t]
      BY <1>1 DEF Free, Conflict, Shared
    <3>2. SessionOK(t) /\ FoundOK(t)
      BY DEF LocksInv
    <3>3. ASSUME Parrot(Account[u]) \in held[t]
          PROVE  FALSE
      <4>1. /\ work[t] \in OnUsers /\ Account[work[t].user] = Account[u]
            /\ \/ work[t].kind = "save" /\ at[t] = "commit"
               \/ work[t].kind = "delete" /\ User(work[t].user) \in held[t]
        <5>1. \A v, l : /\ Parrot(v) # Thing(l) /\ Parrot(v) # User(l)
                        /\ Parrot(v) # Identity(l) /\ Parrot(v) # Source(l)
                        /\ Parrot(v) = Parrot(l) => v = l
          BY DEF Parrot, Thing, User, Identity, Source
        <5>2. Parrot(Account[u]) \notin CreateLocks(work[t], next[t] + 1)
          BY <5>1 DEF CreateLocks
        <5> QED
          BY <1>0, <3>2, <3>3, <5>1, <5>2, Holder DEF DeleteLocks
      <4>2. work[t].user \in DOMAIN identities => work[t].user = u
        BY <1>3, <4>1 DEF LocksInv, UniqueAccounts
      <4> QED
        BY <1>3, <3>1, <3>2, <4>1, <4>2 DEF FoundOK
    <3> QED
      BY <3>1, <3>3
  <2>4. SessionOK(s)'
    BY <1>1, <2>1 DEF SessionOK
  <2>5. FoundOK(s)'
    BY <1>1, <1>2, <1>3, <2>1 DEF FoundOK, database
  <2> QED
    BY <1>1, <1>3, <2>2, <2>3, <2>4, <2>5, HoldStep DEF Statements
<1>4. CASE u \notin DOMAIN identities /\ Goto(s, "commit") /\ UNCHANGED held
  <2>1. Hold(s, {})
    BY <1>0, <1>4, NoLockYet
  <2>2. at'[s] = "commit" /\ held'[s] = {} /\ work' = work /\ next' = next
    BY <1>0, <1>1, <1>4, <2>1, HoldEffect
  <2>3. SessionOK(s)' /\ FoundOK(s)'
    BY <1>1, <1>2, <2>2 DEF SessionOK, FoundOK
  <2> QED
    BY <1>1, <1>4, <2>1, <2>3, HoldStep DEF Statements
<1> QED
  BY <1>3, <1>4 DEF DeleteRow

LEMMA CascadeInv ==
  ASSUME LocksInv, NEW s \in Sessions, Cascade(s)
  PROVE  LocksInv'
<1>0. TypeOK /\ SessionOK(s) /\ FoundOK(s)
  BY DEF LocksInv
<1> DEFINE w == work[s]
           u == w.user
<1>1. /\ at[s] = "cascade" /\ w \in OnUsers /\ w.kind = "delete"
      /\ held[s] = {User(u), Parrot(Account[u])} /\ Free(s, Identity(u))
      /\ Hold(s, {Identity(u)}) /\ Goto(s, "setNull")
      /\ UNCHANGED <<database, work, next, ids, faults>>
  BY <1>0 DEF Cascade, SessionOK
<1>2. /\ at'[s] = "setNull" /\ held'[s] = DeleteLocks(u)
      /\ work' = work /\ next' = next
  BY <1>0, <1>1, HoldEffect DEF DeleteLocks
<1>3. w \notin Creates /\ u \in Users
  BY <1>1 DEF Creates, OnUsers
<1>4. {Identity(u)} \in SUBSET Locks
  BY <1>3 DEF Locks
<1>5. \A t \in Sessions \ {s} : Identity(u) \notin held[t]
  BY <1>1 DEF Free, Conflict, Shared
<1>6. SessionOK(s)'
  BY <1>1, <1>2 DEF SessionOK
<1>7. FoundOK(s)'
  BY <1>0, <1>1, <1>2, <1>3 DEF FoundOK, database
<1> QED
  BY <1>1, <1>4, <1>5, <1>6, <1>7, HoldStep DEF Statements

LEMMA SetOwnerNullInv ==
  ASSUME LocksInv, NEW s \in Sessions, SetOwnerNull(s)
  PROVE  LocksInv'
<1>0. TypeOK /\ SessionOK(s) /\ FoundOK(s)
  BY DEF LocksInv
<1> DEFINE w == work[s]
           u == w.user
<1>1. /\ at[s] = "setNull" /\ w \in OnUsers /\ w.kind = "delete"
      /\ held[s] = DeleteLocks(u) /\ UNCHANGED <<database, ids, faults>>
  BY <1>0 DEF SetOwnerNull, SessionOK
<1>2. CASE End(s)
  BY <1>0, <1>1, <1>2, RollbackStep DEF TypeOK
<1>3. CASE /\ ThingsOf(u) = {} /\ Goto(s, "commit")
           /\ UNCHANGED <<work, next, held>>
  <2>1. Hold(s, {})
    BY <1>0, <1>3, NoLockYet
  <2>2. /\ at'[s] = "commit" /\ held'[s] = DeleteLocks(u)
        /\ work' = work /\ next' = next
    BY <1>0, <1>1, <1>3, <2>1, HoldEffect
  <2>3. SessionOK(s)'
    BY <1>1, <2>2 DEF SessionOK
  <2>4. CanDeleteUser(things, u) /\ things' = things /\ identities' = identities
    BY <1>1, <1>3 DEF CanDeleteUser, ThingsOf, database
  <2>5. w \notin Creates
    BY <1>1 DEF Creates, OnUsers
  <2>6. FoundOK(s)'
    BY <1>0, <1>1, <2>2, <2>4, <2>5 DEF FoundOK, CanDeleteUser
  <2> QED
    BY <1>1, <1>3, <2>1, <2>3, <2>6, HoldStep DEF Statements
<1> QED
  BY <1>2, <1>3 DEF SetOwnerNull, Rollback

LEMMA InsertUserRowInv ==
  ASSUME LocksInv, NEW s \in Sessions, InsertUserRow(s)
  PROVE  LocksInv'
<1>0. TypeOK /\ SessionOK(s) /\ FoundOK(s)
  BY DEF LocksInv
<1> DEFINE w == work[s]
           a == Account[w.user]
<1>1. /\ at[s] = "insertUser" /\ w \in OnUsers /\ w.kind = "save"
      /\ held[s] = {} /\ Free(s, Parrot(a))
      /\ UNCHANGED <<database, ids, faults>>
  BY <1>0 DEF InsertUserRow, SessionOK
<1>2. CASE End(s)
  BY <1>0, <1>1, <1>2, RollbackStep DEF TypeOK
<1>3. CASE /\ \A v \in DOMAIN identities : Account[v] # a
           /\ Hold(s, {Parrot(a)}) /\ Goto(s, "commit")
           /\ UNCHANGED <<work, next>>
  <2>1. /\ at'[s] = "commit" /\ held'[s] = {Parrot(a)}
        /\ work' = work /\ next' = next
    BY <1>0, <1>1, <1>3, HoldEffect
  <2>2. w \notin Creates /\ w.user \in Users
    BY <1>1 DEF Creates, OnUsers
  <2>3. {Parrot(a)} \in SUBSET Locks
    BY <2>2, TransactionsAssumption DEF Locks
  <2>4. \A t \in Sessions \ {s} : Parrot(a) \notin held[t]
    BY <1>1 DEF Free, Conflict, Shared
  <2>5. SessionOK(s)'
    BY <1>1, <2>1 DEF SessionOK
  <2>6. FoundOK(s)'
    BY <1>1, <1>3, <2>1, <2>2 DEF FoundOK, database
  <2> QED
    BY <1>1, <1>3, <2>3, <2>4, <2>5, <2>6, HoldStep DEF Statements
<1> QED
  BY <1>2, <1>3 DEF InsertUserRow, Rollback

-----------------------------------------------------------------------------
(* COMMIT *)

(* A session that commits has all the locks of its transaction.            *)
LEMMA CommitLocks ==
  ASSUME LocksInv, NEW s \in Sessions, at[s] = "commit"
  PROVE  LET w == work[s] IN
         /\ w.kind = "create" =>
              /\ w \in Creates /\ next[s] = NumSources + 1
              /\ held[s] = CreateLocks(w, NumSources + 1)
         /\ w.kind = "update" => w \in Updates
         /\ w.kind = "delete" =>
              w \in OnUsers /\ (held[s] = {} \/ held[s] = DeleteLocks(w.user))
         /\ w.kind = "save" =>
              w \in OnUsers /\ held[s] = {Parrot(Account[w.user])}
         /\ w.kind = "claim" =>
              w \in OnUsers /\ held[s] = {Identity(w.user)}
BY DEF LocksInv, SessionOK, Creates, Updates, OnUsers

(* A transaction ends; what it has written must be true to what the others *)
(* have found.                                                             *)
LEMMA CommitStep ==
  ASSUME LocksInv, NEW s \in Sessions, End(s), ids' = ids,
         faults' \in 0..MaxFaults,
         IsTable(identities', Users, [created_at : Nat, indexed_at : Nat]),
         IsTable(things', Locations, Rows),
         channels' \in SUBSET (UIDs \X Sources),
         UniqueAccounts',
         \A t \in Sessions \ {s} : OnlySession(s) => FoundOK(t)'
  PROVE  LocksInv'
<1>0. TypeOK
  BY DEF LocksInv
<1>1. /\ at'[s] = "idle" /\ work'[s] = None /\ next'[s] = 1 /\ held'[s] = {}
      /\ OnlySession(s)
  BY <1>0 DEF End, Goto, TypeOK, OnlySession
<1>2. TypeOK'
  <2>1. /\ at' \in [Sessions -> Statements]
        /\ work' \in [Sessions -> Creates \union Updates \union OnUsers
                                    \union {None}]
        /\ held' \in [Sessions -> SUBSET Locks]
    BY <1>0 DEF End, Goto, TypeOK, Statements
  <2>2. next' \in [Sessions -> 1..(NumSources + 1)]
    BY <1>0, TransactionsAssumption DEF End, TypeOK
  <2> QED
    BY <1>0, <2>1, <2>2 DEF TypeOK
<1>3. ASSUME NEW t \in Sessions
      PROVE  SessionOK(t)' /\ FoundOK(t)'
  <2>1. CASE t = s
    BY <1>1, <2>1, RowsAssumption DEF SessionOK, FoundOK
  <2>2. CASE t # s
    <3>1. SessionOK(t)
      BY DEF LocksInv
    <3>2. SessionOK(t)'
      BY <1>1, <2>2, <3>1 DEF OnlySession, SessionOK
    <3> QED
      BY <1>1, <2>2, <3>2
  <2> QED
    BY <2>1, <2>2
<1>4. ASSUME NEW t \in Sessions, NEW r \in Sessions, t # r
      PROVE  Apart(t, r)'
  <2>1. CASE t = s \/ r = s
    BY <1>1, <2>1, RowsAssumption DEF Apart
  <2>2. CASE t # s /\ r # s
    <3>1. Apart(t, r)
      BY <1>4 DEF LocksInv
    <3> QED
      BY <1>1, <2>2, <3>1 DEF OnlySession, Apart
  <2> QED
    BY <2>1, <2>2
<1> QED
  BY <1>2, <1>3, <1>4 DEF LocksInv

(* The locks of two sessions that both have them.                          *)
LEMMA NotBoth ==
  ASSUME LocksInv, NEW s \in Sessions, NEW t \in Sessions \ {s}
  PROVE  /\ \A l : Thing(l) \in held[s] => Thing(l) \notin held[t]
         /\ \A u : Identity(u) \in held[s] => Identity(u) \notin held[t]
         /\ \A a : Parrot(a) \in held[s] => Parrot(a) \notin held[t]
         /\ \A u : User(u) \in held[s] /\ User(u) \in held[t] =>
                     work[s] \in Creates /\ work[t] \in Creates
BY DEF LocksInv, Apart, Thing, Identity, Parrot, User

LEMMA CommitCreateInv ==
  ASSUME LocksInv, NEW s \in Sessions, at[s] = "commit",
         work[s].kind = "create", Publish(s), End(s), ids' = ids,
         faults' \in 0..MaxFaults
  PROVE  LocksInv'
<1> DEFINE w == work[s]
<1>0. TypeOK /\ FoundOK(s)
  BY DEF LocksInv
<1>1. /\ w \in Creates /\ next[s] = NumSources + 1
      /\ held[s] = CreateLocks(w, NumSources + 1)
  BY CommitLocks
<1>2. /\ things' = Put(things, w.location, w.row)
      /\ channels' = channels \union NewChannels(s)
      /\ identities' = identities
  BY DEF Publish
<1>3. /\ w.location \in Locations /\ w.row \in Rows /\ w.row.uid \in UIDs
  BY <1>1, RowsAssumption DEF Creates
<1>4. /\ DOMAIN things' = DOMAIN things \union {w.location}
      /\ \A l \in DOMAIN things' :
           things'[l] = IF l = w.location THEN w.row ELSE things[l]
  BY <1>2 DEF Put
<1>5. IsTable(things', Locations, Rows)
  BY <1>0, <1>2, <1>3 DEF TypeOK, IsTable, Put
<1>6. channels' \in SUBSET (UIDs \X Sources)
  BY <1>0, <1>2, <1>3 DEF TypeOK, NewChannels
<1>7. UniqueAccounts'
  BY <1>2 DEF LocksInv, UniqueAccounts
<1>8. ASSUME NEW t \in Sessions \ {s}, OnlySession(s)
      PROVE  FoundOK(t)'
  <2> DEFINE v == work[t]
  <2>0. SessionOK(t) /\ FoundOK(t) /\ Apart(s, t) /\ at[t] \in Statements
    BY <1>0 DEF LocksInv, TypeOK
  <2>1. at'[t] = at[t] /\ work'[t] = v /\ held'[t] = held[t]
    BY <1>8 DEF OnlySession
  <2>2. CASE v \in Creates
    <3>1. \A l \in DOMAIN things' : things'[l].uid # v.row.uid
      BY <1>1, <1>4, <2>0, <2>2 DEF Apart, FoundOK
    <3>2. at[t] # "insertThing" => Thing(v.location) \in held[t]
      BY <2>0, <2>2, Kinds DEF SessionOK, CreateLocks, Statements
    <3>3. Thing(w.location) \in held[s]
      BY <1>1 DEF CreateLocks
    <3>4. at[t] # "insertThing" => v.location \notin DOMAIN things'
      BY <1>4, <2>0, <2>2, <3>2, <3>3, NotBoth DEF FoundOK
    <3> QED
      BY <1>2, <2>0, <2>1, <2>2, <3>1, <3>4, Kinds DEF FoundOK
  <2>3. CASE v \notin Creates
    <3>1. ASSUME v \in OnUsers, v.kind = "delete", held[t] # {},
                 CanDeleteUser(things, v.user), at[t] = "commit"
          PROVE  CanDeleteUser(things', v.user)
      <4>1. User(v.user) \in held[t]
        BY <3>1, CommitLocks DEF DeleteLocks
      <4>2. User(w.row.owner) \in held[s]
        BY <1>1 DEF CreateLocks
      <4>3. w.row.owner # v.user
        BY <2>3, <4>1, <4>2, NotBoth
      <4> QED
        BY <1>4, <3>1, <4>3 DEF CanDeleteUser
    <3> QED
      BY <1>2, <2>0, <2>1, <2>3, <3>1 DEF FoundOK
  <2> QED
    BY <2>2, <2>3
<1> QED
  BY <1>0, <1>2, <1>5, <1>6, <1>7, <1>8, CommitStep DEF TypeOK

LEMMA CommitUpdateInv ==
  ASSUME LocksInv, NEW s \in Sessions, at[s] = "commit",
         work[s].kind = "update", Publish(s), End(s), ids' = ids,
         faults' \in 0..MaxFaults
  PROVE  LocksInv'
<1> DEFINE w == work[s]
<1>0. TypeOK
  BY DEF LocksInv
<1>1. w \in Updates /\ w.nickname \in Nicknames
  BY CommitLocks DEF Updates
<1>2. /\ things' = UpdateNickname(things, w.location, w.nickname)
      /\ identities' = identities /\ channels' = channels
  BY DEF Publish
<1>3. \A row \in Rows : LET new == [row EXCEPT !.nickname = w.nickname]
                        IN  /\ new \in Rows
                            /\ new.uid = row.uid /\ new.owner = row.owner
  BY <1>1, RowsAssumption
<1>4. IsTable(things', Locations, Rows)
  BY <1>0, <1>2, <1>3 DEF TypeOK, IsTable, UpdateNickname
<1>5. /\ DOMAIN things' = DOMAIN things
      /\ \A l \in DOMAIN things : /\ things'[l].uid = things[l].uid
                                  /\ things'[l].owner = things[l].owner
  BY <1>0, <1>2, <1>3 DEF TypeOK, IsTable, UpdateNickname
<1>6. UniqueAccounts'
  BY <1>2 DEF LocksInv, UniqueAccounts
<1>7. ASSUME NEW t \in Sessions \ {s}, OnlySession(s)
      PROVE  FoundOK(t)'
  <2>1. at'[t] = at[t] /\ work'[t] = work[t] /\ held'[t] = held[t]
    BY <1>7 DEF OnlySession
  <2>2. FoundOK(t)
    BY DEF LocksInv
  <2> QED
    BY <1>2, <1>5, <2>1, <2>2 DEF FoundOK, CanDeleteUser
<1> QED
  BY <1>0, <1>2, <1>4, <1>6, <1>7, CommitStep DEF TypeOK

(* A DeleteUser that has a lock has that of the user's row.                *)
LEMMA HolderDelete ==
  ASSUME TypeOK, NEW s \in Sessions, SessionOK(s), held[s] # {},
         work[s] \in OnUsers, work[s].kind = "delete"
  PROVE  User(work[s].user) \in held[s]
BY Holder, Kinds

LEMMA CommitDeleteInv ==
  ASSUME LocksInv, NEW s \in Sessions, at[s] = "commit",
         work[s].kind = "delete", Publish(s), End(s), ids' = ids,
         faults' \in 0..MaxFaults
  PROVE  LocksInv'
<1> DEFINE w == work[s]
           u == w.user
<1>0. TypeOK
  BY DEF LocksInv
<1>1. w \in OnUsers /\ (held[s] = {} \/ held[s] = DeleteLocks(u))
  BY CommitLocks
<1>2. /\ things' = things /\ channels' = channels
      /\ identities' = IF User(u) \in held[s] THEN DeleteUserRow(identities, u)
                                              ELSE identities
  BY DEF Publish
<1>3. /\ DOMAIN identities' \subseteq DOMAIN identities
      /\ \A v \in DOMAIN identities' : identities'[v] = identities[v]
      /\ \A v \in DOMAIN identities :
           v \in DOMAIN identities' \/ (v = u /\ held[s] = DeleteLocks(u))
  BY <1>1, <1>2 DEF DeleteUserRow, Remove
<1>4. IsTable(identities', Users, [created_at : Nat, indexed_at : Nat])
  BY <1>0, <1>2 DEF TypeOK, IsTable, DeleteUserRow, Remove
<1>5. UniqueAccounts'
  BY <1>3 DEF LocksInv, UniqueAccounts
<1>6. ASSUME NEW t \in Sessions \ {s}, OnlySession(s)
      PROVE  FoundOK(t)'
  <2> DEFINE v == work[t]
  <2>0. SessionOK(t) /\ FoundOK(t) /\ at[t] \in Statements
    BY <1>0 DEF LocksInv, TypeOK
  <2>1. at'[t] = at[t] /\ work'[t] = v /\ held'[t] = held[t]
    BY <1>6 DEF OnlySession
  <2>2. held[s] = DeleteLocks(u) =>
          /\ User(u) \in held[s] /\ Identity(u) \in held[s]
          /\ work[s] \notin Creates
    BY <1>1, Kinds DEF DeleteLocks
  <2>3. CASE v \in Creates
    <3>1. at[t] \in {"upsert", "channel", "commit"} =>
            User(v.row.owner) \in held[t]
      BY <2>0, <2>3, Kinds DEF SessionOK, CreateLocks
    <3>2. at[t] \in {"upsert", "channel", "commit"} =>
            v.row.owner \in DOMAIN identities'
      BY <1>3, <2>0, <2>2, <2>3, <3>1, NotBoth DEF FoundOK
    <3> QED
      BY <1>2, <2>0, <2>1, <2>3, <3>2, Kinds DEF FoundOK
  <2>4. CASE v \notin Creates
    <3>1. ASSUME v \in OnUsers, v.kind = "delete", held[t] # {}
          PROVE  v.user \in DOMAIN identities'
      <4>1. User(v.user) \in held[t]
        BY <1>0, <2>0, <3>1, Kinds, HolderDelete
      <4> QED
        BY <1>3, <2>0, <2>2, <3>1, <4>1, NotBoth DEF FoundOK
    <3>2. ASSUME v \in OnUsers, v.kind = "claim", at[t] = "commit"
          PROVE  /\ v.user \in DOMAIN identities'
                 /\ IsDue(identities'[v.user], Today, Rest)
      <4>1. Identity(v.user) \in held[t]
        BY <3>2, CommitLocks
      <4> QED
        BY <1>3, <2>0, <2>2, <3>2, <4>1, NotBoth DEF FoundOK
    <3> QED
      BY <1>2, <1>3, <2>0, <2>1, <2>4, <3>1, <3>2 DEF FoundOK, CanDeleteUser
  <2> QED
    BY <2>3, <2>4
<1> QED
  BY <1>0, <1>2, <1>4, <1>5, <1>6, CommitStep DEF TypeOK

LEMMA CommitSaveInv ==
  ASSUME LocksInv, NEW s \in Sessions, at[s] = "commit",
         work[s].kind = "save", Publish(s), End(s), ids' = ids,
         faults' \in 0..MaxFaults
  PROVE  LocksInv'
<1> DEFINE w == work[s]
           u == w.user
           new == [created_at |-> Today, indexed_at |-> Null]
<1>0. TypeOK /\ FoundOK(s)
  BY DEF LocksInv
<1>1. w \in OnUsers /\ u \in Users /\ held[s] = {Parrot(Account[u])}
  BY CommitLocks DEF OnUsers
<1>2. /\ things' = things /\ channels' = channels
      /\ identities' = Put(identities, u, new)
  BY DEF Publish, InsertUser
<1>3. /\ DOMAIN identities' = DOMAIN identities \union {u}
      /\ \A v \in DOMAIN identities' :
           identities'[v] = IF v = u THEN new ELSE identities[v]
  BY <1>2 DEF Put
<1>4. \A v \in DOMAIN identities : Account[v] # Account[u]
  BY <1>0, <1>1 DEF FoundOK
<1>5. new \in [created_at : Nat, indexed_at : Nat] /\ IsDue(new, Today, Rest)
  BY DEF Today, Null, IsDue
<1>6. IsTable(identities', Users, [created_at : Nat, indexed_at : Nat])
  BY <1>0, <1>1, <1>2, <1>5 DEF TypeOK, IsTable, Put
<1>7. UniqueAccounts'
  BY <1>3, <1>4 DEF LocksInv, UniqueAccounts
<1>8. ASSUME NEW t \in Sessions \ {s}, OnlySession(s)
      PROVE  FoundOK(t)'
  <2> DEFINE v == work[t]
  <2>0. FoundOK(t)
    BY DEF LocksInv
  <2>1. at'[t] = at[t] /\ work'[t] = v /\ held'[t] = held[t]
    BY <1>8 DEF OnlySession
  <2>2. ASSUME v \in OnUsers, v.kind = "save", at[t] = "commit"
        PROVE  Account[v.user] # Account[u]
    <3>1. held[t] = {Parrot(Account[v.user])}
      BY <2>2, CommitLocks
    <3> QED
      BY <1>1, <3>1, NotBoth
  <2>3. ASSUME v \in OnUsers, v.kind = "claim", at[t] = "commit"
        PROVE  /\ v.user \in DOMAIN identities'
               /\ IsDue(identities'[v.user], Today, Rest)
    <3>1. v.user \in DOMAIN identities /\ IsDue(identities[v.user], Today, Rest)
      BY <2>0, <2>3 DEF FoundOK
    <3> HIDE DEF new
    <3> QED
      BY <1>3, <1>5, <3>1
  <2> HIDE DEF new
  <2> QED
    BY <1>2, <1>3, <2>0, <2>1, <2>2, <2>3 DEF FoundOK
<1> QED
  BY <1>0, <1>2, <1>6, <1>7, <1>8, CommitStep DEF TypeOK

LEMMA CommitClaimInv ==
  ASSUME LocksInv, NEW s \in Sessions, at[s] = "commit",
         work[s].kind = "claim", Publish(s), End(s), ids' = ids,
         faults' \in 0..MaxFaults
  PROVE  LocksInv'
<1> DEFINE w == work[s]
           u == w.user
<1>0. TypeOK
  BY DEF LocksInv
<1>1. w \in OnUsers /\ held[s] = {Identity(u)}
  BY CommitLocks
<1>2. /\ things' = things /\ channels' = channels
      /\ identities' = SetIndexed(identities, u, Today)
  BY DEF Publish
<1>3. /\ DOMAIN identities' = DOMAIN identities
      /\ \A v \in DOMAIN identities : v # u => identities'[v] = identities[v]
  BY <1>2 DEF SetIndexed
<1>4. IsTable(identities', Users, [created_at : Nat, indexed_at : Nat])
  <2>1. \A r \in [created_at : Nat, indexed_at : Nat] :
          [r EXCEPT !.indexed_at = Today]
            \in [created_at : Nat, indexed_at : Nat]
    BY DEF Today
  <2> QED
    BY <1>0, <1>2, <2>1 DEF TypeOK, IsTable, SetIndexed
<1>5. UniqueAccounts'
  BY <1>3 DEF LocksInv, UniqueAccounts
<1>6. ASSUME NEW t \in Sessions \ {s}, OnlySession(s)
      PROVE  FoundOK(t)'
  <2> DEFINE v == work[t]
  <2>0. FoundOK(t)
    BY DEF LocksInv
  <2>1. at'[t] = at[t] /\ work'[t] = v /\ held'[t] = held[t]
    BY <1>6 DEF OnlySession
  <2>2. ASSUME v \in OnUsers, v.kind = "claim", at[t] = "commit"
        PROVE  v.user # u
    <3>1. held[t] = {Identity(v.user)}
      BY <2>2, CommitLocks
    <3> QED
      BY <1>1, <3>1, NotBoth
  <2> QED
    BY <1>2, <1>3, <2>0, <2>1, <2>2 DEF FoundOK
<1> QED
  BY <1>0, <1>2, <1>4, <1>5, <1>6, CommitStep DEF TypeOK

LEMMA PublishInv ==
  ASSUME LocksInv, NEW s \in Sessions, at[s] = "commit", Publish(s), End(s),
         ids' = ids, faults' \in 0..MaxFaults
  PROVE  LocksInv'
BY CommitCreateInv, CommitUpdateInv, CommitDeleteInv, CommitSaveInv,
   CommitClaimInv DEF Publish

-----------------------------------------------------------------------------
LEMMA InitInv == Init => LocksInv
<1> SUFFICES ASSUME Init PROVE LocksInv
  OBVIOUS
<1>1. TypeOK
  BY TransactionsAssumption
     DEF Init, TypeOK, IsTable, Empty, Null, Today, Statements
<1>2. UniqueAccounts
  BY TransactionsAssumption DEF Init, UniqueAccounts
<1>3. \A s \in Sessions : SessionOK(s) /\ FoundOK(s)
  BY RowsAssumption DEF Init, SessionOK, FoundOK
<1>4. \A s, t \in Sessions : Apart(s, t)
  BY RowsAssumption DEF Init, Apart
<1> QED
  BY <1>1, <1>2, <1>3, <1>4 DEF LocksInv

LEMMA NextInv == LocksInv /\ [Next]_vars => LocksInv'
<1> SUFFICES ASSUME LocksInv, [Next]_vars PROVE LocksInv'
  OBVIOUS
<1>0. TypeOK
  BY DEF LocksInv
<1>1. CASE UNCHANGED vars
  BY <1>1 DEF vars, LocksInv, TypeOK, UniqueAccounts, SessionOK, FoundOK, Apart,
              CanDeleteUser
<1>2. ASSUME NEW s \in Sessions, BeginTransaction(s)
      PROVE  LocksInv'
  BY <1>2, BeginCreateInv, BeginUpdateInv, BeginDeleteInv, BeginSaveInv,
     BeginClaimInv DEF BeginTransaction
<1>3. ASSUME NEW s \in Sessions, Commit(s)
      PROVE  LocksInv'
  BY <1>0, <1>3, PublishInv DEF Commit, TypeOK
<1>4. ASSUME NEW s \in Sessions, Step(s)
      PROVE  LocksInv'
  BY <1>3, <1>4, InsertThingInv, CheckOwnerInv, UpsertSourceInv,
     InsertChannelInv, UpdateRowInv, DeleteRowInv, CascadeInv, SetOwnerNullInv,
     InsertUserRowInv DEF Step
<1>5. Fault => faults' \in 0..MaxFaults
  BY <1>0, TransactionsAssumption DEF Fault, TypeOK
<1>6. ASSUME NEW s \in Sessions, CommitFails(s)
      PROVE  LocksInv'
  BY <1>5, <1>6, PublishInv, RollbackStep DEF CommitFails
<1>7. ASSUME NEW s \in Sessions, StatementFails(s)
      PROVE  LocksInv'
  BY <1>5, <1>7, RollbackStep DEF StatementFails, Rollback
<1> QED
  BY <1>1, <1>2, <1>4, <1>6, <1>7 DEF Next

(* The invariant of the locks holds for any number of sessions, users,     *)
(* locations and data sources (DB.CreateThing, DB.DeleteUser and the other *)
(* transactions of pkg/postgres).                                          *)
THEOREM LocksInvHolds == Spec => []LocksInv
BY InitInv, NextInv, PTL DEF Spec

(* The tables and the sessions keep their types.                           *)
THEOREM TransactionsTypeCorrect == Spec => []TypeOK
<1>1. LocksInv => TypeOK
  BY DEF LocksInv
<1> QED
  BY <1>1, LocksInvHolds, PTL

-----------------------------------------------------------------------------
(* No circle of transactions that wait *)

(* How far the transaction of s has come in the order in which all take    *)
(* their locks.                                                            *)
Rank(s) ==
  CASE at[s] \in {"insertThing", "updateThing", "insertUser"} -> 0
    [] at[s] \in {"checkOwner", "deleteUser"}                 -> 1
    [] at[s] = "upsert"                                       -> next[s] + 1
    [] at[s] = "channel"                                      -> next[s] + 2
    [] at[s] = "cascade"                                      -> NumSources + 3
    [] at[s] = "setNull"                                      -> NumSources + 4
    [] OTHER                                                  -> NumSources + 5

(* The statements before which a transaction has no lock.                  *)
LockFree == {"idle", "insertThing", "updateThing", "deleteUser", "insertUser"}

LEMMA RankType ==
  ASSUME TypeOK, NEW s \in Sessions
  PROVE  Rank(s) \in 0..(NumSources + 5)
<1>1. /\ at[s] \in Statements /\ next[s] \in 1..(NumSources + 1)
      /\ NumSources \in Nat
  BY TransactionsAssumption DEF TypeOK
<1> QED
  BY <1>1 DEF Rank, Statements

(* Who waits has come less far than the one it waits for.                  *)
LEMMA WaitingRank ==
  ASSUME LocksInv, NEW s \in Sessions, NEW t \in Sessions, WaitsFor(s, t)
  PROVE  Rank(s) < Rank(t)
<1>0. /\ TypeOK
      /\ SessionOK(s) /\ FoundOK(s) /\ SessionOK(t) /\ FoundOK(t)
  BY DEF LocksInv
<1>1. /\ at[s] \in Statements /\ at[t] \in Statements
      /\ next[s] \in 1..(NumSources + 1) /\ next[t] \in 1..(NumSources + 1)
      /\ NumSources \in Nat \ {0} /\ Sources = 1..NumSources
  BY <1>0, TransactionsAssumption DEF TypeOK
<1>2. PICK lock \in Wanted(s) : Conflict(s, t, lock)
  BY DEF WaitsFor
<1>3. t # s /\ lock \in held[t]
  BY <1>2 DEF Conflict
<1>4. /\ at[t] \notin LockFree
      /\ Rank(t) >= 1
  <2>1. at[t] \notin LockFree
    BY <1>0, <1>3 DEF SessionOK, LockFree
  <2> QED
    BY <1>1, <2>1 DEF Rank, Statements, LockFree
<1>5. CASE at[s] \in {"insertThing", "updateThing", "insertUser"}
  BY <1>4, <1>5, <1>0, RankType DEF Rank
<1>6. CASE at[s] \in {"checkOwner", "deleteUser"}
  <2>1. \E u : lock = User(u)
    BY <1>2, <1>6 DEF Wanted
  <2>2. at[t] # "checkOwner"
    BY <1>0, <1>3, <2>1 DEF SessionOK, Thing, User
  <2>3. Rank(t) >= 2
    BY <1>1, <1>4, <2>2 DEF Rank, Statements, LockFree
  <2> QED
    BY <1>0, <1>6, <2>3, RankType DEF Rank
<1>7. CASE at[s] = "upsert"
  <2>1. lock = Source(next[s]) /\ next[s] <= NumSources /\ Rank(s) = next[s] + 1
    BY <1>0, <1>2, <1>7 DEF Wanted, NextSource, SessionOK, Rank
  <2>2. \A k, l : /\ Source(k) # Thing(l) /\ Source(k) # User(l)
                  /\ Source(k) # Parrot(l) /\ Source(k) # Identity(l)
                  /\ Source(k) = Source(l) => k = l
    BY DEF Source, Thing, User, Parrot, Identity
  <2>3. at[t] # "checkOwner"
    BY <1>0, <1>3, <2>1, <2>2 DEF SessionOK
  <2>4. \A n : lock \in CreateLocks(work[t], n) => next[s] < n
    BY <2>1, <2>2 DEF CreateLocks
  <2>5. at[t] = "upsert" => next[s] < next[t]
    BY <1>0, <1>3, <2>4 DEF SessionOK
  <2>6. at[t] = "channel" => next[s] < next[t] + 1
    BY <1>0, <1>3, <2>4 DEF SessionOK
  <2> QED
    BY <1>1, <1>4, <2>1, <2>3, <2>5, <2>6 DEF Rank, Statements, LockFree
<1>8. CASE at[s] = "cascade"
  <2>1. \E u : lock = Identity(u)
    BY <1>2, <1>8 DEF Wanted
  <2>2. at[t] \in {"setNull", "commit"}
    <3>1. \A v, l : /\ Identity(v) # Thing(l) /\ Identity(v) # User(l)
                    /\ Identity(v) # Parrot(l) /\ Identity(v) # Source(l)
      BY DEF Source, Thing, User, Parrot, Identity
    <3>2. at[t] \notin {"checkOwner", "upsert", "channel"}
      BY <1>0, <1>3, <2>1, <3>1 DEF SessionOK, CreateLocks
    <3>3. at[t] # "cascade"
      BY <1>0, <1>3, <2>1, <3>1 DEF SessionOK
    <3> QED
      BY <1>1, <1>4, <3>2, <3>3 DEF Statements, LockFree
  <2> QED
    BY <1>1, <1>8, <2>2 DEF Rank
<1>9. CASE at[s] = "setNull"
  <2>1. \E l \in DOMAIN things : lock = Thing(l)
    BY <1>2, <1>9 DEF Wanted, ThingsOf
  <2>2. at[t] = "commit"
    <3>1. \A v, l : /\ Thing(v) # Identity(l) /\ Thing(v) # User(l)
                    /\ Thing(v) # Parrot(l) /\ Thing(v) # Source(l)
                    /\ Thing(v) = Thing(l) => v = l
      BY DEF Source, Thing, User, Parrot, Identity
    <3>2. work[t] \in Creates => lock \notin CreateLocks(work[t], next[t] + 1)
      <4>1. work[t] \in Creates /\ at[t] # "insertThing" =>
              work[t].location \notin DOMAIN things
        BY <1>0 DEF FoundOK
      <4> QED
        BY <1>4, <2>1, <3>1, <4>1 DEF CreateLocks, LockFree
    <3> QED
      BY <1>0, <1>3, <2>1, <3>1, <3>2, Holder DEF DeleteLocks
  <2> QED
    BY <1>1, <1>9, <2>2 DEF Rank
<1>10. CASE at[s] \in {"idle", "channel", "commit"}
  BY <1>2, <1>10 DEF Wanted
<1> QED
  BY <1>1, <1>5, <1>6, <1>7, <1>8, <1>9, <1>10 DEF Statements

(* Of the transactions in S the one that has come farthest waits for none. *)
LEMMA Farthest ==
  ASSUME TypeOK, NEW S \in SUBSET Sessions, S # {}
  PROVE  \E s \in S : \A t \in S : Rank(t) <= Rank(s)
<1> DEFINE Left(s) == (NumSources + 5) - Rank(s)
           T == {Left(s) : s \in S}
<1>1. \A s \in S : Left(s) \in Nat /\ Rank(s) \in Nat
  BY RankType, TransactionsAssumption
<1>2. T \subseteq Nat /\ T # {}
  BY <1>1
<1>3. PICK n \in T : \A m \in T : ~(m < n)
  <2>1. PICK n \in T : \A m \in T : ~(<<m, n>> \in OpToRel(<, Nat))
    <3> HIDE DEF T
    <3> QED
      BY <1>2, NatLessThanWellFounded, WFMin
  <2> QED
    BY <1>2, <2>1 DEF OpToRel
<1>4. PICK s \in S : n = Left(s)
  OBVIOUS
<1>5. ASSUME NEW t \in S
      PROVE  Rank(t) <= Rank(s)
  <2>1. ~(Left(t) < Left(s))
    BY <1>3, <1>4
  <2>2. Rank(t) \in Nat /\ Rank(s) \in Nat /\ NumSources \in Nat
    BY <1>1, TransactionsAssumption
  <2> QED
    BY <2>1, <2>2
<1> QED
  BY <1>5

(* Transactions never wait for one another in a circle, whatever the       *)
(* number of sessions and data sources: the order of the statements of     *)
(* pkg/postgres is an order of the locks.                                  *)
THEOREM NoDeadlock == Spec => []NoWaitCycle
<1>1. LocksInv => NoWaitCycle
  <2> SUFFICES ASSUME LocksInv, NEW S \in SUBSET Sessions, S # {}
               PROVE  \E s \in S : \A t \in S : ~WaitsFor(s, t)
    BY DEF NoWaitCycle
  <2>0. TypeOK
    BY DEF LocksInv
  <2>1. PICK s \in S : \A t \in S : Rank(t) <= Rank(s)
    BY <2>0, Farthest
  <2>2. ASSUME NEW t \in S
        PROVE  ~WaitsFor(s, t)
    <3>1. Rank(s) \in Nat /\ Rank(t) \in Nat
      BY <2>0, RankType, TransactionsAssumption
    <3>2. WaitsFor(s, t) => Rank(s) < Rank(t)
      BY WaitingRank
    <3> QED
      BY <2>1, <3>1, <3>2
  <2> QED
    BY <2>2
<1> QED
  BY <1>1, LocksInvHolds, PTL

-----------------------------------------------------------------------------
(* The transactions are atomic *)

(* A COMMIT publishes what one step of Tables writes.                      *)
LEMMA PublishTables ==
  ASSUME LocksInv, NEW s \in Sessions, at[s] = "commit", Publish(s)
  PROVE  [TablesNext]_database
<1> DEFINE w == work[s]
<1>0. TypeOK /\ FoundOK(s)
  BY DEF LocksInv
<1>1. CASE w.kind = "create"
  <2>1. w \in Creates /\ next[s] = NumSources + 1
    BY <1>1, CommitLocks
  <2>2. w.location \in Locations /\ w.row \in Rows
    BY <2>1 DEF Creates
  <2>3. NewChannels(s) = {w.row.uid} \X Sources
    BY <2>1, TransactionsAssumption DEF NewChannels
  <2>4. CanInsertThing(things, identities, w.location, w.row)
    BY <1>0, <2>1 DEF FoundOK, CanInsertThing
  <2>5. CreateThing(w.location, w.row)
    BY <1>1, <2>3, <2>4 DEF Publish, CreateThing
  <2> QED
    BY <2>2, <2>5 DEF TablesNext
<1>2. CASE w.kind = "update"
  <2>1. w \in Updates
    BY <1>2, CommitLocks
  <2>2. w.location \in Locations /\ w.nickname \in Nicknames
    BY <2>1 DEF Updates
  <2>3. UpdateThings(w.location, w.nickname)
    BY <1>2 DEF Publish, UpdateThings
  <2> QED
    BY <2>2, <2>3 DEF TablesNext
<1>3. CASE w.kind = "delete"
  <2>1. w \in OnUsers /\ w.user \in Users
    BY <1>3, CommitLocks DEF OnUsers
  <2>2. CASE User(w.user) \in held[s]
    <3>1. CanDeleteUser(things, w.user)
      BY <1>0, <1>3, <2>1, <2>2 DEF FoundOK
    <3>2. DeleteUser(w.user)
      BY <1>3, <2>2, <3>1 DEF Publish, DeleteUser
    <3> QED
      BY <2>1, <3>2 DEF TablesNext
  <2>3. CASE User(w.user) \notin held[s]
    BY <1>3, <2>3 DEF Publish, database
  <2> QED
    BY <2>2, <2>3
<1>4. CASE w.kind = "save"
  <2>1. w \in OnUsers /\ w.user \in Users
    BY <1>4, CommitLocks DEF OnUsers
  <2>2. \A v \in DOMAIN identities : Account[v] # Account[w.user]
    BY <1>0, <1>4, <2>1 DEF FoundOK
  <2>3. SaveUser(w.user)
    BY <1>4, <2>2 DEF Publish, SaveUser
  <2> QED
    BY <2>1, <2>3 DEF TablesNext
<1>5. CASE w.kind = "claim"
  <2>1. w \in OnUsers /\ w.user \in Users
    BY <1>5, CommitLocks DEF OnUsers
  <2>2. /\ w.user \in DOMAIN identities
        /\ IsDue(identities[w.user], Today, Rest)
    BY <1>0, <1>5, <2>1 DEF FoundOK
  <2>3. NextIdentity(w.user)
    BY <1>5, <2>2 DEF Publish, NextIdentity
  <2> QED
    BY <2>1, <2>3 DEF TablesNext
<1> QED
  BY <1>1, <1>2, <1>3, <1>4, <1>5 DEF Publish

LEMMA NextTables == LocksInv /\ [Next]_vars => [TablesNext]_database
<1> SUFFICES ASSUME LocksInv, [Next]_vars PROVE [TablesNext]_database
  OBVIOUS
<1>1. CASE UNCHANGED vars
  BY <1>1 DEF vars, database
<1>2. ASSUME NEW s \in Sessions, BeginTransaction(s)
      PROVE  UNCHANGED database
  BY <1>2 DEF BeginTransaction, BeginCreate, BeginUpdate, BeginDelete,
              BeginSave, BeginClaim, Begin
<1>3. ASSUME NEW s \in Sessions, Step(s)
      PROVE  Commit(s) \/ UNCHANGED database
  BY <1>3 DEF Step, InsertThing, CheckOwner, UpsertSource, InsertChannel,
              UpdateRow, DeleteRow, Cascade, SetOwnerNull, InsertUserRow
<1>4. ASSUME NEW s \in Sessions, CommitFails(s) \/ StatementFails(s)
      PROVE  (at[s] = "commit" /\ Publish(s)) \/ UNCHANGED database
  BY <1>4 DEF CommitFails, StatementFails
<1> QED
  BY <1>1, <1>2, <1>3, <1>4, PublishTables DEF Next, Commit

(* Each transaction, of several statements and with others between them,   *)
(* has the effect of one step that checks the constraints of the schema    *)
(* and writes everything, or none.                                         *)
THEOREM TransactionsImplementTables == Spec => ImplementsTables
<1>1. Init => TablesInit
  BY TransactionsAssumption DEF Init, TablesInit
<1> QED
  BY <1>1, NextTables, LocksInvHolds, PTL DEF Spec, ImplementsTables, TablesSpec
=============================================================================
