---------------------------- MODULE KudzuProofs ----------------------------
(***************************************************************************)
(* Proofs about Indexer and Kudzu, for every value of the constants: every *)
(* set of users, locations and indexers, every window, every rest period   *)
(* and any number of faults of every kind, with passes that overlap or     *)
(* not.                                                                    *)
(*                                                                         *)
(* The inductive invariant of the indexer is CoverageInv: TypeOK, Coverage *)
(* and CopyInv.  Coverage alone is not inductive: SaveChunk writes the     *)
(* watermark of a copy, so what the copy promises must be known to be at   *)
(* Thingful.                                                               *)
(*                                                                         *)
(* That of Kudzu adds that no thing in the table is without a registered   *)
(* owner, and what a call of updateLocationHandler relies on between its   *)
(* two steps: that Thingful knows the uid it has read.                     *)
(*                                                                         *)
(* Both implement Delivery.                                                *)
(***************************************************************************)
EXTENDS Kudzu, TLAPS

-----------------------------------------------------------------------------
(***************************************************************************)
(* The indexer                                                             *)
(***************************************************************************)

(* Tables *)

(* What Thingful holds after it stores "row" under "uid". *)
LEMMA PutRemote ==
  ASSUME NEW uid \in UIDs, NEW row \in RemoteThing,
         IsTable(remote, UIDs, RemoteThing), remote' = Put(remote, uid, row)
  PROVE  /\ IsTable(remote', UIDs, RemoteThing)
         /\ DOMAIN remote' = DOMAIN remote \union {uid}
         /\ remote'[uid] = row
         /\ \A x \in DOMAIN remote : x # uid => remote'[x] = remote[x]
BY DEF Put, IsTable

(* Removing a row keeps a table a table. *)
LEMMA RemoveRow ==
  ASSUME NEW t, NEW K, NEW R, NEW k, IsTable(t, K, R)
  PROVE  IsTable(Remove(t, k), K, R)
BY DEF Remove, IsTable

(* The empty table. *)
LEMMA EmptyTable ==
  ASSUME NEW K, NEW R
  PROVE  IsTable(Empty, K, R)
BY DEF Empty, IsTable

(* UpdateThing changes neither keys, uids, owners nor geolocations, and    *)
(* sets the watermark of one location.                                     *)
LEMMA UpdateThingRow ==
  ASSUME IsTable(things, Locations, ThingRow),
         NEW l \in Locations, NEW r \in ThingRow
  PROVE  /\ IsTable(UpdateThing(things, l, r), Locations, ThingRow)
         /\ DOMAIN UpdateThing(things, l, r) = DOMAIN things
         /\ \A m \in DOMAIN things :
              /\ UpdateThing(things, l, r)[m].uid = things[m].uid
              /\ UpdateThing(things, l, r)[m].owner = things[m].owner
              /\ UpdateThing(things, l, r)[m].uploaded =
                   IF m = l THEN r.uploaded ELSE things[m].uploaded
BY DEF UpdateThing, IsTable, ThingRow

(* UpdateNickname changes nicknames only. *)
LEMMA UpdateNicknameRow ==
  ASSUME IsTable(things, Locations, ThingRow),
         NEW l, NEW n \in Nicknames \union {None}
  PROVE  /\ IsTable(UpdateNickname(things, l, n), Locations, ThingRow)
         /\ DOMAIN UpdateNickname(things, l, n) = DOMAIN things
         /\ \A m \in DOMAIN things :
              /\ UpdateNickname(things, l, n)[m].uid = things[m].uid
              /\ UpdateNickname(things, l, n)[m].owner = things[m].owner
              /\ UpdateNickname(things, l, n)[m].uploaded =
                   things[m].uploaded
BY DEF UpdateNickname, IsTable, ThingRow

-----------------------------------------------------------------------------
(* Chunks *)

(* The watermark a chunk ends at is a time, and everything up to it is     *)
(* either below the old watermark or in the chunk.                         *)
LEMMA ChunkExtends ==
  ASSUME NEW row \in ThingRow, ConstantsAssumption
  PROVE  /\ To(row) \in Nat
         /\ Chunk(row) \subseteq Nat
         /\ FirstSample..To(row) \subseteq
              (FirstSample..row.uploaded) \union Chunk(row)
         /\ row.uploaded = Null => FirstSample..To(row) = Chunk(row)
BY DEF ConstantsAssumption, ThingRow, To, From, Chunk, FirstSample, Null

-----------------------------------------------------------------------------
(* The parts of TypeOK and the frame of a step *)

TablesType ==
  /\ now \in Nat
  /\ parrot \in [Locations -> [last : Nat, nickname : Nicknames]]
  /\ IsTable(remote, UIDs, RemoteThing)
  /\ IsTable(identities, Users, Identity)
  /\ IsTable(things, Locations, ThingRow)
  /\ faults \in Nat

LocalsType ==
  /\ pc \in [Indexers -> Steps]
  /\ user \in [Indexers -> Users \union {None}]
  /\ todo = [i \in Indexers |-> todo[i]]
  /\ \A i \in Indexers : IsTable(todo[i], Locations, Snapshot)
  /\ loc \in [Indexers -> Locations \union {None}]
  /\ isNew \in [Indexers -> BOOLEAN]
  /\ copy \in [Indexers -> ThingRow \union {None}]
  /\ since \in [Indexers -> Nat]

(* The other indexers do not move. *)
OthersStay(i) ==
  \A j \in Indexers \ {i} :
    /\ pc'[j] = pc[j]
    /\ user'[j] = user[j]
    /\ todo'[j] = todo[j]
    /\ loc'[j] = loc[j]
    /\ copy'[j] = copy[j]
    /\ since'[j] = since[j]

(* Nothing is taken back: Thingful keeps things and observations, and the  *)
(* table keeps the rows and their uids.                                    *)
Grows ==
  /\ \A x \in DOMAIN remote :
       /\ x \in DOMAIN remote'
       /\ remote'[x].location = remote[x].location
       /\ remote[x].obs \subseteq remote'[x].obs
  /\ \A l \in DOMAIN things :
       /\ l \in DOMAIN things'
       /\ things'[l].uid = things[l].uid

(* TypeOK in its two parts. *)
LEMMA TypeSplit == TypeOK <=> TablesType /\ LocalsType
BY DEF TypeOK, TablesType, LocalsType

(* A step that leaves the rows alone and takes nothing from Thingful keeps *)
(* Coverage.                                                               *)
LEMMA CoverageFrame ==
  ASSUME Coverage, Grows,
         DOMAIN things' = DOMAIN things,
         \A l \in DOMAIN things : things'[l].uploaded = things[l].uploaded
  PROVE  Coverage'
<1> SUFFICES ASSUME NEW l \in DOMAIN things'
             PROVE  /\ things'[l].uid \in DOMAIN remote'
                    /\ remote'[things'[l].uid].location = l
                    /\ FirstSample..things'[l].uploaded
                         \subseteq remote'[things'[l].uid].obs
  BY DEF Coverage, FirstSample
<1>1. /\ things'[l].uid = things[l].uid
      /\ things'[l].uploaded = things[l].uploaded
      /\ things[l].uid \in DOMAIN remote
      /\ remote[things[l].uid].location = l
      /\ FirstSample..things[l].uploaded \subseteq remote[things[l].uid].obs
  BY DEF Coverage, Grows
<1> QED
  BY <1>1 DEF Grows

(* What an indexer relies on survives the steps of the others. *)
LEMMA CopyFrame ==
  ASSUME NEW j \in Indexers, CopyOK(j), Coverage, Grows,
         pc'[j] = pc[j], user'[j] = user[j], todo'[j] = todo[j],
         loc'[j] = loc[j], copy'[j] = copy[j]
  PROVE  CopyOK(j)'
<1>1. pc[j] = "insert" =>
        /\ copy[j].uid \in DOMAIN remote'
        /\ remote'[copy[j].uid].location = loc[j]
        /\ FirstSample..copy[j].uploaded \subseteq remote'[copy[j].uid].obs
  BY DEF CopyOK, Grows
<1>2. pc[j] \in Synced =>
        /\ loc[j] \in DOMAIN things'
        /\ copy[j].uid = things'[loc[j]].uid
        /\ FirstSample..copy[j].uploaded \subseteq remote'[copy[j].uid].obs
  BY DEF CopyOK, Grows, Coverage
<1>3. pc[j] = "save" => Chunk(copy[j]) \subseteq remote'[copy[j].uid].obs
  BY DEF CopyOK, Grows, Coverage, Synced
<1> QED
  BY <1>1, <1>2, <1>3 DEF CopyOK, Synced, Chunk, From, To, FirstSample

(* A step of indexer i keeps the invariant if it keeps the types and       *)
(* Coverage, takes nothing back, and leaves i itself in order.             *)
LEMMA StepFrame ==
  ASSUME NEW i \in Indexers, CoverageInv, TablesType', LocalsType',
         OthersStay(i), Grows, Coverage', CopyOK(i)'
  PROVE  CoverageInv'
<1>1. ASSUME NEW j \in Indexers PROVE CopyOK(j)'
  <2>1. CASE j = i
    BY <2>1
  <2>2. CASE j # i
    BY <2>2, CopyFrame DEF CoverageInv, CopyInv, OthersStay
  <2> QED
    BY <2>1, <2>2
<1>2. TypeOK'
  BY DEF TypeOK, TablesType, LocalsType
<1> QED
  BY <1>1, <1>2 DEF CoverageInv, CopyInv

-----------------------------------------------------------------------------
(* Steps that end the work on a location or a pass *)

(* Leaving a pass resets the locals of one indexer. *)
LEMMA LeaveLocals ==
  ASSUME NEW i \in Indexers, LocalsType, NEW step \in {"idle", "down"},
         Leave(i, step)
  PROVE  LocalsType' /\ OthersStay(i) /\ pc'[i] = step
<1>1. todo'[i] = Empty /\ \A j \in Indexers \ {i} : todo'[j] = todo[j]
  BY DEF Leave, LocalsType
<1>2. \A j \in Indexers : IsTable(todo'[j], Locations, Snapshot)
  BY <1>1, EmptyTable DEF LocalsType
<1> QED
  BY <1>1, <1>2 DEF Leave, Goto, LocalsType, OthersStay, Steps, Null

(* After "continue" the identity of the pass is still there. *)
LEMMA NextLocationLocals ==
  ASSUME NEW i \in Indexers, LocalsType, NextLocation(i)
  PROVE  /\ LocalsType' /\ OthersStay(i)
         /\ pc'[i] = "next" /\ user'[i] = user[i]
<1>1. /\ todo'[i] = Remove(todo[i], loc[i])
      /\ \A j \in Indexers \ {i} : todo'[j] = todo[j]
  BY DEF NextLocation, LocalsType
<1>2. \A j \in Indexers : IsTable(todo'[j], Locations, Snapshot)
  BY <1>1, RemoveRow DEF LocalsType
<1> QED
  BY <1>1, <1>2 DEF NextLocation, Goto, LocalsType, OthersStay, Steps

(* A step that gives up the location or the pass leaves nothing behind but *)
(* what it did to Thingful and to the tables.                              *)
LEMMA GivesUp ==
  ASSUME NEW i \in Indexers, CoverageInv, TablesType', Grows, Coverage',
         \/ Leave(i, "idle")
         \/ Leave(i, "down")
         \/ NextLocation(i) /\ user[i] # None
  PROVE  CoverageInv'
<1>1. LocalsType
  BY TypeSplit DEF CoverageInv
<1>2. LocalsType' /\ OthersStay(i)
  BY <1>1, LeaveLocals, NextLocationLocals
<1>3. CopyOK(i)'
  <2>1. CASE Leave(i, "idle")
    BY <1>1, <2>1, LeaveLocals DEF CopyOK, Synced
  <2>2. CASE Leave(i, "down")
    BY <1>1, <2>2, LeaveLocals DEF CopyOK, Synced
  <2>3. CASE NextLocation(i) /\ user[i] # None
    BY <1>1, <2>3, NextLocationLocals DEF CopyOK, Synced
  <2> QED
    BY <2>1, <2>2, <2>3
<1> QED
  BY <1>2, <1>3, StepFrame

-----------------------------------------------------------------------------
(* What the writes do to Thingful and to table things *)

(* An indexer that works on a location has a typed copy of its row. *)
LEMMA WorkingCopy ==
  ASSUME NEW i \in Indexers, CoverageInv,
         pc[i] \in {"readFirst", "create", "insert"} \union Synced
  PROVE  /\ copy[i] \in ThingRow
         /\ loc[i] \in Locations
         /\ loc[i] \in DOMAIN todo[i]
         /\ todo[i][loc[i]] \in Snapshot
<1>1. loc[i] \in DOMAIN todo[i] /\ copy[i] # None
  BY DEF CoverageInv, CopyInv, CopyOK
<1>2. IsTable(todo[i], Locations, Snapshot) /\ copy[i] \in ThingRow \union {None}
  BY DEF CoverageInv, TypeOK
<1> QED
  BY <1>1, <1>2 DEF IsTable

(* Neither Thingful nor the table is touched. *)
LEMMA NoWrite ==
  ASSUME CoverageInv, UNCHANGED <<remote, things>>
  PROVE  Grows /\ Coverage'
BY DEF CoverageInv, Coverage, Grows, FirstSample

(* Thingful creates a thing under a uid it has not used before. *)
LEMMA StoreNewEffect ==
  ASSUME NEW i \in Indexers, CoverageInv, ConstantsAssumption,
         pc[i] = "create", NEW uid \in UIDs \ DOMAIN remote,
         StoreNew(i, uid), UNCHANGED things
  PROVE  /\ IsTable(remote', UIDs, RemoteThing)
         /\ Grows
         /\ Coverage'
         /\ uid \in DOMAIN remote'
         /\ remote'[uid].location = loc[i]
         /\ FirstSample..To(copy[i]) \subseteq remote'[uid].obs
<1> DEFINE row == [location |-> loc[i], title |-> copy[i].nickname,
                   geo |-> copy[i].geo, obs |-> Chunk(copy[i])]
<1>1. copy[i] \in ThingRow /\ loc[i] \in Locations
  BY WorkingCopy
<1>2. Chunk(copy[i]) \in SUBSET Nat /\ FirstSample..To(copy[i]) = Chunk(copy[i])
  <2>1. copy[i].uploaded = Null
    BY DEF CoverageInv, CopyInv, CopyOK
  <2> QED
    BY <1>1, <2>1, ChunkExtends
<1>3. row \in RemoteThing
  BY <1>1, <1>2 DEF RemoteThing, ThingRow
<1>4. remote' = Put(remote, uid, row)
  BY DEF StoreNew
<1>5. IsTable(remote, UIDs, RemoteThing)
  BY DEF CoverageInv, TypeOK
<1>6. /\ IsTable(remote', UIDs, RemoteThing)
      /\ DOMAIN remote' = DOMAIN remote \union {uid}
      /\ remote'[uid] = row
      /\ \A x \in DOMAIN remote : remote'[x] = remote[x]
  <2> HIDE DEF row
  <2> QED
    BY <1>3, <1>4, <1>5, PutRemote
<1>7. Grows
  BY <1>6 DEF Grows
<1>8. Coverage'
  BY <1>7, CoverageFrame DEF CoverageInv
<1>9. remote'[uid].location = loc[i] /\ remote'[uid].obs = Chunk(copy[i])
  BY <1>6
<1> QED
  BY <1>2, <1>6, <1>7, <1>8, <1>9

(* A chunk is added to the observations of a thing that exists. *)
LEMMA StoreChunkEffect ==
  ASSUME NEW i \in Indexers, CoverageInv, ConstantsAssumption,
         pc[i] = "push", StoreChunk(i), UNCHANGED things
  PROVE  /\ IsTable(remote', UIDs, RemoteThing)
         /\ Grows
         /\ Coverage'
         /\ Chunk(copy[i]) \subseteq remote'[copy[i].uid].obs
<1>1. copy[i] \in ThingRow
  BY WorkingCopy DEF Synced
<1>2. copy[i].uid \in DOMAIN remote
  BY DEF CoverageInv, CopyInv, CopyOK, Coverage, Synced
<1>3. Chunk(copy[i]) \in SUBSET Nat
  BY <1>1, ChunkExtends
<1>4. IsTable(remote, UIDs, RemoteThing)
  BY DEF CoverageInv, TypeOK
<1> DEFINE uid == copy[i].uid
           row == [location |-> remote[uid].location,
                   title |-> copy[i].nickname, geo |-> copy[i].geo,
                   obs |-> remote[uid].obs \union Chunk(copy[i])]
<1>5. remote[uid] \in RemoteThing /\ uid \in UIDs
  BY <1>2, <1>4 DEF IsTable
<1>6. row \in RemoteThing
  BY <1>1, <1>3, <1>5 DEF RemoteThing, ThingRow
<1>7. /\ IsTable(remote', UIDs, RemoteThing)
      /\ DOMAIN remote' = DOMAIN remote \union {uid}
      /\ remote'[uid] = row
      /\ \A x \in DOMAIN remote : x # uid => remote'[x] = remote[x]
  <2>1. remote' = Put(remote, uid, row)
    BY DEF StoreChunk
  <2> HIDE DEF row, uid
  <2> QED
    BY <1>4, <1>5, <1>6, <2>1, PutRemote
<1>8. /\ remote'[uid].location = remote[uid].location
      /\ remote'[uid].obs = remote[uid].obs \union Chunk(copy[i])
  BY <1>7
<1>9. Grows
  <2> HIDE DEF row, uid
  <2> QED
    BY <1>7, <1>8 DEF Grows
<1>10. Coverage'
  BY <1>9, CoverageFrame DEF CoverageInv
<1> QED
  BY <1>7, <1>8, <1>9, <1>10

(* A row is inserted for a location that has none. *)
LEMMA InsertEffect ==
  ASSUME NEW i \in Indexers, CoverageInv, pc[i] = "insert",
         CanInsert(i), InsertRow(i), UNCHANGED remote
  PROVE  /\ IsTable(things', Locations, ThingRow)
         /\ Grows
         /\ Coverage'
         /\ loc[i] \in DOMAIN things'
         /\ things'[loc[i]] = copy[i]
<1>1. copy[i] \in ThingRow /\ loc[i] \in Locations
  BY WorkingCopy
<1>2. loc[i] \notin DOMAIN things
  BY DEF CanInsert, CanInsertThing
<1>3. IsTable(things, Locations, ThingRow)
  BY DEF CoverageInv, TypeOK
<1>4. /\ IsTable(things', Locations, ThingRow)
      /\ DOMAIN things' = DOMAIN things \union {loc[i]}
      /\ things'[loc[i]] = copy[i]
      /\ \A l \in DOMAIN things : things'[l] = things[l]
  BY <1>1, <1>2, <1>3 DEF InsertRow, Put, IsTable
<1>5. Grows
  BY <1>4 DEF Grows
<1>6. /\ copy[i].uid \in DOMAIN remote
      /\ remote[copy[i].uid].location = loc[i]
      /\ FirstSample..copy[i].uploaded \subseteq remote[copy[i].uid].obs
  BY DEF CoverageInv, CopyInv, CopyOK
<1>7. Coverage'
  BY <1>4, <1>6 DEF CoverageInv, Coverage, FirstSample
<1> QED
  BY <1>4, <1>5, <1>7

(* The watermark of a row moves to the end of a chunk that is at Thingful. *)
LEMMA SaveEffect ==
  ASSUME NEW i \in Indexers, CoverageInv, ConstantsAssumption,
         pc[i] = "save", things' = UpdateThing(things, loc[i], Saved(i)),
         UNCHANGED remote
  PROVE  /\ IsTable(things', Locations, ThingRow)
         /\ Grows
         /\ Coverage'
         /\ Saved(i) \in ThingRow
         /\ FirstSample..Saved(i).uploaded \subseteq remote[copy[i].uid].obs
         /\ Saved(i).uid = copy[i].uid
<1>1. /\ copy[i] \in ThingRow
      /\ loc[i] \in Locations
      /\ todo[i][loc[i]] \in Snapshot
  BY WorkingCopy DEF Synced
<1>2. /\ To(copy[i]) \in Nat
      /\ FirstSample..To(copy[i]) \subseteq
           (FirstSample..copy[i].uploaded) \union Chunk(copy[i])
  BY <1>1, ChunkExtends
<1>3. /\ Saved(i) \in ThingRow
      /\ Saved(i).uploaded = To(copy[i])
      /\ Saved(i).uid = copy[i].uid
  BY <1>1, <1>2 DEF Saved, ThingRow, Snapshot
<1>4. IsTable(things, Locations, ThingRow)
  BY DEF CoverageInv, TypeOK
<1>5. /\ IsTable(things', Locations, ThingRow)
      /\ DOMAIN things' = DOMAIN things
      /\ \A m \in DOMAIN things :
           /\ things'[m].uid = things[m].uid
           /\ things'[m].uploaded =
                IF m = loc[i] THEN Saved(i).uploaded ELSE things[m].uploaded
  BY <1>1, <1>3, <1>4, UpdateThingRow
<1>6. Grows
  BY <1>5 DEF Grows
<1>7. /\ loc[i] \in DOMAIN things
      /\ copy[i].uid = things[loc[i]].uid
      /\ FirstSample..To(copy[i]) \subseteq remote[copy[i].uid].obs
  BY <1>2 DEF CoverageInv, CopyInv, CopyOK, Synced
<1>8. Coverage'
  <2>1. ASSUME NEW l \in DOMAIN things'
        PROVE  /\ things'[l].uid \in DOMAIN remote'
               /\ remote'[things'[l].uid].location = l
               /\ FirstSample..things'[l].uploaded
                    \subseteq remote'[things'[l].uid].obs
    <3>1. CASE l = loc[i]
      BY <1>3, <1>5, <1>7, <3>1 DEF CoverageInv, Coverage
    <3>2. CASE l # loc[i]
      BY <1>5, <3>2 DEF CoverageInv, Coverage
    <3> QED
      BY <3>1, <3>2
  <2> QED
    BY <2>1 DEF Coverage, FirstSample
<1> QED
  BY <1>3, <1>5, <1>6, <1>7, <1>8

(* A nickname is written. *)
LEMMA NicknameEffect ==
  ASSUME NEW i \in Indexers, CoverageInv, pc[i] = "more", UNCHANGED remote,
         things' = UpdateNickname(things, loc[i], todo[i][loc[i]].nickname)
  PROVE  IsTable(things', Locations, ThingRow) /\ Grows /\ Coverage'
<1>1. todo[i][loc[i]].nickname \in Nicknames \union {None}
  BY WorkingCopy DEF Synced, Snapshot
<1>2. IsTable(things, Locations, ThingRow)
  BY DEF CoverageInv, TypeOK
<1>3. /\ IsTable(things', Locations, ThingRow)
      /\ DOMAIN things' = DOMAIN things
      /\ \A m \in DOMAIN things :
           /\ things'[m].uid = things[m].uid
           /\ things'[m].uploaded = things[m].uploaded
  BY <1>1, <1>2, UpdateNicknameRow
<1>4. Grows
  BY <1>3 DEF Grows
<1> QED
  BY <1>3, <1>4, CoverageFrame DEF CoverageInv

-----------------------------------------------------------------------------
(* The steps, by kind *)

(* The environment touches nothing an indexer relies on. *)
LEMMA EnvironmentKeeps ==
  ASSUME CoverageInv, Environment
  PROVE  CoverageInv'
<1>1. UNCHANGED <<remote, identities, things, pc, user, todo, loc, isNew,
                  copy, since, faults>>
  BY DEF Environment, Tick, NewSample, Rename, tables, locals
<1>2. /\ now' \in Nat
      /\ parrot' \in [Locations -> [last : Nat, nickname : Nicknames]]
  <2>1. CASE Tick
    BY <2>1 DEF Tick, CoverageInv, TypeOK
  <2>2. ASSUME NEW l \in Locations, NewSample(l)
        PROVE  /\ now' \in Nat
               /\ parrot' \in [Locations -> [last : Nat, nickname : Nicknames]]
    BY <2>2 DEF NewSample, CoverageInv, TypeOK
  <2>3. ASSUME NEW l \in Locations, Rename(l)
        PROVE  /\ now' \in Nat
               /\ parrot' \in [Locations -> [last : Nat, nickname : Nicknames]]
    BY <2>3 DEF Rename, CoverageInv, TypeOK
  <2> QED
    BY <2>1, <2>2, <2>3 DEF Environment
<1>3. TypeOK'
  BY <1>1, <1>2 DEF CoverageInv, TypeOK
<1>4. Coverage'
  BY <1>1 DEF CoverageInv, Coverage, FirstSample
<1>5. CopyInv'
  BY <1>1 DEF CoverageInv, CopyInv, CopyOK, Synced, Chunk, From, To,
              FirstSample
<1> QED
  BY <1>3, <1>4, <1>5 DEF CoverageInv

(* A claim writes a time into one row of the identities. *)
LEMMA ClaimType ==
  ASSUME CoverageInv, NEW u \in Users,
         identities' = SetIndexed(identities, u, now)
  PROVE  IsTable(identities', Users, Identity)
<1>1. IsTable(identities, Users, Identity) /\ now \in Nat
  BY DEF CoverageInv, TypeOK
<1> QED
  BY <1>1 DEF SetIndexed, IsTable, Identity

(* A fault is counted. *)
LEMMA FaultCounted ==
  ASSUME CoverageInv, NEW kind, Fault(kind)
  PROVE  faults' \in Nat
BY DEF CoverageInv, TypeOK, Fault

(* The failures that give up a location or a pass. *)
LEMMA FailureKeeps ==
  ASSUME CoverageInv, ConstantsAssumption, NEW i \in Indexers, Failure(i)
  PROVE  CoverageInv'
<1>1. TablesType /\ LocalsType
  BY TypeSplit DEF CoverageInv
<1>2. pc[i] \notin {"idle", "down"} => user[i] # None
  BY DEF CoverageInv, CopyInv, CopyOK
<1>3. CASE CommitClaimFails(i)
  <2>1. user[i] \in Users
    BY <1>1, <1>2, <1>3 DEF CommitClaimFails, LocalsType
  <2>2. IsTable(identities', Users, Identity)
    BY <1>1, <1>3, <2>1, ClaimType DEF CommitClaimFails, TablesType
  <2>3. TablesType'
    BY <1>1, <1>3, <2>2, FaultCounted
       DEF CommitClaimFails, TablesType, external
  <2>4. LocalsType' /\ OthersStay(i) /\ pc'[i] = "status" /\ user'[i] = user[i]
    BY <1>1, <1>3
       DEF CommitClaimFails, LocalsType, Goto, locals, OthersStay, Steps
  <2>5. Grows /\ Coverage'
    BY <1>3, NoWrite DEF CommitClaimFails
  <2>6. CopyOK(i)'
    BY <1>2, <1>3, <2>4 DEF CommitClaimFails, CopyOK, Synced
  <2> QED
    BY <2>3, <2>4, <2>5, <2>6, StepFrame
<1>4. CASE NextIdentityFails(i) \/ Crash(i) \/ GetLocationsFails(i)
             \/ GetThingFails(i) \/ GetReadingsFails(i)
  <2>1. TablesType'
    BY <1>1, <1>4, FaultCounted
       DEF NextIdentityFails, Crash, GetLocationsFails, GetThingFails,
           GetReadingsFails, TablesType, external, tables
  <2>2. Grows /\ Coverage'
    BY <1>4, NoWrite
       DEF NextIdentityFails, Crash, GetLocationsFails, GetThingFails,
           GetReadingsFails, tables
  <2>3. \/ Leave(i, "idle") \/ Leave(i, "down")
        \/ NextLocation(i) /\ user[i] # None
    BY <1>2, <1>4
       DEF NextIdentityFails, Crash, GetLocationsFails, GetThingFails,
           GetReadingsFails, EndPass
  <2> QED
    BY <2>1, <2>2, <2>3, GivesUp
<1>5. CASE CreateThingFails(i)
  <2>1. IsTable(remote', UIDs, RemoteThing) /\ Grows /\ Coverage'
    BY <1>1, <1>5, NoWrite, StoreNewEffect
       DEF CreateThingFails, TablesType, tables
  <2>2. TablesType'
    BY <1>1, <1>5, <2>1, FaultCounted
       DEF CreateThingFails, TablesType, external, tables
  <2> QED
    BY <1>2, <1>5, <2>1, <2>2, GivesUp DEF CreateThingFails
<1>6. CASE InsertThingFails(i)
  <2>1. IsTable(things', Locations, ThingRow) /\ Grows /\ Coverage'
    BY <1>1, <1>6, NoWrite, InsertEffect DEF InsertThingFails, TablesType
  <2>2. TablesType'
    BY <1>1, <1>6, <2>1, FaultCounted
       DEF InsertThingFails, TablesType, external
  <2> QED
    BY <1>2, <1>6, <2>1, <2>2, GivesUp DEF InsertThingFails
<1>7. CASE UpdateNicknameFails(i)
  <2>1. IsTable(things', Locations, ThingRow) /\ Grows /\ Coverage'
    BY <1>1, <1>7, NoWrite, NicknameEffect DEF UpdateNicknameFails, TablesType
  <2>2. TablesType'
    BY <1>1, <1>7, <2>1, FaultCounted
       DEF UpdateNicknameFails, TablesType, external
  <2> QED
    BY <1>2, <1>7, <2>1, <2>2, GivesUp DEF UpdateNicknameFails
<1>8. CASE PushChunkFails(i)
  <2>1. IsTable(remote', UIDs, RemoteThing) /\ Grows /\ Coverage'
    BY <1>1, <1>8, NoWrite, StoreChunkEffect
       DEF PushChunkFails, TablesType, tables
  <2>2. TablesType'
    BY <1>1, <1>8, <2>1, FaultCounted
       DEF PushChunkFails, TablesType, external, tables
  <2> QED
    BY <1>2, <1>8, <2>1, <2>2, GivesUp DEF PushChunkFails
<1>9. CASE SaveChunkFails(i)
  <2>1. IsTable(things', Locations, ThingRow) /\ Grows /\ Coverage'
    BY <1>1, <1>9, NoWrite, SaveEffect DEF SaveChunkFails, TablesType
  <2>2. TablesType'
    BY <1>1, <1>9, <2>1, FaultCounted
       DEF SaveChunkFails, TablesType, external
  <2> QED
    BY <1>2, <1>9, <2>1, <2>2, GivesUp DEF SaveChunkFails
<1>10. CASE Restart(i)
  <2>1. TablesType' /\ Grows /\ Coverage'
    BY <1>1, <1>10, NoWrite DEF Restart, TablesType, external, tables
  <2>2. LocalsType' /\ OthersStay(i) /\ pc'[i] = "idle"
    BY <1>1, <1>10 DEF Restart, LocalsType, Goto, locals, OthersStay, Steps
  <2>3. CopyOK(i)'
    BY <2>2 DEF CopyOK, Synced
  <2> QED
    BY <2>1, <2>2, <2>3, StepFrame
<1> QED
  BY <1>3, <1>4, <1>5, <1>6, <1>7, <1>8, <1>9, <1>10 DEF Failure

(* The steps that only move on, or change what the indexer remembers. *)
LEMMA ReadingStepKeeps ==
  ASSUME CoverageInv, NEW i \in Indexers,
         \/ SelectIdentity(i) \/ CommitClaim(i)
         \/ FetchStatus(i) \/ FetchConfiguration(i)
         \/ GetThing(i) \/ FinishPass(i)
         \/ ReadFirst(i) \/ ReadMore(i) \/ ReadChunk(i)
  PROVE  CoverageInv'
<1>1. TablesType /\ LocalsType
  BY TypeSplit DEF CoverageInv
<1>2. pc[i] \notin {"idle", "down"} => user[i] # None
  BY DEF CoverageInv, CopyInv, CopyOK
<1>3. CASE SelectIdentity(i)
  <2>1. TablesType' /\ Grows /\ Coverage'
    BY <1>1, <1>3, NoWrite DEF SelectIdentity, TablesType, external, tables
  <2>2. PICK u \in Users : user' = [user EXCEPT ![i] = u]
    BY <1>1, <1>3
       DEF SelectIdentity, NextIdentities, TablesType, IsTable
  <2>3. LocalsType' /\ OthersStay(i) /\ pc'[i] = "claiming" /\ user'[i] = u
    <3>1. now \in Nat
      BY <1>1 DEF TablesType
    <3> QED
      BY <1>1, <1>3, <2>2, <3>1
         DEF SelectIdentity, LocalsType, Goto, OthersStay, Steps
  <2>4. CopyOK(i)'
    BY <2>3, NoneAssumption DEF CopyOK, Synced
  <2> QED
    BY <2>1, <2>3, <2>4, StepFrame
<1>4. CASE CommitClaim(i)
  <2>1. user[i] \in Users
    BY <1>1, <1>2, <1>4 DEF CommitClaim, LocalsType
  <2>2. IsTable(identities', Users, Identity)
    BY <1>4, <2>1, ClaimType DEF CommitClaim
  <2>3. TablesType' /\ Grows /\ Coverage'
    BY <1>1, <1>4, <2>2, NoWrite DEF CommitClaim, TablesType, external
  <2>4. LocalsType' /\ OthersStay(i) /\ pc'[i] = "status" /\ user'[i] = user[i]
    BY <1>1, <1>4 DEF CommitClaim, LocalsType, Goto, locals, OthersStay, Steps
  <2>5. CopyOK(i)'
    BY <1>2, <1>4, <2>4 DEF CommitClaim, CopyOK, Synced
  <2> QED
    BY <2>3, <2>4, <2>5, StepFrame
<1>5. CASE FetchStatus(i)
  <2>1. TablesType' /\ Grows /\ Coverage'
    BY <1>1, <1>5, NoWrite DEF FetchStatus, TablesType, external, tables
  <2>2. user[i] \in Users
    BY <1>1, <1>2, <1>5 DEF FetchStatus, LocalsType
  <2>3. IsTable([l \in {m \in Owned[user[i]] : IsValid(m)} |->
                   [last |-> parrot[l].last, nickname |-> None]],
                Locations, Snapshot)
    BY <1>1, <2>2, ConstantsAssumption
       DEF ConstantsAssumption, IsTable, Snapshot, TablesType
  <2>4. LocalsType' /\ OthersStay(i) /\ pc'[i] = "configuration"
        /\ user'[i] = user[i]
    BY <1>1, <1>5, <2>3 DEF FetchStatus, LocalsType, Goto, OthersStay, Steps
  <2>5. CopyOK(i)'
    BY <1>2, <1>5, <2>4 DEF FetchStatus, CopyOK, Synced
  <2> QED
    BY <2>1, <2>4, <2>5, StepFrame
<1>6. CASE FetchConfiguration(i)
  <2>1. TablesType' /\ Grows /\ Coverage'
    BY <1>1, <1>6, NoWrite DEF FetchConfiguration, TablesType, external, tables
  <2>2. IsTable([l \in DOMAIN todo[i] \intersect Fitted |->
                   [todo[i][l] EXCEPT !.nickname = parrot[l].nickname]],
                Locations, Snapshot)
    <3>1. /\ DOMAIN todo[i] \subseteq Locations
          /\ \A l \in DOMAIN todo[i] :
               /\ todo[i][l] \in Snapshot
               /\ parrot[l].nickname \in Nicknames
      BY <1>1 DEF LocalsType, TablesType, IsTable
    <3>2. \A l \in DOMAIN todo[i] :
            [todo[i][l] EXCEPT !.nickname = parrot[l].nickname] \in Snapshot
      BY <3>1 DEF Snapshot
    <3> QED
      BY <3>1, <3>2 DEF IsTable
  <2>3. LocalsType' /\ OthersStay(i) /\ pc'[i] = "next" /\ user'[i] = user[i]
    BY <1>1, <1>6, <2>2
       DEF FetchConfiguration, LocalsType, Goto, OthersStay, Steps
  <2>4. CopyOK(i)'
    BY <1>2, <1>6, <2>3 DEF FetchConfiguration, CopyOK, Synced
  <2> QED
    BY <2>1, <2>3, <2>4, StepFrame
<1>7. CASE GetThing(i)
  <2>1. TablesType' /\ Grows /\ Coverage'
    BY <1>1, <1>7, NoWrite DEF GetThing, TablesType, external, tables
  <2>2. user[i] \in Users
    BY <1>1, <1>2, <1>7 DEF GetThing, LocalsType
  <2>3. PICK l \in DOMAIN todo[i] :
          /\ loc' = [loc EXCEPT ![i] = l]
          /\ \/ /\ NoRows(l)
                /\ copy' = [copy EXCEPT ![i] = NewRow(i, l)]
                /\ isNew' = [isNew EXCEPT ![i] = TRUE]
                /\ Goto(i, "readFirst")
             \/ /\ ~NoRows(l)
                /\ copy' = [copy EXCEPT ![i] = Load(i, l)]
                /\ isNew' = [isNew EXCEPT ![i] = FALSE]
                /\ Goto(i, "more")
    BY <1>7 DEF GetThing
  <2>4. l \in Locations /\ todo[i][l] \in Snapshot
    BY <1>1 DEF LocalsType, IsTable
  <2>5. NewRow(i, l) \in ThingRow /\ NewRow(i, l).uploaded = Null
    BY <2>2, <2>4, ConstantsAssumption
       DEF NewRow, ThingRow, Snapshot, ConstantsAssumption, Null
  <2>6. l \in DOMAIN things =>
          /\ Load(i, l) \in ThingRow
          /\ Load(i, l).uid = things[l].uid
          /\ Load(i, l).uploaded = things[l].uploaded
    <3>1. todo[i][l].last \in Nat
      BY <2>4 DEF Snapshot
    <3>2. l \in DOMAIN things => things[l] \in ThingRow
      BY <1>1 DEF TablesType, IsTable
    <3> QED
      BY <3>1, <3>2 DEF Load, ThingRow
  <2>7. None \notin ThingRow
    BY NoneIsNoRow
  <2>8. LocalsType' /\ OthersStay(i) /\ user'[i] = user[i]
        /\ todo'[i] = todo[i] /\ loc'[i] = l
    <3>1. \E step \in {"readFirst", "more"}, row \in ThingRow, b \in BOOLEAN :
            /\ pc' = [pc EXCEPT ![i] = step]
            /\ copy' = [copy EXCEPT ![i] = row]
            /\ isNew' = [isNew EXCEPT ![i] = b]
      BY <2>3, <2>5, <2>6 DEF Goto, NoRows
    <3>2. UNCHANGED <<user, todo, since>>
      BY <1>7 DEF GetThing
    <3> QED
      BY <1>1, <2>3, <2>4, <3>1, <3>2 DEF LocalsType, OthersStay, Steps
  <2>9. \/ /\ pc'[i] = "readFirst"
           /\ copy'[i] = NewRow(i, l)
        \/ /\ pc'[i] = "more"
           /\ copy'[i] = Load(i, l)
           /\ l \in DOMAIN things
    BY <1>1, <2>3 DEF Goto, LocalsType, NoRows
  <2>10. CopyOK(i)'
    BY <1>2, <1>7, <2>5, <2>6, <2>7, <2>8, <2>9
       DEF GetThing, tables, CopyOK, Synced, CoverageInv, Coverage, FirstSample
  <2> QED
    BY <2>1, <2>8, <2>10, StepFrame
<1>8. CASE FinishPass(i)
  <2>1. TablesType' /\ Grows /\ Coverage'
    BY <1>1, <1>8, NoWrite DEF FinishPass, TablesType, external, tables
  <2> QED
    BY <1>8, <2>1, GivesUp DEF FinishPass, EndPass
<1>9. CASE ReadFirst(i) \/ ReadMore(i) \/ ReadChunk(i)
  <2>1. TablesType' /\ Grows /\ Coverage' /\ UNCHANGED <<remote, things>>
    BY <1>1, <1>9, NoWrite
       DEF ReadFirst, ReadMore, ReadChunk, TablesType, external, tables
  <2>2. LocalsType' /\ OthersStay(i) /\ user'[i] = user[i]
        /\ todo'[i] = todo[i] /\ loc'[i] = loc[i] /\ copy'[i] = copy[i]
    BY <1>1, <1>9
       DEF ReadFirst, ReadMore, ReadChunk, LocalsType, Goto, locals,
           OthersStay, Steps
  <2>3. \/ pc[i] = "readFirst" /\ pc'[i] = "create"
        \/ pc[i] = "more" /\ pc'[i] = "read"
        \/ pc[i] = "read" /\ pc'[i] = "push"
    BY <1>1, <1>9 DEF ReadFirst, ReadMore, ReadChunk, LocalsType, Goto
  <2>4. CopyOK(i)'
    BY <1>2, <2>1, <2>2, <2>3
       DEF CopyOK, Synced, CoverageInv, CopyInv, FirstSample
  <2> QED
    BY <2>1, <2>2, <2>4, StepFrame
<1> QED
  BY <1>3, <1>4, <1>5, <1>6, <1>7, <1>8, <1>9

(* The steps that write to Thingful or to table things. *)
LEMMA WritingStepKeeps ==
  ASSUME CoverageInv, ConstantsAssumption, NEW i \in Indexers,
         \/ CreateThing(i) \/ InsertThing(i) \/ InsertThingRejected(i)
         \/ FinishLocation(i) \/ PushChunk(i) \/ SaveChunk(i)
  PROVE  CoverageInv'
<1>1. TablesType /\ LocalsType
  BY TypeSplit DEF CoverageInv
<1>2. pc[i] \notin {"idle", "down"} => user[i] # None
  BY DEF CoverageInv, CopyInv, CopyOK
<1>3. None \notin ThingRow
  BY NoneIsNoRow
<1>4. CASE CreateThing(i)
  <2>1. PICK uid \in UIDs \ DOMAIN remote :
          /\ StoreNew(i, uid)
          /\ copy' = [copy EXCEPT ![i].uid = uid, ![i].uploaded = To(copy[i])]
    BY <1>4 DEF CreateThing
  <2>2. pc[i] = "create" /\ UNCHANGED things
    BY <1>4 DEF CreateThing, tables
  <2>3. /\ IsTable(remote', UIDs, RemoteThing)
        /\ Grows
        /\ Coverage'
        /\ uid \in DOMAIN remote'
        /\ remote'[uid].location = loc[i]
        /\ FirstSample..To(copy[i]) \subseteq remote'[uid].obs
    BY <2>1, <2>2, StoreNewEffect
  <2>4. TablesType'
    BY <1>1, <1>4, <2>3 DEF CreateThing, TablesType, external, tables
  <2>5. copy[i] \in ThingRow /\ loc[i] \in DOMAIN todo[i]
    BY <2>2, WorkingCopy
  <2>6. To(copy[i]) \in Nat
    BY <2>5, ChunkExtends
  <2>7. /\ copy'[i] \in ThingRow
        /\ copy'[i].uid = uid
        /\ copy'[i].uploaded = To(copy[i])
        /\ \A j \in Indexers \ {i} : copy'[j] = copy[j]
        /\ copy' \in [Indexers -> ThingRow \union {None}]
    BY <1>1, <2>1, <2>5, <2>6 DEF LocalsType, ThingRow
  <2>8. LocalsType' /\ OthersStay(i) /\ pc'[i] = "insert" /\ user'[i] = user[i]
        /\ todo'[i] = todo[i] /\ loc'[i] = loc[i]
    BY <1>1, <1>4, <2>7 DEF CreateThing, LocalsType, Goto, OthersStay, Steps
  <2>9. CopyOK(i)'
    BY <1>2, <1>3, <2>2, <2>3, <2>5, <2>7, <2>8
       DEF CopyOK, Synced, FirstSample
  <2> QED
    BY <2>3, <2>4, <2>8, <2>9, StepFrame
<1>5. CASE InsertThing(i)
  <2>1. /\ pc[i] = "insert"
        /\ IsTable(things', Locations, ThingRow)
        /\ Grows
        /\ Coverage'
        /\ loc[i] \in DOMAIN things'
        /\ things'[loc[i]] = copy[i]
    BY <1>5, InsertEffect DEF InsertThing
  <2>2. TablesType'
    BY <1>1, <1>5, <2>1 DEF InsertThing, TablesType, external
  <2>3. LocalsType' /\ OthersStay(i) /\ pc'[i] = "more" /\ user'[i] = user[i]
        /\ todo'[i] = todo[i] /\ loc'[i] = loc[i] /\ copy'[i] = copy[i]
    BY <1>1, <1>5 DEF InsertThing, LocalsType, Goto, locals, OthersStay, Steps
  <2>4. CopyOK(i)'
    BY <1>2, <1>5, <2>1, <2>3
       DEF InsertThing, CopyOK, Synced, CoverageInv, CopyInv, FirstSample
  <2> QED
    BY <2>1, <2>2, <2>3, <2>4, StepFrame
<1>6. CASE InsertThingRejected(i)
  <2>1. TablesType' /\ Grows /\ Coverage'
    BY <1>1, <1>6, NoWrite
       DEF InsertThingRejected, TablesType, external, tables
  <2> QED
    BY <1>2, <1>6, <2>1, GivesUp DEF InsertThingRejected
<1>7. CASE FinishLocation(i)
  <2>1. IsTable(things', Locations, ThingRow) /\ Grows /\ Coverage'
    BY <1>1, <1>7, NoWrite, NicknameEffect DEF FinishLocation, TablesType
  <2>2. TablesType'
    BY <1>1, <1>7, <2>1 DEF FinishLocation, TablesType, external
  <2> QED
    BY <1>2, <1>7, <2>1, <2>2, GivesUp DEF FinishLocation
<1>8. CASE PushChunk(i)
  <2>1. /\ pc[i] = "push"
        /\ IsTable(remote', UIDs, RemoteThing)
        /\ Grows
        /\ Coverage'
        /\ Chunk(copy[i]) \subseteq remote'[copy[i].uid].obs
        /\ UNCHANGED things
    BY <1>8, StoreChunkEffect DEF PushChunk, tables
  <2>2. TablesType'
    BY <1>1, <1>8, <2>1 DEF PushChunk, TablesType, external, tables
  <2>3. LocalsType' /\ OthersStay(i) /\ pc'[i] = "save" /\ user'[i] = user[i]
        /\ todo'[i] = todo[i] /\ loc'[i] = loc[i] /\ copy'[i] = copy[i]
    BY <1>1, <1>8 DEF PushChunk, LocalsType, Goto, locals, OthersStay, Steps
  <2>4. /\ loc[i] \in DOMAIN todo[i] /\ copy[i] # None
        /\ loc[i] \in DOMAIN things
        /\ copy[i].uid = things[loc[i]].uid
        /\ copy[i].uid \in DOMAIN remote
        /\ FirstSample..copy[i].uploaded \subseteq remote[copy[i].uid].obs
    BY <2>1 DEF CoverageInv, CopyInv, CopyOK, Synced, Coverage
  <2>5. FirstSample..copy[i].uploaded \subseteq remote'[copy[i].uid].obs
    BY <2>1, <2>4 DEF Grows
  <2>6. CopyOK(i)'
    BY <1>2, <2>1, <2>3, <2>4, <2>5
       DEF CopyOK, Synced, Chunk, From, To, FirstSample
  <2> QED
    BY <2>1, <2>2, <2>3, <2>6, StepFrame
<1>9. CASE SaveChunk(i)
  <2>1. /\ pc[i] = "save"
        /\ IsTable(things', Locations, ThingRow)
        /\ Grows
        /\ Coverage'
        /\ Saved(i) \in ThingRow
        /\ FirstSample..Saved(i).uploaded \subseteq remote[copy[i].uid].obs
        /\ Saved(i).uid = copy[i].uid
    BY <1>9, SaveEffect DEF SaveChunk
  <2>2. TablesType'
    BY <1>1, <1>9, <2>1 DEF SaveChunk, TablesType, external
  <2>3. LocalsType' /\ OthersStay(i) /\ pc'[i] = "more" /\ user'[i] = user[i]
        /\ todo'[i] = todo[i] /\ loc'[i] = loc[i] /\ copy'[i] = Saved(i)
    BY <1>1, <1>9, <2>1 DEF SaveChunk, LocalsType, Goto, OthersStay, Steps
  <2>4. /\ loc[i] \in DOMAIN todo[i]
        /\ loc[i] \in DOMAIN things
        /\ copy[i].uid = things[loc[i]].uid
    BY <2>1 DEF CoverageInv, CopyInv, CopyOK, Synced
  <2>5. CopyOK(i)'
    BY <1>2, <1>3, <1>9, <2>1, <2>3, <2>4
       DEF SaveChunk, CopyOK, Synced, Grows, FirstSample
  <2> QED
    BY <2>1, <2>2, <2>3, <2>5, StepFrame
<1> QED
  BY <1>4, <1>5, <1>6, <1>7, <1>8, <1>9

-----------------------------------------------------------------------------
(* The theorems *)

(* The program starts with nothing promised: legacy rows have no watermark. *)
LEMMA InitInv ==
  ASSUME Init, ConstantsAssumption, LegacyAssumption
  PROVE  CoverageInv
<1>1. \A l \in DOMAIN Legacy :
        LegacyRemote(Legacy[l].uid) =
          [location |-> l, title |-> None, geo |-> Home[l], obs |-> {}]
  BY LegacyAssumption DEF LegacyAssumption, LegacyRemote
<1>2. IsTable(remote, UIDs, RemoteThing)
  <2>1. ASSUME NEW uid \in LegacyUIDs
        PROVE  uid \in UIDs /\ LegacyRemote(uid) \in RemoteThing
    <3>1. PICK l \in DOMAIN Legacy : uid = Legacy[l].uid
      BY DEF LegacyUIDs
    <3>2. l \in Locations /\ Home[l] \in Places /\ uid \in UIDs
      BY <3>1, LegacyAssumption, ConstantsAssumption
         DEF LegacyAssumption, ConstantsAssumption
    <3>3. LegacyRemote(uid) =
            [location |-> l, title |-> None, geo |-> Home[l], obs |-> {}]
      BY <1>1, <3>1
    <3> QED
      BY <3>2, <3>3 DEF RemoteThing
  <2> QED
    BY <2>1 DEF Init, IsTable
<1>3. IsTable(things, Locations, ThingRow)
  BY LegacyAssumption, ConstantsAssumption
     DEF Init, IsTable, LegacyAssumption, ConstantsAssumption, LegacyRow,
         ThingRow, Null
<1>4. IsTable(identities, Users, Identity)
  BY ConstantsAssumption
     DEF Init, IsTable, ConstantsAssumption, Identity, Null
<1>5. parrot \in [Locations -> [last : Nat, nickname : Nicknames]]
  <2>1. InitialSamples \subseteq Nat
    BY ConstantsAssumption DEF ConstantsAssumption
  <2>2. parrot \in [Locations -> [last : InitialSamples, nickname : Nicknames]]
    BY DEF Init
  <2> QED
    BY <2>1, <2>2
<1>6. TypeOK
  BY <1>2, <1>3, <1>4, <1>5, EmptyTable DEF Init, TypeOK, Steps, Null
<1>7. Coverage
  <2>1. ASSUME NEW l \in DOMAIN things
        PROVE  /\ things[l].uid \in DOMAIN remote
               /\ remote[things[l].uid].location = l
               /\ things[l].uploaded = 0
    <3>1. /\ l \in DOMAIN Legacy
          /\ things[l].uid = Legacy[l].uid
          /\ things[l].uploaded = 0
      BY DEF Init, LegacyRow, Null
    <3>2. Legacy[l].uid \in LegacyUIDs
      BY <3>1 DEF LegacyUIDs
    <3>3. /\ Legacy[l].uid \in DOMAIN remote
          /\ remote[Legacy[l].uid] = LegacyRemote(Legacy[l].uid)
      BY <3>2 DEF Init
    <3>4. remote[Legacy[l].uid] =
            [location |-> l, title |-> None, geo |-> Home[l], obs |-> {}]
      BY <1>1, <3>1, <3>3
    <3>5. remote[Legacy[l].uid].location = l
      BY <3>4
    <3> QED
      BY <3>1, <3>3, <3>5
  <2> QED
    BY <2>1 DEF Coverage, FirstSample
<1>8. CopyInv
  BY DEF Init, CopyInv, CopyOK, Synced
<1> QED
  BY <1>6, <1>7, <1>8 DEF CoverageInv

(* Every step keeps the inductive invariant. *)
LEMMA NextInv ==
  ASSUME CoverageInv, [Next]_vars
  PROVE  CoverageInv'
<1>1. CASE Environment
  BY <1>1, EnvironmentKeeps
<1>2. ASSUME NEW i \in Indexers, Step(i)
      PROVE  CoverageInv'
  BY <1>2, ReadingStepKeeps, WritingStepKeeps, ConstantsAssumption DEF Step
<1>3. ASSUME NEW i \in Indexers, Failure(i)
      PROVE  CoverageInv'
  BY <1>3, FailureKeeps, ConstantsAssumption
<1>4. CASE UNCHANGED vars
  BY <1>4
     DEF vars, CoverageInv, TypeOK, Coverage, CopyInv, CopyOK, Synced, Chunk,
         From, To, FirstSample
<1> QED
  BY <1>1, <1>2, <1>3, <1>4 DEF Next

(* The inductive invariant holds: no indexer ever works with a copy that   *)
(* promises more than Thingful has.                                        *)
THEOREM InductiveInvariant == Spec => []CoverageInv
<1>1. Init => CoverageInv
  BY InitInv, ConstantsAssumption, LegacyAssumption
<1>2. CoverageInv /\ [Next]_vars => CoverageInv'
  BY NextInv
<1> QED
  BY <1>1, <1>2, PTL DEF Spec

(* The variables of Indexer keep their types. *)
THEOREM TypeCorrect == Spec => []TypeOK
<1>1. CoverageInv => TypeOK
  BY DEF CoverageInv
<1> QED
  BY <1>1, InductiveInvariant, PTL

(* What the database records as uploaded is at Thingful, at the thing the  *)
(* row names, in every behaviour: any number of indexers whose passes may  *)
(* overlap, and any number of lost answers, failed calls and crashes.      *)
THEOREM CoverageHolds == Spec => []Coverage
<1>1. CoverageInv => Coverage
  BY DEF CoverageInv
<1> QED
  BY <1>1, InductiveInvariant, PTL

(* No indexer acts on a promise Thingful does not keep. *)
THEOREM CopyInvHolds == Spec => []CopyInv
<1>1. CoverageInv => CopyInv
  BY DEF CoverageInv
<1> QED
  BY <1>1, InductiveInvariant, PTL

-----------------------------------------------------------------------------
(***************************************************************************)
(* The indexer beside the handlers                                         *)
(***************************************************************************)

RequestsKnown ==
  \A r \in Requests : request[r] # None => request[r].uid \in DOMAIN remote

KudzuInv ==
  /\ CoverageInv
  /\ request \in [Requests -> Geolocation \union {None}]
  /\ deleted \in SUBSET (Users \ DOMAIN identities)
  /\ RequestsKnown
  /\ OwnersRegistered

-----------------------------------------------------------------------------
(* What the steps of the indexers leave as it is *)

(* Where the owner of a thing comes from in one step: from the row before, *)
(* or from an INSERT that the foreign key has let pass.                    *)
OwnersKept ==
  \A l \in DOMAIN things' :
    \/ l \in DOMAIN things /\ things'[l].owner = things[l].owner
    \/ things'[l].owner \in DOMAIN identities

(* The statements on table things. *)
LEMMA SaveKeepsOwners ==
  ASSUME NEW i \in Indexers, CoverageInv, ConstantsAssumption,
         pc[i] = "save", things' = UpdateThing(things, loc[i], Saved(i)),
         UNCHANGED remote
  PROVE  OwnersKept
<1>1. loc[i] \in Locations /\ Saved(i) \in ThingRow
  BY WorkingCopy, SaveEffect DEF Synced
<1>2. IsTable(things, Locations, ThingRow)
  BY DEF CoverageInv, TypeOK
<1> QED
  BY <1>1, <1>2, UpdateThingRow DEF OwnersKept

LEMMA NicknameKeepsOwners ==
  ASSUME NEW i \in Indexers, CoverageInv, pc[i] = "more",
         things' = UpdateNickname(things, loc[i], todo[i][loc[i]].nickname)
  PROVE  OwnersKept
<1>1. todo[i][loc[i]].nickname \in Nicknames \union {None}
  BY WorkingCopy DEF Synced, Snapshot
<1>2. IsTable(things, Locations, ThingRow)
  BY DEF CoverageInv, TypeOK
<1> QED
  BY <1>1, <1>2, UpdateNicknameRow DEF OwnersKept

LEMMA InsertRowOwner ==
  ASSUME NEW i \in Indexers, CanInsert(i), InsertRow(i)
  PROVE  OwnersKept
BY DEF CanInsert, CanInsertThing, InsertRow, Put, OwnersKept

(* An indexer registers and deletes nobody, and gives no thing to anybody  *)
(* who is not registered.                                                  *)
LEMMA IndexerKeepsOwners ==
  ASSUME CoverageInv, ConstantsAssumption, [Next]_vars
  PROVE  DOMAIN identities' = DOMAIN identities /\ OwnersKept
<1>1. CASE UNCHANGED <<identities, things>>
  BY <1>1 DEF OwnersKept
<1>2. ASSUME NEW i \in Indexers, CommitClaim(i) \/ CommitClaimFails(i)
      PROVE  DOMAIN identities' = DOMAIN identities /\ OwnersKept
  <2>1. UNCHANGED things
    BY <1>2 DEF CommitClaim, CommitClaimFails
  <2>2. \/ UNCHANGED identities
        \/ identities' = SetIndexed(identities, user[i], now)
    BY <1>2 DEF CommitClaim, CommitClaimFails
  <2>3. DOMAIN identities' = DOMAIN identities
    BY <2>2 DEF SetIndexed
  <2> QED
    BY <2>1, <2>3 DEF OwnersKept
<1>3. ASSUME NEW i \in Indexers,
             \/ InsertThing(i) \/ InsertThingFails(i)
             \/ FinishLocation(i) \/ UpdateNicknameFails(i)
             \/ SaveChunk(i) \/ SaveChunkFails(i)
      PROVE  DOMAIN identities' = DOMAIN identities /\ OwnersKept
  <2>1. UNCHANGED <<identities, remote>>
    BY <1>3 DEF InsertThing, InsertThingFails, FinishLocation,
                UpdateNicknameFails, SaveChunk, SaveChunkFails
  <2>2. CASE UNCHANGED things
    BY <2>1, <2>2 DEF OwnersKept
  <2>3. CASE InsertThing(i) \/ InsertThingFails(i)
    BY <2>1, <2>2, <2>3, InsertRowOwner DEF InsertThing, InsertThingFails
  <2>4. CASE FinishLocation(i) \/ UpdateNicknameFails(i)
    BY <2>1, <2>2, <2>4, NicknameKeepsOwners
       DEF FinishLocation, UpdateNicknameFails
  <2>5. CASE SaveChunk(i) \/ SaveChunkFails(i)
    BY <2>1, <2>2, <2>5, SaveKeepsOwners DEF SaveChunk, SaveChunkFails
  <2> QED
    BY <1>3, <2>3, <2>4, <2>5
<1>4. CASE Environment
  BY <1>4, <1>1 DEF Environment, Tick, NewSample, Rename, tables
<1>5. ASSUME NEW i \in Indexers, Step(i)
      PROVE  DOMAIN identities' = DOMAIN identities /\ OwnersKept
  BY <1>1, <1>2, <1>3, <1>5
     DEF Step, tables, SelectIdentity, FetchStatus, FetchConfiguration,
         GetThing, FinishPass, ReadFirst, CreateThing, InsertThingRejected,
         ReadMore, ReadChunk, PushChunk
<1>6. ASSUME NEW i \in Indexers, Failure(i)
      PROVE  DOMAIN identities' = DOMAIN identities /\ OwnersKept
  BY <1>1, <1>2, <1>3, <1>6
     DEF Failure, tables, NextIdentityFails, GetLocationsFails,
         GetThingFails, GetReadingsFails, CreateThingFails, PushChunkFails,
         Crash, Restart
<1>7. CASE UNCHANGED vars
  BY <1>1, <1>7 DEF vars
<1> QED
  BY <1>4, <1>5, <1>6, <1>7 DEF Next

(* Thingful forgets no uid. *)
LEMMA IndexerKeepsUids ==
  ASSUME [Next]_vars
  PROVE  DOMAIN remote \subseteq DOMAIN remote'
<1>1. CASE UNCHANGED remote
  BY <1>1
<1>2. ASSUME NEW i \in Indexers,
             \/ CreateThing(i) \/ CreateThingFails(i)
             \/ PushChunk(i) \/ PushChunkFails(i)
      PROVE  DOMAIN remote \subseteq DOMAIN remote'
  <2>1. \/ UNCHANGED remote
        \/ \E uid, row : remote' = Put(remote, uid, row)
    BY <1>2 DEF CreateThing, CreateThingFails, PushChunk, PushChunkFails,
                StoreNew, StoreChunk
  <2> QED
    BY <2>1 DEF Put
<1>3. CASE Environment
  BY <1>3, <1>1 DEF Environment, Tick, NewSample, Rename
<1>4. ASSUME NEW i \in Indexers, Step(i)
      PROVE  DOMAIN remote \subseteq DOMAIN remote'
  BY <1>1, <1>2, <1>4
     DEF Step, SelectIdentity, CommitClaim, FetchStatus, FetchConfiguration,
         GetThing, FinishPass, ReadFirst, InsertThing, InsertThingRejected,
         ReadMore, FinishLocation, ReadChunk, SaveChunk
<1>5. ASSUME NEW i \in Indexers, Failure(i)
      PROVE  DOMAIN remote \subseteq DOMAIN remote'
  BY <1>1, <1>2, <1>5
     DEF Failure, CommitClaimFails, NextIdentityFails, GetLocationsFails,
         GetThingFails, GetReadingsFails, InsertThingFails,
         UpdateNicknameFails, SaveChunkFails, Crash, Restart
<1>6. CASE UNCHANGED vars
  BY <1>1, <1>6 DEF vars
<1> QED
  BY <1>3, <1>4, <1>5, <1>6 DEF Next

(* A step of the indexers keeps the invariant. *)
LEMMA IndexerStepKeeps ==
  ASSUME KudzuInv, [Next]_vars, UNCHANGED handlers
  PROVE  KudzuInv'
<1>1. CoverageInv'
  BY NextInv DEF KudzuInv
<1>2. DOMAIN identities' = DOMAIN identities /\ OwnersKept
  BY IndexerKeepsOwners, ConstantsAssumption DEF KudzuInv
<1>3. OwnersRegistered'
  BY <1>2 DEF KudzuInv, OwnersRegistered, OwnersKept
<1>4. RequestsKnown'
  BY IndexerKeepsUids DEF KudzuInv, RequestsKnown, handlers
<1> QED
  BY <1>1, <1>2, <1>3, <1>4 DEF KudzuInv, handlers

-----------------------------------------------------------------------------
(* What the steps of the handlers leave as it is *)

(* UpdateGeolocation changes geolocations only. *)
LEMMA UpdateGeolocationRow ==
  ASSUME IsTable(things, Locations, ThingRow), NEW l, NEW place \in Places
  PROVE  /\ IsTable(UpdateGeolocation(things, l, place), Locations, ThingRow)
         /\ DOMAIN UpdateGeolocation(things, l, place) = DOMAIN things
         /\ \A m \in DOMAIN things :
              /\ UpdateGeolocation(things, l, place)[m].uid = things[m].uid
              /\ UpdateGeolocation(things, l, place)[m].owner =
                   things[m].owner
              /\ UpdateGeolocation(things, l, place)[m].uploaded =
                   things[m].uploaded
BY DEF UpdateGeolocation, IsTable, ThingRow

(* A handler leaves the indexers where they are: it keeps their invariant  *)
(* if it keeps the types of the tables, the rows but for their             *)
(* geolocations, and what Thingful has.                                    *)
LEMMA HandlerFrame ==
  ASSUME CoverageInv, UNCHANGED <<now, parrot, pc, locals>>,
         IsTable(remote', UIDs, RemoteThing),
         IsTable(identities', Users, Identity),
         IsTable(things', Locations, ThingRow),
         faults' \in Nat, Grows,
         DOMAIN things' = DOMAIN things,
         \A l \in DOMAIN things : things'[l].uploaded = things[l].uploaded
  PROVE  CoverageInv'
<1>1. Coverage'
  BY CoverageFrame DEF CoverageInv
<1>2. ASSUME NEW j \in Indexers PROVE CopyOK(j)'
  BY CopyFrame DEF CoverageInv, CopyInv, locals
<1>3. TypeOK'
  BY DEF CoverageInv, TypeOK, locals
<1> QED
  BY <1>1, <1>2, <1>3 DEF CoverageInv, CopyInv

(* The UPDATE of updateLocationHandler. *)
LEMMA GeolocationEffect ==
  ASSUME KudzuInv, NEW l \in DOMAIN things, NEW place \in Places,
         things' = UpdateGeolocation(things, l, place), faults' \in Nat,
         UNCHANGED <<now, parrot, remote, identities, pc, locals>>
  PROVE  CoverageInv' /\ OwnersRegistered'
<1>1. /\ IsTable(remote, UIDs, RemoteThing)
      /\ IsTable(identities, Users, Identity)
      /\ IsTable(things, Locations, ThingRow)
  BY DEF KudzuInv, CoverageInv, TypeOK
<1>2. /\ IsTable(things', Locations, ThingRow)
      /\ DOMAIN things' = DOMAIN things
      /\ \A m \in DOMAIN things : /\ things'[m].uid = things[m].uid
                                  /\ things'[m].owner = things[m].owner
                                  /\ things'[m].uploaded = things[m].uploaded
  BY <1>1, UpdateGeolocationRow
<1>3. Grows
  BY <1>2 DEF Grows
<1>4. CoverageInv'
  BY <1>1, <1>2, <1>3, HandlerFrame DEF KudzuInv
<1>5. OwnersRegistered'
  BY <1>2 DEF KudzuInv, OwnersRegistered
<1> QED
  BY <1>4, <1>5

(* Its PATCH at Thingful. *)
LEMMA StoreGeolocationEffect ==
  ASSUME KudzuInv, NEW r \in Requests, request[r] # None,
         StoreGeolocation(r), faults' \in Nat,
         UNCHANGED <<now, parrot, tables, pc, locals>>
  PROVE  CoverageInv' /\ DOMAIN remote \subseteq DOMAIN remote'
<1>1. /\ IsTable(remote, UIDs, RemoteThing)
      /\ IsTable(identities, Users, Identity)
      /\ IsTable(things, Locations, ThingRow)
  BY DEF KudzuInv, CoverageInv, TypeOK
<1>2. request[r] \in Geolocation /\ request[r].uid \in DOMAIN remote
  BY DEF KudzuInv, RequestsKnown
<1> DEFINE uid == request[r].uid
           row == [location |-> remote[uid].location,
                   title |-> request[r].title, geo |-> request[r].geo,
                   obs |-> remote[uid].obs]
<1>3. remote[uid] \in RemoteThing /\ uid \in UIDs
  BY <1>1, <1>2 DEF IsTable
<1>4. row \in RemoteThing
  BY <1>2, <1>3 DEF RemoteThing, Geolocation
<1>5. /\ IsTable(remote', UIDs, RemoteThing)
      /\ DOMAIN remote' = DOMAIN remote \union {uid}
      /\ remote'[uid] = row
      /\ \A x \in DOMAIN remote : x # uid => remote'[x] = remote[x]
  <2>1. remote' = Put(remote, uid, row)
    BY DEF StoreGeolocation
  <2> HIDE DEF row, uid
  <2> QED
    BY <1>1, <1>3, <1>4, <2>1, PutRemote
<1>6. /\ remote'[uid].location = remote[uid].location
      /\ remote'[uid].obs = remote[uid].obs
  BY <1>5
<1>7. Grows
  <2> HIDE DEF row, uid
  <2> QED
    BY <1>5, <1>6 DEF Grows, tables
<1>8. CoverageInv'
  BY <1>1, <1>5, <1>7, HandlerFrame DEF KudzuInv, tables
<1> QED
  BY <1>5, <1>8

(* Registration and deletion write the identities only. *)
LEMMA IdentitiesEffect ==
  ASSUME KudzuInv, IsTable(identities', Users, Identity),
         UNCHANGED <<external, remote, things, pc, locals, faults>>
  PROVE  CoverageInv'
<1>1. /\ IsTable(remote, UIDs, RemoteThing)
      /\ IsTable(things, Locations, ThingRow)
      /\ faults \in Nat
  BY DEF KudzuInv, CoverageInv, TypeOK
<1>2. Grows
  BY DEF Grows
<1> QED
  BY <1>1, <1>2, HandlerFrame DEF KudzuInv, external

-----------------------------------------------------------------------------
(* A step of updateLocationHandler keeps the invariant. *)
LEMMA LocationHandlerKeeps ==
  ASSUME KudzuInv, NEW r \in Requests,
         \/ UpdateLocation(r) \/ UpdateLocationFails(r)
         \/ PushLocation(r)   \/ PushLocationFails(r)
  PROVE  KudzuInv'
<1>1. /\ IsTable(remote, UIDs, RemoteThing)
      /\ IsTable(things, Locations, ThingRow)
      /\ faults \in Nat /\ Coverage /\ CoverageInv
      /\ request \in [Requests -> Geolocation \union {None}]
  BY DEF KudzuInv, CoverageInv, TypeOK
<1>2. faults' \in Nat
  BY <1>1, FaultCounted
     DEF UpdateLocation, UpdateLocationFails, PushLocation, PushLocationFails
<1>3. CASE UpdateLocation(r)
  <2>1. PICK l \in DOMAIN things, place \in Places :
          /\ things' = UpdateGeolocation(things, l, place)
          /\ request' = [request EXCEPT ![r] =
                           [uid |-> things[l].uid,
                            title |-> things[l].nickname, geo |-> place]]
    BY <1>3 DEF UpdateLocation
  <2>2. UNCHANGED <<now, parrot, remote, identities, pc, locals, deleted>>
    BY <1>3 DEF UpdateLocation, external
  <2>3. CoverageInv' /\ OwnersRegistered'
    BY <1>2, <2>1, <2>2, GeolocationEffect
  <2>4. /\ things[l].uid \in DOMAIN remote
        /\ things[l].uid \in UIDs
        /\ things[l].nickname \in Nicknames \union {None}
    BY <1>1, <2>1 DEF Coverage, IsTable, ThingRow
  <2>5. /\ request' \in [Requests -> Geolocation \union {None}]
        /\ RequestsKnown'
    BY <1>1, <2>1, <2>2, <2>4 DEF Geolocation, RequestsKnown, KudzuInv
  <2> QED
    BY <2>2, <2>3, <2>5 DEF KudzuInv
<1>4. CASE UpdateLocationFails(r)
  <2>1. PICK l \in DOMAIN things, place \in Places :
          things' = UpdateGeolocation(things, l, place)
    BY <1>4 DEF UpdateLocationFails
  <2>2. UNCHANGED <<now, parrot, remote, identities, pc, locals, handlers>>
    BY <1>4 DEF UpdateLocationFails, external
  <2>3. CoverageInv' /\ OwnersRegistered'
    BY <1>2, <2>1, <2>2, GeolocationEffect
  <2> QED
    BY <2>2, <2>3 DEF KudzuInv, RequestsKnown, handlers
<1>5. CASE PushLocation(r) \/ PushLocationFails(r)
  <2>1. /\ UNCHANGED <<now, parrot, tables, pc, locals, deleted>>
        /\ request[r] # None
        /\ request' = [request EXCEPT ![r] = None]
        /\ UNCHANGED remote \/ StoreGeolocation(r)
    BY <1>5 DEF PushLocation, PushLocationFails, external
  <2>2. CoverageInv' /\ DOMAIN remote \subseteq DOMAIN remote'
    <3>1. CASE StoreGeolocation(r)
      BY <1>2, <2>1, <3>1, StoreGeolocationEffect
    <3>2. CASE UNCHANGED remote
      <4>1. Grows
        BY <2>1, <3>2 DEF Grows, tables
      <4>2. IsTable(identities, Users, Identity)
        BY DEF KudzuInv, CoverageInv, TypeOK
      <4> QED
        BY <1>1, <1>2, <2>1, <3>2, <4>1, <4>2, HandlerFrame DEF tables
    <3> QED
      BY <2>1, <3>1, <3>2
  <2>3. /\ request' \in [Requests -> Geolocation \union {None}]
        /\ RequestsKnown'
    BY <1>1, <2>1, <2>2 DEF RequestsKnown, KudzuInv
  <2>4. OwnersRegistered'
    BY <2>1 DEF KudzuInv, OwnersRegistered, tables
  <2> QED
    BY <2>1, <2>2, <2>3, <2>4 DEF KudzuInv, tables
<1> QED
  BY <1>3, <1>4, <1>5

(* So do registration and deletion. *)
LEMMA UserHandlerKeeps ==
  ASSUME KudzuInv, NEW u \in Users, SaveUser(u) \/ DeleteUser(u)
  PROVE  KudzuInv'
<1>1. /\ IsTable(identities, Users, Identity) /\ now \in Nat
      /\ deleted \in SUBSET (Users \ DOMAIN identities)
  BY DEF KudzuInv, CoverageInv, TypeOK
<1>2. UNCHANGED <<external, remote, things, pc, locals, faults, request>>
  BY DEF SaveUser, DeleteUser, handlers
<1>3. CASE SaveUser(u)
  <2>1. /\ identities' = Put(identities, u,
                             [created_at |-> now, indexed_at |-> Null])
        /\ deleted' = deleted /\ u \notin deleted
    BY <1>3 DEF SaveUser, InsertUser, handlers
  <2>2. [created_at |-> now, indexed_at |-> Null] \in Identity
    BY <1>1 DEF Identity, Null
  <2>3. /\ IsTable(identities', Users, Identity)
        /\ DOMAIN identities' = DOMAIN identities \union {u}
    BY <1>1, <2>1, <2>2 DEF Put, IsTable
  <2>4. CoverageInv'
    BY <1>2, <2>3, IdentitiesEffect
  <2> QED
    BY <1>1, <1>2, <2>1, <2>3, <2>4
       DEF KudzuInv, RequestsKnown, OwnersRegistered
<1>4. CASE DeleteUser(u)
  <2>1. /\ identities' = Remove(identities, u)
        /\ deleted' = deleted \union {u}
        /\ \A l \in DOMAIN things : things[l].owner # u
    BY <1>4 DEF DeleteUser, DeleteUserRow, CanDeleteUser
  <2>2. /\ IsTable(identities', Users, Identity)
        /\ DOMAIN identities' = DOMAIN identities \ {u}
    BY <1>1, <2>1, RemoveRow DEF Remove
  <2>3. CoverageInv'
    BY <1>2, <2>2, IdentitiesEffect
  <2> QED
    BY <1>1, <1>2, <2>1, <2>2, <2>3
       DEF KudzuInv, RequestsKnown, OwnersRegistered
<1> QED
  BY <1>3, <1>4

(* The initial states. *)
LEMMA KudzuInitInv ==
  ASSUME KudzuInit, ConstantsAssumption, LegacyAssumption
  PROVE  KudzuInv
<1>1. CoverageInv
  BY InitInv DEF KudzuInit
<1>2. OwnersRegistered
  BY LegacyAssumption
     DEF KudzuInit, Init, OwnersRegistered, LegacyAssumption, LegacyRow
<1>3. /\ request \in [Requests -> Geolocation \union {None}]
      /\ deleted \in SUBSET (Users \ DOMAIN identities)
      /\ RequestsKnown
  BY DEF KudzuInit, RequestsKnown
<1> QED
  BY <1>1, <1>2, <1>3 DEF KudzuInv

(* The invariant of indexers and handlers together. *)
THEOREM KudzuInvariant == KudzuSpec => []KudzuInv
<1>1. KudzuInit => KudzuInv
  BY KudzuInitInv, ConstantsAssumption, LegacyAssumption
<1>2. KudzuInv /\ [KudzuNext]_<<vars, handlers>> => KudzuInv'
  <2> SUFFICES ASSUME KudzuInv, [KudzuNext]_<<vars, handlers>>
               PROVE  KudzuInv'
    OBVIOUS
  <2>1. CASE [Next]_vars /\ UNCHANGED handlers
    BY <2>1, IndexerStepKeeps
  <2>2. CASE Handler
    BY <2>2, LocationHandlerKeeps, UserHandlerKeeps DEF Handler
  <2> QED
    BY <2>1, <2>2 DEF KudzuNext
<1> QED
  BY <1>1, <1>2, PTL DEF KudzuSpec

(* The variables of Kudzu keep their types. *)
THEOREM KudzuTypeCorrect == KudzuSpec => []KudzuTypeOK
<1>1. KudzuInv => KudzuTypeOK
  BY DEF KudzuInv, KudzuTypeOK, CoverageInv
<1> QED
  BY <1>1, KudzuInvariant, PTL

(* The watermark stays truthful with handlers that write the same rows and *)
(* the same things while passes are under way.                             *)
THEOREM KudzuCoverage == KudzuSpec => []Coverage
<1>1. KudzuInv => Coverage
  BY DEF KudzuInv, CoverageInv
<1> QED
  BY <1>1, KudzuInvariant, PTL

(* Deletion never leaves a thing without an owner, whatever passes over    *)
(* the person's locations are under way.                                   *)
THEOREM OwnersStayRegistered == KudzuSpec => []OwnersRegistered
<1>1. KudzuInv => OwnersRegistered
  BY DEF KudzuInv
<1> QED
  BY <1>1, KudzuInvariant, PTL

-----------------------------------------------------------------------------
(***************************************************************************)
(* Each write to Thingful is an Announce or a Deliver, each write to table *)
(* things an Enter, a Mark or nothing that Delivery sees; that a record is *)
(* delivered when it is written is CoverageInv.                            *)
(***************************************************************************)

DeliveryStep == [Promise!DeliveryNext]_(Promise!delivery)

-----------------------------------------------------------------------------
(* A step by its effect *)

(* Nothing that Delivery sees has changed. *)
LEMMA Stutter ==
  ASSUME DOMAIN remote' = DOMAIN remote,
         \A x \in DOMAIN remote : /\ remote'[x].location = remote[x].location
                                  /\ remote'[x].obs = remote[x].obs,
         DOMAIN things' = DOMAIN things,
         \A l \in DOMAIN things : /\ things'[l].uid = things[l].uid
                                  /\ things'[l].uploaded = things[l].uploaded
  PROVE  DeliveryStep
BY DEF DeliveryStep, Promise!delivery

(* A write to one thing at Thingful that takes nothing away. *)
LEMMA StoreStep ==
  ASSUME NEW uid \in UIDs, UNCHANGED things,
         DOMAIN remote' = DOMAIN remote \union {uid},
         remote'[uid].location \in Locations,
         \A x \in DOMAIN remote : x # uid => remote'[x] = remote[x],
         uid \in DOMAIN remote =>
           /\ remote'[uid].location = remote[uid].location
           /\ remote[uid].obs \subseteq remote'[uid].obs
  PROVE  DeliveryStep
<1>1. CASE uid \notin DOMAIN remote
  <2>1. Promise!Announce(uid)
    BY <1>1 DEF Promise!Announce, Promise!Keeps
  <2> QED
    BY <2>1 DEF DeliveryStep, Promise!DeliveryNext
<1>2. CASE uid \in DOMAIN remote
  <2>1. Promise!Deliver(uid)
    BY <1>2 DEF Promise!Deliver, Promise!Keeps
  <2> QED
    BY <2>1 DEF DeliveryStep, Promise!DeliveryNext
<1> QED
  BY <1>1, <1>2

(* A write to one row that keeps Coverage. *)
LEMMA RecordStep ==
  ASSUME NEW l \in Locations, Coverage', UNCHANGED remote,
         DOMAIN things' = DOMAIN things \union {l},
         \A m \in DOMAIN things :
           m # l => /\ things'[m].uid = things[m].uid
                    /\ things'[m].uploaded = things[m].uploaded,
         IF l \in DOMAIN things
           THEN things'[l].uid = things[l].uid
           ELSE \A m \in DOMAIN things : things[m].uid # things'[l].uid
  PROVE  DeliveryStep
<1>1. /\ l \in DOMAIN things'
      /\ things'[l].uid \in DOMAIN remote
      /\ remote[things'[l].uid].location = l
      /\ 1..things'[l].uploaded \subseteq remote[things'[l].uid].obs
  BY DEF Coverage, FirstSample
<1>2. CASE l \notin DOMAIN things
  <2>1. Promise!Enter(l)
    BY <1>1, <1>2 DEF Promise!Enter, Promise!Delivered, Promise!Keeps
  <2> QED
    BY <2>1 DEF DeliveryStep, Promise!DeliveryNext
<1>3. CASE l \in DOMAIN things
  <2>1. Promise!Mark(l)
    BY <1>1, <1>3 DEF Promise!Mark, Promise!Delivered, Promise!Keeps
  <2> QED
    BY <2>1 DEF DeliveryStep, Promise!DeliveryNext
<1> QED
  BY <1>2, <1>3

-----------------------------------------------------------------------------
(* The writes of the indexer *)

LEMMA StoreNewDelivers ==
  ASSUME NEW i \in Indexers, CoverageInv, pc[i] = "create",
         NEW uid \in UIDs \ DOMAIN remote, StoreNew(i, uid),
         UNCHANGED things, ConstantsAssumption
  PROVE  DeliveryStep
<1> DEFINE row == [location |-> loc[i], title |-> copy[i].nickname,
                   geo |-> copy[i].geo, obs |-> Chunk(copy[i])]
<1>1. copy[i] \in ThingRow /\ loc[i] \in Locations
  BY WorkingCopy
<1>2. row \in RemoteThing /\ row.location = loc[i]
  BY <1>1, ChunkExtends DEF RemoteThing, ThingRow
<1>3. remote' = Put(remote, uid, row) /\ IsTable(remote, UIDs, RemoteThing)
  BY DEF StoreNew, CoverageInv, TypeOK
<1>4. /\ DOMAIN remote' = DOMAIN remote \union {uid}
      /\ remote'[uid].location \in Locations
      /\ \A x \in DOMAIN remote : x # uid => remote'[x] = remote[x]
  <2> HIDE DEF row
  <2> QED
    BY <1>1, <1>2, <1>3, PutRemote
<1> QED
  BY <1>4, StoreStep

LEMMA StoreChunkDelivers ==
  ASSUME NEW i \in Indexers, CoverageInv, pc[i] = "push", StoreChunk(i),
         UNCHANGED things, ConstantsAssumption
  PROVE  DeliveryStep
<1> DEFINE uid == copy[i].uid
           row == [location |-> remote[uid].location,
                   title |-> copy[i].nickname, geo |-> copy[i].geo,
                   obs |-> remote[uid].obs \union Chunk(copy[i])]
<1>1. copy[i] \in ThingRow
  BY WorkingCopy DEF Synced
<1>2. uid \in DOMAIN remote
  BY DEF CoverageInv, CopyInv, CopyOK, Coverage, Synced
<1>3. IsTable(remote, UIDs, RemoteThing)
  BY DEF CoverageInv, TypeOK
<1>4. remote[uid] \in RemoteThing /\ uid \in UIDs
  BY <1>2, <1>3 DEF IsTable
<1>5. /\ row \in RemoteThing
      /\ row.location = remote[uid].location
      /\ row.location \in Locations
      /\ remote[uid].obs \subseteq row.obs
  BY <1>1, <1>4, ChunkExtends DEF RemoteThing, ThingRow
<1>6. remote' = Put(remote, uid, row)
  BY DEF StoreChunk
<1>7. /\ DOMAIN remote' = DOMAIN remote \union {uid}
      /\ remote'[uid] = row
      /\ \A x \in DOMAIN remote : x # uid => remote'[x] = remote[x]
  <2> HIDE DEF row, uid
  <2> QED
    BY <1>3, <1>4, <1>5, <1>6, PutRemote
<1> QED
  <2> HIDE DEF row, uid
  <2> QED
    BY <1>4, <1>5, <1>7, StoreStep

LEMMA InsertDelivers ==
  ASSUME NEW i \in Indexers, CoverageInv, pc[i] = "insert",
         CanInsert(i), InsertRow(i), UNCHANGED remote
  PROVE  DeliveryStep
<1>1. copy[i] \in ThingRow /\ loc[i] \in Locations /\ Coverage'
  BY WorkingCopy, InsertEffect
<1>2. loc[i] \notin DOMAIN things
      /\ \A m \in DOMAIN things : things[m].uid # copy[i].uid
  BY DEF CanInsert, CanInsertThing
<1>3. /\ DOMAIN things' = DOMAIN things \union {loc[i]}
      /\ things'[loc[i]] = copy[i]
      /\ \A m \in DOMAIN things : things'[m] = things[m]
  BY <1>2 DEF InsertRow, Put
<1> QED
  BY <1>1, <1>2, <1>3, RecordStep

LEMMA SaveDelivers ==
  ASSUME NEW i \in Indexers, CoverageInv, ConstantsAssumption,
         pc[i] = "save", things' = UpdateThing(things, loc[i], Saved(i)),
         UNCHANGED remote
  PROVE  DeliveryStep
<1>1. loc[i] \in Locations /\ Saved(i) \in ThingRow /\ Coverage'
  BY WorkingCopy, SaveEffect DEF Synced
<1>2. IsTable(things, Locations, ThingRow) /\ loc[i] \in DOMAIN things
  BY DEF CoverageInv, TypeOK, CopyInv, CopyOK, Synced
<1>3. /\ DOMAIN things' = DOMAIN things
      /\ \A m \in DOMAIN things :
           /\ things'[m].uid = things[m].uid
           /\ m # loc[i] => things'[m].uploaded = things[m].uploaded
  BY <1>1, <1>2, UpdateThingRow
<1> QED
  BY <1>1, <1>2, <1>3, RecordStep

LEMMA NicknameDelivers ==
  ASSUME NEW i \in Indexers, CoverageInv, pc[i] = "more", UNCHANGED remote,
         things' = UpdateNickname(things, loc[i], todo[i][loc[i]].nickname)
  PROVE  DeliveryStep
<1>1. todo[i][loc[i]].nickname \in Nicknames \union {None}
  BY WorkingCopy DEF Synced, Snapshot
<1>2. IsTable(things, Locations, ThingRow)
  BY DEF CoverageInv, TypeOK
<1> QED
  BY <1>1, <1>2, UpdateNicknameRow, Stutter

(* Every step of the indexers and their environment. *)
LEMMA IndexerDelivers ==
  ASSUME CoverageInv, ConstantsAssumption, [Next]_vars
  PROVE  DeliveryStep
<1>1. CASE UNCHANGED <<remote, things>>
  BY <1>1, Stutter
<1>2. ASSUME NEW i \in Indexers, CreateThing(i) \/ CreateThingFails(i)
      PROVE  DeliveryStep
  BY <1>1, <1>2, StoreNewDelivers DEF CreateThing, CreateThingFails, tables
<1>3. ASSUME NEW i \in Indexers, PushChunk(i) \/ PushChunkFails(i)
      PROVE  DeliveryStep
  BY <1>1, <1>3, StoreChunkDelivers DEF PushChunk, PushChunkFails, tables
<1>4. ASSUME NEW i \in Indexers, InsertThing(i) \/ InsertThingFails(i)
      PROVE  DeliveryStep
  BY <1>1, <1>4, InsertDelivers DEF InsertThing, InsertThingFails
<1>5. ASSUME NEW i \in Indexers, SaveChunk(i) \/ SaveChunkFails(i)
      PROVE  DeliveryStep
  BY <1>1, <1>5, SaveDelivers DEF SaveChunk, SaveChunkFails
<1>6. ASSUME NEW i \in Indexers, FinishLocation(i) \/ UpdateNicknameFails(i)
      PROVE  DeliveryStep
  BY <1>1, <1>6, NicknameDelivers DEF FinishLocation, UpdateNicknameFails
<1>7. CASE Environment \/ UNCHANGED vars
  BY <1>1, <1>7 DEF Environment, Tick, NewSample, Rename, tables, vars
<1>8. ASSUME NEW i \in Indexers,
             \/ SelectIdentity(i) \/ CommitClaim(i) \/ FetchStatus(i)
             \/ FetchConfiguration(i) \/ GetThing(i) \/ FinishPass(i)
             \/ ReadFirst(i) \/ InsertThingRejected(i) \/ ReadMore(i)
             \/ ReadChunk(i) \/ CommitClaimFails(i) \/ NextIdentityFails(i)
             \/ GetLocationsFails(i) \/ GetThingFails(i)
             \/ GetReadingsFails(i) \/ Crash(i) \/ Restart(i)
      PROVE  DeliveryStep
  <2>1. UNCHANGED <<remote, things>>
    BY <1>8
       DEF SelectIdentity, CommitClaim, FetchStatus, FetchConfiguration,
           GetThing, FinishPass, ReadFirst, InsertThingRejected, ReadMore,
           ReadChunk, CommitClaimFails, NextIdentityFails, GetLocationsFails,
           GetThingFails, GetReadingsFails, Crash, Restart, tables
  <2> QED
    BY <1>1, <2>1
<1> QED
  BY <1>2, <1>3, <1>4, <1>5, <1>6, <1>7, <1>8 DEF Next, Step, Failure

-----------------------------------------------------------------------------
(* The handlers move places and register people: Delivery sees nothing. *)
LEMMA HandlerDelivers ==
  ASSUME KudzuInv, Handler
  PROVE  DeliveryStep
<1>1. CASE UNCHANGED <<remote, things>>
  BY <1>1, Stutter
<1>2. ASSUME NEW l \in DOMAIN things, NEW place \in Places,
             things' = UpdateGeolocation(things, l, place), UNCHANGED remote
      PROVE  DeliveryStep
  <2>1. IsTable(things, Locations, ThingRow)
    BY DEF KudzuInv, CoverageInv, TypeOK
  <2> QED
    BY <1>2, <2>1, UpdateGeolocationRow, Stutter
<1>3. ASSUME NEW r \in Requests, request[r] # None, StoreGeolocation(r),
             UNCHANGED things
      PROVE  DeliveryStep
  <2> DEFINE uid == request[r].uid
             row == [location |-> remote[uid].location,
                     title |-> request[r].title, geo |-> request[r].geo,
                     obs |-> remote[uid].obs]
  <2>1. uid \in DOMAIN remote /\ request[r] \in Geolocation
    BY <1>3 DEF KudzuInv, RequestsKnown
  <2>2. remote' = Put(remote, uid, row)
    BY <1>3 DEF StoreGeolocation
  <2>3. row.location = remote[uid].location /\ row.obs = remote[uid].obs
    OBVIOUS
  <2>4. /\ DOMAIN remote' = DOMAIN remote
        /\ remote'[uid] = row
        /\ \A x \in DOMAIN remote : x # uid => remote'[x] = remote[x]
    <3> HIDE DEF row, uid
    <3> QED
      BY <2>1, <2>2 DEF Put
  <2> HIDE DEF row, uid
  <2> QED
    BY <1>3, <2>3, <2>4, Stutter
<1>4. ASSUME NEW r \in Requests, UpdateLocation(r) \/ UpdateLocationFails(r)
      PROVE  DeliveryStep
  BY <1>2, <1>4 DEF UpdateLocation, UpdateLocationFails, external
<1>5. ASSUME NEW r \in Requests, PushLocation(r) \/ PushLocationFails(r)
      PROVE  DeliveryStep
  BY <1>1, <1>3, <1>5 DEF PushLocation, PushLocationFails, tables
<1>6. ASSUME NEW u \in Users, SaveUser(u) \/ DeleteUser(u)
      PROVE  DeliveryStep
  BY <1>1, <1>6 DEF SaveUser, DeleteUser
<1> QED
  BY <1>4, <1>5, <1>6 DEF Handler

-----------------------------------------------------------------------------
(* The theorems *)

LEMMA InitDelivers ==
  ASSUME CoverageInv
  PROVE  Promise!DeliveryInit
BY DEF CoverageInv, TypeOK, IsTable, Coverage, FirstSample,
       Promise!DeliveryInit, Promise!Delivered

(* Any number of indexers, with overlapping passes, lost answers and       *)
(* crashes, delivers what Delivery promises.                               *)
THEOREM IndexerImplementsDelivery == Spec => ImplementsDelivery
<1>1. Init => Promise!DeliveryInit
  BY InitInv, InitDelivers, ConstantsAssumption, LegacyAssumption
<1>2. CoverageInv /\ [Next]_vars => DeliveryStep
  BY IndexerDelivers, ConstantsAssumption
<1> QED
  BY <1>1, <1>2, InductiveInvariant, PTL
     DEF ImplementsDelivery, Promise!DeliverySpec, Spec, DeliveryStep

(* The handlers that write the same rows and the same things do not break  *)
(* the promise.                                                            *)
THEOREM KudzuImplementsDelivery == KudzuSpec => ImplementsDelivery
<1>1. KudzuInit => Promise!DeliveryInit
  BY InitInv, InitDelivers, ConstantsAssumption, LegacyAssumption
     DEF KudzuInit
<1>2. KudzuInv /\ [KudzuNext]_<<vars, handlers>> => DeliveryStep
  <2> SUFFICES ASSUME KudzuInv, [KudzuNext]_<<vars, handlers>>
               PROVE  DeliveryStep
    OBVIOUS
  <2>1. CoverageInv
    BY DEF KudzuInv
  <2>2. [Next]_vars \/ Handler
    BY DEF KudzuNext, vars, handlers
  <2> QED
    BY <2>1, <2>2, IndexerDelivers, HandlerDelivers, ConstantsAssumption
<1> QED
  BY <1>1, <1>2, KudzuInvariant, PTL
     DEF ImplementsDelivery, Promise!DeliverySpec, KudzuSpec, DeliveryStep
=============================================================================
