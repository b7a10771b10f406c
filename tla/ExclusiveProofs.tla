--------------------------- MODULE ExclusiveProofs ---------------------------
(***************************************************************************)
(* What the indexer owes to the claim of NextIdentity.  While no pass      *)
(* takes longer than the rest period, no two passes work on the same       *)
(* identity, however often it is claimed again after the rest; and while   *)
(* none do, watermarks only move forward and a thing is stranded at        *)
(* Thingful by a fault only.  Without exclusion neither holds: UpdateThing *)
(* writes what was read earlier, and two passes may both find that a       *)
(* location is new.                                                        *)
(***************************************************************************)
EXTENDS KudzuProofs, FiniteSetTheorems

-----------------------------------------------------------------------------
(* The steps, by what they do to the indexer that takes them *)

(* The steps that give up or finish the work on a location or the pass. *)
Ends(i) ==
  \/ FinishPass(i)          \/ InsertThingRejected(i) \/ FinishLocation(i)
  \/ NextIdentityFails(i)   \/ GetLocationsFails(i)   \/ GetThingFails(i)
  \/ GetReadingsFails(i)    \/ CreateThingFails(i)    \/ InsertThingFails(i)
  \/ UpdateNicknameFails(i) \/ PushChunkFails(i)      \/ SaveChunkFails(i)
  \/ Crash(i)

(* The steps that go on with the pass. *)
GoesOn(i) ==
  \/ FetchStatus(i)         \/ FetchConfiguration(i)  \/ GetThing(i)
  \/ ReadFirst(i)           \/ CreateThing(i)         \/ InsertThing(i)
  \/ ReadMore(i)            \/ ReadChunk(i)           \/ PushChunk(i)
  \/ SaveChunk(i)

LEMMA Sorts ==
  ASSUME NEW i \in Indexers, Step(i) \/ Failure(i)
  PROVE  \/ SelectIdentity(i) \/ CommitClaim(i) \/ CommitClaimFails(i)
         \/ Restart(i) \/ Ends(i) \/ GoesOn(i)
BY DEF Step, Failure, Ends, GoesOn

(* After the work on a location the pass is where it can take the next     *)
(* one; after a pass nothing is left of it.                                *)
LEMMA EndsLocals ==
  ASSUME NEW i \in Indexers, CoverageInv, Ends(i)
  PROVE  /\ OthersStay(i)
         /\ UNCHANGED <<now, identities>>
         /\ \/ /\ pc'[i] \in {"idle", "down"}
               /\ user'[i] = None
               /\ todo'[i] = Empty
               /\ since'[i] = Null
            \/ /\ pc[i] \in {"readFirst", "create", "insert"} \union Synced
               /\ pc'[i] = "next"
               /\ user'[i] = user[i]
               /\ todo'[i] = Remove(todo[i], loc[i])
               /\ since'[i] = since[i]
<1>1. LocalsType
  BY TypeSplit DEF CoverageInv
<1>2. \/ Leave(i, "idle") \/ Leave(i, "down")
      \/ /\ pc[i] \in {"readFirst", "create", "insert"} \union Synced
         /\ NextLocation(i)
  BY DEF Ends, FinishPass, InsertThingRejected, FinishLocation,
         NextIdentityFails, GetLocationsFails, GetThingFails,
         GetReadingsFails, CreateThingFails, InsertThingFails,
         UpdateNicknameFails, PushChunkFails, SaveChunkFails, Crash,
         EndPass, Synced
<1>3. UNCHANGED <<now, identities>>
  BY DEF Ends, FinishPass, InsertThingRejected, FinishLocation,
         NextIdentityFails, GetLocationsFails, GetThingFails,
         GetReadingsFails, CreateThingFails, InsertThingFails,
         UpdateNicknameFails, PushChunkFails, SaveChunkFails, Crash,
         external, tables
<1>4. CASE Leave(i, "idle") \/ Leave(i, "down")
  BY <1>1, <1>3, <1>4, LeaveLocals DEF Leave, LocalsType
<1>5. CASE /\ pc[i] \in {"readFirst", "create", "insert"} \union Synced
           /\ NextLocation(i)
  BY <1>1, <1>3, <1>5, NextLocationLocals DEF NextLocation, LocalsType
<1> QED
  BY <1>2, <1>4, <1>5

LEMMA GoesOnLocals ==
  ASSUME NEW i \in Indexers, CoverageInv, GoesOn(i)
  PROVE  /\ OthersStay(i)
         /\ UNCHANGED <<now, identities>>
         /\ user'[i] = user[i] /\ since'[i] = since[i]
         /\ pc[i] \notin {"idle", "down", "claiming"}
         /\ pc'[i] \notin {"idle", "down", "claiming"}
<1>1. LocalsType
  BY TypeSplit DEF CoverageInv
<1>2. UNCHANGED <<now, identities, user, since>>
  BY DEF GoesOn, FetchStatus, FetchConfiguration, GetThing, ReadFirst,
         CreateThing, InsertThing, ReadMore, ReadChunk, PushChunk, SaveChunk,
         external, tables, locals
<1>3. CASE FetchStatus(i) \/ FetchConfiguration(i)
  BY <1>1, <1>2, <1>3
     DEF FetchStatus, FetchConfiguration, Goto, LocalsType, OthersStay
<1>4. CASE GetThing(i)
  BY <1>1, <1>2, <1>4 DEF GetThing, Goto, LocalsType, OthersStay
<1>5. CASE ReadFirst(i) \/ ReadMore(i) \/ ReadChunk(i)
  BY <1>1, <1>2, <1>5
     DEF ReadFirst, ReadMore, ReadChunk, Goto, LocalsType, OthersStay, locals
<1>6. CASE CreateThing(i) \/ SaveChunk(i)
  BY <1>1, <1>2, <1>6
     DEF CreateThing, SaveChunk, Goto, LocalsType, OthersStay
<1>7. CASE InsertThing(i) \/ PushChunk(i)
  BY <1>1, <1>2, <1>7
     DEF InsertThing, PushChunk, Goto, LocalsType, OthersStay, locals
<1> QED
  BY <1>3, <1>4, <1>5, <1>6, <1>7 DEF GoesOn

-----------------------------------------------------------------------------
(* Claims *)

(* Nobody takes longer over an identity than the rest period, and every    *)
(* claim is committed.                                                     *)
ClaimsHold == Longest <= Period /\ "commit" \notin Faults

Busy(i) == pc[i] \notin {"idle", "down"}

(* The row of an identity that is being indexed is locked until it is      *)
(* marked with the time at which the pass began, and so it is not due as   *)
(* long as the pass may take; after that it may be deleted (Kudzu).        *)
ClaimOK(i) ==
  /\ ~Busy(i) => user[i] = None /\ since[i] = Null
  /\ Busy(i) => since[i] \in 1..now /\ now - since[i] <= Longest
  /\ pc[i] = "claiming" => user[i] \in DOMAIN identities /\ since[i] = now
  /\ Busy(i) /\ pc[i] # "claiming" /\ user[i] \in DOMAIN identities =>
       identities[user[i]].indexed_at = since[i]

ClaimInv ==
  /\ now \in Nat \ {0}
  /\ \A i \in Indexers : ClaimOK(i)
  /\ OnePassPerIdentity

LEMMA ClaimInvInit == Init => ClaimInv
BY DEF Init, ClaimInv, ClaimOK, Busy, OnePassPerIdentity

(* An indexer that does not move keeps its claim. *)
LEMMA ClaimStays ==
  ASSUME NEW j \in Indexers, ClaimOK(j), UNCHANGED <<now, identities>>,
         pc'[j] = pc[j], user'[j] = user[j], since'[j] = since[j]
  PROVE  ClaimOK(j)'
BY DEF ClaimOK, Busy

(* A step that neither claims nor changes an identity. *)
LEMMA ClaimFrame ==
  ASSUME NEW i \in Indexers, ClaimInv, OthersStay(i),
         UNCHANGED <<now, identities>>,
         \/ /\ pc'[i] \in {"idle", "down"}
            /\ user'[i] = None /\ since'[i] = Null
         \/ /\ user'[i] = user[i] /\ since'[i] = since[i]
            /\ pc[i] \notin {"idle", "down", "claiming"}
            /\ pc'[i] \notin {"idle", "down", "claiming"}
  PROVE  ClaimInv'
<1>1. ClaimOK(i)'
  BY DEF ClaimInv, ClaimOK, Busy
<1>2. \A j \in Indexers \ {i} : ClaimOK(j)'
  BY ClaimStays DEF ClaimInv, OthersStay
<1>3. OnePassPerIdentity'
  BY DEF ClaimInv, OnePassPerIdentity, OthersStay
<1> QED
  BY <1>1, <1>2, <1>3 DEF ClaimInv

(* NextIdentity passes over the identities that others are working on. *)
LEMMA SelectKeeps ==
  ASSUME NEW i \in Indexers, ClaimsHold, CoverageInv, ClaimInv,
         SelectIdentity(i)
  PROVE  ClaimInv'
<1>1. /\ LocalsType /\ IsTable(identities, Users, Identity)
      /\ now \in Nat /\ Longest \in Nat /\ Period \in Nat
  BY TypeSplit, ConstantsAssumption
     DEF CoverageInv, TypeOK, ConstantsAssumption
<1>2. PICK u \in NextIdentities(identities, Locked, now, Period) :
        user' = [user EXCEPT ![i] = u]
  BY DEF SelectIdentity
<1>3. /\ u \in DOMAIN identities
      /\ u \notin Locked
      /\ IsDue(identities[u], now, Period)
  BY <1>2 DEF NextIdentities
<1>4. ASSUME NEW j \in Indexers, user[j] = u
      PROVE  FALSE
  <2>1. u # None
    BY <1>1, <1>3, NoneAssumption DEF IsTable
  <2>2. pc[j] # "claiming"
    BY <1>3, <1>4 DEF Locked
  <2>3. /\ since[j] \in 1..now /\ now - since[j] <= Longest
        /\ identities[u].indexed_at = since[j]
    BY <1>3, <1>4, <2>1, <2>2 DEF ClaimInv, ClaimOK
  <2> QED
    BY <1>1, <1>3, <2>3 DEF IsDue, Null, ClaimsHold
<1>5. /\ user'[i] = u
      /\ pc'[i] = "claiming"
      /\ since'[i] = now
      /\ \A j \in Indexers \ {i} :
           user'[j] = user[j] /\ pc'[j] = pc[j] /\ since'[j] = since[j]
  BY <1>1, <1>2 DEF SelectIdentity, Goto, LocalsType
<1>6. UNCHANGED <<now, identities>>
  BY DEF SelectIdentity, external, tables
<1>7. ClaimOK(i)'
  BY <1>1, <1>3, <1>5, <1>6 DEF ClaimInv, ClaimOK, Busy
<1>8. \A j \in Indexers \ {i} : ClaimOK(j)'
  BY <1>5, <1>6, ClaimStays DEF ClaimInv
<1>9. OnePassPerIdentity'
  BY <1>4, <1>5 DEF ClaimInv, OnePassPerIdentity
<1> QED
  BY <1>6, <1>7, <1>8, <1>9 DEF ClaimInv

LEMMA CommitKeeps ==
  ASSUME NEW i \in Indexers, CoverageInv, ClaimInv, CommitClaim(i)
  PROVE  ClaimInv'
<1>1. LocalsType /\ IsTable(identities, Users, Identity)
  BY TypeSplit DEF CoverageInv, TypeOK
<1>2. /\ identities' = [identities EXCEPT ![user[i]].indexed_at = now]
      /\ UNCHANGED <<now, user, since>>
  BY DEF CommitClaim, SetIndexed, external, locals
<1>3. user[i] \in DOMAIN identities /\ user[i] # None /\ since[i] = now
  BY <1>1, NoneAssumption DEF CommitClaim, ClaimInv, ClaimOK, IsTable
<1>4. /\ DOMAIN identities' = DOMAIN identities
      /\ \A u \in DOMAIN identities :
           identities'[u].indexed_at =
             IF u = user[i] THEN now ELSE identities[u].indexed_at
  BY <1>1, <1>2 DEF IsTable, Identity
<1>5. pc'[i] = "status" /\ \A j \in Indexers \ {i} : pc'[j] = pc[j]
  BY <1>1 DEF CommitClaim, Goto, LocalsType
<1>6. ClaimOK(i)'
  BY <1>2, <1>3, <1>4, <1>5 DEF ClaimInv, ClaimOK, Busy, CommitClaim
<1>7. ASSUME NEW j \in Indexers \ {i}
      PROVE  ClaimOK(j)'
  <2>1. user[j] # user[i]
    BY <1>3 DEF ClaimInv, OnePassPerIdentity
  <2> QED
    BY <1>2, <1>4, <1>5, <2>1 DEF ClaimInv, ClaimOK, Busy
<1> QED
  BY <1>2, <1>6, <1>7 DEF ClaimInv, OnePassPerIdentity

(* The clock does not get further than a pass may take, and so not to the  *)
(* end of the rest of an identity that is being indexed.                   *)
LEMMA TickKeeps ==
  ASSUME ClaimInv, CoverageInv, Tick
  PROVE  ClaimInv'
<1>1. now' = now + 1 /\ UNCHANGED <<identities, pc, user, since>>
  BY DEF Tick, tables, locals
<1>2. ASSUME NEW i \in Indexers
      PROVE  ClaimOK(i)'
  <2>1. Longest \in Nat /\ since[i] \in Nat
    BY ConstantsAssumption
       DEF ConstantsAssumption, CoverageInv, TypeOK
  <2>2. pc[i] # "claiming" /\ (since[i] # Null => now - since[i] < Longest)
    BY DEF Tick
  <2>3. Busy(i) => since[i] \in 1..now' /\ now' - since[i] <= Longest
    BY <1>1, <2>1, <2>2 DEF ClaimInv, ClaimOK, Null
  <2> QED
    BY <1>1, <2>2, <2>3 DEF ClaimInv, ClaimOK, Busy
<1> QED
  BY <1>1, <1>2 DEF ClaimInv, OnePassPerIdentity

LEMMA ClaimInvNext ==
  ASSUME ClaimsHold, CoverageInv, ClaimInv, [Next]_vars
  PROVE  ClaimInv'
<1>1. ASSUME UNCHANGED <<now, identities, pc, user, since>>
      PROVE  ClaimInv'
  BY <1>1, ClaimStays DEF ClaimInv, OnePassPerIdentity
<1>2. ASSUME NEW l \in Locations, NewSample(l) \/ Rename(l)
      PROVE  ClaimInv'
  BY <1>1, <1>2 DEF NewSample, Rename, tables, locals
<1>3. ASSUME NEW i \in Indexers, Step(i) \/ Failure(i)
      PROVE  ClaimInv'
  <2>1. CASE Ends(i)
    BY <2>1, EndsLocals, ClaimFrame DEF Synced
  <2>2. CASE GoesOn(i)
    BY <2>2, GoesOnLocals, ClaimFrame
  <2>3. CASE CommitClaimFails(i)
    BY <2>3 DEF CommitClaimFails, Fault, ClaimsHold
  <2>4. CASE Restart(i)
    <3>1. LocalsType
      BY TypeSplit DEF CoverageInv
    <3>2. /\ OthersStay(i)
          /\ UNCHANGED <<now, identities>>
          /\ pc'[i] = "idle" /\ user'[i] = None /\ since'[i] = Null
      BY <2>4, <3>1
         DEF Restart, Goto, external, tables, locals, OthersStay, LocalsType,
             ClaimInv, ClaimOK, Busy
    <3> QED
      BY <3>2, ClaimFrame
  <2> QED
    BY <1>3, <2>1, <2>2, <2>3, <2>4, Sorts, SelectKeeps, CommitKeeps
<1> QED
  BY <1>1, <1>2, <1>3, TickKeeps DEF Next, Environment, vars

LEMMA ClaimsExclude ==
  ASSUME ClaimsHold
  PROVE  Spec => []OnePassPerIdentity
<1>1. ClaimInv => OnePassPerIdentity
  BY DEF ClaimInv
<1> QED
  BY <1>1, ClaimInvInit, ClaimInvNext, InductiveInvariant, PTL DEF Spec

(* A single indexer needs no claims to be alone. *)
Exclusive == ClaimsHold \/ \E i \in Indexers : Indexers = {i}

(* FOR UPDATE SKIP LOCKED and indexed_at keep any number of indexers off   *)
(* the identity another one is working on (NextIdentity), pass after pass  *)
(* and rest after rest, if no pass takes longer than the rest period and   *)
(* no COMMIT of a claim fails.                                             *)
THEOREM PassesExclude ==
  ASSUME Exclusive
  PROVE  Spec => []OnePassPerIdentity
<1>1. CASE ClaimsHold
  BY <1>1, ClaimsExclude
<1>2. CASE \E i \in Indexers : Indexers = {i}
  <2>1. OnePassPerIdentity
    BY <1>2 DEF OnePassPerIdentity
  <2> QED
    BY <2>1, PTL
<1> QED
  BY <1>1, <1>2 DEF Exclusive

-----------------------------------------------------------------------------
(* What exclusion gives to a pass *)

(* Nobody else lists the locations of a user. *)
OwnedApart == \A u, v \in Users : u # v => Owned[u] \intersect Owned[v] = {}

(* The steps with a copy that is not in the table yet. *)
New == {"readFirst", "create", "insert"}

(* A pass is over locations of its identity; and as long as the identity   *)
(* is there, a location that was new when the pass looked still has no row. *)
PassOK(i) ==
  /\ pc[i] \in {"idle", "down"} => DOMAIN todo[i] = {}
  /\ pc[i] \notin {"idle", "down"} => DOMAIN todo[i] \subseteq Owned[user[i]]
  /\ pc[i] = "claiming" => user[i] \in DOMAIN identities
  /\ pc[i] \in New =>
       /\ copy[i].owner = user[i]
       /\ user[i] \in DOMAIN identities => loc[i] \notin DOMAIN things

PassesInv == \A i \in Indexers : PassOK(i)

LEMMA PassesInvInit == Init => PassesInv
BY DEF Init, PassesInv, PassOK, New, Empty

(* No location is listed for two of those who are registered. *)
OwnersApart ==
  \A u, v \in DOMAIN identities : u # v => Owned[u] \intersect Owned[v] = {}

(* Two passes never work on the same location. *)
LEMMA LocationsApart ==
  ASSUME OwnersApart, OnePassPerIdentity, CoverageInv, PassesInv,
         NEW i \in Indexers, NEW j \in Indexers \ {i},
         user[i] \in DOMAIN identities, user[j] \in DOMAIN identities,
         pc[i] \in New \union Synced, pc[j] \in New \union Synced
  PROVE  loc[i] # loc[j]
<1>1. ASSUME NEW k \in Indexers, pc[k] \in New \union Synced
      PROVE  user[k] # None /\ loc[k] \in Owned[user[k]]
  BY <1>1 DEF CoverageInv, CopyInv, CopyOK, PassesInv, PassOK, New, Synced
<1>2. user[i] # user[j]
  BY <1>1 DEF OnePassPerIdentity
<1> QED
  BY <1>1, <1>2 DEF OwnersApart

-----------------------------------------------------------------------------
(* What a step of an indexer does to the tables *)

(* The watermark a chunk ends at is not before the one it starts from. *)
LEMMA ChunkForward ==
  ASSUME NEW row \in ThingRow, HasMore(row)
  PROVE  To(row) >= row.uploaded
BY ConstantsAssumption
   DEF ConstantsAssumption, ThingRow, HasMore, To, From, FirstSample, Null

(* A step writes at most the row of its location; no row is removed, and   *)
(* the watermark of one that is there changes only when a chunk is saved.  *)
TablesMove(i) ==
  /\ DOMAIN identities' = DOMAIN identities
  /\ DOMAIN things \subseteq DOMAIN things'
  /\ \/ DOMAIN things' = DOMAIN things
     \/ /\ pc[i] = "insert"
        /\ copy[i].owner \in DOMAIN identities
        /\ DOMAIN things' = DOMAIN things \union {loc[i]}
  /\ \A l \in DOMAIN things :
       /\ things'[l].uid = things[l].uid
       /\ \/ things'[l].uploaded = things[l].uploaded
          \/ /\ pc[i] = "save"
             /\ l = loc[i]
             /\ things'[l].uploaded = To(copy[i])

LEMMA SaveMoves ==
  ASSUME NEW i \in Indexers, CoverageInv, pc[i] = "save",
         UNCHANGED identities,
         things' = UpdateThing(things, loc[i], Saved(i))
  PROVE  /\ TablesMove(i)
         /\ loc[i] \in DOMAIN things
         /\ things'[loc[i]].uploaded = Saved(i).uploaded
<1>1. /\ copy[i] \in ThingRow
      /\ loc[i] \in Locations
      /\ todo[i][loc[i]] \in Snapshot
  BY WorkingCopy DEF Synced
<1>2. To(copy[i]) \in Nat
  BY <1>1, ChunkExtends, ConstantsAssumption
<1>3. Saved(i) \in ThingRow /\ Saved(i).uploaded = To(copy[i])
  BY <1>1, <1>2 DEF Saved, ThingRow, Snapshot
<1>4. loc[i] \in DOMAIN things
  BY DEF CoverageInv, CopyInv, CopyOK, Synced
<1>5. IsTable(things, Locations, ThingRow)
  BY DEF CoverageInv, TypeOK
<1>6. /\ DOMAIN things' = DOMAIN things
      /\ \A m \in DOMAIN things :
           /\ things'[m].uid = things[m].uid
           /\ things'[m].uploaded =
                IF m = loc[i] THEN Saved(i).uploaded ELSE things[m].uploaded
  BY <1>1, <1>3, <1>5, UpdateThingRow
<1> QED
  BY <1>3, <1>4, <1>6 DEF TablesMove

LEMMA NicknameMoves ==
  ASSUME NEW i \in Indexers, CoverageInv, pc[i] = "more",
         UNCHANGED identities,
         things' = UpdateNickname(things, loc[i], todo[i][loc[i]].nickname)
  PROVE  TablesMove(i)
<1>1. todo[i][loc[i]].nickname \in Nicknames \union {None}
  BY WorkingCopy DEF Synced, Snapshot
<1>2. IsTable(things, Locations, ThingRow)
  BY DEF CoverageInv, TypeOK
<1> QED
  BY <1>1, <1>2, UpdateNicknameRow DEF TablesMove

LEMMA InsertMoves ==
  ASSUME NEW i \in Indexers, CoverageInv, pc[i] = "insert",
         UNCHANGED identities, CanInsert(i), InsertRow(i)
  PROVE  TablesMove(i) /\ things'[loc[i]] = copy[i]
<1>1. loc[i] \notin DOMAIN things /\ copy[i].owner \in DOMAIN identities
  BY DEF CanInsert, CanInsertThing
<1> QED
  BY <1>1 DEF InsertRow, Put, TablesMove

LEMMA StepMoves ==
  ASSUME NEW i \in Indexers, CoverageInv, Step(i) \/ Failure(i)
  PROVE  TablesMove(i)
<1>1. CASE UNCHANGED <<identities, things>>
  BY <1>1 DEF TablesMove
<1>2. CASE CommitClaim(i) \/ CommitClaimFails(i)
  BY <1>2 DEF CommitClaim, CommitClaimFails, SetIndexed, TablesMove
<1>3. CASE InsertThing(i) \/ InsertThingFails(i)
  BY <1>1, <1>3, InsertMoves DEF InsertThing, InsertThingFails
<1>4. CASE FinishLocation(i) \/ UpdateNicknameFails(i)
  BY <1>1, <1>4, NicknameMoves DEF FinishLocation, UpdateNicknameFails
<1>5. CASE SaveChunk(i) \/ SaveChunkFails(i)
  BY <1>1, <1>5, SaveMoves DEF SaveChunk, SaveChunkFails
<1>6. \/ UNCHANGED <<identities, things>>
      \/ CommitClaim(i) \/ CommitClaimFails(i)
      \/ InsertThing(i) \/ InsertThingFails(i)
      \/ FinishLocation(i) \/ UpdateNicknameFails(i)
      \/ SaveChunk(i) \/ SaveChunkFails(i)
  BY DEF Step, Failure, tables, SelectIdentity, FetchStatus,
         FetchConfiguration, GetThing, FinishPass, ReadFirst, CreateThing,
         InsertThingRejected, ReadMore, ReadChunk, PushChunk,
         NextIdentityFails, GetLocationsFails, GetThingFails,
         GetReadingsFails, CreateThingFails, PushChunkFails, Crash, Restart
<1> QED
  BY <1>1, <1>2, <1>3, <1>4, <1>5, <1>6

-----------------------------------------------------------------------------
(* PassesInv is kept *)

(* What another indexer does leaves a pass in order. *)
LEMMA PassFrame ==
  ASSUME OwnersApart, OnePassPerIdentity, CoverageInv, PassesInv,
         NEW i \in Indexers, NEW j \in Indexers \ {i},
         TablesMove(i), OthersStay(i)
  PROVE  PassOK(j)'
<1>1. /\ pc'[j] = pc[j] /\ user'[j] = user[j] /\ todo'[j] = todo[j]
      /\ loc'[j] = loc[j] /\ copy'[j] = copy[j]
  BY DEF OthersStay
<1>2. PassOK(i) /\ PassOK(j)
  BY DEF PassesInv
<1>3. ASSUME pc[j] \in New, user[j] \in DOMAIN identities
      PROVE  loc[j] \notin DOMAIN things'
  <2>1. SUFFICES ASSUME pc[i] = "insert",
                        copy[i].owner \in DOMAIN identities
                 PROVE  loc[i] # loc[j]
    BY <1>2, <1>3 DEF TablesMove, PassOK
  <2>2. user[i] \in DOMAIN identities
    BY <1>2, <2>1 DEF PassOK, New
  <2> QED
    BY <1>3, <2>1, <2>2, LocationsApart DEF New
<1> QED
  BY <1>1, <1>2, <1>3 DEF TablesMove, PassOK

LEMMA EndsPass ==
  ASSUME NEW i \in Indexers, CoverageInv, PassesInv, TablesMove(i), Ends(i)
  PROVE  PassOK(i)'
<1>1. CASE pc'[i] \in {"idle", "down"} /\ todo'[i] = Empty
  BY <1>1 DEF PassOK, New, Empty
<1>2. CASE /\ pc[i] \in {"readFirst", "create", "insert"} \union Synced
           /\ pc'[i] = "next"
           /\ user'[i] = user[i]
           /\ todo'[i] = Remove(todo[i], loc[i])
  <2>1. DOMAIN todo'[i] \subseteq DOMAIN todo[i]
    BY <1>2 DEF Remove
  <2> QED
    BY <1>2, <2>1 DEF PassesInv, PassOK, New, Synced
<1> QED
  BY <1>1, <1>2, EndsLocals

(* GetThing, by what it finds. *)
LEMMA GetThingFinds ==
  ASSUME NEW i \in Indexers, CoverageInv, GetThing(i)
  PROVE  /\ loc'[i] \in DOMAIN todo[i]
         /\ UNCHANGED <<things, todo>>
         /\ \/ /\ pc'[i] = "readFirst"
               /\ copy'[i] = NewRow(i, loc'[i])
               /\ loc'[i] \notin DOMAIN things
            \/ /\ pc'[i] = "more"
               /\ copy'[i].uploaded = things[loc'[i]].uploaded
<1>1. LocalsType
  BY TypeSplit DEF CoverageInv
<1>2. PICK l \in DOMAIN todo[i] :
        /\ loc' = [loc EXCEPT ![i] = l]
        /\ \/ /\ NoRows(l)
              /\ copy' = [copy EXCEPT ![i] = NewRow(i, l)]
              /\ isNew' = [isNew EXCEPT ![i] = TRUE]
              /\ Goto(i, "readFirst")
           \/ /\ ~NoRows(l)
              /\ copy' = [copy EXCEPT ![i] = Load(i, l)]
              /\ isNew' = [isNew EXCEPT ![i] = FALSE]
              /\ Goto(i, "more")
  BY DEF GetThing
<1>3. loc'[i] = l /\ UNCHANGED <<things, todo>>
  BY <1>1, <1>2 DEF GetThing, LocalsType, tables
<1>4. CASE pc'[i] = "readFirst" /\ copy'[i] = NewRow(i, l) /\ NoRows(l)
  BY <1>3, <1>4 DEF NoRows
<1>5. CASE pc'[i] = "more" /\ copy'[i] = Load(i, l) /\ ~NoRows(l)
  <2>1. things[l] \in ThingRow
    BY <1>5 DEF NoRows, CoverageInv, TypeOK, IsTable
  <2>2. Load(i, l).uploaded = things[l].uploaded
    BY <2>1 DEF Load, ThingRow
  <2> QED
    BY <1>3, <1>5, <2>2
<1> QED
  BY <1>1, <1>2, <1>4, <1>5 DEF Goto, LocalsType

LEMMA GoesOnPass ==
  ASSUME NEW i \in Indexers, CoverageInv, PassesInv, TablesMove(i), GoesOn(i)
  PROVE  PassOK(i)'
<1>1. LocalsType /\ PassOK(i) /\ CopyOK(i)
  BY TypeSplit DEF CoverageInv, CopyInv, PassesInv
<1>2. /\ user'[i] = user[i]
      /\ pc[i] \notin {"idle", "down", "claiming"}
      /\ pc'[i] \notin {"idle", "down", "claiming"}
      /\ DOMAIN identities' = DOMAIN identities
      /\ DOMAIN todo[i] \subseteq Owned[user[i]]
  BY <1>1, GoesOnLocals DEF PassOK
<1>3. CASE FetchStatus(i)
  <2>1. pc'[i] = "configuration" /\ DOMAIN todo'[i] \subseteq Owned[user[i]]
    BY <1>1, <1>3 DEF FetchStatus, Goto, LocalsType
  <2> QED
    BY <1>2, <2>1 DEF PassOK, New
<1>4. CASE FetchConfiguration(i)
  <2>1. pc'[i] = "next" /\ DOMAIN todo'[i] \subseteq DOMAIN todo[i]
    BY <1>1, <1>4 DEF FetchConfiguration, Goto, LocalsType
  <2> QED
    BY <1>2, <2>1 DEF PassOK, New
<1>5. CASE GetThing(i)
  <2>1. DOMAIN todo'[i] \subseteq Owned[user'[i]]
    BY <1>2, <1>5, GetThingFinds
  <2>2. pc'[i] \in New =>
          /\ copy'[i].owner = user'[i]
          /\ loc'[i] \notin DOMAIN things'
    <3>1. NewRow(i, loc'[i]).owner = user[i]
      BY DEF NewRow
    <3>2. pc'[i] \in New => pc'[i] # "more"
      BY DEF New
    <3> QED
      BY <1>2, <1>5, <3>1, <3>2, GetThingFinds
  <2> QED
    BY <1>2, <2>1, <2>2 DEF PassOK
<1>6. CASE ReadFirst(i)
  <2>1. UNCHANGED <<things, todo, loc, copy>> /\ pc[i] = "readFirst"
    BY <1>6 DEF ReadFirst, tables, locals
  <2> QED
    BY <1>1, <1>2, <2>1 DEF PassOK, New
<1>7. CASE CreateThing(i)
  <2>1. copy[i] \in ThingRow
    BY <1>7, WorkingCopy DEF CreateThing
  <2>2. /\ pc[i] = "create"
        /\ UNCHANGED <<things, todo, loc>>
        /\ copy'[i].owner = copy[i].owner
    BY <1>1, <1>7, <2>1 DEF CreateThing, LocalsType, tables, ThingRow
  <2> QED
    BY <1>1, <1>2, <2>2 DEF PassOK, New
<1>8. CASE \/ ReadMore(i) \/ ReadChunk(i) \/ InsertThing(i)
           \/ PushChunk(i) \/ SaveChunk(i)
  <2>1. pc'[i] \in {"read", "push", "more", "save"} /\ UNCHANGED todo
    BY <1>1, <1>8
       DEF ReadMore, ReadChunk, InsertThing, PushChunk, SaveChunk, Goto,
           LocalsType, locals
  <2> QED
    BY <1>2, <2>1 DEF PassOK, New
<1> QED
  BY <1>3, <1>4, <1>5, <1>6, <1>7, <1>8 DEF GoesOn

LEMMA ClaimPass ==
  ASSUME NEW i \in Indexers, CoverageInv, PassesInv, TablesMove(i),
         \/ SelectIdentity(i) \/ CommitClaim(i) \/ CommitClaimFails(i)
         \/ Restart(i)
  PROVE  /\ PassOK(i)' /\ OthersStay(i)
         /\ UNCHANGED todo
         /\ pc'[i] \in {"idle", "claiming", "status"}
         /\ pc'[i] = "claiming" => user'[i] \in DOMAIN identities
         /\ pc'[i] = "status" => pc[i] = "claiming" /\ user'[i] = user[i]
<1>1. LocalsType /\ PassOK(i)
  BY TypeSplit DEF CoverageInv, PassesInv
<1>2. UNCHANGED todo
  BY DEF SelectIdentity, CommitClaim, CommitClaimFails, Restart, locals
<1>3. CASE SelectIdentity(i)
  <2>1. PICK u \in DOMAIN identities : user' = [user EXCEPT ![i] = u]
    BY <1>3 DEF SelectIdentity, NextIdentities
  <2>2. /\ pc[i] = "idle" /\ pc'[i] = "claiming" /\ user'[i] = u
        /\ OthersStay(i)
    BY <1>1, <1>3, <2>1 DEF SelectIdentity, Goto, LocalsType, OthersStay
  <2> QED
    BY <1>1, <1>2, <2>2 DEF PassOK, New, TablesMove
<1>4. CASE CommitClaim(i) \/ CommitClaimFails(i)
  <2>1. /\ pc[i] = "claiming" /\ pc'[i] = "status" /\ user'[i] = user[i]
        /\ OthersStay(i)
    BY <1>1, <1>4
       DEF CommitClaim, CommitClaimFails, Goto, LocalsType, locals, OthersStay
  <2> QED
    BY <1>1, <1>2, <2>1 DEF PassOK, New
<1>5. CASE Restart(i)
  <2>1. pc[i] = "down" /\ pc'[i] = "idle" /\ OthersStay(i)
    BY <1>1, <1>5 DEF Restart, Goto, LocalsType, locals, OthersStay
  <2> QED
    BY <1>1, <1>2, <2>1 DEF PassOK, New
<1> QED
  BY <1>3, <1>4, <1>5

(* What a step of an indexer does to all of them. *)
LEMMA PassesKept ==
  ASSUME OwnersApart, OnePassPerIdentity, CoverageInv, PassesInv,
         NEW i \in Indexers, Step(i) \/ Failure(i)
  PROVE  PassesInv' /\ TablesMove(i) /\ OthersStay(i)
<1>1. TablesMove(i)
  BY StepMoves
<1>2. PassOK(i)' /\ OthersStay(i)
  BY <1>1, Sorts, EndsPass, EndsLocals, GoesOnPass, GoesOnLocals, ClaimPass
<1>3. ASSUME NEW j \in Indexers \ {i}
      PROVE  PassOK(j)'
  BY <1>1, <1>2, PassFrame
<1> QED
  BY <1>1, <1>2, <1>3 DEF PassesInv

-----------------------------------------------------------------------------
(* Without handlers *)

(* What indexer i read of the table is still what is there.                *)
RowOK(i) ==
  /\ pc[i] \notin {"idle", "down"} => user[i] \in DOMAIN identities
  /\ pc[i] \in Synced => copy[i].uploaded = things[loc[i]].uploaded
  /\ pc[i] \in {"read", "push", "save"} => HasMore(copy[i])

RowsInv == PassesInv /\ \A i \in Indexers : RowOK(i)

LEMMA RowsInvInit == Init => RowsInv
<1>1. Init => \A i \in Indexers : RowOK(i)
  BY DEF Init, RowOK, Synced
<1> QED
  BY <1>1, PassesInvInit DEF RowsInv

LEMMA RowFrame ==
  ASSUME OwnersApart, OnePassPerIdentity, CoverageInv, RowsInv,
         NEW i \in Indexers, NEW j \in Indexers \ {i},
         TablesMove(i), OthersStay(i)
  PROVE  RowOK(j)'
<1>1. /\ pc'[j] = pc[j] /\ user'[j] = user[j]
      /\ loc'[j] = loc[j] /\ copy'[j] = copy[j]
  BY DEF OthersStay
<1>2. RowOK(i) /\ RowOK(j) /\ CopyOK(j)
  BY DEF RowsInv, CoverageInv, CopyInv
<1>3. pc[j] \in Synced => things'[loc[j]].uploaded = things[loc[j]].uploaded
  <2>1. SUFFICES ASSUME pc[j] \in Synced, pc[i] = "save"
                 PROVE  loc[i] # loc[j]
    BY <1>2 DEF TablesMove, CopyOK
  <2>2. user[i] \in DOMAIN identities /\ user[j] \in DOMAIN identities
    BY <1>2, <2>1 DEF RowOK, Synced
  <2> QED
    BY <2>1, <2>2, LocationsApart DEF Synced, RowsInv
<1> QED
  BY <1>1, <1>2, <1>3 DEF TablesMove, RowOK, HasMore

LEMMA GoesOnRow ==
  ASSUME NEW i \in Indexers, CoverageInv, RowsInv, TablesMove(i), GoesOn(i)
  PROVE  RowOK(i)'
<1>1. LocalsType /\ RowOK(i) /\ CopyOK(i)
  BY TypeSplit DEF CoverageInv, CopyInv, RowsInv
<1>2. user'[i] \in DOMAIN identities'
  BY <1>1, GoesOnLocals DEF RowOK
<1>3. CASE FetchStatus(i) \/ FetchConfiguration(i) \/ CreateThing(i)
  <2>1. pc'[i] \in {"configuration", "next", "insert"}
    BY <1>1, <1>3
       DEF FetchStatus, FetchConfiguration, CreateThing, Goto, LocalsType
  <2> QED
    BY <1>2, <2>1 DEF RowOK, Synced
<1>4. CASE GetThing(i)
  BY <1>2, <1>4, GetThingFinds DEF RowOK, Synced
<1>5. CASE ReadFirst(i) \/ ReadMore(i) \/ ReadChunk(i)
  <2>1. UNCHANGED <<things, loc, copy>>
    BY <1>5 DEF ReadFirst, ReadMore, ReadChunk, tables, locals
  <2>2. \/ pc[i] = "readFirst" /\ pc'[i] = "create"
        \/ pc[i] = "more" /\ pc'[i] = "read" /\ HasMore(copy[i])
        \/ pc[i] = "read" /\ pc'[i] = "push"
    BY <1>1, <1>5 DEF ReadFirst, ReadMore, ReadChunk, Goto, LocalsType
  <2> QED
    BY <1>1, <1>2, <2>1, <2>2 DEF RowOK, Synced, HasMore
<1>6. CASE InsertThing(i)
  <2>1. things'[loc[i]] = copy[i]
    BY <1>6, InsertMoves DEF InsertThing
  <2>2. pc'[i] = "more" /\ UNCHANGED <<loc, copy>>
    BY <1>1, <1>6 DEF InsertThing, Goto, LocalsType, locals
  <2> QED
    BY <1>2, <2>1, <2>2 DEF RowOK, Synced
<1>7. CASE PushChunk(i)
  <2>1. /\ pc[i] = "push" /\ pc'[i] = "save"
        /\ UNCHANGED <<things, loc, copy>>
    BY <1>1, <1>7 DEF PushChunk, Goto, LocalsType, tables, locals
  <2> QED
    BY <1>1, <1>2, <2>1 DEF RowOK, Synced, HasMore
<1>8. CASE SaveChunk(i)
  <2>1. things'[loc[i]].uploaded = Saved(i).uploaded
    BY <1>8, SaveMoves DEF SaveChunk
  <2>2. pc'[i] = "more" /\ copy'[i] = Saved(i) /\ UNCHANGED loc
    BY <1>1, <1>8 DEF SaveChunk, Goto, LocalsType
  <2> QED
    BY <1>2, <2>1, <2>2 DEF RowOK, Synced
<1> QED
  BY <1>3, <1>4, <1>5, <1>6, <1>7, <1>8 DEF GoesOn

LEMMA RowsInvNext ==
  ASSUME OwnedApart, OnePassPerIdentity, CoverageInv, RowsInv, [Next]_vars
  PROVE  RowsInv'
<1>1. ASSUME UNCHANGED <<identities, things, pc, user, todo, loc, copy>>
      PROVE  RowsInv'
  BY <1>1 DEF RowsInv, PassesInv, PassOK, RowOK, HasMore
<1>2. CASE Environment
  BY <1>1, <1>2 DEF Environment, Tick, NewSample, Rename, tables, locals
<1>3. ASSUME NEW i \in Indexers, Step(i) \/ Failure(i)
      PROVE  RowsInv'
  <2>1. OwnersApart
    BY DEF OwnedApart, OwnersApart, CoverageInv, TypeOK, IsTable
  <2>2. PassesInv' /\ TablesMove(i) /\ OthersStay(i)
    BY <1>3, <2>1, PassesKept DEF RowsInv
  <2>3. CASE Ends(i)
    <3>1. DOMAIN identities' = DOMAIN identities
      BY <2>2 DEF TablesMove
    <3>2. RowOK(i)'
      BY <2>3, <3>1, EndsLocals DEF RowsInv, RowOK, Synced
    <3> QED
      BY <2>1, <2>2, <3>2, RowFrame DEF RowsInv
  <2>4. CASE GoesOn(i)
    BY <2>1, <2>2, <2>4, GoesOnRow, RowFrame DEF RowsInv
  <2>5. CASE \/ SelectIdentity(i) \/ CommitClaim(i) \/ CommitClaimFails(i)
             \/ Restart(i)
    <3>1. RowOK(i)'
      BY <2>2, <2>5, ClaimPass
         DEF RowsInv, PassesInv, PassOK, RowOK, Synced, TablesMove
    <3> QED
      BY <2>1, <2>2, <3>1, RowFrame DEF RowsInv
  <2> QED
    BY <1>3, <2>3, <2>4, <2>5, Sorts
<1> QED
  BY <1>1, <1>2, <1>3 DEF Next, vars

-----------------------------------------------------------------------------
(* Watermarks *)

LEMMA StepForward ==
  ASSUME CoverageInv, RowsInv, [Next]_vars, NEW l \in DOMAIN things
  PROVE  l \in DOMAIN things' /\ things'[l].uploaded >= things[l].uploaded
<1>1. things[l].uploaded \in Nat
  BY DEF CoverageInv, TypeOK, IsTable, ThingRow
<1>2. CASE UNCHANGED things
  BY <1>1, <1>2
<1>3. ASSUME NEW i \in Indexers, Step(i) \/ Failure(i)
      PROVE  l \in DOMAIN things' /\ things'[l].uploaded >= things[l].uploaded
  <2>1. TablesMove(i)
    BY <1>3, StepMoves
  <2>2. CASE things'[l].uploaded = things[l].uploaded
    BY <1>1, <2>1, <2>2 DEF TablesMove
  <2>3. CASE /\ pc[i] = "save" /\ l = loc[i]
             /\ things'[l].uploaded = To(copy[i])
    <3>1. copy[i] \in ThingRow
      BY <2>3, WorkingCopy DEF Synced
    <3>2. HasMore(copy[i]) /\ copy[i].uploaded = things[l].uploaded
      BY <2>3 DEF RowsInv, RowOK, Synced
    <3> QED
      BY <2>1, <2>3, <3>1, <3>2, ChunkForward DEF TablesMove
  <2> QED
    BY <2>1, <2>2, <2>3 DEF TablesMove
<1> QED
  BY <1>2, <1>3
     DEF Next, Environment, Tick, NewSample, Rename, tables, vars

(* While no two passes work on one identity, no watermark moves back,      *)
(* though UpdateThing writes what was computed from a row read earlier.    *)
THEOREM WatermarksAdvance ==
  ASSUME OwnedApart, Exclusive
  PROVE  Spec => WatermarkNeverRegresses
<1>1. CoverageInv /\ RowsInv /\ [Next]_vars =>
        [\A l \in DOMAIN things :
           /\ l \in DOMAIN things'
           /\ things'[l].uploaded >= things[l].uploaded]_vars
  BY StepForward
<1> QED
  BY <1>1, PassesExclude, RowsInvInit, RowsInvNext,
     InductiveInvariant, PTL DEF Spec, WatermarkNeverRegresses

-----------------------------------------------------------------------------
(* Stranded things *)

StrandedInv ==
  /\ IsFiniteSet(Stranded)
  /\ Cardinality(Stranded) <= faults

LEMMA StrandedInvInit == Init => StrandedInv
<1> SUFFICES ASSUME Init PROVE StrandedInv
  OBVIOUS
<1>1. Stranded = {}
  BY DEF Init, Stranded, LegacyUIDs, LegacyRow
<1> QED
  BY <1>1, FS_EmptySet DEF Init, StrandedInv

(* The uids an indexer is about to insert. *)
PendingUID(i) == IF pc[i] = "insert" THEN {copy[i].uid} ELSE {}

(* What a step strands, besides what is stranded already: what is new at   *)
(* Thingful, and what the indexer forgets.                                 *)
LEMMA StepStrands ==
  ASSUME NEW i \in Indexers, CoverageInv, TablesMove(i), OthersStay(i),
         NEW new, DOMAIN remote' = DOMAIN remote \union new
  PROVE  Stranded' \subseteq
           Stranded \union ((new \union PendingUID(i)) \ PendingUID(i)')
<1>1. ASSUME NEW x \in Stranded', x \notin Stranded
      PROVE  x \in new \union PendingUID(i) /\ x \notin PendingUID(i)'
  <2>1. x \in DOMAIN remote' /\ x \notin PendingUID(i)'
    BY DEF Stranded, PendingUID
  <2>2. CASE x \in new
    BY <2>1, <2>2
  <2>3. CASE x \in DOMAIN remote /\ \E l \in DOMAIN things : x = things[l].uid
    <3>1. PICK l \in DOMAIN things : x = things[l].uid
      BY <2>3
    <3>2. l \in DOMAIN things' /\ things'[l].uid = x
      BY <3>1 DEF TablesMove
    <3> QED
      BY <3>2 DEF Stranded
  <2>4. CASE /\ x \in DOMAIN remote
             /\ \E j \in Indexers : pc[j] = "insert" /\ x = copy[j].uid
    <3>1. PICK j \in Indexers : pc[j] = "insert" /\ x = copy[j].uid
      BY <2>4
    <3>2. CASE j = i
      BY <2>1, <3>1, <3>2 DEF PendingUID
    <3>3. CASE j # i
      <4>1. pc'[j] = "insert" /\ copy'[j].uid = x
        BY <3>1, <3>3 DEF OthersStay
      <4> QED
        BY <4>1 DEF Stranded
    <3> QED
      BY <3>2, <3>3
  <2>5. x \in DOMAIN remote => \/ \E l \in DOMAIN things : x = things[l].uid
                              \/ \E j \in Indexers : /\ pc[j] = "insert"
                                                     /\ x = copy[j].uid
    BY <1>1 DEF Stranded
  <2> QED
    BY <2>1, <2>2, <2>3, <2>4, <2>5
<1> QED
  BY <1>1

(* A step that is no failure strands nothing, if the user is still there. *)
LEMMA SuccessStrandsNothing ==
  ASSUME NEW i \in Indexers, CoverageInv, PassesInv,
         TablesMove(i), OthersStay(i), Step(i) \/ Restart(i),
         InsertThingRejected(i) => user[i] \in DOMAIN identities
  PROVE  Stranded' \subseteq Stranded
<1>1. LocalsType /\ IsTable(things, Locations, ThingRow)
  BY TypeSplit DEF CoverageInv, TypeOK
<1>2. CASE pc[i] # "insert" /\ DOMAIN remote' = DOMAIN remote
  <2>1. PendingUID(i) = {}
    BY <1>2 DEF PendingUID
  <2> QED
    BY <1>2, <2>1, StepStrands
<1>3. CASE CreateThing(i)
  <2>1. copy[i] \in ThingRow
    BY <1>3, WorkingCopy DEF CreateThing
  <2>2. PICK uid \in UIDs \ DOMAIN remote :
          /\ StoreNew(i, uid)
          /\ copy' = [copy EXCEPT ![i].uid = uid, ![i].uploaded = To(copy[i])]
    BY <1>3 DEF CreateThing
  <2>3. DOMAIN remote' = DOMAIN remote \union {uid}
    BY <2>2 DEF StoreNew, Put
  <2>4. PendingUID(i) = {} /\ PendingUID(i)' = {uid}
    BY <1>1, <1>3, <2>1, <2>2
       DEF CreateThing, Goto, LocalsType, PendingUID, ThingRow
  <2> QED
    BY <2>3, <2>4, StepStrands
<1>4. CASE InsertThing(i)
  <2>1. things'[loc[i]] = copy[i] /\ loc[i] \in DOMAIN things'
    BY <1>4, InsertMoves DEF InsertThing, InsertRow, Put
  <2>2. PendingUID(i) = {copy[i].uid} /\ DOMAIN remote' = DOMAIN remote
    BY <1>4 DEF InsertThing, PendingUID
  <2>3. copy[i].uid \notin Stranded'
    BY <2>1 DEF Stranded
  <2>4. DOMAIN remote' = DOMAIN remote \union {}
    BY <2>2
  <2>5. Stranded' \subseteq Stranded \union ({} \union PendingUID(i))
    BY <2>4, StepStrands
  <2> QED
    BY <2>2, <2>3, <2>5
<1>5. CASE InsertThingRejected(i)
  <2>1. /\ loc[i] \notin DOMAIN things
        /\ copy[i].owner = user[i]
        /\ user[i] \in DOMAIN identities
    BY <1>5 DEF InsertThingRejected, PassesInv, PassOK, New
  <2>2. ASSUME NEW l \in DOMAIN things
        PROVE  things[l].uid # copy[i].uid
    <3>1. remote[things[l].uid].location = l
      BY DEF CoverageInv, Coverage
    <3>2. remote[copy[i].uid].location = loc[i]
      BY <1>5 DEF InsertThingRejected, CoverageInv, CopyInv, CopyOK
    <3> QED
      BY <2>1, <3>1, <3>2
  <2>3. CanInsert(i)
    BY <2>1, <2>2 DEF CanInsert, CanInsertThing
  <2> QED
    BY <1>5, <2>3 DEF InsertThingRejected
<1>6. CASE PushChunk(i)
  <2>1. copy[i].uid \in DOMAIN remote
    BY <1>6 DEF PushChunk, CoverageInv, CopyInv, CopyOK, Synced, Coverage
  <2>2. DOMAIN remote' = DOMAIN remote
    BY <1>6, <2>1 DEF PushChunk, StoreChunk, Put
  <2> QED
    BY <1>2, <1>6, <2>2 DEF PushChunk
<1>7. \/ pc[i] # "insert" /\ DOMAIN remote' = DOMAIN remote
      \/ CreateThing(i) \/ InsertThing(i) \/ InsertThingRejected(i)
      \/ PushChunk(i)
  BY DEF Step, SelectIdentity, CommitClaim, FetchStatus, FetchConfiguration,
         GetThing, FinishPass, ReadFirst, ReadMore, FinishLocation, ReadChunk,
         SaveChunk, Restart
<1> QED
  BY <1>2, <1>3, <1>4, <1>5, <1>6, <1>7

(* Otherwise the thing whose INSERT is rejected is stranded. *)
LEMMA RejectionStrandsOne ==
  ASSUME NEW i \in Indexers, CoverageInv, TablesMove(i), OthersStay(i),
         InsertThingRejected(i)
  PROVE  Stranded' \subseteq Stranded \union {copy[i].uid}
<1>1. DOMAIN remote' = DOMAIN remote \union {}
  BY DEF InsertThingRejected
<1>2. Stranded' \subseteq Stranded \union ({} \union PendingUID(i))
  BY <1>1, StepStrands
<1> QED
  BY <1>2 DEF PendingUID

(* A failure is counted, and strands one thing at most: the one that it    *)
(* leaves at Thingful, or the one it keeps out of the table.               *)
LEMMA FailureStrandsOne ==
  ASSUME NEW i \in Indexers, CoverageInv, TablesMove(i), OthersStay(i),
         Failure(i), ~Restart(i)
  PROVE  /\ faults' = faults + 1
         /\ \E x : Stranded' \subseteq Stranded \union {x}
<1>1. faults' = faults + 1
  BY DEF Failure, Fault, CommitClaimFails, NextIdentityFails,
         GetLocationsFails, GetThingFails, GetReadingsFails,
         CreateThingFails, InsertThingFails, UpdateNicknameFails,
         PushChunkFails, SaveChunkFails, Crash
<1>2. CASE DOMAIN remote' = DOMAIN remote
  <2>1. DOMAIN remote' = DOMAIN remote \union {}
    BY <1>2
  <2>2. Stranded' \subseteq Stranded \union ({} \union PendingUID(i))
    BY <2>1, StepStrands
  <2>3. Stranded' \subseteq Stranded \union {copy[i].uid}
    BY <2>2 DEF PendingUID
  <2> QED
    BY <1>1, <2>3
<1>3. CASE CreateThingFails(i)
  <2>1. PendingUID(i) = {}
    BY <1>3 DEF CreateThingFails, PendingUID
  <2>2. CASE UNCHANGED remote
    BY <1>2, <2>2
  <2>3. ASSUME NEW uid \in UIDs \ DOMAIN remote, StoreNew(i, uid)
        PROVE  Stranded' \subseteq Stranded \union {uid}
    <3>1. DOMAIN remote' = DOMAIN remote \union {uid}
      BY <2>3 DEF StoreNew, Put
    <3> QED
      BY <2>1, <3>1, StepStrands
  <2> QED
    BY <1>1, <1>3, <2>2, <2>3 DEF CreateThingFails
<1>4. CASE PushChunkFails(i)
  <2>1. copy[i].uid \in DOMAIN remote
    BY <1>4 DEF PushChunkFails, CoverageInv, CopyInv, CopyOK, Synced, Coverage
  <2>2. DOMAIN remote' = DOMAIN remote
    BY <1>4, <2>1 DEF PushChunkFails, StoreChunk, Put
  <2> QED
    BY <1>2, <2>2
<1>5. \/ CreateThingFails(i) \/ PushChunkFails(i)
      \/ DOMAIN remote' = DOMAIN remote
  BY DEF Failure, CommitClaimFails, NextIdentityFails,
         GetLocationsFails, GetThingFails, GetReadingsFails,
         InsertThingFails, UpdateNicknameFails, SaveChunkFails, Crash
<1> QED
  BY <1>2, <1>3, <1>4, <1>5

LEMMA SuccessIsNoFault ==
  ASSUME NEW i \in Indexers, Step(i) \/ Restart(i)
  PROVE  UNCHANGED faults
BY DEF Step, SelectIdentity, CommitClaim, FetchStatus, FetchConfiguration,
       GetThing, FinishPass, ReadFirst, CreateThing, InsertThing,
       InsertThingRejected, ReadMore, FinishLocation, ReadChunk, PushChunk,
       SaveChunk, Restart

(* A set grows by one element at most. *)
LEMMA OneMore ==
  ASSUME NEW S, NEW T, NEW x, IsFiniteSet(S), T \subseteq S \union {x}
  PROVE  /\ IsFiniteSet(T)
         /\ Cardinality(T) \in Nat /\ Cardinality(S) \in Nat
         /\ Cardinality(T) <= Cardinality(S) + 1
<1>1. /\ IsFiniteSet(S \union {x})
      /\ Cardinality(S \union {x}) \in {Cardinality(S), Cardinality(S) + 1}
  BY FS_AddElement
<1>2. IsFiniteSet(T) /\ Cardinality(T) <= Cardinality(S \union {x})
  BY <1>1, FS_Subset
<1>3. Cardinality(T) \in Nat /\ Cardinality(S) \in Nat
  BY <1>2, FS_CardinalityType
<1> QED
  BY <1>1, <1>2, <1>3

LEMMA StrandedInvNext ==
  ASSUME CoverageInv, RowsInv, StrandedInv, [Next]_vars
  PROVE  StrandedInv'
<1>1. faults \in Nat
  BY DEF CoverageInv, TypeOK
<1>2. ASSUME Stranded' \subseteq Stranded, faults' >= faults, faults' \in Nat
      PROVE  StrandedInv'
  <2>1. /\ IsFiniteSet(Stranded')
        /\ Cardinality(Stranded') <= Cardinality(Stranded)
        /\ Cardinality(Stranded) \in Nat
    BY <1>2, FS_Subset, FS_CardinalityType DEF StrandedInv
  <2>2. Cardinality(Stranded') \in Nat
    BY <2>1, FS_CardinalityType
  <2> QED
    BY <1>1, <1>2, <2>1, <2>2 DEF StrandedInv
<1>3. CASE UNCHANGED <<remote, things, pc, copy, faults>>
  <2>1. Stranded' = Stranded
    BY <1>3 DEF Stranded
  <2> QED
    BY <1>1, <1>2, <1>3, <2>1
<1>4. ASSUME NEW i \in Indexers, Step(i) \/ Failure(i)
      PROVE  StrandedInv'
  <2>1. TablesMove(i) /\ OthersStay(i)
    BY <1>4, StepMoves, Sorts, EndsLocals, GoesOnLocals, ClaimPass DEF RowsInv
  <2>2. CASE Step(i) \/ Restart(i)
    <3>1. UNCHANGED faults
      BY <2>2, SuccessIsNoFault
    <3>2. InsertThingRejected(i) => user[i] \in DOMAIN identities
      BY DEF InsertThingRejected, RowsInv, RowOK
    <3> QED
      BY <1>1, <1>2, <2>1, <2>2, <3>1, <3>2, SuccessStrandsNothing DEF RowsInv
  <2>3. CASE Failure(i) /\ ~Restart(i)
    <3>1. PICK x : Stranded' \subseteq Stranded \union {x}
      BY <2>1, <2>3, FailureStrandsOne
    <3>2. /\ IsFiniteSet(Stranded')
          /\ Cardinality(Stranded') <= Cardinality(Stranded) + 1
          /\ Cardinality(Stranded) \in Nat /\ Cardinality(Stranded') \in Nat
      BY <3>1, OneMore DEF StrandedInv
    <3>3. faults' = faults + 1
      BY <2>1, <2>3, FailureStrandsOne
    <3> QED
      BY <1>1, <3>2, <3>3 DEF StrandedInv
  <2> QED
    BY <1>4, <2>2, <2>3
<1> QED
  BY <1>3, <1>4
     DEF Next, Environment, Tick, NewSample, Rename, tables, locals, vars

(* While no two passes work on one identity, each fault strands at most    *)
(* one thing at Thingful and nothing else does (indexNewLocation).         *)
THEOREM FewThingsStranded ==
  ASSUME OwnedApart, Exclusive
  PROVE  Spec => []StrandedBound
<1>1. StrandedInv => StrandedBound
  BY DEF StrandedInv, StrandedBound
<1> QED
  BY <1>1, PassesExclude, RowsInvInit, RowsInvNext,
     StrandedInvInit, StrandedInvNext, InductiveInvariant, PTL DEF Spec

-----------------------------------------------------------------------------
(* With handlers: a user may be deleted in the middle of a pass            *)

UniqueAccounts ==
  \A u, v \in DOMAIN identities : Account[u] = Account[v] => u = v

UsersKnown ==
  \A i \in Indexers :
    user[i] # None => user[i] \in DOMAIN identities \union deleted

Accounting == UniqueAccounts /\ UsersKnown

LEMMA AccountsApart ==
  ASSUME CoverageInv, UniqueAccounts
  PROVE  OwnersApart
BY AccountAssumption
   DEF AccountAssumption, UniqueAccounts, OwnersApart, CoverageInv, TypeOK,
       IsTable

(* What a handler does to the users and to the keys of table things; a     *)
(* deletion waits for the rows that NextIdentity has locked.               *)
LEMMA HandlerMoves ==
  ASSUME KudzuInv, Handler
  PROVE  /\ UNCHANGED <<now, pc, locals>>
         /\ DOMAIN things' = DOMAIN things
         /\ \A l \in DOMAIN things : things'[l].uid = things[l].uid
         /\ DOMAIN remote' = DOMAIN remote
         /\ faults' \in {faults, faults + 1}
         /\ \/ UNCHANGED <<identities, deleted>>
            \/ \E u \in Users :
                 /\ u \notin DOMAIN identities \union deleted
                 /\ \A v \in DOMAIN identities : Account[v] # Account[u]
                 /\ identities' =
                      Put(identities, u,
                          [created_at |-> now, indexed_at |-> Null])
                 /\ UNCHANGED deleted
            \/ \E u \in DOMAIN identities \ Locked :
                 /\ identities' = Remove(identities, u)
                 /\ deleted' = deleted \union {u}
<1>1. ASSUME NEW r \in Requests, NEW l \in DOMAIN things, NEW place \in Places,
             things' = UpdateGeolocation(things, l, place)
      PROVE  /\ DOMAIN things' = DOMAIN things
             /\ \A m \in DOMAIN things : things'[m].uid = things[m].uid
  <2>1. IsTable(things, Locations, ThingRow)
    BY DEF KudzuInv, CoverageInv, TypeOK
  <2> QED
    BY <1>1, <2>1, UpdateGeolocationRow
<1>2. ASSUME NEW r \in Requests, request[r] # None, StoreGeolocation(r)
      PROVE  DOMAIN remote' = DOMAIN remote
  BY <1>2 DEF StoreGeolocation, Put, KudzuInv, RequestsKnown
<1>3. ASSUME NEW r \in Requests, UpdateLocation(r) \/ UpdateLocationFails(r)
      PROVE  /\ UNCHANGED <<now, pc, locals, identities, deleted, remote>>
             /\ DOMAIN things' = DOMAIN things
             /\ \A l \in DOMAIN things : things'[l].uid = things[l].uid
             /\ faults' \in {faults, faults + 1}
  BY <1>1, <1>3
     DEF UpdateLocation, UpdateLocationFails, Fault, external, handlers
<1>4. ASSUME NEW r \in Requests, PushLocation(r) \/ PushLocationFails(r)
      PROVE  /\ UNCHANGED <<now, pc, locals, tables, deleted>>
             /\ DOMAIN remote' = DOMAIN remote
             /\ faults' \in {faults, faults + 1}
  BY <1>2, <1>4 DEF PushLocation, PushLocationFails, Fault, external
<1>5. ASSUME NEW u \in Users, SaveUser(u) \/ DeleteUser(u)
      PROVE  UNCHANGED <<now, pc, locals, things, remote, faults>>
  BY <1>5 DEF SaveUser, DeleteUser, external
<1>6. CASE \E r \in Requests : UpdateLocation(r) \/ UpdateLocationFails(r)
  BY <1>3, <1>6
<1>7. CASE \E r \in Requests : PushLocation(r) \/ PushLocationFails(r)
  BY <1>4, <1>7 DEF tables
<1>8. CASE \E u \in Users : SaveUser(u)
  BY <1>5, <1>8 DEF SaveUser, InsertUser, handlers
<1>9. CASE \E u \in Users : DeleteUser(u)
  BY <1>5, <1>9 DEF DeleteUser, DeleteUserRow
<1> QED
  BY <1>6, <1>7, <1>8, <1>9 DEF Handler

LEMMA AccountingInit == KudzuInit => Accounting
BY AccountAssumption
   DEF KudzuInit, Init, Accounting, UniqueAccounts, UsersKnown,
       AccountAssumption

LEMMA IndexerAccounts ==
  ASSUME CoverageInv, Accounting, [Next]_vars, UNCHANGED handlers
  PROVE  Accounting'
<1>1. ASSUME UNCHANGED <<identities, user>>
      PROVE  Accounting'
  BY <1>1 DEF Accounting, UniqueAccounts, UsersKnown, handlers
<1>2. CASE Environment
  BY <1>1, <1>2 DEF Environment, Tick, NewSample, Rename, tables, locals
<1>3. ASSUME NEW i \in Indexers, Step(i) \/ Failure(i)
      PROVE  Accounting'
  <2>1. LocalsType
    BY TypeSplit DEF CoverageInv
  <2>2. DOMAIN identities' = DOMAIN identities
    BY <1>3, StepMoves DEF TablesMove
  <2>3. /\ user'[i] \in {user[i], None} \union DOMAIN identities
        /\ \A j \in Indexers \ {i} : user'[j] = user[j]
    <3>1. CASE Ends(i) \/ GoesOn(i)
      BY <3>1, EndsLocals, GoesOnLocals DEF OthersStay
    <3>2. CASE SelectIdentity(i)
      BY <2>1, <3>2 DEF SelectIdentity, NextIdentities, LocalsType
    <3>3. CASE CommitClaim(i) \/ CommitClaimFails(i) \/ Restart(i)
      BY <3>3 DEF CommitClaim, CommitClaimFails, Restart, locals
    <3> QED
      BY <1>3, <3>1, <3>2, <3>3, Sorts
  <2> QED
    BY <2>2, <2>3 DEF Accounting, UniqueAccounts, UsersKnown, handlers
<1> QED
  BY <1>1, <1>2, <1>3 DEF Next, vars

LEMMA HandlerAccounts ==
  ASSUME KudzuInv, Accounting, Handler
  PROVE  Accounting'
BY HandlerMoves
   DEF Accounting, UniqueAccounts, UsersKnown, Put, Remove, locals

(* A deletion or a new user disturbs no claim. *)
LEMMA HandlerClaims ==
  ASSUME KudzuInv, Accounting, ClaimInv, Handler
  PROVE  ClaimInv'
<1>1. UNCHANGED <<now, pc, user, since>>
  BY HandlerMoves DEF locals
<1>2. ASSUME NEW i \in Indexers, user[i] \in DOMAIN identities'
      PROVE  /\ user[i] \in DOMAIN identities
             /\ identities'[user[i]] = identities[user[i]]
  <2>1. ASSUME NEW u \in Users, u \notin DOMAIN identities \union deleted
        PROVE  user[i] # u
    BY <2>1, NoneAssumption DEF Accounting, UsersKnown
  <2> QED
    BY <1>2, <2>1, HandlerMoves DEF Put, Remove
<1>3. ASSUME NEW i \in Indexers, pc[i] = "claiming"
      PROVE  user[i] \in DOMAIN identities'
  BY <1>3, HandlerMoves DEF ClaimInv, ClaimOK, Locked, Put, Remove
<1>4. ASSUME NEW i \in Indexers
      PROVE  ClaimOK(i)'
  BY <1>1, <1>2, <1>3 DEF ClaimInv, ClaimOK, Busy
<1> QED
  BY <1>1, <1>4 DEF ClaimInv, OnePassPerIdentity

LEMMA KudzuClaims ==
  ASSUME ClaimsHold
  PROVE  KudzuSpec => []OnePassPerIdentity
<1>1. KudzuInit => ClaimInv /\ Accounting
  BY ClaimInvInit, AccountingInit DEF KudzuInit
<1>2. KudzuInv /\ ClaimInv /\ Accounting /\ [KudzuNext]_<<vars, handlers>>
        => ClaimInv' /\ Accounting'
  <2> SUFFICES ASSUME KudzuInv, ClaimInv, Accounting,
                      [KudzuNext]_<<vars, handlers>>
               PROVE  ClaimInv' /\ Accounting'
    OBVIOUS
  <2>1. CASE [Next]_vars /\ UNCHANGED handlers
    BY <2>1, ClaimInvNext, IndexerAccounts DEF KudzuInv
  <2>2. CASE Handler
    BY <2>2, HandlerClaims, HandlerAccounts
  <2> QED
    BY <2>1, <2>2 DEF KudzuNext
<1>3. ClaimInv => OnePassPerIdentity
  BY DEF ClaimInv
<1> QED
  BY <1>1, <1>2, <1>3, KudzuInvariant, PTL DEF KudzuSpec

(* New users and deletions do not undo the exclusion of NextIdentity.      *)
THEOREM KudzuPassesExclude ==
  ASSUME Exclusive
  PROVE  KudzuSpec => []OnePassPerIdentity
<1>1. CASE ClaimsHold
  BY <1>1, KudzuClaims
<1>2. CASE \E i \in Indexers : Indexers = {i}
  <2>1. OnePassPerIdentity
    BY <1>2 DEF OnePassPerIdentity
  <2> QED
    BY <2>1, PTL
<1> QED
  BY <1>1, <1>2 DEF Exclusive

-----------------------------------------------------------------------------
(* What deletions strand *)

(* Whether a pass may still come to location p[2] of user p[1]. *)
Underway(p) ==
  \E i \in Indexers :
    /\ user[i] = p[1]
    /\ \/ pc[i] \in {"claiming", "status", "configuration"}
       \/ p[2] \in DOMAIN todo[i]

(* The locations of deleted users for which no INSERT will be rejected any *)
(* more; for each of them one may have been.                               *)
Spent == {p \in Abandoned : ~Underway(p)}

DeletionInv ==
  /\ IsFiniteSet(Stranded)
  /\ IsFiniteSet(Abandoned)
  /\ Cardinality(Stranded) <= faults + Cardinality(Spent)

(* Everything that is known between two steps of indexers and handlers.    *)
PassesBesideHandlers ==
  /\ KudzuInv
  /\ Accounting
  /\ OnePassPerIdentity
  /\ PassesInv

LEMMA DeletionInvInit == KudzuInit => PassesInv /\ DeletionInv
<1> SUFFICES ASSUME KudzuInit PROVE PassesInv /\ DeletionInv
  OBVIOUS
<1>1. Stranded = {}
  BY DEF KudzuInit, Init, Stranded, LegacyUIDs, LegacyRow
<1>2. Abandoned = {} /\ Spent = {}
  BY DEF KudzuInit, Abandoned, Spent
<1> QED
  BY <1>1, <1>2, FS_EmptySet, PassesInvInit DEF KudzuInit, Init, DeletionInv

(* The step of an indexer takes no location back under way that was spent, *)
(* as no pass over a user begins once that user is deleted.                *)
LEMMA IndexerSpends ==
  ASSUME PassesBesideHandlers, NEW i \in Indexers, Step(i) \/ Failure(i),
         UNCHANGED handlers
  PROVE  Abandoned' = Abandoned /\ Spent \subseteq Spent'
<1>1. CoverageInv /\ LocalsType /\ deleted \intersect DOMAIN identities = {}
  BY TypeSplit DEF PassesBesideHandlers, KudzuInv, CoverageInv
<1>2. OwnersApart
  BY <1>1, AccountsApart DEF PassesBesideHandlers, Accounting
<1>3. PassesInv' /\ TablesMove(i) /\ OthersStay(i)
  BY <1>1, <1>2, PassesKept DEF PassesBesideHandlers
<1>4. Abandoned' = Abandoned
  BY DEF Abandoned, handlers
<1>5. ASSUME NEW p \in Spent, Underway(p)'
      PROVE  FALSE
  <2>1. p \in Abandoned /\ p[1] \in deleted /\ ~Underway(p)
    BY <1>5 DEF Spent, Abandoned
  <2>2. /\ user'[i] = p[1]
        /\ \/ pc'[i] \in {"claiming", "status", "configuration"}
           \/ p[2] \in DOMAIN todo'[i]
    BY <1>3, <1>5, <2>1 DEF Underway, OthersStay
  <2>3. p[1] # None
    BY <2>1, NoneAssumption DEF PassesBesideHandlers, KudzuInv
  <2>4. CASE Ends(i)
    <3>1. DOMAIN todo'[i] \subseteq DOMAIN todo[i] /\ user'[i] = user[i]
      BY <1>1, <2>2, <2>3, <2>4, EndsLocals DEF Remove
    <3>2. pc'[i] = "next"
      BY <1>1, <2>2, <2>3, <2>4, EndsLocals
    <3> QED
      BY <2>1, <2>2, <3>1, <3>2 DEF Underway
  <2>5. CASE GoesOn(i)
    <3>1. user[i] = p[1]
      BY <1>1, <2>2, <2>5, GoesOnLocals
    <3>2. CASE FetchStatus(i) \/ FetchConfiguration(i)
      BY <2>1, <3>1, <3>2 DEF FetchStatus, FetchConfiguration, Underway
    <3>3. CASE ~(FetchStatus(i) \/ FetchConfiguration(i))
      <4>1. UNCHANGED todo
        BY <2>5, <3>3
           DEF GoesOn, GetThing, ReadFirst, CreateThing, InsertThing,
               ReadMore, ReadChunk, PushChunk, SaveChunk, locals
      <4>2. pc'[i] \in {"readFirst", "create", "insert", "more", "read",
                        "push", "save"}
        BY <1>1, <2>5, <3>3
           DEF GoesOn, GetThing, ReadFirst, CreateThing, InsertThing,
               ReadMore, ReadChunk, PushChunk, SaveChunk, Goto, LocalsType
      <4> QED
        BY <2>1, <2>2, <3>1, <4>1, <4>2 DEF Underway
    <3> QED
      BY <3>2, <3>3
  <2>6. CASE \/ SelectIdentity(i) \/ CommitClaim(i) \/ CommitClaimFails(i)
             \/ Restart(i)
    <3>1. /\ UNCHANGED todo
          /\ pc'[i] \in {"idle", "claiming", "status"}
          /\ pc'[i] = "claiming" => user'[i] \in DOMAIN identities
          /\ pc'[i] = "status" => pc[i] = "claiming" /\ user'[i] = user[i]
      BY <1>1, <1>3, <2>6, ClaimPass DEF PassesBesideHandlers
    <3>2. pc'[i] # "claiming"
      BY <1>1, <2>1, <2>2, <3>1
    <3>3. pc'[i] # "status"
      BY <2>1, <2>2, <3>1 DEF Underway
    <3>4. pc'[i] = "idle" => DOMAIN todo'[i] = {}
      BY <1>3 DEF PassesInv, PassOK
    <3> QED
      BY <2>2, <3>1, <3>2, <3>3, <3>4
  <2> QED
    BY <2>4, <2>5, <2>6, Sorts
<1> QED
  BY <1>4, <1>5 DEF Spent

(* A rejected INSERT uses a location up. *)
LEMMA RejectionSpends ==
  ASSUME PassesBesideHandlers, NEW i \in Indexers, InsertThingRejected(i),
         UNCHANGED handlers, user[i] \notin DOMAIN identities
  PROVE  /\ <<user[i], loc[i]>> \in Spent'
         /\ <<user[i], loc[i]>> \notin Spent
<1>0. PICK p : p = <<user[i], loc[i]>>
  OBVIOUS
<1>1. CoverageInv /\ LocalsType
  BY TypeSplit DEF PassesBesideHandlers, KudzuInv, CoverageInv
<1>2. /\ pc[i] = "insert"
      /\ user[i] # None
      /\ loc[i] \in DOMAIN todo[i]
      /\ loc[i] \in Owned[user[i]]
      /\ loc[i] \in Locations
  BY <1>1, WorkingCopy
     DEF InsertThingRejected, CoverageInv, CopyInv, CopyOK,
         PassesBesideHandlers, PassesInv, PassOK
<1>3. p \in Abandoned
  BY <1>0, <1>2 DEF PassesBesideHandlers, Accounting, UsersKnown, Abandoned
<1>4. Underway(p)
  BY <1>0, <1>2 DEF Underway
<1>5. /\ pc'[i] = "next"
      /\ todo'[i] = Remove(todo[i], loc[i])
      /\ user' = user
      /\ OthersStay(i)
  BY <1>1, NextLocationLocals
     DEF InsertThingRejected, NextLocation, LocalsType
<1>6. \A j \in Indexers \ {i} : user[j] # user[i]
  BY <1>2 DEF PassesBesideHandlers, OnePassPerIdentity
<1>7. ~Underway(p)'
  BY <1>0, <1>5, <1>6 DEF Underway, Remove
<1>8. p \in Abandoned'
  BY <1>3 DEF Abandoned, handlers
<1> QED
  BY <1>0, <1>4, <1>7, <1>8 DEF Spent

LEMMA IndexerDeletion ==
  ASSUME PassesBesideHandlers, DeletionInv, [Next]_vars, UNCHANGED handlers
  PROVE  PassesInv' /\ DeletionInv'
<1>1. CASE UNCHANGED <<remote, things, identities, pc, locals, faults>>
  <2>1. PassesInv'
    BY <1>1 DEF PassesBesideHandlers, PassesInv, PassOK, locals
  <2>2. Stranded' = Stranded
    BY <1>1 DEF Stranded, locals
  <2>3. Abandoned' = Abandoned /\ Spent' = Spent
    BY <1>1 DEF Abandoned, Spent, Underway, handlers, locals
  <2> QED
    BY <1>1, <2>1, <2>2, <2>3 DEF DeletionInv
<1>2. ASSUME NEW i \in Indexers, Step(i) \/ Failure(i)
      PROVE  PassesInv' /\ DeletionInv'
  <2>1. CoverageInv /\ faults \in Nat
    BY DEF PassesBesideHandlers, KudzuInv, CoverageInv, TypeOK
  <2>2. PassesInv' /\ TablesMove(i) /\ OthersStay(i)
    BY <1>2, <2>1, PassesKept, AccountsApart
       DEF PassesBesideHandlers, Accounting
  <2>3. /\ Abandoned' = Abandoned
        /\ Spent \subseteq Spent'
        /\ Spent' \subseteq Abandoned
    BY <1>2, IndexerSpends DEF Spent
  <2>4. /\ IsFiniteSet(Spent') /\ IsFiniteSet(Spent)
        /\ Cardinality(Spent') \in Nat /\ Cardinality(Spent) \in Nat
        /\ Cardinality(Spent) <= Cardinality(Spent')
    BY <2>3, FS_Subset, FS_CardinalityType DEF DeletionInv
  <2>5. CASE (Step(i) \/ Restart(i)) /\
             (InsertThingRejected(i) => user[i] \in DOMAIN identities)
    <3>1. UNCHANGED faults
      BY <2>5, SuccessIsNoFault
    <3>2. Stranded' \subseteq Stranded
      BY <2>1, <2>2, <2>5, SuccessStrandsNothing DEF PassesBesideHandlers
    <3>3. /\ IsFiniteSet(Stranded')
          /\ Cardinality(Stranded') <= Cardinality(Stranded)
          /\ Cardinality(Stranded') \in Nat /\ Cardinality(Stranded) \in Nat
      BY <3>2, FS_Subset, FS_CardinalityType DEF DeletionInv
    <3> QED
      BY <2>1, <2>2, <2>3, <2>4, <3>1, <3>3 DEF DeletionInv
  <2>6. ASSUME NEW x, Stranded' \subseteq Stranded \union {x}
        PROVE  /\ IsFiniteSet(Stranded')
               /\ Cardinality(Stranded') \in Nat
               /\ Cardinality(Stranded) \in Nat
               /\ Cardinality(Stranded') <= Cardinality(Stranded) + 1
    BY <2>6, OneMore DEF DeletionInv
  <2>7. CASE InsertThingRejected(i) /\ user[i] \notin DOMAIN identities
    <3>1. UNCHANGED faults
      BY <2>7 DEF InsertThingRejected
    <3>2. Stranded' \subseteq Stranded \union {copy[i].uid}
      BY <2>1, <2>2, <2>7, RejectionStrandsOne
    <3>3. PICK p : p \in Spent' /\ p \notin Spent
      BY <2>7, RejectionSpends
    <3>4. Cardinality(Spent) + 1 <= Cardinality(Spent')
      <4>1. /\ Cardinality(Spent \union {p}) = Cardinality(Spent) + 1
            /\ Spent \union {p} \subseteq Spent'
        BY <2>3, <2>4, <3>3, FS_AddElement
      <4> QED
        BY <2>4, <4>1, FS_Subset
    <3> QED
      BY <2>1, <2>2, <2>3, <2>4, <2>6, <3>1, <3>2, <3>4 DEF DeletionInv
  <2>8. CASE Failure(i) /\ ~Restart(i)
    <3>1. /\ faults' = faults + 1
          /\ \E x : Stranded' \subseteq Stranded \union {x}
      BY <2>1, <2>2, <2>8, FailureStrandsOne
    <3> QED
      BY <2>1, <2>2, <2>3, <2>4, <2>6, <3>1 DEF DeletionInv
  <2> QED
    BY <1>2, <2>5, <2>7, <2>8, Zenon
<1> QED
  BY <1>1, <1>2
     DEF Next, Environment, Tick, NewSample, Rename, tables, locals, vars

LEMMA HandlerPasses ==
  ASSUME PassesBesideHandlers, Handler
  PROVE  PassesInv'
<1>1. UNCHANGED <<pc, user, todo, loc, copy>> /\ DOMAIN things' = DOMAIN things
  BY HandlerMoves DEF PassesBesideHandlers, locals
<1>2. ASSUME NEW i \in Indexers, user[i] \in DOMAIN identities',
             pc[i] \in New
      PROVE  user[i] \in DOMAIN identities
  <2>1. user[i] # None
    BY <1>2
       DEF PassesBesideHandlers, KudzuInv, CoverageInv, CopyInv, CopyOK, New
  <2> QED
    BY <1>2, <2>1, HandlerMoves
       DEF PassesBesideHandlers, Accounting, UsersKnown, Put, Remove
<1>3. ASSUME NEW i \in Indexers, pc[i] = "claiming"
      PROVE  user[i] \in DOMAIN identities'
  BY <1>3, HandlerMoves
     DEF PassesBesideHandlers, PassesInv, PassOK, Locked, Put, Remove
<1> QED
  BY <1>1, <1>2, <1>3 DEF PassesBesideHandlers, PassesInv, PassOK

LEMMA HandlerDeletion ==
  ASSUME PassesBesideHandlers, DeletionInv, Handler
  PROVE  DeletionInv'
<1>1. faults \in Nat /\ faults' \in Nat /\ faults <= faults'
  BY HandlerMoves
     DEF PassesBesideHandlers, KudzuInv, CoverageInv, TypeOK
<1>2. Stranded' = Stranded
  <2>1. /\ UNCHANGED <<pc, copy>>
        /\ DOMAIN remote' = DOMAIN remote
        /\ DOMAIN things' = DOMAIN things
        /\ \A l \in DOMAIN things : things'[l].uid = things[l].uid
    BY HandlerMoves DEF PassesBesideHandlers, locals
  <2> QED
    BY <2>1 DEF Stranded
<1>3. /\ deleted \subseteq deleted'
      /\ IsFiniteSet(Abandoned')
  <2>1. CASE UNCHANGED deleted
    BY <2>1 DEF DeletionInv, Abandoned
  <2>2. ASSUME NEW u \in DOMAIN identities, deleted' = deleted \union {u}
        PROVE  IsFiniteSet(Abandoned')
    <3>1. u \in Users /\ Owned[u] \subseteq Locations
      BY ConstantsAssumption
         DEF ConstantsAssumption, PassesBesideHandlers, KudzuInv, CoverageInv,
             TypeOK, IsTable
    <3>2. Abandoned' = Abandoned \union ({u} \X Owned[u])
      BY <2>2, <3>1 DEF Abandoned
    <3>3. IsFiniteSet({u} \X Owned[u])
      BY <3>1, FS_Singleton, FS_Product, AccountAssumption
         DEF AccountAssumption
    <3> QED
      BY <3>2, <3>3, FS_Union DEF DeletionInv
  <2> QED
    BY <2>1, <2>2, HandlerMoves DEF PassesBesideHandlers
<1>4. Spent \subseteq Spent' /\ Spent' \subseteq Abandoned'
  <2>1. UNCHANGED <<pc, user, todo>>
    BY HandlerMoves DEF PassesBesideHandlers, locals
  <2> QED
    BY <1>3, <2>1 DEF Spent, Underway, Abandoned
<1>5. /\ Cardinality(Spent) <= Cardinality(Spent')
      /\ Cardinality(Spent) \in Nat /\ Cardinality(Spent') \in Nat
      /\ Cardinality(Stranded) \in Nat
  <2>1. IsFiniteSet(Spent')
    BY <1>3, <1>4, FS_Subset
  <2> QED
    BY <1>4, <2>1, FS_Subset, FS_CardinalityType DEF DeletionInv
<1> QED
  BY <1>1, <1>2, <1>3, <1>5 DEF DeletionInv

(* Besides one thing for each fault, a thing is stranded only for a        *)
(* location of a deleted user, and only once for each: the foreign key     *)
(* rejects the INSERT of a pass that began before (indexNewLocation,       *)
(* deleteUserHandler).                                                     *)
THEOREM DeletionStrandsOnce ==
  ASSUME Exclusive
  PROVE  KudzuSpec => []StrandedByDeletion
<1>1. KudzuInit => Accounting /\ PassesInv /\ DeletionInv
  BY AccountingInit, DeletionInvInit
<1>2. /\ KudzuInv /\ OnePassPerIdentity
      /\ Accounting /\ PassesInv /\ DeletionInv
      /\ [KudzuNext]_<<vars, handlers>>
      => Accounting' /\ PassesInv' /\ DeletionInv'
  <2> SUFFICES ASSUME PassesBesideHandlers, DeletionInv,
                      [KudzuNext]_<<vars, handlers>>
               PROVE  Accounting' /\ PassesInv' /\ DeletionInv'
    BY DEF PassesBesideHandlers
  <2>1. CASE [Next]_vars /\ UNCHANGED handlers
    BY <2>1, IndexerAccounts, IndexerDeletion
       DEF PassesBesideHandlers, KudzuInv
  <2>2. CASE Handler
    BY <2>2, HandlerAccounts, HandlerPasses, HandlerDeletion
       DEF PassesBesideHandlers
  <2> QED
    BY <2>1, <2>2 DEF KudzuNext
<1>3. KudzuInv /\ DeletionInv => StrandedByDeletion
  <2> SUFFICES ASSUME KudzuInv, DeletionInv PROVE StrandedByDeletion
    OBVIOUS
  <2>1. Spent \subseteq Abandoned
    BY DEF Spent
  <2>2. /\ Cardinality(Spent) <= Cardinality(Abandoned)
        /\ Cardinality(Spent) \in Nat /\ Cardinality(Abandoned) \in Nat
        /\ Cardinality(Stranded) \in Nat
    BY <2>1, FS_Subset, FS_CardinalityType DEF DeletionInv
  <2>3. faults \in Nat
    BY DEF KudzuInv, CoverageInv, TypeOK
  <2> QED
    BY <2>2, <2>3 DEF DeletionInv, StrandedByDeletion
<1> QED
  BY <1>1, <1>2, <1>3, KudzuInvariant, KudzuPassesExclude, PTL DEF KudzuSpec
=============================================================================
