------------------------------- MODULE Indexer -------------------------------
(***************************************************************************)
(* The indexer of Kudzu (pkg/indexer): the loop that picks the next user   *)
(* identity, lists that user's sensor locations at Parrot, and copies      *)
(* their readings, one time window after the other, to Thingful, while the *)
(* database records how far each location has been uploaded.               *)
(*                                                                         *)
(* Every remote call and every database statement is a step of its own,    *)
(* because the handlers of the HTTP server, other indexers and the sensors *)
(* run between any two of them.  Each step has a variant for the ways it   *)
(* can fail.  A call to Thingful that times out may have been executed, a  *)
(* COMMIT that reports an error may have been executed too.                *)
(*                                                                         *)
(* Parrot and Thingful are services; they are modelled from the requests   *)
(* this code sends and the answers it accepts.                             *)
(***************************************************************************)
EXTENDS Postgres, FiniteSets

CONSTANTS
  Users,            \* ids of rows of table users (never reused)
  Locations,        \* Parrot's location identifiers
  Owned,            \* Owned[u]: the locations Parrot lists for u's token
  Indexers,         \* the running indexer loops
  UIDs,             \* the uids Thingful can hand out
  Nicknames,        \* plant nicknames
  Places,           \* geolocations
  Fitted,           \* the locations Parrot's configuration lists with a sensor
  Home,             \* Home[l]: where Parrot says location l is
  Legacy,           \* the things of earlier releases: location -> [uid, owner]
  Registered,       \* the users with an identity at the start
  InitialSamples,   \* possible numbers of samples of a location at the start
  Window,           \* length of one chunk of readings (10 days in the code)
  Period,           \* rest between two passes over an identity (24 hours)
  Longest,          \* the longest a pass takes; MaxNow when nothing is assumed
  MaxSample,        \* bound: samples of a location
  MaxNow,           \* bound: the clock
  Faults,           \* the kinds of fault that may happen
  MaxFaults,        \* bound: how many of them happen
  None              \* no user, no location, no row, no uid, no nickname

FaultKinds == {"query", "commit", "parrot", "thingful", "db", "crash"}

ASSUME ConstantsAssumption ==
  /\ Window \in Nat \ {0}
  /\ Period \in Nat
  /\ Longest \in Nat
  /\ MaxSample \in Nat
  /\ MaxNow \in Nat
  /\ MaxFaults \in Nat
  /\ Faults \subseteq FaultKinds
  /\ InitialSamples \subseteq 0..MaxSample
  /\ Owned \in [Users -> SUBSET Locations]
  /\ Fitted \subseteq Locations
  /\ Home \in [Locations -> Places]
  /\ Registered \subseteq Users

(* uid is UNIQUE in table things, so earlier releases gave each location   *)
(* its own uid; owner_id refers to a user.                                 *)
ASSUME LegacyAssumption ==
  /\ DOMAIN Legacy \subseteq Locations
  /\ \A l \in DOMAIN Legacy : /\ Legacy[l].uid \in UIDs
                              /\ Legacy[l].owner \in Registered
  /\ \A l, m \in DOMAIN Legacy : Legacy[l].uid = Legacy[m].uid => l = m

ASSUME NoneAssumption ==
  /\ None \notin Users
  /\ None \notin Locations
  /\ None \notin UIDs
  /\ None \notin Nicknames

VARIABLES
  now,          \* the clock of the database
  parrot,       \* Parrot: location -> [last, nickname]
  remote,       \* Thingful: uid -> [location, title, geo, obs]
  identities,   \* table identities
  things,       \* table things
  pc,           \* per indexer: the step it takes next
  user,         \* per indexer: the identity of the current pass
  todo,         \* per indexer: the locations of the pass not yet finished
  loc,          \* per indexer: the location it works on
  isNew,        \* per indexer: in indexNewLocation, not indexExistingLocation
  copy,         \* per indexer: its postgres.Thing, read earlier, written later
  since,        \* per indexer: when its pass began (kept for Longest only)
  faults        \* how many faults have happened

external == <<now, parrot>>
tables   == <<identities, things>>
locals   == <<user, todo, loc, isNew, copy, since>>
vars     == <<now, parrot, remote, identities, things, pc, user, todo, loc,
              isNew, copy, since, faults>>

(* The first sample of a location has time 1. *)
FirstSample == 1

Steps == {"idle", "claiming", "status", "configuration", "next", "readFirst",
          "create", "insert", "more", "read", "push", "save", "down"}

(* What flowerpower.GetLocations returns of one location; the nickname     *)
(* comes with the second of its two requests.                              *)
Snapshot == [last : Nat, nickname : Nicknames \union {None}]

ThingRow == [uid : UIDs \union {None}, owner : Users,
             nickname : Nicknames \union {None}, geo : Places,
             last : Nat, uploaded : Nat]

ASSUME NoneIsNoRow == None \notin ThingRow

RemoteThing == [location : Locations, title : Nicknames \union {None},
                geo : Places, obs : SUBSET Nat]

Identity == [created_at : Nat, indexed_at : Nat]

TypeOK ==
  /\ now \in Nat
  /\ parrot \in [Locations -> [last : Nat, nickname : Nicknames]]
  /\ IsTable(remote, UIDs, RemoteThing)
  /\ IsTable(identities, Users, Identity)
  /\ IsTable(things, Locations, ThingRow)
  /\ pc \in [Indexers -> Steps]
  /\ user \in [Indexers -> Users \union {None}]
  /\ todo = [i \in Indexers |-> todo[i]]
  /\ \A i \in Indexers : IsTable(todo[i], Locations, Snapshot)
  /\ loc \in [Indexers -> Locations \union {None}]
  /\ isNew \in [Indexers -> BOOLEAN]
  /\ copy \in [Indexers -> ThingRow \union {None}]
  /\ since \in [Indexers -> Nat]
  /\ faults \in Nat

-----------------------------------------------------------------------------
(* The rows of a release that did not record a watermark have NULL there,  *)
(* and the nickname is the default of its column, an empty one.            *)
LegacyRow(l) ==
  [uid |-> Legacy[l].uid, owner |-> Legacy[l].owner, nickname |-> None,
   geo |-> Home[l], last |-> Null, uploaded |-> Null]

LegacyUIDs == {Legacy[l].uid : l \in DOMAIN Legacy}

LegacyRemote(uid) ==
  [location |-> CHOOSE l \in DOMAIN Legacy : Legacy[l].uid = uid,
   title |-> None,
   geo |-> Home[CHOOSE l \in DOMAIN Legacy : Legacy[l].uid = uid],
   obs |-> {}]

Init ==
  /\ now = 1
  /\ parrot \in [Locations -> [last : InitialSamples, nickname : Nicknames]]
  /\ remote = [uid \in LegacyUIDs |-> LegacyRemote(uid)]
  /\ identities = [u \in Registered |-> [created_at |-> 1, indexed_at |-> Null]]
  /\ things = [l \in DOMAIN Legacy |-> LegacyRow(l)]
  /\ pc = [i \in Indexers |-> "idle"]
  /\ user = [i \in Indexers |-> None]
  /\ todo = [i \in Indexers |-> Empty]
  /\ loc = [i \in Indexers |-> None]
  /\ isNew = [i \in Indexers |-> FALSE]
  /\ copy = [i \in Indexers |-> None]
  /\ since = [i \in Indexers |-> Null]
  /\ faults = 0

-----------------------------------------------------------------------------
(* Operators of the algorithm *)

(* A slip: the loop does not stop at the last sample. *)
HasMoreOrEqual(row) == row.uploaded <= row.last

(* hasMoreReadingsToIndex *)
HasMore(row) == row.uploaded < row.last

(* The chunk of readings asked for next: from the watermark, or from the   *)
(* first sample when there is none, over one window or up to the last      *)
(* sample, whichever ends first.                                           *)
From(row) == IF row.uploaded = Null THEN FirstSample ELSE row.uploaded

To(row) ==
  IF row.last < From(row) + Window THEN row.last ELSE From(row) + Window

Chunk(row) == From(row)..To(row)

(* isValid: first and last sample are there and differ. *)
IsValid(l) == parrot[l].last # Null /\ parrot[l].last # FirstSample

(* The identities whose rows a claim that is not yet committed has locked. *)
Locked == {user[i] : i \in {j \in Indexers : pc[j] = "claiming"}}

-----------------------------------------------------------------------------
(* Control flow shared by the steps *)

Goto(i, step) == pc' = [pc EXCEPT ![i] = step]

(* Back to the ticker, or out of the program: nothing of the pass is left. *)
Leave(i, step) ==
  /\ Goto(i, step)
  /\ user' = [user EXCEPT ![i] = None]
  /\ todo' = [todo EXCEPT ![i] = Empty]
  /\ loc' = [loc EXCEPT ![i] = None]
  /\ isNew' = [isNew EXCEPT ![i] = FALSE]
  /\ copy' = [copy EXCEPT ![i] = None]
  /\ since' = [since EXCEPT ![i] = Null]

EndPass(i) == Leave(i, "idle")

(* A slip: the finished location is blanked, not removed. *)
BlankLocation(i) ==
  /\ Goto(i, "next")
  /\ todo' = [todo EXCEPT ![i][loc[i]] = None]
  /\ loc' = [loc EXCEPT ![i] = None]
  /\ isNew' = [isNew EXCEPT ![i] = FALSE]
  /\ copy' = [copy EXCEPT ![i] = None]
  /\ UNCHANGED <<user, since>>

(* Done with this location, on success as after a logged error: continue   *)
(* the range loop of indexLocations.                                       *)
NextLocation(i) ==
  /\ Goto(i, "next")
  /\ todo' = [todo EXCEPT ![i] = Remove(@, loc[i])]
  /\ loc' = [loc EXCEPT ![i] = None]
  /\ isNew' = [isNew EXCEPT ![i] = FALSE]
  /\ copy' = [copy EXCEPT ![i] = None]
  /\ UNCHANGED <<user, since>>

Fault(kind) ==
  /\ kind \in Faults
  /\ faults < MaxFaults
  /\ faults' = faults + 1

-----------------------------------------------------------------------------
(* The environment *)

(* The clock does not advance while a claim is being committed: its unit   *)
(* is far longer than a transaction.  Nothing in the code limits a pass;   *)
(* Longest does so for the instances that assume a limit.                  *)
Tick ==
  /\ now < MaxNow
  /\ \A i \in Indexers :
       /\ pc[i] # "claiming"
       /\ since[i] # Null => now - since[i] < Longest
  /\ now' = now + 1
  /\ UNCHANGED <<parrot, remote, tables, pc, locals, faults>>

(* The sensor of location l uploads a sample to Parrot. *)
NewSample(l) ==
  /\ parrot[l].last < MaxSample
  /\ parrot' = [parrot EXCEPT ![l].last = @ + 1]
  /\ UNCHANGED <<now, remote, tables, pc, locals, faults>>

(* The owner renames the plant in Parrot's app. *)
Rename(l) ==
  \E nickname \in Nicknames \ {parrot[l].nickname} :
    /\ parrot' = [parrot EXCEPT ![l].nickname = nickname]
    /\ UNCHANGED <<now, remote, tables, pc, locals, faults>>

-----------------------------------------------------------------------------
(* Index and NextIdentity *)

(* The UPDATE of NextIdentity has selected and locked the row of u. *)
SelectIdentity(i) ==
  /\ pc[i] = "idle"
  /\ \E u \in NextIdentities(identities, Locked, now, Period) :
       user' = [user EXCEPT ![i] = u]
  /\ since' = [since EXCEPT ![i] = now]
  /\ Goto(i, "claiming")
  /\ UNCHANGED <<external, remote, tables, todo, loc, isNew, copy, faults>>

(* COMMIT: from here on the identity is not due for one Period, whether    *)
(* the pass succeeds or not.                                               *)
CommitClaim(i) ==
  /\ pc[i] = "claiming"
  /\ identities' = SetIndexed(identities, user[i], now)
  /\ Goto(i, "status")
  /\ UNCHANGED <<external, remote, things, locals, faults>>

(* NextIdentity returns the identity together with the error of COMMIT,    *)
(* and Index only logs the error: the pass goes ahead.                     *)
CommitClaimFails(i) ==
  /\ pc[i] = "claiming"
  /\ Fault("commit")
  /\ \/ identities' = SetIndexed(identities, user[i], now)
     \/ UNCHANGED identities
  /\ Goto(i, "status")
  /\ UNCHANGED <<external, remote, things, locals>>

(* The transaction cannot begin or its query fails: NextIdentity returns   *)
(* nil, Index logs the error and dereferences nil, the process panics.     *)
NextIdentityFails(i) ==
  /\ pc[i] = "idle"
  /\ Fault("query")
  /\ Leave(i, "down")
  /\ UNCHANGED <<external, remote, tables>>

-----------------------------------------------------------------------------
(* flowerpower.GetLocations and the loop of indexLocations *)

FetchStatus(i) ==
  /\ pc[i] = "status"
  /\ todo' = [todo EXCEPT ![i] =
                [l \in {m \in Owned[user[i]] : IsValid(m)} |->
                   [last |-> parrot[l].last, nickname |-> None]]]
  /\ Goto(i, "configuration")
  /\ UNCHANGED <<external, remote, tables, user, loc, isNew, copy, since,
                 faults>>

(* Locations that the second answer does not list with a sensor drop out.  *)
FetchConfiguration(i) ==
  /\ pc[i] = "configuration"
  /\ todo' = [todo EXCEPT ![i] =
                [l \in DOMAIN @ \intersect Fitted |->
                   [@[l] EXCEPT !.nickname = parrot[l].nickname]]]
  /\ Goto(i, "next")
  /\ UNCHANGED <<external, remote, tables, user, loc, isNew, copy, since,
                 faults>>

GetLocationsFails(i) ==
  /\ pc[i] \in {"status", "configuration"}
  /\ Fault("parrot")
  /\ EndPass(i)
  /\ UNCHANGED <<external, remote, tables>>

(* indexNewLocation builds the row it will insert at the end. *)
NewRow(i, l) ==
  [uid |-> None, owner |-> user[i], nickname |-> todo[i][l].nickname,
   geo |-> Home[l], last |-> todo[i][l].last, uploaded |-> Null]

(* Slips: reading a known location from its start; taking its place from   *)
(* Parrot; taking every location for a new one.                            *)
LoadFromStart(i, l) ==
  [things[l] EXCEPT !.last = todo[i][l].last, !.uploaded = Null]

LoadFromParrot(i, l) ==
  [things[l] EXCEPT !.last = todo[i][l].last, !.geo = Home[l]]

AlwaysNew(l) == TRUE

(* indexExistingLocation takes the last sample from Parrot's list. *)
Load(i, l) == [things[l] EXCEPT !.last = todo[i][l].last]

(* errors.Cause(err) == sql.ErrNoRows *)
NoRows(l) == l \notin DOMAIN things

(* GetThing: no row sends the location to indexNewLocation, a row to       *)
(* indexExistingLocation.                                                  *)
GetThing(i) ==
  /\ pc[i] = "next"
  /\ \E l \in DOMAIN todo[i] :
       /\ loc' = [loc EXCEPT ![i] = l]
       /\ \/ /\ NoRows(l)
             /\ copy' = [copy EXCEPT ![i] = NewRow(i, l)]
             /\ isNew' = [isNew EXCEPT ![i] = TRUE]
             /\ Goto(i, "readFirst")
          \/ /\ ~NoRows(l)
             /\ copy' = [copy EXCEPT ![i] = Load(i, l)]
             /\ isNew' = [isNew EXCEPT ![i] = FALSE]
             /\ Goto(i, "more")
  /\ UNCHANGED <<external, remote, tables, user, todo, since, faults>>

(* Any other error of GetThing ends the pass for all remaining locations. *)
GetThingFails(i) ==
  /\ pc[i] = "next"
  /\ DOMAIN todo[i] # {}
  /\ Fault("db")
  /\ EndPass(i)
  /\ UNCHANGED <<external, remote, tables>>

FinishPass(i) ==
  /\ pc[i] = "next"
  /\ DOMAIN todo[i] = {}
  /\ EndPass(i)
  /\ UNCHANGED <<external, remote, tables, faults>>

-----------------------------------------------------------------------------
(* indexNewLocation, up to the database record *)

(* A failing GetReadings, of the first or a later chunk, gives up the      *)
(* location for this pass.                                                 *)
GetReadingsFails(i) ==
  /\ pc[i] \in {"readFirst", "read"}
  /\ Fault("parrot")
  /\ NextLocation(i)
  /\ UNCHANGED <<external, remote, tables>>

ReadFirst(i) ==
  /\ pc[i] = "readFirst"
  /\ Goto(i, "create")
  /\ UNCHANGED <<external, remote, tables, locals, faults>>

(* Thingful stores the thing and its first observations under a new uid. *)
StoreNew(i, uid) ==
  remote' = Put(remote, uid,
                [location |-> loc[i], title |-> copy[i].nickname,
                 geo |-> copy[i].geo, obs |-> Chunk(copy[i])])

CreateThing(i) ==
  /\ pc[i] = "create"
  /\ \E uid \in UIDs \ DOMAIN remote :
       /\ StoreNew(i, uid)
       /\ copy' = [copy EXCEPT ![i].uid = uid, ![i].uploaded = To(copy[i])]
  /\ Goto(i, "insert")
  /\ UNCHANGED <<external, tables, user, todo, loc, isNew, since, faults>>

(* A slip: the error of one location ends the whole pass. *)
CreateThingAborts(i) ==
  /\ pc[i] = "create"
  /\ Fault("thingful")
  /\ EndPass(i)
  /\ UNCHANGED <<external, remote, tables>>

(* The POST fails; after a timeout the thing may exist all the same.       *)
CreateThingFails(i) ==
  /\ pc[i] = "create"
  /\ Fault("thingful")
  /\ \/ UNCHANGED remote
     \/ \E uid \in UIDs \ DOMAIN remote : StoreNew(i, uid)
  /\ NextLocation(i)
  /\ UNCHANGED <<external, tables>>

InsertRow(i) == things' = Put(things, loc[i], copy[i])

CanInsert(i) == CanInsertThing(things, identities, loc[i], copy[i])

InsertThing(i) ==
  /\ pc[i] = "insert"
  /\ CanInsert(i)
  /\ InsertRow(i)
  /\ Goto(i, "more")
  /\ UNCHANGED <<external, remote, identities, locals, faults>>

(* The row meets no constraint any more: someone else inserted the         *)
(* location, or deleted the owner, since GetThing.                         *)
InsertThingRejected(i) ==
  /\ pc[i] = "insert"
  /\ ~CanInsert(i)
  /\ NextLocation(i)
  /\ UNCHANGED <<external, remote, tables, faults>>

InsertThingFails(i) ==
  /\ pc[i] = "insert"
  /\ Fault("db")
  /\ \/ UNCHANGED things
     \/ CanInsert(i) /\ InsertRow(i)
  /\ NextLocation(i)
  /\ UNCHANGED <<external, remote, identities>>

-----------------------------------------------------------------------------
(* The loop over the chunks, the same in both flows *)

ReadMore(i) ==
  /\ pc[i] = "more"
  /\ HasMore(copy[i])
  /\ Goto(i, "read")
  /\ UNCHANGED <<external, remote, tables, locals, faults>>

(* A slip: no new data, nothing to write. *)
FinishSilently(i) ==
  /\ pc[i] = "more"
  /\ ~HasMore(copy[i])
  /\ NextLocation(i)
  /\ UNCHANGED <<external, remote, tables, faults>>

(* Only indexExistingLocation writes the nickname when it is done. *)
FinishLocation(i) ==
  /\ pc[i] = "more"
  /\ ~HasMore(copy[i])
  /\ \/ isNew[i] /\ UNCHANGED things
     \/ /\ ~isNew[i]
        /\ things' = UpdateNickname(things, loc[i], todo[i][loc[i]].nickname)
  /\ NextLocation(i)
  /\ UNCHANGED <<external, remote, identities, faults>>

UpdateNicknameFails(i) ==
  /\ pc[i] = "more"
  /\ ~HasMore(copy[i])
  /\ ~isNew[i]
  /\ Fault("db")
  /\ \/ UNCHANGED things
     \/ things' = UpdateNickname(things, loc[i], todo[i][loc[i]].nickname)
  /\ NextLocation(i)
  /\ UNCHANGED <<external, remote, identities>>

ReadChunk(i) ==
  /\ pc[i] = "read"
  /\ Goto(i, "push")
  /\ UNCHANGED <<external, remote, tables, locals, faults>>

(* A slip: the observations sent take the place of those that are there. *)
StoreChunkInstead(i) ==
  LET uid == copy[i].uid IN
  remote' = Put(remote, uid,
                [location |-> remote[uid].location, title |-> copy[i].nickname,
                 geo |-> copy[i].geo, obs |-> Chunk(copy[i])])

(* thingful.UpdateThing sends the chunk along with nickname and            *)
(* geolocation, both as they were when GetThing read the row.              *)
StoreChunk(i) ==
  LET uid == copy[i].uid IN
  remote' = Put(remote, uid,
                [location |-> remote[uid].location, title |-> copy[i].nickname,
                 geo |-> copy[i].geo,
                 obs |-> remote[uid].obs \union Chunk(copy[i])])

PushChunk(i) ==
  /\ pc[i] = "push"
  /\ StoreChunk(i)
  /\ Goto(i, "save")
  /\ UNCHANGED <<external, tables, locals, faults>>

(* A slip: the error of the PATCH is logged and the watermark moves on. *)
PushChunkIgnored(i) ==
  /\ pc[i] = "push"
  /\ Fault("thingful")
  /\ Goto(i, "save")
  /\ UNCHANGED <<external, remote, tables, locals>>

PushChunkFails(i) ==
  /\ pc[i] = "push"
  /\ Fault("thingful")
  /\ \/ UNCHANGED remote
     \/ StoreChunk(i)
  /\ NextLocation(i)
  /\ UNCHANGED <<external, tables>>

(* The copy after a chunk: the watermark has moved and, for an existing    *)
(* location, the nickname is the one Parrot listed.                        *)
Saved(i) ==
  [copy[i] EXCEPT !.uploaded = To(copy[i]),
                  !.nickname = IF isNew[i] THEN @
                                           ELSE todo[i][loc[i]].nickname]

SaveChunk(i) ==
  /\ pc[i] = "save"
  /\ copy' = [copy EXCEPT ![i] = Saved(i)]
  /\ things' = UpdateThing(things, loc[i], Saved(i))
  /\ Goto(i, "more")
  /\ UNCHANGED <<external, remote, identities, user, todo, loc, isNew, since,
                 faults>>

SaveChunkFails(i) ==
  /\ pc[i] = "save"
  /\ Fault("db")
  /\ \/ UNCHANGED things
     \/ things' = UpdateThing(things, loc[i], Saved(i))
  /\ NextLocation(i)
  /\ UNCHANGED <<external, remote, identities>>

-----------------------------------------------------------------------------
(* The process dies between two steps; an open transaction is rolled back. *)
Crash(i) ==
  /\ pc[i] # "down"
  /\ Fault("crash")
  /\ Leave(i, "down")
  /\ UNCHANGED <<external, remote, tables>>

Restart(i) ==
  /\ pc[i] = "down"
  /\ Goto(i, "idle")
  /\ UNCHANGED <<external, remote, tables, locals, faults>>

-----------------------------------------------------------------------------
(* What the loop does when every call succeeds. *)
Step(i) ==
  \/ SelectIdentity(i)      \/ CommitClaim(i)
  \/ FetchStatus(i)         \/ FetchConfiguration(i)
  \/ GetThing(i)            \/ FinishPass(i)
  \/ ReadFirst(i)           \/ CreateThing(i)
  \/ InsertThing(i)         \/ InsertThingRejected(i)
  \/ ReadMore(i)            \/ FinishLocation(i)
  \/ ReadChunk(i)           \/ PushChunk(i)           \/ SaveChunk(i)

Failure(i) ==
  \/ CommitClaimFails(i)    \/ NextIdentityFails(i)
  \/ GetLocationsFails(i)   \/ GetThingFails(i)
  \/ GetReadingsFails(i)    \/ CreateThingFails(i)
  \/ InsertThingFails(i)    \/ UpdateNicknameFails(i)
  \/ PushChunkFails(i)      \/ SaveChunkFails(i)
  \/ Crash(i)               \/ Restart(i)

Environment == Tick \/ \E l \in Locations : NewSample(l) \/ Rename(l)

Next == Environment \/ \E i \in Indexers : Step(i) \/ Failure(i)

Spec == Init /\ [][Next]_vars

(* The loop is a goroutine that the Go scheduler runs, and every call it   *)
(* makes returns: the HTTP client has a timeout.                           *)
Fairness == \A i \in Indexers : WF_vars(Step(i))

FairSpec == Spec /\ Fairness

-----------------------------------------------------------------------------
(* Properties *)

(* What the database says has been uploaded is at Thingful: every sample   *)
(* from a location's first to its watermark is stored with the very thing  *)
(* the row names, whatever calls failed, timed out or were cut short by a  *)
(* crash, and whichever other pass worked on the location meanwhile.  The  *)
(* indexer never looks back behind the watermark (indexNewLocation,        *)
(* indexExistingLocation), so a gap would stay.                            *)
Coverage ==
  \A l \in DOMAIN things :
    /\ things[l].uid \in DOMAIN remote
    /\ remote[things[l].uid].location = l
    /\ FirstSample..things[l].uploaded \subseteq remote[things[l].uid].obs

(* The steps at which an indexer's copy is of a row that is in the table. *)
Synced == {"more", "read", "push", "save"}

(* What the steps of indexer i may rely on when they use the copy of the   *)
(* row: it is there when it is used, and up to its own watermark the       *)
(* samples are at Thingful, even if the table has moved on since.          *)
CopyOK(i) ==
  /\ pc[i] \notin {"idle", "down"} => user[i] # None
  /\ pc[i] \in {"readFirst", "create", "insert"} \union Synced =>
       /\ loc[i] \in DOMAIN todo[i]
       /\ copy[i] # None
  /\ pc[i] \in {"readFirst", "create"} => copy[i].uploaded = Null
  /\ pc[i] = "insert" =>
       /\ copy[i].uid \in DOMAIN remote
       /\ remote[copy[i].uid].location = loc[i]
       /\ FirstSample..copy[i].uploaded \subseteq remote[copy[i].uid].obs
  /\ pc[i] \in Synced =>
       /\ loc[i] \in DOMAIN things
       /\ copy[i].uid = things[loc[i]].uid
       /\ FirstSample..copy[i].uploaded \subseteq remote[copy[i].uid].obs
  /\ pc[i] = "save" => Chunk(copy[i]) \subseteq remote[copy[i].uid].obs

(* No indexer pushes, saves or inserts on the strength of a copy that      *)
(* promises more than Thingful has: the strengthening that makes Coverage  *)
(* inductive.                                                              *)
CopyInv == \A i \in Indexers : CopyOK(i)

CoverageInv == TypeOK /\ Coverage /\ CopyInv

(* The indexer delivers: whatever fails, and however passes interleave,    *)
(* its steps only add things and observations at Thingful, keep every      *)
(* record with its thing, and record no sample that is not delivered.      *)
Promise ==
  INSTANCE Delivery WITH
    stored   <- [x \in DOMAIN remote |-> [location |-> remote[x].location,
                                          obs |-> remote[x].obs]],
    recorded <- [l \in DOMAIN things |-> [uid  |-> things[l].uid,
                                          upto |-> things[l].uploaded]]

ImplementsDelivery == Promise!DeliverySpec

(* The uids Thingful knows and nobody here remembers: not in the table,    *)
(* and no indexer is about to insert them.                                 *)
Stranded ==
  DOMAIN remote \ ({things[l].uid : l \in DOMAIN things} \union
                   {copy[i].uid : i \in {j \in Indexers : pc[j] = "insert"}})

(* Every fault strands at most one thing at Thingful, and nothing else     *)
(* does: a pass that meets no fault never creates a second thing for a     *)
(* location (the retry of indexNewLocation after a lost answer, a failed   *)
(* INSERT or a crash creates another one).                                 *)
StrandedBound == Cardinality(Stranded) <= faults

(* Two passes over the same identity never run at the same time: the claim *)
(* in NextIdentity (FOR UPDATE SKIP LOCKED, then indexed_at) excludes the  *)
(* other indexers, one rest period after the other, as long as a pass is   *)
(* over when its identity is due again.                                    *)
OnePassPerIdentity ==
  \A i, j \in Indexers :
    i # j /\ user[i] # None => user[i] # user[j]

(* The watermark of a location never moves back, though UpdateThing        *)
(* writes what the pass computed from a row it read earlier.               *)
WatermarkNeverRegresses ==
  [][\A l \in DOMAIN things :
       /\ l \in DOMAIN things'
       /\ things'[l].uploaded >= things[l].uploaded]_vars

(* Whether location l has a row with at least n samples uploaded. *)
Uploaded(l, n) == l \in DOMAIN things /\ things[l].uploaded >= n

Pending(u) == u \in DOMAIN identities /\ IsDue(identities[u], now, Period)

(* An identity that is due does not stay due for ever: the order of the    *)
(* query in NextIdentity starves nobody and every pass ends.               *)
NoStarvation == \A u \in Users : Pending(u) ~> ~Pending(u)

(* Every pass ends, also while the sensor keeps uploading samples and when *)
(* calls fail: the loops run up to the last sample listed at the start.    *)
PassEnds == \A i \in Indexers : (pc[i] # "idle") ~> (pc[i] = "idle")

(* Samples that Parrot holds when an identity is due reach Thingful and    *)
(* are recorded, and a call that fails costs one location only: of the     *)
(* locations in S, all but one for each fault are uploaded in the end,     *)
(* because indexLocations logs the error of a location and goes on with    *)
(* the next one.                                                           *)
EventuallyUploaded ==
  \A u \in Users : \A S \in SUBSET (Owned[u] \intersect Fitted) \ {{}} :
    \A n \in 2..MaxSample :
      (Pending(u) /\ \A l \in S : parrot[l].last >= n)
        ~> (Cardinality({l \in S : ~Uploaded(l, n)}) <= faults)
=============================================================================
