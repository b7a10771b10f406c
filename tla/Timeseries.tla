----------------------------- MODULE Timeseries -----------------------------
(***************************************************************************)
(* timeseriesHandler (pkg/http/handlers): one request for the readings of  *)
(* several things.  The handler validates the request, has GetData fetch   *)
(* the things in parallel, reads the data sources from the database and    *)
(* builds one answer from things that come in any order.  What GetData     *)
(* does is that of Fetch.                                                  *)
(*                                                                         *)
(* Ids of things and channels are paths; the code uses their last element  *)
(* (path.Base).  Times are counted in days, 0 is Go's zero time.           *)
(***************************************************************************)
EXTENDS Integers, FiniteSetsExt, SequencesExt, Fetch

CONSTANTS
  UIDs,             \* things at Thingful
  Requests,         \* the requests that may come
  Contents,         \* what Thingful may hold: functions from uids to things
  DataSources,      \* table data_sources: a function from names to ids
  HN4Unit,          \* the table of converters.go: names and units to units
  MaxLocations,     \* 10 in the code
  MaxTimeInterval,  \* 10 days in the code
  NoUnit            \* the empty unit

NoSource == 0       \* the DataSourceVariableId of a channel without one

NotANumber == -1    \* a value that ParseFloat rejects, or JSON cannot express

(* path.Base *)
Base(id) == Last(id)

ASSUME TimeseriesAssumption ==
  /\ MaxLocations \in Nat
  /\ MaxTimeInterval \in Nat
  /\ NoUnit \notin DOMAIN HN4Unit
  /\ \A n \in DOMAIN DataSources : DataSources[n] # NoSource
  /\ \A m, n \in DOMAIN DataSources : DataSources[m] = DataSources[n] => m = n
  /\ \A r \in Requests : r.locations \in Seq(UIDs)

(* Assumed of Thingful, as of every thing the indexer writes there: what   *)
(* it holds under a uid says so, has channels of different names, and in a *)
(* channel no two readings of one time.                                    *)
ASSUME ContentsAssumption ==
  \A f \in Contents : \A u \in UIDs :
    LET channels == f[u].channels IN
    /\ Base(f[u].id) = u
    /\ Len(channels) \in Nat
    /\ DOMAIN channels = 1..Len(channels)
    /\ \A c, d \in DOMAIN channels :
         Base(channels[c].id) = Base(channels[d].id) => c = d
    /\ \A c \in DOMAIN channels :
         /\ IsFiniteSet(channels[c].readings)
         /\ \A o \in channels[c].readings : o.at \in Nat
         /\ \A o, p \in channels[c].readings : o.at = p.at => o = p

VARIABLES
  content,     \* what Thingful holds
  pc,          \* what the handler does next
  request,     \* the setting of the only reader of the request
  things,      \* the things received, in the order of their arrival
  response     \* the answer built from them

vars == <<wanted, collected, status, content, pc, request, things, response>>

NoResponse == [series |-> <<>>, locations |-> {}, units |-> {},
               variables |-> <<>>, sources |-> <<>>]

Init ==
  /\ content \in Contents
  /\ pc = "parse"
  /\ request \in Requests
  /\ wanted = {} /\ collected = {} /\ status = "ok"
  /\ things = <<>>
  /\ response = NoResponse

-----------------------------------------------------------------------------
(* Operators of the algorithm *)

VariableCode(id) == <<"Thingful.Connectors.GROWSensors", Base(id)>>

(* Whether the request is well-formed, has one reader, for this connector, *)
(* and that one asks for no more than is allowed.                          *)
IsPermitted(r) ==
  /\ r.wellFormed
  /\ r.locations # <<>>
  /\ Len(r.locations) <= MaxLocations
  /\ r.start # 0 /\ r.end # 0
  /\ r.start <= r.end
  /\ r.end - r.start <= MaxTimeInterval

InInterval(observation) == observation.at \in request.start..request.end

(* Thingful sends readings as a sequence, each after those that are later. *)
Place(o, readings) == Cardinality({p \in readings : p.at > o.at}) + 1

LatestFirst(readings) ==
  [i \in 1..Cardinality(readings) |->
     CHOOSE o \in readings : Place(o, readings) = i]

Sent(channel) ==
  [id |-> channel.id, unit |-> channel.unit,
   observations |-> LatestFirst({o \in channel.readings : InInterval(o)})]

(* Thingful's answer: all channels of the thing, each with its readings    *)
(* between the two dates.                                                  *)
Answer(uid) ==
  [id       |-> content[uid].id,
   channels |-> [c \in DOMAIN content[uid].channels |->
                   Sent(content[uid].channels[c])]]

(* The channels an answer is built from: those with readings whose         *)
(* variable has been asked for.                                            *)
IsRequested(channel) ==
  /\ channel.observations # <<>>
  /\ VariableCode(channel.id) \in ToSet(request.variables)

(* The pairs of thing and channel that the two loops of buildResponse come *)
(* to, by their places.                                                    *)
Entries ==
  UNION {{t} \X {c \in DOMAIN things[t].channels :
                   IsRequested(things[t].channels[c])} : t \in DOMAIN things}

ChannelOf(e) == things[e[1]].channels[e[2]]

(* The first of these entries, in the order of the loops. *)
FirstOf(entries) ==
  LET t == Min({e[1] : e \in entries})
  IN  <<t, Min({e[2] : e \in {f \in entries : f[1] = t}})>>

(* A slip: the unit sent along is preferred to that of the data source. *)
UnitSentFirst(channel) ==
  IF channel.unit \in DOMAIN HN4Unit THEN HN4Unit[channel.unit]
  ELSE IF Base(channel.id) \in DOMAIN HN4Unit
    THEN HN4Unit[Base(channel.id)]
    ELSE channel.unit

(* unitToHN4 *)
UnitKey(channel) ==
  IF Base(channel.id) \in DOMAIN HN4Unit THEN HN4Unit[Base(channel.id)]
  ELSE IF channel.unit \in DOMAIN HN4Unit THEN HN4Unit[channel.unit]
  ELSE channel.unit

(* getDatasource *)
SourceID(channel) ==
  IF Base(channel.id) \in DOMAIN DataSources THEN DataSources[Base(channel.id)]
                                             ELSE NoSource

(* buildObservations *)
Observations(channel) ==
  IF request.ascending THEN Reverse(channel.observations)
                       ELSE channel.observations

VariableOf(e) == VariableCode(ChannelOf(e).id)
SourceOf(e)   == SourceID(ChannelOf(e))

(* A slip: the dates are those of the first and last reading in the        *)
(* response, whatever its order.                                           *)
FirstToLast(e) ==
  LET data == Observations(ChannelOf(e)) IN
  [location |-> Base(things[e[1]].id), variable |-> VariableOf(e),
   source |-> SourceOf(e), data |-> data,
   start |-> data[1].at, end |-> Last(data).at]

Series(e) ==
  LET data == Observations(ChannelOf(e)) IN
  [location |-> Base(things[e[1]].id), variable |-> VariableOf(e),
   source |-> SourceOf(e), data |-> data,
   start |-> IF request.ascending THEN data[1].at ELSE Last(data).at,
   end   |-> IF request.ascending THEN Last(data).at ELSE data[1].at]

(* The first entry with a key decides what is stored under it. *)
UnitOf(entries) == UnitKey(ChannelOf(FirstOf(entries)))

(* The series are in the order of the entries, by which they go here. *)
Response ==
  [series    |-> [e \in Entries |-> Series(e)],
   locations |-> {Base(things[t].id) : t \in DOMAIN things},
   units     |-> {UnitKey(ChannelOf(e)) : e \in Entries} \ {NoUnit},
   variables |-> [v \in {VariableOf(e) : e \in Entries} |->
                    UnitOf({e \in Entries : VariableOf(e) = v})],
   sources   |-> [s \in {SourceOf(e) : e \in Entries} \ {NoSource} |->
                    UnitOf({e \in Entries : SourceOf(e) = s})]]

(* A slip: the values are parsed before the variable is looked at. *)
HasBadChannel ==
  \E t \in DOMAIN things : \E c \in DOMAIN things[t].channels :
    \E o \in ToSet(things[t].channels[c].observations) : o.value = NotANumber

(* The first value that is not a number is the error of buildResponse. *)
HasBadValue ==
  \E e \in Entries :
    \E o \in ToSet(ChannelOf(e).observations) : o.value = NotANumber

-----------------------------------------------------------------------------
(* The handler *)

Accept ==
  /\ pc = "parse"
  /\ IsPermitted(request)
  /\ Begin(DOMAIN request.locations)
  /\ pc' = "fetch"
  /\ UNCHANGED <<content, request, things, response>>

Reject ==
  /\ pc = "parse"
  /\ ~IsPermitted(request)
  /\ pc' = "rejected"
  /\ UNCHANGED <<call, content, request, things, response>>

(* A slip: a uid that is there already is not taken again. *)
ReceiveOnce ==
  /\ pc = "fetch"
  /\ \E k \in wanted :
       /\ Collect(k)
       /\ LET thing == Answer(request.locations[k])
          IN  things' = IF thing \in ToSet(things) THEN things
                                                   ELSE Append(things, thing)
  /\ UNCHANGED <<content, pc, request, response>>

ReceiveThing ==
  /\ pc = "fetch"
  /\ \E k \in wanted :
       /\ Collect(k)
       /\ things' = Append(things, Answer(request.locations[k]))
  /\ UNCHANGED <<content, pc, request, response>>

GetDataReturns ==
  /\ pc = "fetch"
  /\ Succeed
  /\ pc' = "sources"
  /\ UNCHANGED <<content, request, things, response>>

GetDataFails ==
  /\ pc = "fetch"
  /\ Fail
  /\ pc' = "failed"
  /\ UNCHANGED <<content, request, things, response>>

GetDataSources ==
  /\ pc = "sources"
  /\ pc' = "build"
  /\ UNCHANGED <<call, content, request, things, response>>

GetDataSourcesFails ==
  /\ pc = "sources"
  /\ pc' = "failed"
  /\ UNCHANGED <<call, content, request, things, response>>

BuildResponse ==
  /\ pc = "build"
  /\ ~HasBadValue
  /\ response' = Response
  /\ pc' = "sent"
  /\ UNCHANGED <<call, content, request, things>>

BuildResponseFails ==
  /\ pc = "build"
  /\ HasBadValue
  /\ pc' = "unparsable"
  /\ UNCHANGED <<call, content, request, things, response>>

Next ==
  \/ Accept         \/ Reject
  \/ ReceiveThing   \/ GetDataReturns      \/ GetDataFails
  \/ GetDataSources \/ GetDataSourcesFails
  \/ BuildResponse  \/ BuildResponseFails

Spec == Init /\ [][Next]_vars

-----------------------------------------------------------------------------
(* Properties *)

(* What a client means by its request: the readings of variable v of thing *)
(* u between the two dates.                                                *)
Readings(u, v) ==
  {o \in UNION {c.readings :
                  c \in {d \in ToSet(content[u].channels) :
                           VariableCode(d.id) = v}} :
     o.at \in request.start..request.end}

(* A successful answer has the readings of every pair of thing and         *)
(* variable asked for, once for each time the thing is named, and those of *)
(* no other pair; and whatever arrived in whichever order.                 *)
Complete ==
  pc = "sent" =>
    \A u \in UIDs : \A c \in ToSet(content[u].channels) :
      LET v == VariableCode(c.id)
          found == {s \in DOMAIN response.series :
                      /\ response.series[s].location = u
                      /\ response.series[s].variable = v}
      IN  /\ Cardinality(found) =
               IF v \in ToSet(request.variables) /\ Readings(u, v) # {}
                 THEN Cardinality({k \in DOMAIN request.locations :
                                     request.locations[k] = u})
                 ELSE 0
          /\ \A s \in found : ToSet(response.series[s].data) = Readings(u, v)

(* The readings of a series are in the order the client asked for, and the *)
(* two dates of the series are those of its earliest and latest reading.   *)
InOrder ==
  pc = "sent" =>
    \A e \in DOMAIN response.series :
      LET s == response.series[e]
      IN  /\ \A i, j \in DOMAIN s.data : i < j =>
               IF request.ascending THEN s.data[i].at < s.data[j].at
                                    ELSE s.data[i].at > s.data[j].at
          /\ \A o \in ToSet(s.data) : s.start <= o.at /\ o.at <= s.end
          /\ {s.start, s.end} \subseteq {o.at : o \in ToSet(s.data)}

(* The answer explains every code it uses, with a unit that does not       *)
(* depend on which thing came first - for channels that the table of units *)
(* knows, as it does all those this program writes.  For others the first  *)
(* to come decides.                                                        *)
Explained ==
  pc = "sent" =>
    \A e \in DOMAIN response.series :
      LET s    == response.series[e]
          unit == response.variables[s.variable]
      IN  /\ s.location \in response.locations
          /\ s.variable \in DOMAIN response.variables
          /\ unit # NoUnit => unit \in response.units
          /\ s.source # NoSource =>
               /\ s.source \in DOMAIN response.sources
               /\ response.sources[s.source] = unit
          /\ Last(s.variable) \in DOMAIN HN4Unit =>
               unit = HN4Unit[Last(s.variable)]

(* A value that is not a number costs an answer only if it was asked for.  *)
OnlyRequestedFail ==
  pc = "unparsable" =>
    \E u \in ToSet(request.locations) : \E v \in ToSet(request.variables) :
      \E o \in Readings(u, v) : o.value = NotANumber
=============================================================================
