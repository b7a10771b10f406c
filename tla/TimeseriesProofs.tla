-------------------------- MODULE TimeseriesProofs --------------------------
(***************************************************************************)
(* What holds of the answer to a time series request for any request, any  *)
(* content of Thingful, any data sources and any table of units.           *)
(*                                                                         *)
(* The invariant is HandlerInv: of every uid as many things have been      *)
(* received as were collected of it, whatever the order (Received).  The   *)
(* rest is about buildResponse: EntryIs and SeriesIs say what the two      *)
(* loops come to, LatestFirstIs what the readings they copy look like, and *)
(* SeriesFound which series a thing and a variable have.                   *)
(***************************************************************************)
EXTENDS Timeseries, FiniteSetTheorems, WellFoundedInduction, TLAPS

-----------------------------------------------------------------------------
(* Sets of natural numbers, and sequences *)

LEMMA LeastNatural ==
  ASSUME NEW S \in SUBSET Nat, S # {}
  PROVE  Min(S) \in S /\ \A y \in S : Min(S) <= y
<1>1. PICK x \in S : \A y \in S : ~ (<<y, x>> \in OpToRel(<, Nat))
  BY NatLessThanWellFounded, WFMin
<1>2. \A y \in S : ~ (y < x)
  BY <1>1 DEF OpToRel
<1>3. \A y \in S : x <= y
  BY <1>2
<1> QED
  BY <1>3 DEF Min

LEMMA SequenceOf ==
  ASSUME NEW S, NEW n \in Nat, NEW s,
         DOMAIN s = 1..n, s = [i \in 1..n |-> s[i]],
         \A i \in 1..n : s[i] \in S
  PROVE  s \in Seq(S) /\ Len(s) = n
<1>1. s \in [1..n -> S]
  OBVIOUS
<1> QED
  BY <1>1

LEMMA ReverseIs ==
  ASSUME NEW S, NEW s \in Seq(S)
  PROVE  /\ Reverse(s) \in Seq(S)
         /\ Len(Reverse(s)) = Len(s)
         /\ DOMAIN Reverse(s) = 1..Len(s)
         /\ \A i \in 1..Len(s) : Reverse(s)[i] = s[Len(s) - i + 1]
         /\ ToSet(Reverse(s)) = ToSet(s)
<1> DEFINE n == Len(s)
           t == Reverse(s)
<1>1. n \in Nat /\ DOMAIN s = 1..n /\ \A i \in 1..n : s[i] \in S
  OBVIOUS
<1>2. /\ DOMAIN t = 1..n /\ t = [i \in 1..n |-> t[i]]
      /\ \A i \in 1..n : t[i] = s[(n - i) + 1]
  BY DEF Reverse
<1>3. \A i \in 1..n : (n - i) + 1 \in 1..n /\ (n - ((n - i) + 1)) + 1 = i
  BY <1>1
<1> HIDE DEF n, t
<1>4. \A i \in 1..n : t[i] \in S
  BY <1>1, <1>2, <1>3
<1>5. t \in Seq(S) /\ Len(t) = n
  BY <1>1, <1>2, <1>4, SequenceOf
<1>6. ToSet(t) = ToSet(s)
  <2>1. ASSUME NEW x \in ToSet(t)
        PROVE  x \in ToSet(s)
    BY <1>1, <1>2, <1>3 DEF ToSet
  <2>2. ASSUME NEW x \in ToSet(s)
        PROVE  x \in ToSet(t)
    <3>1. PICK i \in 1..n : x = s[i]
      BY <1>1 DEF ToSet
    <3>2. x = t[(n - i) + 1] /\ (n - i) + 1 \in DOMAIN t
      BY <1>2, <1>3, <3>1
    <3> QED
      BY <3>2 DEF ToSet
  <2> QED
    BY <2>1, <2>2
<1> QED
  BY <1>2, <1>5, <1>6 DEF n, t

-----------------------------------------------------------------------------
(* Readings *)

IsReadings(readings) ==
  /\ IsFiniteSet(readings)
  /\ \A o \in readings : o.at \in Nat
  /\ \A o, p \in readings : o.at = p.at => o = p

(* What Thingful sends has every reading once, after all later ones. *)
LEMMA LatestFirstIs ==
  ASSUME NEW S, IsReadings(S)
  PROVE  /\ LatestFirst(S) \in Seq(S)
         /\ ToSet(LatestFirst(S)) = S
         /\ \A i, j \in DOMAIN LatestFirst(S) :
              i < j => LatestFirst(S)[i].at > LatestFirst(S)[j].at
         /\ S # {} <=> LatestFirst(S) # <<>>
<1> DEFINE n == Cardinality(S)
           s == LatestFirst(S)
           Later(o) == {p \in S : p.at > o.at}
           place == [o \in S |-> Place(o, S)]
<1>1. n \in Nat /\ IsFiniteSet(S)
  BY FS_CardinalityType DEF IsReadings
<1>2. ASSUME NEW o \in S
      PROVE  /\ IsFiniteSet(Later(o))
             /\ Cardinality(Later(o)) \in Nat
             /\ Place(o, S) = Cardinality(Later(o)) + 1
             /\ Place(o, S) \in 1..n
  <2>1. IsFiniteSet(S \ {o}) /\ Cardinality(S \ {o}) = n - 1
    BY <1>1, FS_RemoveElement
  <2>2. Later(o) \subseteq S \ {o}
    BY DEF IsReadings
  <2>3. Place(o, S) = Cardinality(Later(o)) + 1
    BY DEF Place
  <2> HIDE DEF Later
  <2>4. /\ IsFiniteSet(Later(o))
        /\ Cardinality(Later(o)) <= n - 1
        /\ Cardinality(Later(o)) \in Nat
    BY <2>1, <2>2, FS_Subset, FS_CardinalityType
  <2> QED
    BY <1>1, <2>3, <2>4
<1>3. ASSUME NEW o \in S, NEW p \in S, o.at < p.at
      PROVE  Place(p, S) < Place(o, S)
  <2>1. /\ Later(p) \subseteq Later(o) /\ p \in Later(o) /\ p \notin Later(p)
    BY <1>3 DEF IsReadings
  <2> HIDE DEF Later
  <2>2. /\ Cardinality(Later(p)) <= Cardinality(Later(o))
        /\ Cardinality(Later(p)) # Cardinality(Later(o))
    BY <1>2, <2>1, FS_Subset
  <2> QED
    BY <1>2, <2>2
<1> HIDE DEF Later
<1>4. ASSUME NEW o \in S, NEW p \in S, Place(o, S) = Place(p, S)
      PROVE  o = p
  <2>1. o.at \in Nat /\ p.at \in Nat /\ Place(o, S) \in Int
    BY <1>1, <1>2 DEF IsReadings
  <2>2. ~ (o.at < p.at) /\ ~ (p.at < o.at)
    BY <1>3, <1>4, <2>1
  <2> QED
    BY <2>1, <2>2 DEF IsReadings
<1>5. s = [i \in 1..n |-> CHOOSE o \in S : Place(o, S) = i]
  BY DEF LatestFirst
<1>6. place \in Injection(S, 1..n)
  <2>1. place \in [S -> 1..n]
    BY <1>2
  <2>2. IsInjective(place)
    BY <1>4 DEF IsInjective
  <2> QED
    BY <2>1, <2>2 DEF Injection
<1> HIDE DEF s
<1>7. ASSUME NEW i \in 1..n
      PROVE  \E o \in S : Place(o, S) = i
  <2>1. /\ IsFiniteSet(1..n)
        /\ Cardinality(1..n) = n
    BY <1>1, FS_Interval
  <2>2. place \in Surjection(S, 1..n)
    <3> HIDE DEF place
    <3> QED
      BY <1>6, <2>1, FS_Injection
  <2> QED
    BY <2>2 DEF Surjection
<1>8. \A i \in 1..n : s[i] \in S /\ Place(s[i], S) = i
  BY <1>5, <1>7
<1>9. DOMAIN s = 1..n /\ s = [i \in 1..n |-> s[i]]
  BY <1>5
<1> HIDE DEF n, place
<1>10. s \in Seq(S) /\ Len(s) = n
  BY <1>1, <1>8, <1>9, SequenceOf
<1>11. ToSet(s) = S
  <2>1. ASSUME NEW o \in S
        PROVE  o \in ToSet(s)
    <3>1. Place(o, S) \in 1..n
      BY <1>2
    <3>2. s[Place(o, S)] = o
      BY <1>4, <1>8, <3>1
    <3> QED
      BY <1>9, <3>1, <3>2 DEF ToSet
  <2> QED
    BY <1>8, <1>9, <2>1 DEF ToSet
<1>12. ASSUME NEW i \in DOMAIN s, NEW j \in DOMAIN s, i < j
       PROVE  s[i].at > s[j].at
  <2>1. /\ s[i] \in S /\ s[j] \in S
        /\ Place(s[i], S) = i /\ Place(s[j], S) = j
        /\ i \in Nat /\ j \in Nat
    BY <1>1, <1>8, <1>9
  <2>2. s[i].at \in Nat /\ s[j].at \in Nat
    BY <2>1 DEF IsReadings
  <2>3. s[i] # s[j]
    BY <1>12, <2>1
  <2>4. s[i].at # s[j].at
    BY <2>1, <2>3 DEF IsReadings
  <2>5. ~ (s[i].at < s[j].at)
    BY <1>3, <1>12, <2>1
  <2> QED
    BY <2>2, <2>4, <2>5
<1>13. S # {} <=> s # <<>>
  BY <1>8, <1>9, <1>11 DEF ToSet
<1> QED
  BY <1>10, <1>11, <1>12, <1>13 DEF s
-----------------------------------------------------------------------------
(* What the handler has, and its answer *)

(* How often the things of u have been received, and asked for. *)
ReceivedAt(u) == {t \in DOMAIN things : things[t] = Answer(u)}
CollectedAt(u) == {k \in collected : request.locations[k] = u}

(* As many things of every uid have been received as were collected. *)
Received ==
  /\ things \in Seq({Answer(u) : u \in ToSet(request.locations)})
  /\ \A u \in UIDs :
       /\ IsFiniteSet(ReceivedAt(u))
       /\ IsFiniteSet(CollectedAt(u))
       /\ Cardinality(ReceivedAt(u)) = Cardinality(CollectedAt(u))

HandlerInv ==
  /\ content \in Contents
  /\ request \in Requests
  /\ Received
  /\ pc = "parse" => things = <<>>
  /\ pc = "fetch" => wanted = DOMAIN request.locations
  /\ pc \in {"sources", "build", "sent"} =>
       collected = DOMAIN request.locations
  /\ pc = "sent" => response = Response
  /\ pc = "unparsable" => HasBadValue

LEMMA NoneCollected ==
  ASSUME things = <<>>, collected = {}
  PROVE  Received
<1>1. \A u \in UIDs : ReceivedAt(u) = {} /\ CollectedAt(u) = {}
  BY DEF ReceivedAt, CollectedAt
<1>2. \A S : things \in Seq(S)
  OBVIOUS
<1> QED
  BY <1>1, <1>2, FS_EmptySet DEF Received

LEMMA HandlerInvInit == Init => HandlerInv
<1> SUFFICES ASSUME Init PROVE HandlerInv
  OBVIOUS
<1>1. Received
  BY NoneCollected DEF Init
<1> QED
  BY <1>1 DEF Init, HandlerInv

LEMMA AnswersDiffer ==
  ASSUME content \in Contents, NEW u \in UIDs, NEW v \in UIDs,
         Answer(u) = Answer(v)
  PROVE  u = v
<1>1. Answer(u).id = content[u].id /\ Answer(v).id = content[v].id
  BY DEF Answer
<1>2. Base(content[u].id) = u /\ Base(content[v].id) = v
  BY ContentsAssumption
<1> QED
  BY <1>1, <1>2

LEMMA OneMore ==
  ASSUME NEW S, NEW T, NEW a, NEW b, a \notin S, b \notin T,
         IsFiniteSet(S), IsFiniteSet(T), Cardinality(S) = Cardinality(T)
  PROVE  /\ IsFiniteSet(S \union {a}) /\ IsFiniteSet(T \union {b})
         /\ Cardinality(S \union {a}) = Cardinality(T \union {b})
<1>1. /\ IsFiniteSet(S \union {a})
      /\ Cardinality(S \union {a}) = Cardinality(S) + 1
  BY FS_AddElement
<1>2. /\ IsFiniteSet(T \union {b})
      /\ Cardinality(T \union {b}) = Cardinality(T) + 1
  BY FS_AddElement
<1> QED
  BY <1>1, <1>2

LEMMA ReceiveKeeps ==
  ASSUME HandlerInv, ReceiveThing
  PROVE  Received'
<1>1. PICK k \in wanted :
        Collect(k) /\ things' = Append(things, Answer(request.locations[k]))
  BY DEF ReceiveThing
<1> DEFINE w == request.locations[k]
           A == {Answer(u) : u \in ToSet(request.locations)}
           n == Len(things)
<1>2. /\ UNCHANGED <<content, request>>
      /\ content \in Contents
      /\ k \in DOMAIN request.locations
      /\ k \notin collected /\ collected' = collected \union {k}
      /\ request.locations \in Seq(UIDs)
  BY <1>1, TimeseriesAssumption DEF ReceiveThing, HandlerInv, Collect
<1>3. w \in ToSet(request.locations) /\ w \in UIDs
  BY <1>2 DEF ToSet
<1>4. things \in Seq(A) /\ Answer(w) \in A
  BY <1>3 DEF HandlerInv, Received
<1>5. /\ things' \in Seq(A)
      /\ n \in Nat /\ DOMAIN things = 1..n
      /\ DOMAIN things' = 1..(n + 1)
      /\ \A t \in 1..n : things'[t] = things[t]
      /\ things'[n + 1] = Answer(w)
  <2> HIDE DEF A
  <2> QED
    BY <1>1, <1>4
<1>6. \A u : Answer(u)' = Answer(u)
  BY <1>2 DEF Answer, Sent, InInterval
<1>7. A' = A
  BY <1>2, <1>6
<1> HIDE DEF n, A
<1>8. ASSUME NEW u \in UIDs
      PROVE  /\ IsFiniteSet(ReceivedAt(u)')
             /\ IsFiniteSet(CollectedAt(u)')
             /\ Cardinality(ReceivedAt(u)') = Cardinality(CollectedAt(u)')
  <2>1. /\ IsFiniteSet(ReceivedAt(u)) /\ IsFiniteSet(CollectedAt(u))
        /\ Cardinality(ReceivedAt(u)) = Cardinality(CollectedAt(u))
    BY DEF HandlerInv, Received
  <2>2. CASE u = w
    <3>1. ReceivedAt(u)' = ReceivedAt(u) \union {n + 1}
      BY <1>5, <1>6, <2>2 DEF ReceivedAt
    <3>2. CollectedAt(u)' = CollectedAt(u) \union {k}
      BY <1>2, <2>2 DEF CollectedAt
    <3>3. n + 1 \notin ReceivedAt(u) /\ k \notin CollectedAt(u)
      BY <1>2, <1>5 DEF ReceivedAt, CollectedAt
    <3> QED
      BY <2>1, <3>1, <3>2, <3>3, OneMore
  <2>3. CASE u # w
    <3>1. Answer(u) # Answer(w)
      BY <1>2, <1>3, <2>3, AnswersDiffer
    <3>2. ReceivedAt(u)' = ReceivedAt(u)
      BY <1>5, <1>6, <3>1 DEF ReceivedAt
    <3>3. CollectedAt(u)' = CollectedAt(u)
      BY <1>2, <2>3 DEF CollectedAt
    <3> QED
      BY <2>1, <3>2, <3>3
  <2> QED
    BY <2>2, <2>3
<1>9. things' \in Seq(A')
  BY <1>5, <1>7
<1> QED
  BY <1>8, <1>9 DEF Received, A

LEMMA SameReceived ==
  ASSUME Received, UNCHANGED <<content, request, things, collected>>
  PROVE  Received'
<1>1. \A u : Answer(u)' = Answer(u)
  BY DEF Answer, Sent, InInterval
<1>2. \A u : ReceivedAt(u)' = ReceivedAt(u) /\ CollectedAt(u)' = CollectedAt(u)
  BY <1>1 DEF ReceivedAt, CollectedAt
<1>3. {Answer(u) : u \in ToSet(request.locations)}' =
        {Answer(u) : u \in ToSet(request.locations)}
  BY <1>1
<1> QED
  BY <1>2, <1>3 DEF Received

(* The answer is a function of what it is built from. *)
LEMMA SameResponse ==
  ASSUME UNCHANGED <<request, things>>
  PROVE  Response' = Response /\ HasBadValue' = HasBadValue
<1>1. Entries' = Entries /\ \A e : ChannelOf(e)' = ChannelOf(e)
  BY DEF Entries, IsRequested, ChannelOf
<1>2. \A c : Observations(c)' = Observations(c)
  BY DEF Observations
<1>3. \A e : /\ VariableOf(e)' = VariableOf(e)
             /\ SourceOf(e)' = SourceOf(e)
             /\ UnitKey(ChannelOf(e))' = UnitKey(ChannelOf(e))
             /\ Series(e)' = Series(e)
  BY <1>1, <1>2 DEF VariableOf, SourceOf, Series
<1>4. \A S : UnitOf(S)' = UnitOf(S)
  BY <1>3 DEF UnitOf
<1>5. HasBadValue' = HasBadValue
  BY <1>1 DEF HasBadValue
<1>6. Response' = Response
  BY <1>1, <1>3, <1>4 DEF Response
<1> QED
  BY <1>5, <1>6

LEMMA HandlerInvNext == HandlerInv /\ [Next]_vars => HandlerInv'
<1> SUFFICES ASSUME HandlerInv, [Next]_vars
             PROVE  HandlerInv'
  OBVIOUS
<1>1. CASE Accept
  <2>1. things' = <<>> /\ collected' = {}
    BY <1>1 DEF Accept, Begin, HandlerInv
  <2>2. Received'
    <3>1. \A u \in UIDs : ReceivedAt(u)' = {} /\ CollectedAt(u)' = {}
      BY <2>1 DEF ReceivedAt, CollectedAt
    <3>2. \A S : things' \in Seq(S)
      BY <2>1
    <3> QED
      BY <3>1, <3>2, FS_EmptySet DEF Received
  <2> QED
    BY <1>1, <2>2 DEF Accept, Begin, HandlerInv
<1>2. CASE ReceiveThing
  BY <1>2, ReceiveKeeps DEF ReceiveThing, Collect, HandlerInv
<1>3. CASE \/ Reject \/ GetDataReturns \/ GetDataFails
           \/ GetDataSources \/ GetDataSourcesFails
  <2>1. UNCHANGED <<content, request, things, collected>>
    BY <1>3 DEF Reject, GetDataReturns, GetDataFails, GetDataSources,
                GetDataSourcesFails, Succeed, Fail, call
  <2>2. Received'
    BY <2>1, SameReceived DEF HandlerInv
  <2> QED
    BY <1>3, <2>1, <2>2
       DEF Reject, GetDataReturns, GetDataFails, GetDataSources,
           GetDataSourcesFails, Succeed, Fail, call, HandlerInv
<1>4. CASE BuildResponse \/ BuildResponseFails
  <2>1. UNCHANGED <<content, request, things, collected>>
    BY <1>4 DEF BuildResponse, BuildResponseFails, call
  <2>2. Received'
    BY <2>1, SameReceived DEF HandlerInv
  <2>3. Response' = Response /\ HasBadValue' = HasBadValue
    BY <2>1, SameResponse
  <2> QED
    BY <1>4, <2>1, <2>2, <2>3
       DEF BuildResponse, BuildResponseFails, call, HandlerInv
<1>5. CASE UNCHANGED vars
  BY <1>5, SameReceived, SameResponse DEF vars, HandlerInv
<1> QED
  BY <1>1, <1>2, <1>3, <1>4, <1>5 DEF Next

-----------------------------------------------------------------------------
(* What an entry stands for *)

(* The readings of a channel between the two dates. *)
Window(channel) == {o \in channel.readings : InInterval(o)}

LEMMA WindowIs ==
  ASSUME content \in Contents, NEW u \in UIDs,
         NEW c \in DOMAIN content[u].channels
  PROVE  LET channel == content[u].channels[c]
             sent    == Sent(channel)
         IN  /\ IsReadings(Window(channel))
             /\ sent.id = channel.id
             /\ sent.unit = channel.unit
             /\ sent.observations = LatestFirst(Window(channel))
<1> DEFINE channel == content[u].channels[c]
<1>1. IsReadings(channel.readings)
  BY ContentsAssumption DEF IsReadings
<1>2. IsFiniteSet(Window(channel))
  BY <1>1, FS_Subset DEF IsReadings, Window
<1>3. IsReadings(Window(channel))
  BY <1>1, <1>2 DEF IsReadings, Window
<1> QED
  BY <1>3 DEF Sent, Window

LEMMA EntryIs ==
  ASSUME HandlerInv, NEW e \in Entries
  PROVE  \E u \in UIDs : \E t \in DOMAIN things :
         \E c \in DOMAIN content[u].channels :
           /\ e = <<t, c>> /\ t \in Nat /\ c \in Nat
           /\ u \in ToSet(request.locations)
           /\ things[t] = Answer(u)
           /\ Base(things[t].id) = u
           /\ ChannelOf(e) = Sent(content[u].channels[c])
           /\ IsRequested(ChannelOf(e))
<1> DEFINE A == {Answer(u) : u \in ToSet(request.locations)}
<1>1. PICK t \in DOMAIN things :
        \E c \in DOMAIN things[t].channels :
          e = <<t, c>> /\ IsRequested(things[t].channels[c])
  BY DEF Entries
<1>2. PICK c \in DOMAIN things[t].channels :
        e = <<t, c>> /\ IsRequested(things[t].channels[c])
  BY <1>1
<1>3. /\ content \in Contents
      /\ request.locations \in Seq(UIDs)
      /\ things \in Seq(A)
  BY TimeseriesAssumption DEF HandlerInv, Received
<1>4. t \in Nat /\ things[t] \in A
  <2> HIDE DEF A
  <2> QED
    BY <1>3
<1>5. PICK u \in ToSet(request.locations) : things[t] = Answer(u)
  BY <1>4
<1>6. u \in UIDs
  BY <1>3 DEF ToSet
<1>7. /\ things[t].id = content[u].id
      /\ DOMAIN things[t].channels = DOMAIN content[u].channels
      /\ things[t].channels[c] = Sent(content[u].channels[c])
  BY <1>2, <1>5 DEF Answer
<1>8. /\ Base(content[u].id) = u
      /\ DOMAIN content[u].channels \subseteq Nat
  BY <1>3, <1>6, ContentsAssumption
<1>9. ChannelOf(e) = things[t].channels[c]
  BY <1>2 DEF ChannelOf
<1> QED
  BY <1>2, <1>4, <1>5, <1>6, <1>7, <1>8, <1>9

(* The first of some entries is one of them. *)
LEMMA FirstIsOne ==
  ASSUME HandlerInv, NEW S \in SUBSET Entries, S # {}
  PROVE  FirstOf(S) \in S
<1>1. \A e \in S : e = <<e[1], e[2]>> /\ e[1] \in Nat /\ e[2] \in Nat
  <2>1. ASSUME NEW e \in S
        PROVE  e = <<e[1], e[2]>> /\ e[1] \in Nat /\ e[2] \in Nat
    <3>1. PICK t, c : e = <<t, c>> /\ t \in Nat /\ c \in Nat
      BY EntryIs
    <3> QED
      BY <3>1
  <2> QED
    BY <2>1
<1> DEFINE T == {e[1] : e \in S}
           t == Min(T)
           C == {e[2] : e \in {f \in S : f[1] = t}}
<1>2. t \in T
  <2>1. T \in SUBSET Nat /\ T # {}
    BY <1>1
  <2> HIDE DEF T
  <2> QED
    BY <2>1, LeastNatural
<1> HIDE DEF t
<1>3. Min(C) \in C
  <2>1. C \in SUBSET Nat /\ C # {}
    BY <1>1, <1>2
  <2> HIDE DEF C
  <2> QED
    BY <2>1, LeastNatural
<1>4. FirstOf(S) = <<t, Min(C)>>
  BY DEF FirstOf, t
<1>5. PICK f \in S : f[1] = t /\ f[2] = Min(C)
  <2>1. PICK m : m = Min(C)
    OBVIOUS
  <2>2. m \in C
    BY <1>3, <2>1
  <2> QED
    BY <2>1, <2>2
<1> QED
  BY <1>1, <1>4, <1>5

-----------------------------------------------------------------------------
(* OnlyRequestedFail *)

LEMMA BadValueRequested == HandlerInv => OnlyRequestedFail
<1> SUFFICES ASSUME HandlerInv, pc = "unparsable"
             PROVE  \E u \in ToSet(request.locations) :
                    \E v \in ToSet(request.variables) :
                    \E o \in Readings(u, v) : o.value = NotANumber
  BY DEF OnlyRequestedFail
<1>1. PICK e \in Entries :
        \E o \in ToSet(ChannelOf(e).observations) : o.value = NotANumber
  BY DEF HandlerInv, HasBadValue
<1>2. PICK o \in ToSet(ChannelOf(e).observations) : o.value = NotANumber
  BY <1>1
<1>3. PICK u \in UIDs :
        /\ u \in ToSet(request.locations)
        /\ \E c \in DOMAIN content[u].channels :
             /\ ChannelOf(e) = Sent(content[u].channels[c])
             /\ IsRequested(ChannelOf(e))
  BY EntryIs
<1>4. PICK c \in DOMAIN content[u].channels :
        /\ ChannelOf(e) = Sent(content[u].channels[c])
        /\ IsRequested(ChannelOf(e))
  BY <1>3
<1> DEFINE channel == content[u].channels[c]
           v == VariableCode(channel.id)
<1>5. /\ IsReadings(Window(channel))
      /\ ChannelOf(e).id = channel.id
      /\ ChannelOf(e).observations = LatestFirst(Window(channel))
  BY <1>4, WindowIs DEF HandlerInv
<1>6. o \in Window(channel)
  BY <1>2, <1>5, LatestFirstIs
<1>7. v \in ToSet(request.variables)
  BY <1>4, <1>5 DEF IsRequested
<1>8. channel \in ToSet(content[u].channels)
  BY DEF ToSet
<1>9. o \in Readings(u, v)
  BY <1>6, <1>8 DEF Readings, Window, InInterval
<1> QED
  BY <1>2, <1>3, <1>7, <1>9

-----------------------------------------------------------------------------
(* InOrder *)

LEMMA SeriesInOrder ==
  ASSUME NEW S, IsReadings(S), S # {}, NEW channel,
         channel.observations = LatestFirst(S)
  PROVE  LET data == Observations(channel) IN
         /\ data \in Seq(S) /\ Len(data) \in Nat \ {0}
         /\ ToSet(data) = S
         /\ \A i, j \in DOMAIN data :
              i < j => IF request.ascending THEN data[i].at < data[j].at
                                            ELSE data[i].at > data[j].at
<1> DEFINE s == LatestFirst(S)
           n == Len(s)
           data == Observations(channel)
<1>1. /\ s \in Seq(S) /\ ToSet(s) = S /\ s # <<>>
      /\ \A i, j \in DOMAIN s : i < j => s[i].at > s[j].at
  BY LatestFirstIs
<1> HIDE DEF s
<1>2. n \in Nat \ {0} /\ DOMAIN s = 1..n /\ \A i \in 1..n : s[i] \in S
  BY <1>1
<1>3. CASE ~ request.ascending
  <2>1. data = s
    BY <1>3 DEF Observations, s
  <2> QED
    BY <1>1, <1>2, <1>3, <2>1
<1>4. CASE request.ascending
  <2>1. data = Reverse(s)
    BY <1>4 DEF Observations, s
  <2>2. /\ data \in Seq(S) /\ Len(data) = n /\ DOMAIN data = 1..n
        /\ \A i \in 1..n : data[i] = s[n - i + 1]
        /\ ToSet(data) = S
    BY <1>1, <2>1, ReverseIs
  <2> HIDE DEF data, n
  <2>3. ASSUME NEW i \in DOMAIN data, NEW j \in DOMAIN data, i < j
        PROVE  data[i].at < data[j].at
    <3>1. /\ n - i + 1 \in 1..n /\ n - j + 1 \in 1..n
          /\ n - j + 1 < n - i + 1
      BY <1>2, <2>2, <2>3
    <3>2. s[n - j + 1].at > s[n - i + 1].at
      BY <1>1, <1>2, <3>1
    <3>3. s[n - i + 1] \in S /\ s[n - j + 1] \in S
      BY <1>2, <3>1
    <3>4. s[n - i + 1].at \in Nat /\ s[n - j + 1].at \in Nat
      BY <3>3 DEF IsReadings
    <3>5. data[i] = s[n - i + 1] /\ data[j] = s[n - j + 1]
      BY <2>2
    <3>6. PICK a \in Nat, b \in Nat :
            a = s[n - i + 1].at /\ b = s[n - j + 1].at
      BY <3>4
    <3> QED
      BY <3>2, <3>5, <3>6
  <2> QED
    BY <1>2, <1>4, <2>2, <2>3 DEF data
<1> QED
  BY <1>3, <1>4
(* The series of an entry, and what it is made from. *)
LEMMA SeriesIs ==
  ASSUME HandlerInv, NEW e \in Entries
  PROVE  \E u \in UIDs : \E c \in DOMAIN content[u].channels :
           LET channel == content[u].channels[c] IN
           /\ u \in ToSet(request.locations)
           /\ things[e[1]] = Answer(u) /\ e[2] = c
           /\ Series(e).location = u
           /\ Series(e).variable = VariableCode(channel.id)
           /\ Series(e).data = Observations(ChannelOf(e))
           /\ ChannelOf(e) = Sent(channel)
           /\ VariableCode(channel.id) \in ToSet(request.variables)
           /\ IsReadings(Window(channel)) /\ Window(channel) # {}
<1>1. PICK u \in UIDs : \E t \in DOMAIN things :
           \E c \in DOMAIN content[u].channels :
             /\ e = <<t, c>> /\ t \in Nat /\ c \in Nat
             /\ u \in ToSet(request.locations)
             /\ things[t] = Answer(u)
             /\ Base(things[t].id) = u
             /\ ChannelOf(e) = Sent(content[u].channels[c])
             /\ IsRequested(ChannelOf(e))
  BY EntryIs
<1>2. PICK c \in DOMAIN content[u].channels :
        /\ u \in ToSet(request.locations)
        /\ things[e[1]] = Answer(u) /\ e[2] = c
        /\ Base(things[e[1]].id) = u
        /\ ChannelOf(e) = Sent(content[u].channels[c])
        /\ IsRequested(ChannelOf(e))
  BY <1>1
<1> DEFINE channel == content[u].channels[c]
<1>3. /\ IsReadings(Window(channel))
      /\ ChannelOf(e).id = channel.id
      /\ ChannelOf(e).observations = LatestFirst(Window(channel))
  BY <1>2, WindowIs DEF HandlerInv
<1>4. /\ Window(channel) # {}
      /\ VariableCode(channel.id) \in ToSet(request.variables)
  BY <1>2, <1>3, LatestFirstIs DEF IsRequested
<1>5. /\ Series(e).location = Base(things[e[1]].id)
      /\ Series(e).variable = VariableCode(ChannelOf(e).id)
      /\ Series(e).data = Observations(ChannelOf(e))
  BY DEF Series, VariableOf
<1> QED
  BY <1>2, <1>3, <1>4, <1>5

LEMMA DatesInOrder ==
  ASSUME HandlerInv, NEW e \in Entries
  PROVE  LET s == Series(e) IN
      /\ \A i, j \in DOMAIN s.data :
           i < j => IF request.ascending THEN s.data[i].at < s.data[j].at
                                         ELSE s.data[i].at > s.data[j].at
      /\ \A o \in ToSet(s.data) : s.start <= o.at /\ o.at <= s.end
      /\ {s.start, s.end} \subseteq {o.at : o \in ToSet(s.data)}
<1> DEFINE data == Observations(ChannelOf(e))
           n    == Len(data)
<1>1. PICK W : /\ IsReadings(W) /\ W # {}
               /\ ChannelOf(e).observations = LatestFirst(W)
  <2>1. PICK u \in UIDs : \E c \in DOMAIN content[u].channels :
          /\ ChannelOf(e) = Sent(content[u].channels[c])
          /\ IsReadings(Window(content[u].channels[c]))
          /\ Window(content[u].channels[c]) # {}
    BY SeriesIs
  <2> QED
    BY <2>1, WindowIs DEF HandlerInv
<1>2. /\ data \in Seq(W) /\ n \in Nat \ {0}
      /\ ToSet(data) = W
      /\ \A i, j \in DOMAIN data :
           i < j => IF request.ascending THEN data[i].at < data[j].at
                                         ELSE data[i].at > data[j].at
  BY <1>1, SeriesInOrder
<1>3. Series(e).data = data
  BY DEF Series
<1>4. /\ Series(e).start =
           IF request.ascending THEN data[1].at ELSE data[n].at
      /\ Series(e).end =
           IF request.ascending THEN data[n].at ELSE data[1].at
  BY DEF Series, Last
<1> HIDE DEF data, n
<1>5. DOMAIN data = 1..n /\ \A i \in 1..n : data[i] \in W
  BY <1>2 DEF n
<1>6. \A i \in 1..n : data[i].at \in Nat
  BY <1>1, <1>5 DEF IsReadings
<1>7. 1 \in 1..n /\ n \in 1..n
  BY <1>2
<1>8. ASSUME NEW o \in W
      PROVE  Series(e).start <= o.at /\ o.at <= Series(e).end
  <2>1. PICK i \in 1..n : o = data[i]
    BY <1>2, <1>5 DEF ToSet
  <2>2. i = 1 \/ 1 < i
    BY <1>2
  <2>3. i = n \/ i < n
    BY <1>2
  <2>4. CASE request.ascending
    <3>1. data[1].at <= data[i].at
      BY <1>2, <1>5, <1>6, <1>7, <2>2, <2>4
    <3>2. data[i].at <= data[n].at
      BY <1>2, <1>5, <1>6, <1>7, <2>3, <2>4
    <3> QED
      BY <1>4, <2>1, <2>4, <3>1, <3>2
  <2>5. CASE ~ request.ascending
    <3>1. data[1].at >= data[i].at
      BY <1>2, <1>5, <1>6, <1>7, <2>2, <2>5
    <3>2. data[i].at >= data[n].at
      BY <1>2, <1>5, <1>6, <1>7, <2>3, <2>5
    <3>3. /\ data[1].at \in Nat /\ data[i].at \in Nat /\ data[n].at \in Nat
      BY <1>6, <1>7
    <3>4. data[n].at <= data[i].at /\ data[i].at <= data[1].at
      BY <3>1, <3>2, <3>3
    <3> QED
      BY <1>4, <2>1, <2>5, <3>4
  <2> QED
    BY <2>4, <2>5
<1>9. {Series(e).start, Series(e).end} \subseteq {o.at : o \in W}
  BY <1>4, <1>5, <1>7
<1> QED
  BY <1>2, <1>3, <1>8, <1>9

LEMMA SentInOrder == HandlerInv => InOrder
<1> SUFFICES ASSUME HandlerInv, pc = "sent"
             PROVE  InOrder
  BY DEF InOrder
<1>1. response.series = [e \in Entries |-> Series(e)]
  BY DEF HandlerInv, Response
<1> QED
  BY <1>1, DatesInOrder DEF InOrder

-----------------------------------------------------------------------------
(* Explained *)

LEMMA CodesDiffer ==
  ASSUME NEW i, NEW j, VariableCode(i) = VariableCode(j)
  PROVE  Base(i) = Base(j)
BY DEF VariableCode

(* The unit of a channel that the table of units knows. *)
LEMMA KnownUnit ==
  ASSUME NEW channel, Base(channel.id) \in DOMAIN HN4Unit
  PROVE  UnitKey(channel) = HN4Unit[Base(channel.id)]
BY DEF UnitKey

(* Two channels have the same source just when they have the same name. *)
LEMMA SourcesDiffer ==
  ASSUME NEW c, NEW d, SourceID(c) # NoSource
  PROVE  SourceID(c) = SourceID(d) <=> Base(c.id) = Base(d.id)
BY TimeseriesAssumption DEF SourceID

LEMMA EntryExplained ==
  ASSUME HandlerInv, NEW e \in Entries
  PROVE  LET s == Series(e)
             r == Response
             unit == r.variables[s.variable]
         IN  /\ s.location \in r.locations
             /\ s.variable \in DOMAIN r.variables
             /\ unit # NoUnit => unit \in r.units
             /\ s.source # NoSource =>
                  /\ s.source \in DOMAIN r.sources
                  /\ r.sources[s.source] = unit
             /\ Last(s.variable) \in DOMAIN HN4Unit =>
                  unit = HN4Unit[Last(s.variable)]
<1> DEFINE s == Series(e)
           r == Response
           V == {f \in Entries : VariableOf(f) = VariableOf(e)}
           S == {f \in Entries : SourceOf(f) = SourceOf(e)}
<1>1. /\ s.location = Base(things[e[1]].id)
      /\ s.variable = VariableOf(e) /\ s.source = SourceOf(e)
  BY DEF Series
<1>2. /\ r.locations = {Base(things[t].id) : t \in DOMAIN things}
      /\ r.units = {UnitKey(ChannelOf(f)) : f \in Entries} \ {NoUnit}
      /\ DOMAIN r.variables = {VariableOf(f) : f \in Entries}
      /\ r.variables[VariableOf(e)] = UnitOf(V)
      /\ DOMAIN r.sources = {SourceOf(f) : f \in Entries} \ {NoSource}
      /\ SourceOf(e) # NoSource => r.sources[SourceOf(e)] = UnitOf(S)
  BY DEF Response
<1> HIDE DEF s, r
<1>3. e[1] \in DOMAIN things
  BY DEF Entries
<1>4. PICK f \in Entries :
        /\ f = FirstOf(V) /\ VariableOf(f) = VariableOf(e)
        /\ UnitOf(V) = UnitKey(ChannelOf(f))
  <2>1. V \in SUBSET Entries /\ V # {}
    OBVIOUS
  <2>2. FirstOf(V) \in V
    <3> HIDE DEF V
    <3> QED
      BY <2>1, FirstIsOne
  <2> QED
    BY <2>2 DEF UnitOf
<1>5. ASSUME SourceOf(e) # NoSource
      PROVE  S = V
  <2>1. ASSUME NEW g \in Entries
        PROVE  SourceOf(g) = SourceOf(e) <=> VariableOf(g) = VariableOf(e)
    <3>1. SourceOf(e) = SourceOf(g) <=>
            Base(ChannelOf(e).id) = Base(ChannelOf(g).id)
      BY <1>5, SourcesDiffer DEF SourceOf
    <3>2. VariableOf(g) = VariableOf(e) <=>
            Base(ChannelOf(e).id) = Base(ChannelOf(g).id)
      BY CodesDiffer DEF VariableOf, VariableCode
    <3> QED
      BY <3>1, <3>2
  <2> QED
    BY <2>1
<1>6. ASSUME Last(VariableOf(e)) \in DOMAIN HN4Unit
      PROVE  UnitOf(V) = HN4Unit[Last(VariableOf(e))]
  <2>1. Last(VariableOf(e)) = Base(ChannelOf(e).id)
    BY DEF VariableOf, VariableCode, Last
  <2>2. Base(ChannelOf(f).id) = Base(ChannelOf(e).id)
    BY <1>4, CodesDiffer DEF VariableOf
  <2> QED
    BY <1>4, <1>6, <2>1, <2>2, KnownUnit
<1>7. UnitOf(V) # NoUnit => UnitOf(V) \in r.units
  BY <1>2, <1>4
<1> HIDE DEF V, S
<1> QED
  BY <1>1, <1>2, <1>3, <1>5, <1>6, <1>7 DEF s, r

LEMMA SentExplained == HandlerInv => Explained
<1> SUFFICES ASSUME HandlerInv, pc = "sent"
             PROVE  Explained
  BY DEF Explained
<1>1. response = Response
  BY DEF HandlerInv
<1>2. Response.series = [e \in Entries |-> Series(e)]
  BY DEF Response
<1> QED
  BY <1>1, <1>2, EntryExplained DEF Explained
-----------------------------------------------------------------------------
(* Complete *)

LEMMA PairedWith ==
  ASSUME NEW S, NEW c, IsFiniteSet(S)
  PROVE  Cardinality({<<t, c>> : t \in S}) = Cardinality(S)
<1> DEFINE P == {<<t, c>> : t \in S}
           f == [t \in S |-> <<t, c>>]
<1>1. f \in [S -> P]
  OBVIOUS
<1>2. \A a, b \in S : f[a] = f[b] => a = b
  OBVIOUS
<1>3. \A y \in P : \E a \in S : f[a] = y
  OBVIOUS
<1>4. IsInjective(f)
  BY <1>2 DEF IsInjective
<1> HIDE DEF P, f
<1>5. f \in Bijection(S, P)
  BY <1>1, <1>3, <1>4 DEF Bijection, Injection, Surjection
<1> QED
  BY <1>5, FS_Bijection DEF ExistsBijection, P

(* The names of the channels of a thing differ: what a client means by a   *)
(* thing and a variable is what one channel has between the two dates.     *)
LEMMA ReadingsIs ==
  ASSUME content \in Contents, NEW u \in UIDs,
         NEW c \in DOMAIN content[u].channels
  PROVE  Readings(u, VariableCode(content[u].channels[c].id)) =
           Window(content[u].channels[c])
<1> DEFINE channels == content[u].channels
           v == VariableCode(channels[c].id)
<1>1. \A d \in DOMAIN channels :
        VariableCode(channels[d].id) = v => d = c
  BY ContentsAssumption, CodesDiffer
<1>2. {d \in ToSet(channels) : VariableCode(d.id) = v} = {channels[c]}
  BY <1>1 DEF ToSet
<1>3. UNION {d.readings : d \in {channels[c]}} = channels[c].readings
  OBVIOUS
<1> HIDE DEF channels, v
<1>4. Readings(u, v) = {o \in channels[c].readings :
                          o.at \in request.start..request.end}
  BY <1>2, <1>3 DEF Readings, channels
<1> QED
  BY <1>4 DEF Window, InInterval, channels, v

(* The series of a thing and a variable are those of one channel, in each  *)
(* of the things of this uid that were received.                           *)
LEMMA SeriesFound ==
  ASSUME HandlerInv, NEW u \in UIDs, NEW c \in DOMAIN content[u].channels
  PROVE  LET v == VariableCode(content[u].channels[c].id) IN
         {e \in Entries : Series(e).location = u /\ Series(e).variable = v} =
           IF v \in ToSet(request.variables) /\ Readings(u, v) # {}
             THEN {<<t, c>> : t \in ReceivedAt(u)} ELSE {}
<1> DEFINE channel == content[u].channels[c]
           v == VariableCode(channel.id)
           found == {e \in Entries :
                       Series(e).location = u /\ Series(e).variable = v}
           asked == v \in ToSet(request.variables) /\ Readings(u, v) # {}
<1>1. Readings(u, v) = Window(channel)
  BY ReadingsIs DEF HandlerInv
<1>2. ASSUME NEW e \in found
      PROVE  asked /\ e \in {<<t, c>> : t \in ReceivedAt(u)}
  <2>1. PICK w \in UIDs : \E d \in DOMAIN content[w].channels :
          LET other == content[w].channels[d] IN
             /\ things[e[1]] = Answer(w) /\ e[2] = d
             /\ Series(e).location = w
             /\ Series(e).variable = VariableCode(other.id)
             /\ VariableCode(other.id) \in ToSet(request.variables)
             /\ Window(other) # {}
    BY SeriesIs
  <2>2. w = u
    BY <2>1
  <2>3. PICK d \in DOMAIN content[u].channels :
          LET other == content[u].channels[d] IN
             /\ things[e[1]] = Answer(u) /\ e[2] = d
             /\ VariableCode(other.id) = v
             /\ VariableCode(other.id) \in ToSet(request.variables)
             /\ Window(other) # {}
    BY <2>1, <2>2
  <2>4. d = c
    BY <2>3, ContentsAssumption, CodesDiffer DEF HandlerInv
  <2>5. \E t \in DOMAIN things : \E x : e = <<t, x>>
    BY DEF Entries
  <2>6. e = <<e[1], c>> /\ e[1] \in DOMAIN things
    BY <2>3, <2>4, <2>5
  <2>7. e[1] \in ReceivedAt(u)
    BY <2>3, <2>6 DEF ReceivedAt
  <2>8. asked
    BY <1>1, <2>3, <2>4
  <2> QED
    BY <2>6, <2>7, <2>8
<1>3. ASSUME asked, NEW t \in ReceivedAt(u)
      PROVE  <<t, c>> \in found
  <2>1. /\ t \in DOMAIN things /\ things[t] = Answer(u)
        /\ DOMAIN things[t].channels = DOMAIN content[u].channels
        /\ things[t].channels[c] = Sent(channel)
        /\ things[t].id = content[u].id
    BY DEF ReceivedAt, Answer
  <2>2. /\ IsReadings(Window(channel))
        /\ Sent(channel).id = channel.id
        /\ Sent(channel).observations = LatestFirst(Window(channel))
    BY WindowIs DEF HandlerInv
  <2>3. IsRequested(Sent(channel))
    BY <1>1, <1>3, <2>2, LatestFirstIs DEF IsRequested
  <2>4. <<t, c>> \in Entries
    BY <2>1, <2>3 DEF Entries
  <2>5. ChannelOf(<<t, c>>).id = channel.id
    BY <2>1, <2>2 DEF ChannelOf
  <2>6. /\ Series(<<t, c>>).location = Base(things[t].id)
        /\ Series(<<t, c>>).variable = v
    BY <2>5 DEF Series, VariableOf
  <2>7. Base(things[t].id) = u
    BY <2>1, ContentsAssumption DEF HandlerInv
  <2> QED
    BY <2>4, <2>6, <2>7
<1> HIDE DEF found, asked
<1>4. found = IF asked THEN {<<t, c>> : t \in ReceivedAt(u)} ELSE {}
  <2>1. CASE asked
    <3>1. \A e \in {<<t, c>> : t \in ReceivedAt(u)} : e \in found
      BY <1>3, <2>1
    <3> QED
      BY <1>2, <2>1, <3>1
  <2>2. CASE ~ asked
    BY <1>2, <2>2
  <2> QED
    BY <2>1, <2>2
<1> QED
  BY <1>4 DEF found, asked

LEMMA SentComplete == HandlerInv => Complete
<1> SUFFICES ASSUME HandlerInv, pc = "sent",
                    NEW u \in UIDs, NEW channel \in ToSet(content[u].channels)
             PROVE  LET v == VariableCode(channel.id)
                        found == {s \in DOMAIN response.series :
                                    /\ response.series[s].location = u
                                    /\ response.series[s].variable = v}
                    IN  /\ Cardinality(found) =
                             IF /\ v \in ToSet(request.variables)
                                /\ Readings(u, v) # {}
                               THEN Cardinality(
                                      {k \in DOMAIN request.locations :
                                         request.locations[k] = u})
                               ELSE 0
                        /\ \A s \in found :
                             ToSet(response.series[s].data) = Readings(u, v)
  BY DEF Complete
<1>1. PICK c \in DOMAIN content[u].channels : channel = content[u].channels[c]
  BY DEF ToSet
<1> DEFINE v == VariableCode(channel.id)
           found == {e \in Entries :
                       Series(e).location = u /\ Series(e).variable = v}
           asked == v \in ToSet(request.variables) /\ Readings(u, v) # {}
<1>2. response.series = [e \in Entries |-> Series(e)]
  BY DEF HandlerInv, Response
<1>3. found = IF asked THEN {<<t, c>> : t \in ReceivedAt(u)} ELSE {}
  BY <1>1, SeriesFound
<1>4. /\ IsFiniteSet(ReceivedAt(u))
      /\ Cardinality(ReceivedAt(u)) = Cardinality(CollectedAt(u))
      /\ CollectedAt(u) = {k \in DOMAIN request.locations :
                             request.locations[k] = u}
  BY DEF HandlerInv, Received, CollectedAt
<1>5. Cardinality(found) =
        IF asked THEN Cardinality({k \in DOMAIN request.locations :
                                     request.locations[k] = u})
                 ELSE 0
  <2> HIDE DEF found, asked
  <2>1. CASE asked
    <3>1. Cardinality({<<t, c>> : t \in ReceivedAt(u)}) =
            Cardinality(ReceivedAt(u))
      BY <1>4, PairedWith
    <3> QED
      BY <1>3, <1>4, <2>1, <3>1
  <2>2. CASE ~ asked
    BY <1>3, <2>2, FS_EmptySet
  <2> QED
    BY <2>1, <2>2
<1>6. ASSUME NEW e \in found
      PROVE  ToSet(Series(e).data) = Readings(u, v)
  <2>1. e = <<e[1], c>> /\ e[1] \in ReceivedAt(u)
    BY <1>3
  <2>2. ChannelOf(e) = Sent(channel)
    BY <1>1, <2>1 DEF ChannelOf, ReceivedAt, Answer
  <2>3. /\ IsReadings(Window(channel))
        /\ ChannelOf(e).observations = LatestFirst(Window(channel))
    BY <1>1, <2>2, WindowIs DEF HandlerInv
  <2>4. Readings(u, v) = Window(channel)
    BY <1>1, ReadingsIs DEF HandlerInv
  <2>5. Window(channel) # {}
    BY <1>3, <2>4
  <2>6. ToSet(Observations(ChannelOf(e))) = Window(channel)
    BY <2>3, <2>5, SeriesInOrder
  <2> QED
    BY <2>4, <2>6 DEF Series
<1>7. found = {s \in DOMAIN response.series :
                 /\ response.series[s].location = u
                 /\ response.series[s].variable = v}
  BY <1>2
<1>8. \A s \in found : response.series[s].data = Series(s).data
  BY <1>2
<1> HIDE DEF found, asked
<1> QED
  BY <1>5, <1>6, <1>7, <1>8 DEF asked

-----------------------------------------------------------------------------
(* The theorems *)

(* As many things of every uid are received as were collected of it        *)
(* (GetData, timeseriesHandler), and the answer is built from them all.    *)
THEOREM HandlerInvariant == Spec => []HandlerInv
<1>1. Init => HandlerInv
  BY HandlerInvInit
<1>2. HandlerInv /\ [Next]_vars => HandlerInv'
  BY HandlerInvNext
<1> QED
  BY <1>1, <1>2, PTL DEF Spec

(* A successful answer has the readings of every pair of thing and         *)
(* variable asked for, once for each time the thing was named, and no      *)
(* others (buildResponse), in whichever order the things came, for any     *)
(* request and any content of Thingful.                                    *)
THEOREM AnswerIsComplete == Spec => []Complete
BY HandlerInvariant, SentComplete, PTL

(* The readings of every series are in the order asked for, and its dates  *)
(* are those of the earliest and the latest (buildObservations).           *)
THEOREM AnswerIsInOrder == Spec => []InOrder
BY HandlerInvariant, SentInOrder, PTL

(* Every code in the answer is explained in it, by a unit that does not    *)
(* depend on the order of arrival if the table of units knows the channel  *)
(* (getUnitKey, unitToHN4, getDatasource).                                 *)
THEOREM AnswerIsExplained == Spec => []Explained
BY HandlerInvariant, SentExplained, PTL

(* An answer fails for a value only if the value was asked for             *)
(* (buildObservations is called behind isPresent).                         *)
THEOREM OnlyRequestedValuesFail == Spec => []OnlyRequestedFail
BY HandlerInvariant, BadValueRequested, PTL
=============================================================================
