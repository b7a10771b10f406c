------------------------- MODULE RateLimiterProofs -------------------------
(***************************************************************************)
(* What holds of the rate limiter for any number of applications and       *)
(* requests, any rates, and any expiry of at least two seconds.            *)
(*                                                                         *)
(* BucketsInv says who can take tokens from which bucket: a request holds  *)
(* one only from the lookup to the verdict, in one second, and no two      *)
(* applications share any.  FairShare is not inductive.  ShareInv adds the *)
(* tokens that can still be taken to the requests that have passed, and    *)
(* says of an entry what it was owed when it was last seen, because that,  *)
(* and not what its bucket has, is what its removal may give away.         *)
(* UsedInv says of every bucket since when it accounts for what is missing *)
(* from it.                                                                *)
(***************************************************************************)
EXTENDS RateLimiter, FiniteSetTheorems, WellFoundedInduction, TLAPS

-----------------------------------------------------------------------------
(* Least and greatest numbers, and new buckets *)

(* A set of natural numbers has a least one ... *)
LEMMA LeastNatural ==
  ASSUME NEW S \in SUBSET Nat, S # {}
  PROVE  \E x \in S : \A y \in S : x <= y
<1>1. PICK x \in S : \A y \in S : ~ (<<y, x>> \in OpToRel(<, Nat))
  BY NatLessThanWellFounded, WFMin
<1>2. \A y \in S : ~ (y < x)
  BY <1>1 DEF OpToRel
<1> QED
  BY <1>2

LEMMA MinInSet ==
  ASSUME NEW S \in SUBSET Nat, S # {}
  PROVE  Min(S) \in S /\ \A y \in S : Min(S) <= y
BY LeastNatural DEF Min

(* ... and a greatest one if it is finite: the one with the fewest above.  *)
LEMMA MaxInSet ==
  ASSUME NEW S \in SUBSET Nat, S # {}, IsFiniteSet(S)
  PROVE  Max(S) \in S /\ \A y \in S : Max(S) >= y
<1> DEFINE Above(x) == {y \in S : y > x}
           Counts == {Cardinality(Above(x)) : x \in S}
<1>1. \A x \in S : IsFiniteSet(Above(x)) /\ Cardinality(Above(x)) \in Nat
  BY FS_Subset, FS_CardinalityType
<1>2. PICK c \in Counts : \A d \in Counts : c <= d
  <2>1. Counts \in SUBSET Nat /\ Counts # {}
    BY <1>1
  <2> HIDE DEF Counts
  <2> QED
    BY <2>1, LeastNatural
<1>3. PICK x \in S : c = Cardinality(Above(x))
  OBVIOUS
<1>4. ASSUME NEW y \in S, y > x
      PROVE  FALSE
  <2>1. Above(y) \subseteq Above(x) /\ y \in Above(x) /\ y \notin Above(y)
    <3>1. \A z \in S : z > y => z > x
      BY <1>4
    <3>2. ~ (y > y)
      OBVIOUS
    <3> QED
      BY <1>4, <3>1, <3>2
  <2>2. /\ Cardinality(Above(y)) <= Cardinality(Above(x))
        /\ Cardinality(Above(y)) # Cardinality(Above(x))
    <3> HIDE DEF Above
    <3> QED
      BY <1>1, <2>1, FS_Subset
  <2>3. c <= Cardinality(Above(y))
    BY <1>2
  <2>4. /\ Cardinality(Above(x)) \in Nat
        /\ Cardinality(Above(y)) \in Nat
    BY <1>1
  <2> HIDE DEF Above
  <2> QED
    BY <1>3, <2>2, <2>3, <2>4
<1>5. \E z \in S : \A y \in S : z >= y
  BY <1>4
<1> QED
  BY <1>5 DEF Max

(* NewLimiter always makes a new bucket: those in use are no more than the *)
(* entries and the requests.                                               *)
LEMMA SomeUnused ==
  ASSUME DOMAIN visitors \subseteq Visitors
  PROVE  Unused # {}
<1> DEFINE E == {visitors[u].limiter : u \in DOMAIN visitors}
           H == {limiter[r] : r \in Requests}
           f == [u \in DOMAIN visitors |-> visitors[u].limiter]
           g == [r \in Requests |-> limiter[r]]
<1>1. IsFiniteSet(E) /\ Cardinality(E) <= Cardinality(Visitors)
  <2>1. IsFiniteSet(DOMAIN visitors)
    BY FS_Subset, RateLimiterAssumption
  <2>2. Cardinality(DOMAIN visitors) <= Cardinality(Visitors)
    BY FS_Subset, RateLimiterAssumption
  <2>3. f \in Surjection(DOMAIN visitors, E)
    BY DEF Surjection
  <2> HIDE DEF f, E
  <2>4. IsFiniteSet(E) /\ Cardinality(E) <= Cardinality(DOMAIN visitors)
    BY <2>1, <2>3, FS_Surjection
  <2> QED
    BY <2>1, <2>2, <2>4, FS_CardinalityType, RateLimiterAssumption
<1>2. IsFiniteSet(H) /\ Cardinality(H) <= Cardinality(Requests)
  <2>1. g \in Surjection(Requests, H)
    BY DEF Surjection
  <2> HIDE DEF g, H
  <2> QED
    BY <2>1, FS_Surjection, RateLimiterAssumption
<1>3. Unused = Limiters \ (E \union H)
  BY DEF Unused
<1> HIDE DEF E, H
<1>4. /\ IsFiniteSet(E \union H)
      /\ Cardinality(E \union H) <= Cardinality(E) + Cardinality(H)
  <2>1. /\ IsFiniteSet(E \union H)
        /\ Cardinality(E \union H) =
             Cardinality(E) + Cardinality(H) - Cardinality(E \intersect H)
    BY <1>1, <1>2, FS_Union
  <2>2. Cardinality(E \intersect H) \in Nat
    BY <1>1, FS_Intersection, FS_CardinalityType
  <2>3. Cardinality(E) \in Nat /\ Cardinality(H) \in Nat
    BY <1>1, <1>2, FS_CardinalityType
  <2> QED
    BY <2>1, <2>2, <2>3
<1>5. ASSUME Unused = {}
      PROVE  FALSE
  <2>1. Limiters \subseteq E \union H
    BY <1>3, <1>5
  <2>2. Cardinality(Limiters) <= Cardinality(E \union H)
    BY <1>4, <2>1, FS_Subset
  <2> QED
    BY <1>1, <1>2, <1>4, <2>2, FS_CardinalityType, RateLimiterAssumption
<1> QED
  BY <1>5

-----------------------------------------------------------------------------
(* A request holds a bucket from the lookup to the verdict, in one second. *)
Passage ==
  \A r \in Requests :
    /\ pc[r] # "idle" => uid[r] \in Visitors /\ rate[r] \in granted[uid[r]]
    /\ IF pc[r] = "allow"
         THEN /\ limiter[r] \in Limiters
              /\ uid[r] \in DOMAIN visitors
              /\ visitors[uid[r]].lastSeen = now
         ELSE limiter[r] = None

(* The buckets that requests of u take tokens from ... *)
BucketsOf(u) ==
  {l \in Limiters : \/ u \in DOMAIN visitors /\ visitors[u].limiter = l
                    \/ \E r \in Requests : uid[r] = u /\ limiter[r] = l}

(* ... are theirs alone, and have a rate that u has had. *)
BucketsApart ==
  /\ \A u \in Visitors : \A l \in BucketsOf(u) : buckets[l].rate \in granted[u]
  /\ \A u, v \in Visitors : u # v => BucketsOf(u) \intersect BucketsOf(v) = {}

(* How many requests have passed does not change after the last was seen.  *)
Counted ==
  \A u \in Visitors : \A t \in 0..MaxNow :
    /\ t <= now => admitted[u][t] <= admitted[u][now]
    /\ t >= now => admitted[u][t] = admitted[u][now]
    /\ (u \in DOMAIN visitors /\ t >= visitors[u].lastSeen) =>
         admitted[u][t] = admitted[u][now]

BucketsInv == TypeOK /\ Passage /\ BucketsApart /\ Counted

LEMMA BucketsInvInit == Init => BucketsInv
<1> SUFFICES ASSUME Init PROVE BucketsInv
  OBVIOUS
<1>1. TypeOK
  BY RateLimiterAssumption DEF Init, TypeOK, NoBucket, Burst
<1>2. Passage
  BY DEF Init, Passage
<1>3. \A u \in Visitors : BucketsOf(u) = {}
  BY RateLimiterAssumption DEF Init, BucketsOf
<1>4. BucketsApart
  BY <1>3 DEF BucketsApart
<1>5. Counted
  BY RateLimiterAssumption DEF Init, Counted
<1> QED
  BY <1>1, <1>2, <1>4, <1>5 DEF BucketsInv

(* Whom the buckets belong to changes in AddVisitor only. *)
LEMMA SameOwners ==
  ASSUME BucketsApart,
         \A u \in Visitors :
           /\ BucketsOf(u)' \subseteq BucketsOf(u)
           /\ granted[u] \subseteq granted'[u],
         \A u \in Visitors : \A l \in BucketsOf(u) :
           buckets'[l].rate = buckets[l].rate
  PROVE  BucketsApart'
BY DEF BucketsApart

(* What nobody has in use belongs to nobody. *)
LEMMA InUse ==
  ASSUME NEW u, NEW l \in BucketsOf(u)
  PROVE  l \in Limiters \ Unused
BY DEF BucketsOf, Unused

(* A second later a bucket is full, or has as many tokens more as its rate. *)
LEMMA RefilledType ==
  ASSUME NEW b \in [rate : Rates \union {0}, tokens : Nat]
  PROVE  /\ Refilled(b) \in [rate : Rates \union {0}, tokens : Nat]
         /\ Refilled(b).rate = b.rate
         /\ Refilled(b).tokens <= Burst(b.rate)
         /\ \/ Refilled(b).tokens = b.tokens + b.rate
            \/ Refilled(b).tokens = Burst(b.rate)
         /\ Refilled(b).tokens <= b.tokens + b.rate
         /\ b.rate \in Nat /\ Burst(b.rate) \in Nat
<1>1. /\ b.rate \in Nat /\ b.rate \in Rates \union {0}
      /\ b.tokens \in Nat
      /\ Burst(b.rate) \in Nat
  <2>1. b.rate \in Rates \union {0} /\ b.tokens \in Nat
    OBVIOUS
  <2>2. Rates \union {0} \subseteq Nat
    BY RateLimiterAssumption
  <2>3. b.rate \in Nat
    BY <2>1, <2>2
  <2> QED
    BY <2>1, <2>3 DEF Burst
<1>2. b = [rate |-> b.rate, tokens |-> b.tokens]
  OBVIOUS
<1>3. Refilled(b) = [rate |-> b.rate,
                     tokens |-> IF b.tokens + b.rate < Burst(b.rate)
                                  THEN b.tokens + b.rate ELSE Burst(b.rate)]
  BY <1>2 DEF Refilled
<1> QED
  BY <1>1, <1>3

LEMMA TickBuckets ==
  ASSUME BucketsInv, Tick
  PROVE  /\ BucketsInv'
         /\ \A u \in Visitors :
              /\ BucketsOf(u)' = BucketsOf(u)
              /\ BucketsOf(u) = IF u \in DOMAIN visitors
                                  THEN {visitors[u].limiter} ELSE {}
         /\ \A u \in Visitors : \A l \in BucketsOf(u) :
              buckets'[l] = Refilled(buckets[l])
<1>1. /\ now \in 0..MaxNow /\ now' = now + 1 /\ now' \in 0..MaxNow
      /\ UNCHANGED <<visitors, pc, uid, rate, limiter,
                     admitted, replaced, granted>>
      /\ buckets' = [l \in Limiters |-> IF l \in Unused THEN NoBucket
                                        ELSE Refilled(buckets[l])]
  BY RateLimiterAssumption DEF Tick, BucketsInv, TypeOK, context, histories
<1>2. ASSUME NEW l \in Limiters
      PROVE  /\ Refilled(buckets[l]) \in
                  [rate : Rates \union {0}, tokens : Nat]
             /\ Refilled(buckets[l]).rate = buckets[l].rate
             /\ Refilled(buckets[l]).tokens <= Burst(buckets[l].rate)
  BY RefilledType DEF BucketsInv, TypeOK
<1>3. NoBucket \in [rate : Rates \union {0}, tokens : Nat]
      /\ NoBucket.tokens <= Burst(NoBucket.rate)
  BY DEF NoBucket, Burst
<1>4. /\ buckets' \in [Limiters -> [rate : Rates \union {0}, tokens : Nat]]
      /\ \A l \in Limiters : buckets'[l].tokens <= Burst(buckets'[l].rate)
  BY <1>1, <1>2, <1>3
<1>5. TypeOK'
  <2>1. \A u \in DOMAIN visitors :
          visitors[u] \in [limiter : Limiters, lastSeen : 0..now']
    BY <1>1 DEF BucketsInv, TypeOK
  <2> QED
    BY <1>1, <1>4, <2>1 DEF BucketsInv, TypeOK
<1>6. \A r \in Requests : pc[r] = "idle" /\ limiter[r] = None
  BY DEF Tick, BucketsInv, Passage
<1>7. Passage'
  BY <1>1, <1>6 DEF Passage
<1>8. ASSUME NEW u \in Visitors
      PROVE  /\ BucketsOf(u)' = BucketsOf(u)
             /\ BucketsOf(u) = IF u \in DOMAIN visitors
                                 THEN {visitors[u].limiter} ELSE {}
  BY <1>1, <1>6, RateLimiterAssumption DEF BucketsOf, BucketsInv, TypeOK
<1>9. ASSUME NEW u \in Visitors, NEW l \in BucketsOf(u)
      PROVE  buckets'[l] = Refilled(buckets[l])
  BY <1>1, InUse
<1>10. BucketsApart'
  <2>1. \A u \in Visitors : \A l \in BucketsOf(u) :
          buckets'[l].rate = buckets[l].rate
    BY <1>2, <1>9, InUse
  <2> QED
    BY <1>1, <1>8, <2>1, SameOwners DEF BucketsInv
<1>11. Counted'
  <2> SUFFICES ASSUME NEW u \in Visitors, NEW t \in 0..MaxNow
               PROVE  /\ t <= now' => admitted[u][t] <= admitted[u][now']
                      /\ t >= now' => admitted[u][t] = admitted[u][now']
                      /\ (u \in DOMAIN visitors /\ t >= visitors[u].lastSeen)
                           => admitted[u][t] = admitted[u][now']
    BY <1>1 DEF Counted
  <2>1. /\ admitted[u][now'] = admitted[u][now]
        /\ admitted[u][now] \in Nat
    <3>1. admitted[u] \in [0..MaxNow -> Nat]
      BY DEF BucketsInv, TypeOK
    <3>2. now' >= now
      BY <1>1
    <3> QED
      BY <1>1, <3>1, <3>2 DEF BucketsInv, Counted
  <2>2. t <= now' => t <= now \/ t = now'
    BY <1>1
  <2>3. t >= now' => t >= now
    BY <1>1
  <2> QED
    BY <2>1, <2>2, <2>3 DEF BucketsInv, Counted
<1> QED
  BY <1>5, <1>7, <1>8, <1>9, <1>10, <1>11 DEF BucketsInv

(* Buckets are the same, and in use by no more. *)
Narrowed ==
  /\ UNCHANGED <<now, buckets, admitted, replaced>>
  /\ \A u \in Visitors : /\ BucketsOf(u)' \subseteq BucketsOf(u)
                         /\ granted[u] \subseteq granted'[u]

LEMMA NarrowedApart ==
  ASSUME BucketsInv, Narrowed
  PROVE  BucketsApart'
BY SameOwners DEF BucketsInv, Narrowed

LEMMA ArriveBuckets ==
  ASSUME BucketsInv, NEW r \in Requests, Arrive(r)
  PROVE  BucketsInv' /\ Narrowed /\ UNCHANGED visitors
<1>1. PICK u \in Visitors, q \in Rates : ArriveFrom(r, u, q)
  BY DEF Arrive
<1>2. /\ UNCHANGED <<now, visitors, buckets, limiter, admitted, replaced>>
      /\ pc[r] = "idle" /\ limiter[r] = None
      /\ pc' = [pc EXCEPT ![r] = "lookup"]
      /\ uid' = [uid EXCEPT ![r] = u]
      /\ rate' = [rate EXCEPT ![r] = q]
      /\ granted' = [granted EXCEPT ![u] = @ \union {q}]
  BY <1>1 DEF ArriveFrom, BucketsInv, Passage
<1>3. TypeOK'
  BY <1>2 DEF BucketsInv, TypeOK
<1>4. \A v \in Visitors : granted[v] \subseteq granted'[v]
  BY <1>2 DEF BucketsInv, TypeOK
<1>5. \A v \in Visitors : BucketsOf(v)' \subseteq BucketsOf(v)
  BY <1>2, RateLimiterAssumption DEF BucketsOf, BucketsInv, TypeOK
<1>6. Passage'
  <2> SUFFICES ASSUME NEW s \in Requests
               PROVE  /\ pc'[s] # "idle" => /\ uid'[s] \in Visitors
                                            /\ rate'[s] \in granted'[uid'[s]]
                      /\ IF pc'[s] = "allow"
                           THEN /\ limiter[s] \in Limiters
                                /\ uid'[s] \in DOMAIN visitors
                                /\ visitors[uid'[s]].lastSeen = now
                           ELSE limiter[s] = None
    BY <1>2 DEF Passage
  <2>1. CASE s = r
    BY <1>2, <2>1 DEF BucketsInv, TypeOK
  <2>2. CASE s # r
    BY <1>2, <1>4, <2>2 DEF BucketsInv, TypeOK, Passage
  <2> QED
    BY <2>1, <2>2
<1>7. Counted'
  BY <1>2 DEF BucketsInv, Counted
<1>8. Narrowed
  BY <1>2, <1>4, <1>5 DEF Narrowed
<1> QED
  BY <1>2, <1>3, <1>6, <1>7, <1>8, NarrowedApart DEF BucketsInv

LEMMA FoundBuckets ==
  ASSUME BucketsInv, NEW r \in Requests, Found(r)
  PROVE  /\ BucketsInv' /\ Narrowed
         /\ DOMAIN visitors' = DOMAIN visitors
         /\ \A u \in DOMAIN visitors :
              visitors'[u].lastSeen \in {visitors[u].lastSeen, now}
<1> DEFINE u == uid[r]
           l == visitors[u].limiter
<1>1. /\ UNCHANGED <<now, buckets, uid, rate, admitted, replaced, granted>>
      /\ pc[r] = "lookup" /\ u \in DOMAIN visitors /\ u \in Visitors
      /\ visitors' = [visitors EXCEPT ![u].lastSeen = now]
      /\ limiter' = [limiter EXCEPT ![r] = l]
      /\ pc' = [pc EXCEPT ![r] = "allow"]
      /\ visitors[u] \in [limiter : Limiters, lastSeen : 0..now]
      /\ now \in 0..MaxNow
  BY DEF Found, BucketsInv, TypeOK, context, histories
<1> HIDE DEF u
<1>2. /\ DOMAIN visitors' = DOMAIN visitors
      /\ visitors'[u].lastSeen = now
      /\ visitors'[u] \in [limiter : Limiters, lastSeen : 0..now]
      /\ \A v \in DOMAIN visitors : v # u => visitors'[v] = visitors[v]
      /\ \A v \in DOMAIN visitors : visitors'[v].limiter = visitors[v].limiter
  <2>1. visitors'[u] = [visitors[u] EXCEPT !.lastSeen = now]
    BY <1>1
  <2>2. now \in 0..now
    BY <1>1, RateLimiterAssumption
  <2> QED
    BY <1>1, <2>1, <2>2
<1>3. /\ l \in Limiters /\ limiter'[r] = l /\ uid[r] = u
      /\ \A s \in Requests : s # r => limiter'[s] = limiter[s]
      /\ limiter' \in [Requests -> Limiters \union {None}]
  BY <1>1 DEF BucketsInv, TypeOK, u
<1> HIDE DEF l
<1>4. TypeOK'
  <2>1. \A v \in DOMAIN visitors' :
          visitors'[v] \in [limiter : Limiters, lastSeen : 0..now]
    BY <1>2 DEF BucketsInv, TypeOK
  <2> QED
    BY <1>1, <1>2, <1>3, <2>1 DEF BucketsInv, TypeOK
<1>5. Passage'
  <2> SUFFICES ASSUME NEW s \in Requests
               PROVE  /\ pc'[s] # "idle" => /\ uid[s] \in Visitors
                                            /\ rate[s] \in granted[uid[s]]
                      /\ IF pc'[s] = "allow"
                           THEN /\ limiter'[s] \in Limiters
                                /\ uid[s] \in DOMAIN visitors
                                /\ visitors'[uid[s]].lastSeen = now
                           ELSE limiter'[s] = None
    BY <1>1, <1>2 DEF Passage
  <2>1. CASE s = r
    BY <1>1, <1>2, <1>3, <2>1 DEF BucketsInv, TypeOK, Passage
  <2>2. CASE s # r
    BY <1>1, <1>2, <1>3, <2>2 DEF BucketsInv, TypeOK, Passage
  <2> QED
    BY <2>1, <2>2
<1>6. \A v \in Visitors : BucketsOf(v)' \subseteq BucketsOf(v)
  BY <1>1, <1>2, <1>3 DEF BucketsOf, l
<1>7. Counted'
  BY <1>1, <1>2 DEF BucketsInv, Counted
<1>8. Narrowed
  BY <1>1, <1>6 DEF Narrowed
<1> QED
  BY <1>2, <1>4, <1>5, <1>7, <1>8, NarrowedApart DEF BucketsInv

(* The request goes on without a bucket, or back. *)
LEMMA ReleaseBuckets ==
  ASSUME BucketsInv, NEW r \in Requests, NotFound(r) \/ Reject(r) \/ Handled(r)
  PROVE  BucketsInv' /\ Narrowed /\ UNCHANGED visitors
<1>1. /\ UNCHANGED <<now, visitors, buckets, admitted, replaced, granted>>
      /\ pc' \in [Requests -> {"idle", "lookup", "insert", "allow", "handler"}]
      /\ uid' \in [Requests -> Visitors \union {None}]
      /\ rate' \in [Requests -> Rates \union {None}]
      /\ limiter' \in [Requests -> Limiters \union {None}]
  BY DEF NotFound, Reject, Handled, Answer, BucketsInv, TypeOK, context,
         histories
<1>2. \A s \in Requests \ {r} : /\ pc'[s] = pc[s]
                                /\ uid'[s] = uid[s]
                                /\ rate'[s] = rate[s]
                                /\ limiter'[s] = limiter[s]
  BY DEF NotFound, Reject, Handled, Answer, BucketsInv, TypeOK, context
<1>3. /\ limiter'[r] = None
      /\ \/ pc'[r] = "insert" /\ pc[r] # "idle"
                              /\ uid'[r] = uid[r] /\ rate'[r] = rate[r]
         \/ pc'[r] = "idle"
  BY DEF NotFound, Reject, Handled, Answer, BucketsInv, TypeOK, Passage,
         context
<1>4. TypeOK'
  BY <1>1 DEF BucketsInv, TypeOK
<1>5. Passage'
  BY <1>1, <1>2, <1>3 DEF BucketsInv, Passage
<1>6. \A v \in Visitors : BucketsOf(v)' \subseteq BucketsOf(v)
  BY <1>1, <1>2, <1>3, RateLimiterAssumption DEF BucketsOf
<1>7. Counted'
  BY <1>1 DEF BucketsInv, Counted
<1>8. Narrowed
  BY <1>1, <1>6 DEF Narrowed
<1> QED
  BY <1>1, <1>4, <1>5, <1>7, <1>8, NarrowedApart DEF BucketsInv

(* An entry that is removed has been idle for longer than it takes to fill *)
(* its bucket, and nobody holds this bucket.                               *)
LEMMA CleanupBuckets ==
  ASSUME BucketsInv, CleanupVisitors
  PROVE  /\ BucketsInv' /\ Narrowed
         /\ DOMAIN visitors' \subseteq DOMAIN visitors
         /\ \A u \in DOMAIN visitors' : visitors'[u] = visitors[u]
         /\ \A u \in DOMAIN visitors \ DOMAIN visitors' :
              now - visitors[u].lastSeen > 2
<1>1. /\ UNCHANGED <<now, buckets, pc, uid, rate, limiter,
                     admitted, replaced, granted>>
      /\ DOMAIN visitors' = {v \in DOMAIN visitors : ~Expired(v)}
      /\ \A u \in DOMAIN visitors' : visitors'[u] = visitors[u]
  BY DEF CleanupVisitors, context, histories
<1>2. \A u \in DOMAIN visitors : /\ visitors[u].lastSeen \in 0..now
                                 /\ now \in Nat
  BY RateLimiterAssumption DEF BucketsInv, TypeOK
<1>3. \A u \in DOMAIN visitors \ DOMAIN visitors' :
        now - visitors[u].lastSeen > 2
  BY <1>1, <1>2, RateLimiterAssumption DEF Expired
<1>4. ASSUME NEW u \in DOMAIN visitors, visitors[u].lastSeen = now
      PROVE  u \in DOMAIN visitors'
  BY <1>2, <1>3, <1>4
<1>5. TypeOK'
  BY <1>1 DEF BucketsInv, TypeOK
<1>6. Passage'
  BY <1>1, <1>4 DEF BucketsInv, Passage
<1>7. \A v \in Visitors : BucketsOf(v)' \subseteq BucketsOf(v)
  BY <1>1 DEF BucketsOf
<1>8. Counted'
  BY <1>1 DEF BucketsInv, Counted
<1>9. Narrowed
  BY <1>1, <1>7 DEF Narrowed
<1> QED
  BY <1>1, <1>3, <1>5, <1>6, <1>8, <1>9, NarrowedApart DEF BucketsInv

(* Only the application of the request gets a bucket, a new and full one.  *)
LEMMA AddBuckets ==
  ASSUME BucketsInv, NEW r \in Requests, AddVisitor(r)
  PROVE  \E u \in Visitors, l \in Limiters, q \in Nat :
           /\ BucketsInv'
           /\ q \in granted[u]
           /\ UNCHANGED <<now, admitted, granted>>
           /\ DOMAIN visitors' = DOMAIN visitors \union {u}
           /\ visitors'[u].lastSeen = now
           /\ \A v \in DOMAIN visitors \ {u} : visitors'[v] = visitors[v]
           /\ replaced' = [replaced EXCEPT ![u] =
                             IF u \in DOMAIN visitors THEN @ + 1 ELSE @]
           /\ BucketsOf(u)' \subseteq BucketsOf(u) \union {l}
           /\ \A v \in Visitors \ {u} : BucketsOf(v)' \subseteq BucketsOf(v)
           /\ \A v \in Visitors : l \notin BucketsOf(v)
           /\ buckets' = [buckets EXCEPT ![l] =
                            [rate |-> q, tokens |-> Burst(q)]]
<1>0. PICK u : u = uid[r]
  OBVIOUS
<1> DEFINE q == rate[r]
           l == CHOOSE x \in Unused : TRUE
<1>1. l \in Unused
  BY SomeUnused DEF BucketsInv, TypeOK
<1>2. /\ UNCHANGED <<now, uid, rate, admitted, granted>>
      /\ pc[r] = "insert"
      /\ visitors' = [v \in DOMAIN visitors \union {u} |->
                        IF v = u THEN [limiter |-> l, lastSeen |-> now]
                                 ELSE visitors[v]]
      /\ buckets' = [buckets EXCEPT ![l] = [rate |-> q, tokens |-> Burst(q)]]
      /\ limiter' = [limiter EXCEPT ![r] = l]
      /\ replaced' = [replaced EXCEPT ![u] =
                        IF u \in DOMAIN visitors THEN @ + 1 ELSE @]
      /\ pc' = [pc EXCEPT ![r] = "allow"]
  BY <1>0 DEF AddVisitor, NewTokens, context
<1>3. u \in Visitors /\ q \in granted[u] /\ q \in Rates /\ q \in Nat
  BY <1>0, <1>2, RateLimiterAssumption DEF BucketsInv, TypeOK, Passage
<1>4. l \in Limiters /\ \A v : l \notin BucketsOf(v)
  BY <1>1, InUse DEF Unused
<1> HIDE DEF l
<1>5. /\ DOMAIN visitors' = DOMAIN visitors \union {u}
      /\ visitors'[u] = [limiter |-> l, lastSeen |-> now]
      /\ visitors'[u].lastSeen = now /\ visitors'[u].limiter = l
      /\ \A v \in DOMAIN visitors \ {u} : visitors'[v] = visitors[v]
  BY <1>2
<1>6. /\ limiter' \in [Requests -> Limiters \union {None}]
      /\ limiter'[r] = l
      /\ \A s \in Requests \ {r} : limiter'[s] = limiter[s]
      /\ pc' \in [Requests -> {"idle", "lookup", "insert", "allow", "handler"}]
      /\ pc'[r] = "allow"
      /\ \A s \in Requests \ {r} : pc'[s] = pc[s]
      /\ uid[r] = u /\ rate[r] = q
  BY <1>0, <1>2, <1>4 DEF BucketsInv, TypeOK
<1>7. Burst(q) \in Nat
  BY <1>3 DEF Burst
<1>8. /\ buckets' \in [Limiters -> [rate : Rates \union {0}, tokens : Nat]]
      /\ buckets'[l].rate = q /\ buckets'[l].tokens = Burst(q)
      /\ \A m \in Limiters \ {l} : buckets'[m] = buckets[m]
  BY <1>2, <1>3, <1>4, <1>7 DEF BucketsInv, TypeOK
<1>9. replaced' \in [Visitors -> Nat]
  BY <1>2, <1>3 DEF BucketsInv, TypeOK
<1> HIDE DEF q
<1>10. BucketsOf(u)' \subseteq BucketsOf(u) \union {l}
  BY <1>2, <1>5, <1>6 DEF BucketsOf
<1>11. \A v \in Visitors \ {u} : BucketsOf(v)' \subseteq BucketsOf(v)
  BY <1>2, <1>5, <1>6 DEF BucketsOf
<1>12. TypeOK'
  <2>1. \A v \in DOMAIN visitors' :
          visitors'[v] \in [limiter : Limiters, lastSeen : 0..now]
    <3>1. now \in 0..now
      BY RateLimiterAssumption DEF BucketsInv, TypeOK
    <3> QED
      BY <1>4, <1>5, <3>1 DEF BucketsInv, TypeOK
  <2>2. \A m \in Limiters : buckets'[m].tokens <= Burst(buckets'[m].rate)
    BY <1>7, <1>8 DEF BucketsInv, TypeOK
  <2> QED
    BY <1>2, <1>3, <1>5, <1>6, <1>8, <1>9, <2>1, <2>2 DEF BucketsInv, TypeOK
<1>13. Passage'
  BY <1>2, <1>3, <1>4, <1>5, <1>6 DEF BucketsInv, Passage
<1>14. BucketsApart'
  <2> SUFFICES ASSUME NEW v \in Visitors, NEW m \in BucketsOf(v)'
               PROVE  /\ buckets'[m].rate \in granted[v]
                      /\ \A w \in Visitors \ {v} : m \notin BucketsOf(w)'
    BY <1>2 DEF BucketsApart
  <2>1. CASE m = l
    BY <1>3, <1>4, <1>8, <1>10, <1>11, <2>1
  <2>2. CASE m # l
    <3>1. m \in BucketsOf(v) /\ m \in Limiters
      BY <1>10, <1>11, <2>2 DEF BucketsOf
    <3>2. \A w \in Visitors \ {v} : m \notin BucketsOf(w)
      BY <3>1 DEF BucketsInv, BucketsApart
    <3> QED
      BY <1>8, <1>10, <1>11, <2>2, <3>1, <3>2 DEF BucketsInv, BucketsApart
  <2> QED
    BY <2>1, <2>2
<1>15. Counted'
  <2> SUFFICES ASSUME NEW v \in Visitors, NEW t \in 0..MaxNow
               PROVE  /\ t <= now => admitted[v][t] <= admitted[v][now]
                      /\ t >= now => admitted[v][t] = admitted[v][now]
                      /\ (v \in DOMAIN visitors' /\
                            t >= visitors'[v].lastSeen)
                           => admitted[v][t] = admitted[v][now]
    BY <1>2 DEF Counted
  <2> QED
    BY <1>5 DEF BucketsInv, Counted
<1>16. BucketsInv'
  BY <1>12, <1>13, <1>14, <1>15 DEF BucketsInv
<1> QED
  BY <1>2, <1>3, <1>4, <1>5, <1>10, <1>11, <1>16

(* A token less, a request more. *)
LEMMA PassBuckets ==
  ASSUME BucketsInv, NEW r \in Requests, Pass(r)
  PROVE  \E u \in Visitors : \E l \in BucketsOf(u) :
           /\ BucketsInv'
           /\ u \in DOMAIN visitors /\ visitors[u].lastSeen = now
           /\ UNCHANGED <<now, visitors, replaced, granted>>
           /\ \A v \in Visitors : BucketsOf(v)' \subseteq BucketsOf(v)
           /\ buckets[l].tokens > 0
           /\ buckets' = [buckets EXCEPT ![l] =
                            [rate |-> @.rate, tokens |-> @.tokens - 1]]
           /\ \A v \in Visitors \ {u} : admitted'[v] = admitted[v]
           /\ \A t \in 0..MaxNow :
                admitted'[u][t] = IF t >= now THEN admitted[u][t] + 1
                                              ELSE admitted[u][t]
<1>0. PICK u, l : u = uid[r] /\ l = limiter[r]
  OBVIOUS
<1>1. /\ UNCHANGED <<now, visitors, uid, rate, replaced, granted>>
      /\ pc[r] = "allow"
      /\ buckets[l].tokens > 0
      /\ buckets' = [buckets EXCEPT ![l].tokens = @ - 1]
      /\ admitted' = [admitted EXCEPT ![u] =
            [t \in 0..MaxNow |-> IF t >= now THEN @[t] + 1 ELSE @[t]]]
      /\ pc' = [pc EXCEPT ![r] = "handler"]
      /\ limiter' = [limiter EXCEPT ![r] = None]
  BY <1>0 DEF Pass, context
<1>2. /\ u \in DOMAIN visitors /\ u \in Visitors
      /\ visitors[u].lastSeen = now /\ now \in 0..MaxNow
      /\ l \in Limiters /\ l \in BucketsOf(u)
  BY <1>0, <1>1 DEF BucketsInv, TypeOK, Passage, BucketsOf
<1>3. /\ limiter' \in [Requests -> Limiters \union {None}]
      /\ limiter'[r] = None
      /\ \A s \in Requests \ {r} : limiter'[s] = limiter[s]
      /\ pc' \in [Requests -> {"idle", "lookup", "insert", "allow", "handler"}]
      /\ pc'[r] = "handler"
      /\ \A s \in Requests \ {r} : pc'[s] = pc[s]
  BY <1>1 DEF BucketsInv, TypeOK
<1>4. /\ \A v \in Visitors \ {u} : admitted'[v] = admitted[v]
      /\ \A t \in 0..MaxNow : admitted'[u][t] =
           IF t >= now THEN admitted[u][t] + 1 ELSE admitted[u][t]
      /\ admitted' \in [Visitors -> [0..MaxNow -> Nat]]
  <2>1. admitted[u] \in [0..MaxNow -> Nat]
    BY <1>2 DEF BucketsInv, TypeOK
  <2> DEFINE c == [t \in 0..MaxNow |-> IF t >= now THEN admitted[u][t] + 1
                                                   ELSE admitted[u][t]]
  <2>2. c \in [0..MaxNow -> Nat]
    <3>1. \A t \in 0..MaxNow : admitted[u][t] \in Nat
      BY <2>1
    <3> QED
      BY <3>1
  <2>3. admitted' = [admitted EXCEPT ![u] = c]
    BY <1>1, <1>2 DEF BucketsInv, TypeOK
  <2>4. /\ admitted'[u] = c
        /\ admitted' \in [Visitors -> [0..MaxNow -> Nat]]
        /\ \A v \in Visitors \ {u} : admitted'[v] = admitted[v]
    <3> HIDE DEF c
    <3> QED
      BY <1>2, <2>2, <2>3 DEF BucketsInv, TypeOK
  <2> QED
    BY <2>4
<1>5. /\ buckets' = [buckets EXCEPT ![l] =
                       [rate |-> @.rate, tokens |-> @.tokens - 1]]
      /\ buckets' \in [Limiters -> [rate : Rates \union {0}, tokens : Nat]]
      /\ \A m \in Limiters : /\ buckets'[m].rate = buckets[m].rate
                             /\ buckets'[m].tokens <= buckets[m].tokens
  <2>1. /\ buckets[l] \in [rate : Rates \union {0}, tokens : Nat]
        /\ buckets[l].tokens - 1 \in Nat
    BY <1>1, <1>2 DEF BucketsInv, TypeOK
  <2>2. buckets'[l] = [rate |-> buckets[l].rate,
                       tokens |-> buckets[l].tokens - 1]
    <3>1. buckets'[l] = [buckets[l] EXCEPT !.tokens = @ - 1]
      BY <1>1, <1>2 DEF BucketsInv, TypeOK
    <3> QED
      BY <2>1, <3>1
  <2>3. \A m \in Limiters \ {l} : buckets'[m] = buckets[m]
    BY <1>1 DEF BucketsInv, TypeOK
  <2>4. \A m \in Limiters :
          /\ buckets[m] \in [rate : Rates \union {0}, tokens : Nat]
          /\ buckets[m].tokens \in Nat
    BY DEF BucketsInv, TypeOK
  <2>5. \A m \in Limiters :
          /\ buckets'[m] \in [rate : Rates \union {0}, tokens : Nat]
          /\ buckets'[m].rate = buckets[m].rate
          /\ buckets'[m].tokens <= buckets[m].tokens
    <3> SUFFICES ASSUME NEW m \in Limiters
                 PROVE  /\ buckets'[m] \in [rate : Rates \union {0},
                                             tokens : Nat]
                        /\ buckets'[m].rate = buckets[m].rate
                        /\ buckets'[m].tokens <= buckets[m].tokens
      OBVIOUS
    <3>1. CASE m = l
      BY <2>1, <2>2, <3>1
    <3>2. CASE m # l
      BY <2>3, <2>4, <3>2
    <3> QED
      BY <3>1, <3>2
  <2>6. /\ DOMAIN buckets' = Limiters
        /\ buckets' = [m \in Limiters |-> buckets'[m]]
    BY <1>1 DEF BucketsInv, TypeOK
  <2>7. buckets' = [buckets EXCEPT ![l] =
                      [rate |-> @.rate, tokens |-> @.tokens - 1]]
    BY <1>2, <2>2, <2>3, <2>6 DEF BucketsInv, TypeOK
  <2> QED
    BY <2>5, <2>6, <2>7
<1>6. \A v \in Visitors : BucketsOf(v)' \subseteq BucketsOf(v)
  BY <1>1, <1>3, RateLimiterAssumption DEF BucketsOf
<1>7. TypeOK'
  <2>1. \A m \in Limiters : buckets'[m].tokens <= Burst(buckets'[m].rate)
    <3>1. \A m \in Limiters : /\ buckets[m].tokens \in Nat
                              /\ buckets'[m].tokens \in Nat
                              /\ buckets[m].rate \in Nat
      <4>1. Rates \union {0} \subseteq Nat
        BY RateLimiterAssumption
      <4> QED
        BY <1>5, <4>1 DEF BucketsInv, TypeOK
    <3>2. \A m \in Limiters : buckets[m].tokens <= Burst(buckets[m].rate)
      BY DEF BucketsInv, TypeOK
    <3> QED
      BY <1>5, <3>1, <3>2 DEF Burst
  <2> QED
    BY <1>1, <1>3, <1>4, <1>5, <2>1 DEF BucketsInv, TypeOK
<1>8. Passage'
  BY <1>1, <1>3 DEF BucketsInv, Passage
<1>9. BucketsApart'
  <2>1. \A v \in Visitors : \A m \in BucketsOf(v) :
          buckets'[m].rate = buckets[m].rate
    BY <1>5 DEF BucketsOf
  <2> QED
    BY <1>1, <1>6, <2>1, SameOwners DEF BucketsInv
<1>10. Counted'
  <2> SUFFICES ASSUME NEW v \in Visitors, NEW t \in 0..MaxNow
               PROVE  /\ t <= now => admitted'[v][t] <= admitted'[v][now]
                      /\ t >= now => admitted'[v][t] = admitted'[v][now]
                      /\ (v \in DOMAIN visitors /\ t >= visitors[v].lastSeen)
                           => admitted'[v][t] = admitted'[v][now]
    BY <1>1 DEF Counted
  <2>1. CASE v # u
    BY <1>4, <2>1 DEF BucketsInv, Counted
  <2>2. CASE v = u
    <3>1. admitted[u] \in [0..MaxNow -> Nat]
      BY <1>2 DEF BucketsInv, TypeOK
    <3>2. now >= now /\ t \in Int
      BY <1>2, RateLimiterAssumption
    <3>3. admitted[u][t] \in Nat /\ admitted[u][now] \in Nat
      BY <1>2, <3>1
    <3> QED
      BY <1>2, <1>4, <2>2, <3>2, <3>3 DEF BucketsInv, Counted
  <2> QED
    BY <2>1, <2>2
<1> QED
  BY <1>1, <1>2, <1>4, <1>5, <1>6, <1>7, <1>8, <1>9, <1>10 DEF BucketsInv

LEMMA BucketsInvNext == BucketsInv /\ [Next]_vars => BucketsInv'
<1> SUFFICES ASSUME BucketsInv, [Next]_vars
             PROVE  BucketsInv'
  OBVIOUS
<1>1. ASSUME NEW r \in Requests, Arrive(r) \/ Limit(r) \/ Handled(r)
      PROVE  BucketsInv'
  <2>1. CASE Arrive(r)
    BY <2>1, ArriveBuckets
  <2>2. CASE Found(r)
    BY <2>2, FoundBuckets
  <2>3. CASE NotFound(r) \/ Reject(r) \/ Handled(r)
    BY <2>3, ReleaseBuckets
  <2>4. CASE AddVisitor(r)
    BY <2>4, AddBuckets
  <2>5. CASE Pass(r)
    BY <2>5, PassBuckets
  <2> QED
    BY <1>1, <2>1, <2>2, <2>3, <2>4, <2>5 DEF Limit
<1>2. CASE UNCHANGED vars
  BY <1>2 DEF vars, context, histories, BucketsInv, TypeOK, Passage,
              BucketsApart, BucketsOf, Counted
<1> QED
  BY <1>1, <1>2, TickBuckets, CleanupBuckets DEF Next

(* The types: in particular a lookup never answers with no bucket, and     *)
(* Allow is never asked of none (getVisitor, addVisitor).                  *)
THEOREM LimiterTypes == Spec => []TypeOK
<1>1. Init => BucketsInv
  BY BucketsInvInit
<1>2. BucketsInv /\ [Next]_vars => BucketsInv'
  BY BucketsInvNext
<1>3. BucketsInv => TypeOK
  BY DEF BucketsInv
<1> QED
  BY <1>1, <1>2, <1>3, PTL DEF Spec

-----------------------------------------------------------------------------
(* Sums of tokens *)

(* The tokens of the buckets B, each a pair of a bucket and a number. *)
TokensIn(B, b) == {p \in B \X Nat : p[2] \in 1..b[p[1]].tokens}

LEMMA TokensOfOne ==
  ASSUME NEW l, NEW b, b[l].tokens \in Nat
  PROVE  /\ IsFiniteSet(TokensIn({l}, b))
         /\ Cardinality(TokensIn({l}, b)) = b[l].tokens
<1>0. PICK n \in Nat : n = b[l].tokens
  OBVIOUS
<1>1. TokensIn({l}, b) = {l} \X (1..n)
  BY <1>0 DEF TokensIn
<1>2. IsFiniteSet(1..n) /\ Cardinality(1..n) = n
  BY FS_Interval
<1>3. IsFiniteSet({l}) /\ Cardinality({l}) = 1
  BY FS_Singleton
<1>4. IsFiniteSet({l} \X (1..n)) /\ Cardinality({l} \X (1..n)) = 1 * n
  <2> DEFINE I == 1..n
  <2> HIDE DEF I
  <2>1. /\ IsFiniteSet({l} \X I)
        /\ Cardinality({l} \X I) = Cardinality({l}) * Cardinality(I)
    BY <1>2, <1>3, FS_Product DEF I
  <2> QED
    BY <1>2, <1>3, <2>1 DEF I
<1>5. 1 * n = n
  OBVIOUS
<1> QED
  BY <1>0, <1>1, <1>4, <1>5

(* Fewer buckets, with no more in them, have no more tokens. *)
LEMMA TokensOfFewer ==
  ASSUME NEW B, NEW C, B \subseteq C, NEW b, NEW c,
         \A l \in B : b[l].tokens = c[l].tokens,
         IsFiniteSet(TokensIn(C, c))
  PROVE  /\ IsFiniteSet(TokensIn(B, b))
         /\ Cardinality(TokensIn(B, b)) <= Cardinality(TokensIn(C, c))
<1>1. TokensIn(B, b) \subseteq TokensIn(C, c)
  BY DEF TokensIn
<1> QED
  BY <1>1, FS_Subset

(* A bucket more. *)
LEMMA TokensOfMore ==
  ASSUME NEW B, NEW C, NEW l, NEW b, NEW c, B \subseteq C \union {l},
         \A m \in C \ {l} : b[m].tokens = c[m].tokens, b[l].tokens \in Nat,
         IsFiniteSet(TokensIn(C, c))
  PROVE  /\ IsFiniteSet(TokensIn(B, b))
         /\ Cardinality(TokensIn(B, b)) <=
              Cardinality(TokensIn(C, c)) + b[l].tokens
<1> DEFINE S == TokensIn(C, c)
           T == TokensIn({l}, b)
<1>1. TokensIn(B, b) \subseteq S \union T
  BY DEF TokensIn
<1>2. IsFiniteSet(T) /\ Cardinality(T) = b[l].tokens
  BY TokensOfOne
<1> HIDE DEF S, T
<1>3. /\ IsFiniteSet(S \union T)
      /\ Cardinality(S \union T) <= Cardinality(S) + Cardinality(T)
  <2>1. IsFiniteSet(S)
    BY DEF S
  <2>2. /\ IsFiniteSet(S \union T)
        /\ Cardinality(S \union T) =
             Cardinality(S) + Cardinality(T) - Cardinality(S \intersect T)
    BY <1>2, <2>1, FS_Union
  <2>3. Cardinality(S \intersect T) \in Nat
    BY <2>1, FS_Intersection, FS_CardinalityType
  <2>4. Cardinality(S) \in Nat /\ Cardinality(T) \in Nat
    BY <1>2, <2>1, FS_CardinalityType
  <2> QED
    BY <2>2, <2>3, <2>4
<1>4. /\ IsFiniteSet(TokensIn(B, b))
      /\ Cardinality(TokensIn(B, b)) <= Cardinality(S \union T)
  BY <1>1, <1>3, FS_Subset
<1>5. /\ Cardinality(TokensIn(B, b)) \in Nat
      /\ Cardinality(S \union T) \in Nat
      /\ Cardinality(S) \in Nat
  BY <1>3, <1>4, FS_CardinalityType DEF S
<1> QED
  BY <1>2, <1>3, <1>4, <1>5 DEF S

(* A token less. *)
LEMMA TokensOfTaken ==
  ASSUME NEW B, NEW C, B \subseteq C, NEW l \in C, NEW b, NEW c,
         c[l].tokens \in Nat, c[l].tokens > 0,
         b[l].tokens = c[l].tokens - 1,
         \A m \in C \ {l} : b[m].tokens = c[m].tokens,
         IsFiniteSet(TokensIn(C, c))
  PROVE  /\ IsFiniteSet(TokensIn(B, b))
         /\ Cardinality(TokensIn(B, b)) + 1 <= Cardinality(TokensIn(C, c))
<1> DEFINE S == TokensIn(C, c)
           p == <<l, c[l].tokens>>
<1>1. p \in S
  BY DEF TokensIn
<1>2. TokensIn(B, b) \subseteq S \ {p}
  <2> SUFFICES ASSUME NEW x \in TokensIn(B, b)
               PROVE  x \in S /\ x # p
    OBVIOUS
  <2>1. x \in B \X Nat /\ x[2] \in 1..b[x[1]].tokens
    BY DEF TokensIn
  <2>2. CASE x[1] = l
    BY <2>1, <2>2 DEF TokensIn
  <2>3. CASE x[1] # l
    BY <2>1, <2>3 DEF TokensIn
  <2> QED
    BY <2>2, <2>3
<1> HIDE DEF S, p
<1>3. IsFiniteSet(S \ {p}) /\ Cardinality(S \ {p}) = Cardinality(S) - 1
  BY <1>1, FS_RemoveElement DEF S
<1>4. /\ IsFiniteSet(TokensIn(B, b))
      /\ Cardinality(TokensIn(B, b)) <= Cardinality(S \ {p})
  BY <1>2, <1>3, FS_Subset
<1>5. Cardinality(TokensIn(B, b)) \in Nat /\ Cardinality(S) \in Nat
  BY <1>4, FS_CardinalityType DEF S
<1> QED
  BY <1>3, <1>4, <1>5 DEF S

-----------------------------------------------------------------------------
(* FairShare *)

TokensOf(u) == TokensIn(BucketsOf(u), buckets)

(* What k buckets of rate q give in d seconds, if one is used at a time. *)
Allowance(k, q, d) == k * Burst(q) + q * d

LEMMA AllowanceGrows ==
  ASSUME NEW k \in Nat, NEW q \in Nat, NEW d \in Nat
  PROVE  /\ Allowance(k, q, d) \in Nat
         /\ Burst(q) \in Nat
         /\ Allowance(k + 1, q, d) = Allowance(k, q, d) + Burst(q)
         /\ Allowance(k, q, d + 1) = Allowance(k, q, d) + q
<1>1. ASSUME NEW x \in Nat, NEW y \in Nat
      PROVE  /\ x * y \in Nat
             /\ (x + 1) * y = x * y + y
             /\ x * (y + 1) = x * y + x
  OBVIOUS
<1>2. Burst(q) \in Nat
  BY DEF Burst
<1> DEFINE b == Burst(q)
<1> HIDE DEF b
<1>3. /\ k * b \in Nat /\ (k + 1) * b = k * b + b
      /\ q * d \in Nat /\ q * (d + 1) = q * d + q
  BY <1>1, <1>2 DEF b
<1> QED
  BY <1>2, <1>3 DEF Allowance, b

LEMMA AllowanceMore ==
  ASSUME NEW k \in Nat, NEW q \in Nat, NEW d \in Nat
  PROVE  Allowance(k + 1, q, d) >= Allowance(k, q, d)
<1>1. /\ Allowance(k, q, d) \in Nat
      /\ Burst(q) \in Nat
      /\ Allowance(k + 1, q, d) = Allowance(k, q, d) + Burst(q)
  BY AllowanceGrows
<1> QED
  BY <1>1

(* Two seconds are worth a burst. *)
LEMMA AllowanceLater ==
  ASSUME NEW k \in Nat, NEW q \in Nat, NEW d \in Nat, NEW e \in Nat,
         e >= d + 2
  PROVE  Allowance(k, q, e) >= Allowance(k, q, d) + Burst(q)
<1>1. PICK f \in Nat : e = d + 2 + f
  <2>1. e - (d + 2) \in Nat /\ e = d + 2 + (e - (d + 2))
    OBVIOUS
  <2> QED
    BY <2>1
<1>2. q * (d + 2 + f) = q * d + 2 * q + q * f
  OBVIOUS
<1>3. q * d \in Nat /\ q * f \in Nat /\ k * (2 * q) \in Nat
  OBVIOUS
<1> QED
  BY <1>1, <1>2, <1>3 DEF Allowance, Burst

(* What application u has had and could still have since time a, at a rate *)
(* of at most q.  Its last request came when the tokens it could still     *)
(* have then were as many, at least, as it can still have now; so once it  *)
(* has been idle for two seconds it is owed a burst, and a new entry gives *)
(* no more than this.                                                      *)
Share(u, q, a) ==
  IF u \in DOMAIN visitors
    THEN /\ PassedSince(u, a) + Cardinality(TokensOf(u)) <=
              Allowance(replaced[u] + 1, q, now - a)
         /\ a <= visitors[u].lastSeen =>
              PassedSince(u, a) <=
                Allowance(replaced[u] + 1, q, visitors[u].lastSeen - a)
    ELSE PassedSince(u, a) <= Allowance(replaced[u], q, now - a)

AtMost(u, q) == \A x \in granted[u] : x <= q

SharesOf(u) ==
  /\ IsFiniteSet(TokensOf(u))
  /\ \A q \in Nat : AtMost(u, q) => \A a \in 0..now : Share(u, q, a)

ShareInv == \A u \in Visitors : SharesOf(u)

LEMMA PassedType ==
  ASSUME BucketsInv, NEW u \in Visitors, NEW a \in 0..now
  PROVE  /\ PassedSince(u, a) \in Nat
         /\ replaced[u] \in Nat
         /\ now \in Nat /\ now - a \in Nat
         /\ u \in DOMAIN visitors =>
              /\ visitors[u].lastSeen \in 0..now
              /\ a <= visitors[u].lastSeen => visitors[u].lastSeen - a \in Nat
              /\ a > visitors[u].lastSeen => PassedSince(u, a) = 0
<1>1. /\ now \in 0..MaxNow /\ MaxNow \in Nat
      /\ admitted[u] \in [0..MaxNow -> Nat] /\ replaced[u] \in Nat
      /\ u \in DOMAIN visitors => visitors[u].lastSeen \in 0..now
  BY RateLimiterAssumption DEF BucketsInv, TypeOK
<1>2. a = 0 \/ a - 1 \in 0..MaxNow
  BY <1>1
<1>3. PassedSince(u, a) \in Nat
  <2>1. CASE a = 0
    BY <1>1, <2>1 DEF PassedSince
  <2>2. CASE a # 0
    <3>1. a - 1 <= now /\ a - 1 \in 0..MaxNow
      BY <1>1, <1>2, <2>2
    <3>2. admitted[u][a - 1] <= admitted[u][now]
      BY <3>1 DEF BucketsInv, Counted
    <3>3. admitted[u][a - 1] \in Nat /\ admitted[u][now] \in Nat
      BY <1>1, <3>1
    <3> QED
      BY <2>2, <3>2, <3>3 DEF PassedSince
  <2> QED
    BY <2>1, <2>2
<1>4. ASSUME u \in DOMAIN visitors, a > visitors[u].lastSeen
      PROVE  PassedSince(u, a) = 0
  <2>1. /\ a # 0 /\ a - 1 \in 0..MaxNow
        /\ a - 1 >= visitors[u].lastSeen
    BY <1>1, <1>4
  <2>2. admitted[u][a - 1] = admitted[u][now] /\ admitted[u][now] \in Nat
    BY <1>1, <1>4, <2>1 DEF BucketsInv, Counted
  <2> QED
    BY <2>1, <2>2 DEF PassedSince
<1> QED
  BY <1>1, <1>3, <1>4

LEMMA ShareInvInit == Init => ShareInv
<1> SUFFICES ASSUME Init PROVE ShareInv
  OBVIOUS
<1>1. BucketsInv
  BY BucketsInvInit
<1> SUFFICES ASSUME NEW u \in Visitors
             PROVE  /\ IsFiniteSet(TokensOf(u))
                    /\ \A q \in Nat : \A a \in 0..now : Share(u, q, a)
  BY DEF ShareInv, SharesOf
<1>2. TokensOf(u) = {}
  BY RateLimiterAssumption DEF Init, TokensOf, TokensIn, BucketsOf
<1>3. ASSUME NEW q \in Nat, NEW a \in 0..now
      PROVE  Share(u, q, a)
  <2>1. a = 0 /\ now = 0 /\ u \notin DOMAIN visitors /\ replaced[u] = 0
    BY DEF Init
  <2>2. PassedSince(u, a) = 0
    BY <2>1, RateLimiterAssumption DEF Init, PassedSince
  <2>3. Allowance(0, q, 0) \in Nat
    BY AllowanceGrows
  <2>4. now - a = 0
    BY <2>1
  <2> QED
    BY <2>1, <2>2, <2>3, <2>4 DEF Share
<1> QED
  BY <1>2, <1>3, FS_EmptySet

LEMMA ShareKept ==
  ASSUME BucketsInv, NEW u \in Visitors, SharesOf(u),
         now' = now,
         admitted'[u] = admitted[u], replaced'[u] = replaced[u],
         granted[u] \subseteq granted'[u],
         BucketsOf(u)' \subseteq BucketsOf(u),
         \A l \in BucketsOf(u) : buckets'[l] = buckets[l],
         u \in DOMAIN visitors' <=> u \in DOMAIN visitors,
         u \in DOMAIN visitors =>
           visitors'[u].lastSeen \in {visitors[u].lastSeen, now}
  PROVE  SharesOf(u)'
<1>1. /\ IsFiniteSet(TokensOf(u)')
      /\ Cardinality(TokensOf(u)') <= Cardinality(TokensOf(u))
  BY TokensOfFewer DEF SharesOf, TokensOf
<1>2. Cardinality(TokensOf(u)') \in Nat /\ Cardinality(TokensOf(u)) \in Nat
  BY <1>1, FS_CardinalityType DEF SharesOf
<1>3. ASSUME NEW q \in Nat, AtMost(u, q)', NEW a \in 0..now
      PROVE  Share(u, q, a)'
  <2>1. Share(u, q, a)
    BY <1>3 DEF SharesOf, AtMost
  <2>2. PassedSince(u, a)' = PassedSince(u, a)
    BY DEF PassedSince
  <2>3. /\ PassedSince(u, a) \in Nat /\ replaced[u] \in Nat
        /\ now - a \in Nat
    BY PassedType
  <2>4. /\ Allowance(replaced[u] + 1, q, now - a) \in Nat
        /\ Allowance(replaced[u], q, now - a) \in Nat
    <3>1. replaced[u] + 1 \in Nat
      BY <2>3
    <3> QED
      BY <2>3, <3>1, AllowanceGrows
  <2>5. CASE u \in DOMAIN visitors
    <3>1. /\ PassedSince(u, a) + Cardinality(TokensOf(u)) <=
               Allowance(replaced[u] + 1, q, now - a)
          /\ a <= visitors[u].lastSeen =>
               PassedSince(u, a) <=
                 Allowance(replaced[u] + 1, q, visitors[u].lastSeen - a)
      BY <2>1, <2>5 DEF Share
    <3>2. /\ PassedSince(u, a) + Cardinality(TokensOf(u)') <=
               Allowance(replaced[u] + 1, q, now - a)
          /\ PassedSince(u, a) <= Allowance(replaced[u] + 1, q, now - a)
      BY <1>1, <1>2, <2>3, <2>4, <3>1
    <3> QED
      BY <2>2, <2>5, <3>1, <3>2 DEF Share
  <2>6. CASE u \notin DOMAIN visitors
    BY <2>1, <2>2, <2>6 DEF Share
  <2> QED
    BY <2>5, <2>6
<1> QED
  BY <1>1, <1>3 DEF SharesOf

LEMMA TickShare ==
  ASSUME BucketsInv, ShareInv, Tick, NEW u \in Visitors
  PROVE  SharesOf(u)'
<1>0. PICK m : m = now + 1
  OBVIOUS
<1>1. /\ now \in 0..MaxNow /\ MaxNow \in Nat
      /\ m = now + 1 /\ now' = m /\ m \in 0..MaxNow
      /\ UNCHANGED <<visitors, admitted, replaced, granted>>
  BY <1>0, RateLimiterAssumption
     DEF Tick, BucketsInv, TypeOK, context, histories
<1>2. /\ SharesOf(u)
      /\ BucketsOf(u)' = BucketsOf(u)
      /\ BucketsOf(u) = IF u \in DOMAIN visitors
                          THEN {visitors[u].limiter} ELSE {}
      /\ \A l \in BucketsOf(u) : buckets'[l] = Refilled(buckets[l])
  BY TickBuckets DEF ShareInv
<1>3. ASSUME NEW a \in 0..now
      PROVE  PassedSince(u, a)' = PassedSince(u, a)
  <2>1. m >= now
    BY <1>1
  <2>2. admitted[u][m] = admitted[u][now]
    BY <1>1, <2>1 DEF BucketsInv, Counted
  <2> QED
    BY <1>1, <2>2 DEF PassedSince
<1>4. PassedSince(u, m)' = 0
  <2>1. admitted[u][m] = admitted[u][now] /\ admitted[u][now] \in Nat
    <3>1. m >= now /\ admitted[u] \in [0..MaxNow -> Nat]
      BY <1>1 DEF BucketsInv, TypeOK
    <3> QED
      BY <1>1, <3>1 DEF BucketsInv, Counted
  <2>2. m # 0 /\ m - 1 = now
    BY <1>1
  <2> QED
    BY <1>1, <2>1, <2>2 DEF PassedSince
<1>5. ASSUME NEW q \in Nat, NEW a \in 0..m
      PROVE  /\ replaced[u] \in Nat
             /\ m - a \in Nat
             /\ Allowance(replaced[u], q, m - a) \in Nat
             /\ Allowance(replaced[u] + 1, q, m - a) \in Nat
             /\ Burst(q) <= Allowance(replaced[u] + 1, q, m - a)
             /\ a <= now =>
                  /\ now - a \in Nat
                  /\ Allowance(replaced[u], q, now - a) \in Nat
                  /\ Allowance(replaced[u] + 1, q, now - a) \in Nat
                  /\ Allowance(replaced[u], q, m - a) =
                       Allowance(replaced[u], q, now - a) + q
                  /\ Allowance(replaced[u] + 1, q, m - a) =
                       Allowance(replaced[u] + 1, q, now - a) + q
  <2>1. replaced[u] \in Nat /\ m - a \in Nat
    BY <1>1 DEF BucketsInv, TypeOK
  <2>2. /\ Allowance(replaced[u], q, m - a) \in Nat
        /\ Allowance(replaced[u] + 1, q, m - a) \in Nat
        /\ Burst(q) <= Allowance(replaced[u] + 1, q, m - a)
    <3>1. replaced[u] + 1 \in Nat
      BY <2>1
    <3>2. /\ Allowance(replaced[u], q, m - a) \in Nat
          /\ Allowance(replaced[u] + 1, q, m - a) \in Nat
          /\ Burst(q) \in Nat
          /\ Allowance(replaced[u] + 1, q, m - a) =
               Allowance(replaced[u], q, m - a) + Burst(q)
      <4>1. PICK d \in Nat, k \in Nat : d = m - a /\ k = replaced[u]
        BY <2>1
      <4>2. k + 1 \in Nat
        OBVIOUS
      <4>3. /\ Allowance(k, q, d) \in Nat
            /\ Allowance(k + 1, q, d) \in Nat
            /\ Burst(q) \in Nat
            /\ Allowance(k + 1, q, d) = Allowance(k, q, d) + Burst(q)
        BY <4>2, AllowanceGrows
      <4> QED
        BY <4>1, <4>3
    <3> QED
      BY <3>2
  <2>3. ASSUME a <= now
        PROVE  now - a \in Nat /\ m - a = (now - a) + 1
    BY <1>1, <2>3
  <2>4. ASSUME a <= now, NEW k \in Nat
        PROVE  /\ Allowance(k, q, now - a) \in Nat
               /\ Allowance(k, q, m - a) = Allowance(k, q, now - a) + q
    <3>1. PICK d \in Nat : now - a = d /\ m - a = d + 1
      BY <2>3, <2>4
    <3>2. /\ Allowance(k, q, d) \in Nat
          /\ Allowance(k, q, d + 1) = Allowance(k, q, d) + q
      BY AllowanceGrows
    <3> QED
      BY <3>1, <3>2
  <2>5. replaced[u] + 1 \in Nat
    BY <2>1
  <2> QED
    BY <2>1, <2>2, <2>3, <2>4, <2>5
<1>6. CASE u \in DOMAIN visitors
  <2> DEFINE l == visitors[u].limiter
  <2>1. /\ l \in Limiters
        /\ BucketsOf(u) = {l} /\ buckets'[l] = Refilled(buckets[l])
        /\ buckets[l] \in [rate : Rates \union {0}, tokens : Nat]
        /\ buckets[l].rate \in granted[u]
    BY <1>2, <1>6 DEF BucketsInv, TypeOK, BucketsApart
  <2>2. /\ Refilled(buckets[l]).tokens <= Burst(buckets[l].rate)
        /\ Refilled(buckets[l]).tokens \in Nat
        /\ Refilled(buckets[l]).tokens <= buckets[l].tokens + buckets[l].rate
        /\ buckets[l].rate \in Nat
    <3>1. /\ Refilled(buckets[l]).tokens <=
               buckets[l].tokens + buckets[l].rate
          /\ buckets[l].rate \in Nat
      BY <2>1, RefilledType
    <3> QED
      BY <2>1, <3>1, RefilledType
  <2>3. /\ IsFiniteSet(TokensOf(u)') /\ IsFiniteSet(TokensOf(u))
        /\ Cardinality(TokensOf(u)') = Refilled(buckets[l]).tokens
        /\ Cardinality(TokensOf(u)) = buckets[l].tokens
    <3>1. buckets'[l].tokens \in Nat /\ buckets[l].tokens \in Nat
      BY <2>1, <2>2
    <3>2. /\ TokensOf(u)' = TokensIn({l}, buckets')
          /\ TokensOf(u) = TokensIn({l}, buckets)
      BY <1>2, <2>1 DEF TokensOf
    <3> QED
      BY <2>1, <3>1, <3>2, TokensOfOne
  <2> HIDE DEF l
  <2>4. ASSUME NEW q \in Nat, AtMost(u, q)', NEW a \in 0..m
        PROVE  Share(u, q, a)'
    <3> DEFINE t == buckets[l].tokens
               n == Refilled(buckets[l]).tokens
               k == replaced[u] + 1
    <3>1. AtMost(u, q) /\ buckets[l].rate <= q
      BY <1>1, <2>1, <2>4 DEF AtMost
    <3>2. /\ n \in Nat /\ t \in Nat
          /\ n <= t + q /\ n <= Burst(q)
      <4>1. Burst(buckets[l].rate) <= Burst(q)
        BY <2>2, <3>1 DEF Burst
      <4> QED
        BY <2>1, <2>2, <3>1, <4>1 DEF Burst
    <3>3. CASE a \in 0..now
      <4>1. /\ PassedSince(u, a) + t <= Allowance(k, q, now - a)
            /\ a <= visitors[u].lastSeen =>
                 PassedSince(u, a) <=
                   Allowance(k, q, visitors[u].lastSeen - a)
        BY <1>2, <1>6, <2>3, <3>1, <3>3 DEF SharesOf, Share
      <4>2. PassedSince(u, a) \in Nat
        BY <3>3, PassedType
      <4>3. PassedSince(u, a) + n <= Allowance(k, q, m - a)
        <5>1. /\ Allowance(k, q, m - a) = Allowance(k, q, now - a) + q
              /\ Allowance(k, q, now - a) \in Nat
          BY <1>1, <1>5, <3>3
        <5> HIDE DEF t, n, k
        <5> QED
          BY <3>2, <4>1, <4>2, <5>1
      <4>4. PassedSince(u, a)' + Cardinality(TokensOf(u)') <=
              Allowance(replaced'[u] + 1, q, now' - a)
        BY <1>1, <1>3, <2>3, <3>3, <4>3
      <4>5. a <= visitors'[u].lastSeen =>
              PassedSince(u, a)' <=
                Allowance(replaced'[u] + 1, q, visitors'[u].lastSeen - a)
        BY <1>1, <1>3, <3>3, <4>1
      <4> QED
        BY <1>1, <1>6, <4>4, <4>5 DEF Share
    <3>4. CASE a = m
      <4>1. 0 + n <= Allowance(k, q, m - a)
        <5>1. /\ Burst(q) <= Allowance(k, q, m - a)
              /\ Allowance(k, q, m - a) \in Nat
          BY <1>5
        <5>2. Burst(q) \in Nat
          BY DEF Burst
        <5> HIDE DEF n, k
        <5> QED
          BY <3>2, <5>1, <5>2
      <4>2. ~ (a <= visitors[u].lastSeen)
        BY <1>1, <1>6, <3>4 DEF BucketsInv, TypeOK
      <4> QED
        BY <1>1, <1>4, <1>6, <2>3, <3>4, <4>1, <4>2 DEF Share
    <3> QED
      BY <1>1, <3>3, <3>4
  <2> QED
    BY <1>1, <2>3, <2>4 DEF SharesOf
<1>7. CASE u \notin DOMAIN visitors
  <2>1. IsFiniteSet(TokensOf(u)')
    <3>1. TokensOf(u)' = {}
      BY <1>2, <1>7 DEF TokensOf, TokensIn
    <3> QED
      BY <3>1, FS_EmptySet
  <2>2. ASSUME NEW q \in Nat, AtMost(u, q)', NEW a \in 0..m
        PROVE  Share(u, q, a)'
    <3>1. AtMost(u, q)
      BY <1>1, <2>2 DEF AtMost
    <3>2. CASE a \in 0..now
      <4>1. PassedSince(u, a) <= Allowance(replaced[u], q, now - a)
        BY <1>2, <1>7, <3>1, <3>2 DEF SharesOf, Share
      <4>2. PassedSince(u, a) <= Allowance(replaced[u], q, m - a)
        <5>1. /\ Allowance(replaced[u], q, m - a) =
                   Allowance(replaced[u], q, now - a) + q
              /\ Allowance(replaced[u], q, now - a) \in Nat
          BY <1>1, <1>5, <3>2
        <5>2. PassedSince(u, a) \in Nat
          BY <3>2, PassedType
        <5> QED
          BY <4>1, <5>1, <5>2
      <4> QED
        BY <1>1, <1>3, <1>7, <3>2, <4>2 DEF Share
    <3>3. CASE a = m
      <4>1. 0 <= Allowance(replaced[u], q, m - a)
        BY <1>5, <2>2
      <4> QED
        BY <1>1, <1>4, <1>7, <3>3, <4>1 DEF Share
    <3> QED
      BY <1>1, <3>2, <3>3
  <2> QED
    BY <1>1, <2>1, <2>2 DEF SharesOf
<1> QED
  BY <1>6, <1>7

(* An entry made anew: in the place of another, or on what is owed.        *)
LEMMA AddShare ==
  ASSUME BucketsInv, ShareInv, NEW r \in Requests, AddVisitor(r)
  PROVE  ShareInv'
<1>1. PICK v \in Visitors, l \in Limiters, x \in Nat :
        /\ BucketsInv'
        /\ x \in granted[v]
        /\ UNCHANGED <<now, admitted, granted>>
        /\ DOMAIN visitors' = DOMAIN visitors \union {v}
        /\ visitors'[v].lastSeen = now
        /\ \A w \in DOMAIN visitors \ {v} : visitors'[w] = visitors[w]
        /\ replaced' = [replaced EXCEPT ![v] =
                          IF v \in DOMAIN visitors THEN @ + 1 ELSE @]
        /\ BucketsOf(v)' \subseteq BucketsOf(v) \union {l}
        /\ \A w \in Visitors \ {v} : BucketsOf(w)' \subseteq BucketsOf(w)
        /\ \A w \in Visitors : l \notin BucketsOf(w)
        /\ buckets' = [buckets EXCEPT ![l] = [rate |-> x, tokens |-> Burst(x)]]
  BY AddBuckets
<1>2. /\ \A b \in Limiters \ {l} : buckets'[b] = buckets[b]
      /\ buckets'[l].tokens = Burst(x) /\ Burst(x) \in Nat
  BY <1>1 DEF BucketsInv, TypeOK, Burst
<1>3. /\ \A w \in Visitors : replaced[w] \in Nat
      /\ \A w \in Visitors \ {v} : replaced'[w] = replaced[w]
      /\ replaced'[v] = IF v \in DOMAIN visitors THEN replaced[v] + 1
                                                 ELSE replaced[v]
  BY <1>1 DEF BucketsInv, TypeOK
<1>4. ASSUME NEW w \in Visitors \ {v}
      PROVE  SharesOf(w)'
  <2>1. \A b \in BucketsOf(w) : buckets'[b] = buckets[b]
    BY <1>1, <1>2 DEF BucketsOf
  <2> QED
    BY <1>1, <1>3, <2>1, ShareKept DEF ShareInv
<1>5. SharesOf(v)'
  <2>1. SharesOf(v) /\ IsFiniteSet(TokensOf(v))
    BY DEF ShareInv, SharesOf
  <2>2. /\ IsFiniteSet(TokensOf(v)')
        /\ Cardinality(TokensOf(v)') <= Cardinality(TokensOf(v)) + Burst(x)
    <3>1. \A b \in BucketsOf(v) \ {l} : buckets'[b].tokens = buckets[b].tokens
      BY <1>2 DEF BucketsOf
    <3>2. PICK B, C, b, c : /\ B = BucketsOf(v)' /\ C = BucketsOf(v)
                            /\ b = buckets' /\ c = buckets
      OBVIOUS
    <3>3. /\ B \subseteq C \union {l}
          /\ b[l].tokens \in Nat
          /\ \A m \in C \ {l} : b[m].tokens = c[m].tokens
          /\ IsFiniteSet(TokensIn(C, c))
      BY <1>1, <1>2, <2>1, <3>1, <3>2 DEF TokensOf
    <3>4. /\ IsFiniteSet(TokensIn(B, b))
          /\ Cardinality(TokensIn(B, b)) <=
               Cardinality(TokensIn(C, c)) + b[l].tokens
      BY <3>3, TokensOfMore
    <3> QED
      BY <1>2, <3>2, <3>4 DEF TokensOf
  <2>3. Cardinality(TokensOf(v)') \in Nat /\ Cardinality(TokensOf(v)) \in Nat
    BY <2>1, <2>2, FS_CardinalityType
  <2>4. ASSUME NEW q \in Nat, AtMost(v, q), NEW a \in 0..now
        PROVE  Share(v, q, a)'
    <3> DEFINE P == PassedSince(v, a)
               c == Cardinality(TokensOf(v)')
    <3>1. P \in Nat /\ now - a \in Nat /\ Share(v, q, a)
      BY <2>1, <2>4, PassedType DEF SharesOf
    <3>2. PassedSince(v, a)' = P
      BY <1>1 DEF PassedSince
    <3>3. Burst(x) <= Burst(q) /\ Burst(q) \in Nat
      <4>1. x <= q
        BY <1>1, <2>4 DEF AtMost
      <4> QED
        BY <4>1 DEF Burst
    <3>4. PICK d \in Nat, k \in Nat :
            d = now - a /\ k = replaced[v]
      BY <1>3, <3>1
    <3>5. /\ Allowance(k, q, d) \in Nat
          /\ Allowance(k + 1, q, d) = Allowance(k, q, d) + Burst(q)
      BY AllowanceGrows
    <3>6. P + c <= Allowance(replaced'[v] + 1, q, d)
      <4>1. CASE v \in DOMAIN visitors
        <5>1. P + Cardinality(TokensOf(v)) <= Allowance(k + 1, q, d)
          BY <3>1, <3>4, <4>1 DEF Share
        <5>2. PICK j \in Nat : j = k + 1
          OBVIOUS
        <5>3. /\ Allowance(j, q, d) \in Nat
              /\ Allowance(j + 1, q, d) = Allowance(j, q, d) + Burst(q)
          BY AllowanceGrows
        <5>4. replaced'[v] = j
          BY <1>3, <3>4, <4>1, <5>2
        <5> HIDE DEF P
        <5> QED
          BY <1>2, <2>2, <2>3, <3>1, <3>3, <5>1, <5>2, <5>3, <5>4
      <4>2. CASE v \notin DOMAIN visitors
        <5>1. P <= Allowance(k, q, d)
          BY <3>1, <3>4, <4>2 DEF Share
        <5>2. Cardinality(TokensOf(v)) = 0
          <6>1. BucketsOf(v) = {}
            BY <4>2, RateLimiterAssumption DEF BucketsOf, BucketsInv, Passage
          <6>2. TokensOf(v) = {}
            BY <6>1 DEF TokensOf, TokensIn
          <6> QED
            BY <6>2, FS_EmptySet
        <5>3. replaced'[v] = k
          BY <1>3, <3>4, <4>2
        <5> HIDE DEF P
        <5> QED
          BY <1>2, <2>2, <2>3, <3>1, <3>3, <3>5, <5>1, <5>2, <5>3
      <4> QED
        BY <4>1, <4>2
    <3>7. P <= Allowance(replaced'[v] + 1, q, d)
      <4>1. Allowance(replaced'[v] + 1, q, d) \in Nat
        <5>1. replaced'[v] + 1 \in Nat
          BY <1>3
        <5> QED
          BY <5>1, AllowanceGrows
      <4> HIDE DEF P
      <4> QED
        BY <2>3, <3>1, <3>6, <4>1
    <3> HIDE DEF P
    <3> QED
      BY <1>1, <3>2, <3>4, <3>6, <3>7 DEF Share
  <2> QED
    BY <1>1, <2>2, <2>4 DEF SharesOf, AtMost
<1> QED
  BY <1>4, <1>5 DEF ShareInv

(* A request that passes counts from any time on. *)
LEMMA PassCounts ==
  ASSUME BucketsInv, now' = now, NEW v \in Visitors, NEW a \in 0..now,
         \A t \in 0..MaxNow :
           admitted'[v][t] = IF t >= now THEN admitted[v][t] + 1
                                         ELSE admitted[v][t]
  PROVE  PassedSince(v, a)' = PassedSince(v, a) + 1
<1>1. /\ now \in 0..MaxNow /\ now >= now
      /\ admitted[v] \in [0..MaxNow -> Nat]
      /\ admitted[v][now] \in Nat
  BY RateLimiterAssumption DEF BucketsInv, TypeOK
<1>2. admitted'[v][now] = admitted[v][now] + 1
  BY <1>1
<1>3. CASE a = 0
  BY <1>1, <1>2, <1>3 DEF PassedSince
<1>4. CASE a # 0
  <2>1. a - 1 \in 0..MaxNow /\ ~ (a - 1 >= now)
    BY <1>1, <1>4, RateLimiterAssumption
  <2>2. admitted'[v][a - 1] = admitted[v][a - 1]
    BY <2>1
  <2>3. admitted[v][a - 1] \in Nat
    BY <1>1, <2>1
  <2> QED
    BY <1>1, <1>2, <1>4, <2>2, <2>3 DEF PassedSince
<1> QED
  BY <1>3, <1>4

(* A request more, a token less. *)
LEMMA PassShare ==
  ASSUME BucketsInv, ShareInv, NEW r \in Requests, Pass(r)
  PROVE  ShareInv'
<1>1. PICK v \in Visitors : \E l \in BucketsOf(v) :
        /\ BucketsInv'
        /\ v \in DOMAIN visitors /\ visitors[v].lastSeen = now
        /\ UNCHANGED <<now, visitors, replaced, granted>>
        /\ \A w \in Visitors : BucketsOf(w)' \subseteq BucketsOf(w)
        /\ buckets[l].tokens > 0
        /\ buckets' = [buckets EXCEPT ![l] =
                         [rate |-> @.rate, tokens |-> @.tokens - 1]]
        /\ \A w \in Visitors \ {v} : admitted'[w] = admitted[w]
        /\ \A t \in 0..MaxNow :
             admitted'[v][t] = IF t >= now THEN admitted[v][t] + 1
                                           ELSE admitted[v][t]
  BY PassBuckets
<1>2. PICK l \in BucketsOf(v) :
        /\ buckets[l].tokens > 0
        /\ buckets' = [buckets EXCEPT ![l] =
                         [rate |-> @.rate, tokens |-> @.tokens - 1]]
  BY <1>1
<1>3. /\ l \in Limiters /\ buckets[l].tokens \in Nat
      /\ buckets'[l].tokens = buckets[l].tokens - 1
      /\ \A b \in Limiters \ {l} : buckets'[b] = buckets[b]
  BY <1>2 DEF BucketsOf, BucketsInv, TypeOK
<1>4. ASSUME NEW w \in Visitors \ {v}
      PROVE  SharesOf(w)'
  <2>1. \A b \in BucketsOf(w) : buckets'[b] = buckets[b]
    BY <1>2, <1>3 DEF BucketsOf, BucketsInv, BucketsApart
  <2> QED
    BY <1>1, <2>1, ShareKept DEF ShareInv
<1>5. SharesOf(v)'
  <2>1. SharesOf(v) /\ IsFiniteSet(TokensOf(v))
    BY DEF ShareInv, SharesOf
  <2>2. /\ IsFiniteSet(TokensOf(v)')
        /\ Cardinality(TokensOf(v)') + 1 <= Cardinality(TokensOf(v))
    <3>1. \A b \in BucketsOf(v) \ {l} : buckets'[b].tokens = buckets[b].tokens
      BY <1>3 DEF BucketsOf
    <3>2. PICK B, C, b, c : /\ B = BucketsOf(v)' /\ C = BucketsOf(v)
                            /\ b = buckets' /\ c = buckets
      OBVIOUS
    <3>3. /\ B \subseteq C
          /\ l \in C /\ c[l].tokens \in Nat /\ c[l].tokens > 0
          /\ b[l].tokens = c[l].tokens - 1
          /\ \A m \in C \ {l} : b[m].tokens = c[m].tokens
          /\ IsFiniteSet(TokensIn(C, c))
      BY <1>1, <1>2, <1>3, <2>1, <3>1, <3>2 DEF TokensOf
    <3>4. /\ IsFiniteSet(TokensIn(B, b))
          /\ Cardinality(TokensIn(B, b)) + 1 <=
               Cardinality(TokensIn(C, c))
      BY <3>3, TokensOfTaken
    <3> QED
      BY <1>2, <3>2, <3>4 DEF TokensOf
  <2>3. Cardinality(TokensOf(v)') \in Nat /\ Cardinality(TokensOf(v)) \in Nat
    BY <2>1, <2>2, FS_CardinalityType
  <2>4. ASSUME NEW q \in Nat, AtMost(v, q), NEW a \in 0..now
        PROVE  Share(v, q, a)'
    <3> DEFINE A == Allowance(replaced[v] + 1, q, now - a)
    <3>1. /\ PassedSince(v, a) \in Nat
          /\ PassedSince(v, a) + Cardinality(TokensOf(v)) <= A
      BY <1>1, <2>1, <2>4, PassedType DEF SharesOf, Share
    <3>2. PassedSince(v, a)' = PassedSince(v, a) + 1
      BY <1>1, PassCounts
    <3>3. A \in Nat
      <4>1. replaced[v] + 1 \in Nat /\ now - a \in Nat
        BY PassedType
      <4> QED
        BY <4>1, AllowanceGrows
    <3> HIDE DEF A
    <3>4. /\ PassedSince(v, a)' + Cardinality(TokensOf(v)') <= A
          /\ PassedSince(v, a)' <= A
      BY <2>2, <2>3, <3>1, <3>2, <3>3
    <3> QED
      BY <1>1, <3>4 DEF Share, A
  <2> QED
    BY <1>1, <2>2, <2>4 DEF SharesOf, AtMost
<1> QED
  BY <1>4, <1>5 DEF ShareInv

(* What is removed has been idle for long enough to be owed a burst. *)
LEMMA CleanupShare ==
  ASSUME BucketsInv, ShareInv, CleanupVisitors, NEW u \in Visitors
  PROVE  SharesOf(u)'
<1>1. /\ Narrowed
      /\ DOMAIN visitors' \subseteq DOMAIN visitors
      /\ \A v \in DOMAIN visitors' : visitors'[v] = visitors[v]
      /\ \A v \in DOMAIN visitors \ DOMAIN visitors' :
           now - visitors[v].lastSeen > 2
      /\ UNCHANGED granted
  BY CleanupBuckets DEF CleanupVisitors, histories
<1>2. SharesOf(u)
  BY DEF ShareInv
<1>3. CASE u \in DOMAIN visitors' \/ u \notin DOMAIN visitors
  BY <1>1, <1>2, <1>3, ShareKept DEF Narrowed
<1>4. CASE u \in DOMAIN visitors \ DOMAIN visitors'
  <2>1. IsFiniteSet(TokensOf(u)')
    BY <1>1, <1>2, TokensOfFewer DEF Narrowed, SharesOf, TokensOf
  <2>2. ASSUME NEW q \in Nat, AtMost(u, q), NEW a \in 0..now
        PROVE  Share(u, q, a)'
    <3> DEFINE P == PassedSince(u, a)
    <3>1. /\ P \in Nat /\ Share(u, q, a)
          /\ visitors[u].lastSeen \in 0..now /\ now \in Nat
          /\ a > visitors[u].lastSeen => P = 0
      BY <1>2, <1>4, <2>2, PassedType DEF SharesOf
    <3>2. PICK d \in Nat, k \in Nat : d = now - a /\ k = replaced[u]
      BY PassedType
    <3>3. P <= Allowance(k, q, d)
      <4>1. CASE a > visitors[u].lastSeen
        <5>1. Allowance(k, q, d) \in Nat
          BY AllowanceGrows
        <5> QED
          BY <3>1, <4>1, <5>1
      <4>2. CASE a <= visitors[u].lastSeen
        <5>1. PICK e \in Nat : e = visitors[u].lastSeen - a
          BY <4>2, PassedType, <1>4
        <5>2. P <= Allowance(k + 1, q, e)
          BY <1>4, <3>1, <3>2, <4>2, <5>1 DEF Share
        <5>3. d >= e + 2
          BY <1>1, <1>4, <3>1, <3>2, <5>1
        <5>4. /\ Allowance(k + 1, q, e) = Allowance(k, q, e) + Burst(q)
              /\ Allowance(k, q, e) \in Nat
              /\ Allowance(k, q, d) \in Nat
          BY AllowanceGrows
        <5>5. Allowance(k, q, d) >= Allowance(k, q, e) + Burst(q)
          BY <5>3, AllowanceLater
        <5>6. Burst(q) \in Nat
          BY DEF Burst
        <5> HIDE DEF P
        <5> QED
          BY <3>1, <5>2, <5>4, <5>5, <5>6
      <4> QED
        BY <3>1, <4>1, <4>2
    <3>4. PassedSince(u, a)' = P
      BY <1>1 DEF Narrowed, PassedSince
    <3> QED
      BY <1>1, <1>4, <3>2, <3>3, <3>4 DEF Share, Narrowed
  <2> QED
    BY <1>1, <2>1, <2>2 DEF SharesOf, AtMost, Narrowed
<1> QED
  BY <1>3, <1>4

LEMMA NarrowedShare ==
  ASSUME BucketsInv, ShareInv, Narrowed, DOMAIN visitors' = DOMAIN visitors,
         \A u \in DOMAIN visitors :
           visitors'[u].lastSeen \in {visitors[u].lastSeen, now}
  PROVE  ShareInv'
<1> SUFFICES ASSUME NEW u \in Visitors PROVE SharesOf(u)'
  BY DEF ShareInv
<1> QED
  BY ShareKept DEF Narrowed, ShareInv

LEMMA ShareInvNext == BucketsInv /\ ShareInv /\ [Next]_vars => ShareInv'
<1> SUFFICES ASSUME BucketsInv, ShareInv, [Next]_vars
             PROVE  ShareInv'
  OBVIOUS
<1>1. ASSUME NEW r \in Requests, Arrive(r) \/ Limit(r) \/ Handled(r)
      PROVE  ShareInv'
  <2>1. CASE Arrive(r)
    BY <2>1, ArriveBuckets, NarrowedShare
  <2>2. CASE Found(r)
    BY <2>2, FoundBuckets, NarrowedShare
  <2>3. CASE NotFound(r) \/ Reject(r) \/ Handled(r)
    BY <2>3, ReleaseBuckets, NarrowedShare
  <2>4. CASE AddVisitor(r)
    BY <2>4, AddShare
  <2>5. CASE Pass(r)
    BY <2>5, PassShare
  <2> QED
    BY <1>1, <2>1, <2>2, <2>3, <2>4, <2>5 DEF Limit
<1>2. CASE UNCHANGED vars
  <2>1. Narrowed /\ UNCHANGED visitors
    BY <1>2 DEF Narrowed, vars, context, histories, BucketsOf
  <2> QED
    BY <2>1, NarrowedShare
<1>3. CASE Tick
  BY <1>3, TickShare DEF ShareInv
<1>4. CASE CleanupVisitors
  BY <1>4, CleanupShare DEF ShareInv
<1> QED
  BY <1>1, <1>2, <1>3, <1>4 DEF Next

LEMMA ShareIsFair == BucketsInv /\ ShareInv => FairShare
<1> SUFFICES ASSUME BucketsInv, ShareInv,
                    NEW u \in Visitors, granted[u] # {}, NEW a \in 0..now
             PROVE  PassedSince(u, a) <=
                      (1 + replaced[u]) * Burst(Max(granted[u])) +
                        Max(granted[u]) * (now - a)
  BY DEF FairShare
<1>1. /\ granted[u] \in SUBSET Nat /\ IsFiniteSet(granted[u])
      /\ granted[u] \in SUBSET Rates
  <2>1. granted[u] \in SUBSET Rates
    BY DEF BucketsInv, TypeOK
  <2> QED
    BY <2>1, FS_Subset, RateLimiterAssumption
<1>2. PICK q \in Nat : q = Max(granted[u]) /\ AtMost(u, q)
  <2>1. /\ Max(granted[u]) \in granted[u]
        /\ \A y \in granted[u] : Max(granted[u]) >= y
    BY <1>1, MaxInSet
  <2>2. Max(granted[u]) \in Nat
    BY <1>1, <2>1
  <2>3. \A y \in granted[u] : y <= Max(granted[u])
    BY <1>1, <2>1, <2>2
  <2> QED
    BY <2>2, <2>3 DEF AtMost
<1>3. PICK k \in Nat, d \in Nat : k = replaced[u] /\ d = now - a
  BY PassedType
<1>4. PassedSince(u, a) \in Nat /\ Share(u, q, a)
  BY <1>2, PassedType DEF ShareInv, SharesOf
<1>5. PassedSince(u, a) <= Allowance(k + 1, q, d)
  <2>1. PICK j \in Nat : j = k + 1
    OBVIOUS
  <2>2. Allowance(j, q, d) \in Nat
    BY AllowanceGrows
  <2>3. CASE u \in DOMAIN visitors
    <3>1. Cardinality(TokensOf(u)) \in Nat
      BY FS_CardinalityType DEF ShareInv, SharesOf
    <3>2. PassedSince(u, a) + Cardinality(TokensOf(u)) <= Allowance(j, q, d)
      BY <1>3, <1>4, <2>1, <2>3 DEF Share
    <3> QED
      BY <1>4, <2>1, <2>2, <3>1, <3>2
  <2>4. CASE u \notin DOMAIN visitors
    <3>1. PassedSince(u, a) <= Allowance(k, q, d)
      BY <1>3, <1>4, <2>4 DEF Share
    <3>2. Allowance(k + 1, q, d) >= Allowance(k, q, d)
      BY AllowanceMore
    <3>3. Allowance(k, q, d) \in Nat
      BY AllowanceGrows
    <3> QED
      BY <1>4, <2>1, <2>2, <3>1, <3>2, <3>3
  <2> QED
    BY <2>3, <2>4
<1>6. k + 1 = 1 + k
  OBVIOUS
<1> QED
  BY <1>2, <1>3, <1>5, <1>6 DEF Allowance

(* No application gets more than its burst and what accrues, in any span   *)
(* of time, but for a burst each time its entry is overwritten (getVisitor *)
(* and addVisitor, under locks of their own): for any rates and expiry of  *)
(* at least two seconds, removed and remade entries included.              *)
THEOREM LimiterIsFair == Spec => []FairShare
<1>1. Init => BucketsInv /\ ShareInv
  BY BucketsInvInit, ShareInvInit
<1>2. BucketsInv /\ ShareInv /\ [Next]_vars => (BucketsInv /\ ShareInv)'
  BY BucketsInvNext, ShareInvNext
<1>3. BucketsInv /\ ShareInv => FairShare
  BY ShareIsFair
<1> QED
  BY <1>1, <1>2, <1>3, PTL DEF Spec

-----------------------------------------------------------------------------
(* LimitedOnlyAtLimit *)

(* What is missing from a bucket has been used since some time: since it   *)
(* was last full.                                                          *)
UsedSince(u, l, a) ==
  buckets[l].tokens + PassedSince(u, a) >=
    Allowance(1, buckets[l].rate, now - a)

UsedInv ==
  \A u \in Visitors : \A l \in BucketsOf(u) : \E a \in 0..now :
    UsedSince(u, l, a)

LEMMA UsedInvInit == Init => UsedInv
BY RateLimiterAssumption DEF Init, UsedInv, BucketsOf

LEMMA BucketType ==
  ASSUME BucketsInv, NEW u, NEW l \in BucketsOf(u)
  PROVE  /\ l \in Limiters
         /\ buckets[l] \in [rate : Rates \union {0}, tokens : Nat]
         /\ buckets[l].tokens \in Nat
         /\ buckets[l].rate \in Nat
  BY RefilledType DEF BucketsOf, BucketsInv, TypeOK

LEMMA NarrowedUsed ==
  ASSUME UsedInv, Narrowed
  PROVE  UsedInv'
<1> SUFFICES ASSUME NEW u \in Visitors, NEW l \in BucketsOf(u)'
             PROVE  \E a \in 0..now' : UsedSince(u, l, a)'
  BY DEF UsedInv
<1>1. PICK a \in 0..now : UsedSince(u, l, a)
  BY DEF UsedInv, Narrowed
<1> QED
  BY <1>1 DEF Narrowed, UsedSince, PassedSince

LEMMA TickUsed ==
  ASSUME BucketsInv, UsedInv, Tick
  PROVE  UsedInv'
<1> SUFFICES ASSUME NEW u \in Visitors, NEW l \in BucketsOf(u)'
             PROVE  \E a \in 0..now' : UsedSince(u, l, a)'
  BY DEF UsedInv
<1>0. PICK m : m = now + 1
  OBVIOUS
<1>1. /\ now \in 0..MaxNow /\ MaxNow \in Nat
      /\ m = now + 1 /\ now' = m /\ m \in 0..MaxNow
      /\ UNCHANGED <<visitors, admitted>>
      /\ admitted[u] \in [0..MaxNow -> Nat]
  BY <1>0, RateLimiterAssumption
     DEF Tick, BucketsInv, TypeOK, context, histories
<1>2. l \in BucketsOf(u) /\ buckets'[l] = Refilled(buckets[l])
  BY TickBuckets
<1>3. /\ Refilled(buckets[l]).rate = buckets[l].rate
      /\ Refilled(buckets[l]).tokens \in Nat
      /\ \/ Refilled(buckets[l]).tokens = buckets[l].tokens + buckets[l].rate
         \/ Refilled(buckets[l]).tokens = Burst(buckets[l].rate)
      /\ buckets[l].rate \in Nat /\ buckets[l].tokens \in Nat
  BY <1>2, BucketType, RefilledType
<1>4. PICK q \in Nat, t \in Nat : q = buckets[l].rate /\ t = buckets[l].tokens
  BY <1>3
<1>5. admitted[u][m] = admitted[u][now]
  <2>1. m >= now
    BY <1>1
  <2> QED
    BY <1>1, <2>1 DEF BucketsInv, Counted
<1>6. CASE Refilled(buckets[l]).tokens = t + q
  <2>1. PICK a \in 0..now : UsedSince(u, l, a)
    BY <1>2 DEF UsedInv
  <2>2. PassedSince(u, a)' = PassedSince(u, a)
    BY <1>1, <1>5 DEF PassedSince
  <2>3. PassedSince(u, a) \in Nat
    BY PassedType
  <2>4. PICK d \in Nat : now - a = d /\ m - a = d + 1
    BY <1>1
  <2>5. /\ Allowance(1, q, d + 1) = Allowance(1, q, d) + q
        /\ Allowance(1, q, d) \in Nat
    <3>1. PICK k \in Nat : k = 1
      OBVIOUS
    <3> QED
      BY <3>1, AllowanceGrows
  <2>6. t + PassedSince(u, a) >= Allowance(1, q, d)
    BY <1>4, <2>1, <2>4 DEF UsedSince
  <2>7. t + q + PassedSince(u, a)' >= Allowance(1, q, d + 1)
    BY <2>2, <2>3, <2>5, <2>6
  <2>8. UsedSince(u, l, a)'
    BY <1>1, <1>2, <1>3, <1>4, <1>6, <2>4, <2>7 DEF UsedSince
  <2>9. a \in 0..now'
    BY <1>1
  <2> QED
    BY <2>8, <2>9
<1>7. CASE Refilled(buckets[l]).tokens = Burst(q)
  <2>1. PassedSince(u, m)' = 0
    <3>1. admitted[u][now] \in Nat /\ m # 0 /\ m - 1 = now
      BY <1>1
    <3> QED
      BY <1>1, <1>5, <3>1 DEF PassedSince
  <2>2. Allowance(1, q, m - m) = Burst(q) /\ Burst(q) \in Nat
    <3>1. m - m = 0
      BY <1>1
    <3> QED
      BY <3>1 DEF Allowance, Burst
  <2>3. UsedSince(u, l, m)'
    BY <1>1, <1>2, <1>3, <1>4, <1>7, <2>1, <2>2 DEF UsedSince
  <2>4. m \in 0..now'
    BY <1>1
  <2> QED
    BY <2>3, <2>4
<1> QED
  BY <1>3, <1>4, <1>6, <1>7

LEMMA AddUsed ==
  ASSUME BucketsInv, UsedInv, NEW r \in Requests, AddVisitor(r)
  PROVE  UsedInv'
<1>1. PICK v \in Visitors, l \in Limiters, x \in Nat :
        /\ BucketsInv'
        /\ x \in granted[v]
        /\ UNCHANGED <<now, admitted, granted>>
        /\ DOMAIN visitors' = DOMAIN visitors \union {v}
        /\ visitors'[v].lastSeen = now
        /\ \A w \in DOMAIN visitors \ {v} : visitors'[w] = visitors[w]
        /\ replaced' = [replaced EXCEPT ![v] =
                          IF v \in DOMAIN visitors THEN @ + 1 ELSE @]
        /\ BucketsOf(v)' \subseteq BucketsOf(v) \union {l}
        /\ \A w \in Visitors \ {v} : BucketsOf(w)' \subseteq BucketsOf(w)
        /\ \A w \in Visitors : l \notin BucketsOf(w)
        /\ buckets' = [buckets EXCEPT ![l] = [rate |-> x, tokens |-> Burst(x)]]
  BY AddBuckets
<1> SUFFICES ASSUME NEW u \in Visitors, NEW b \in BucketsOf(u)'
             PROVE  \E a \in 0..now' : UsedSince(u, b, a)'
  BY DEF UsedInv
<1>2. CASE b = l
  <2>1. now \in 0..now /\ now - now = 0
    BY RateLimiterAssumption DEF BucketsInv, TypeOK
  <2>2. PassedSince(u, now) \in Nat
    BY <2>1, PassedType
  <2>3. PICK m : m = now
    OBVIOUS
  <2>4. PassedSince(u, m)' = PassedSince(u, now)
    BY <1>1, <2>3 DEF PassedSince
  <2>5. buckets'[l].rate = x /\ buckets'[l].tokens = Burst(x)
    BY <1>1 DEF BucketsInv, TypeOK
  <2>6. Allowance(1, x, 0) = Burst(x) /\ Burst(x) \in Nat
    BY DEF Allowance, Burst
  <2>7. Burst(x) + PassedSince(u, m)' >= Allowance(1, x, now' - m)
    BY <1>1, <2>1, <2>2, <2>3, <2>4, <2>6
  <2>8. UsedSince(u, b, m)'
    BY <1>2, <2>5, <2>7 DEF UsedSince
  <2> QED
    BY <1>1, <2>1, <2>3, <2>8
<1>3. CASE b # l
  <2>1. b \in BucketsOf(u)
    BY <1>1, <1>3
  <2>2. buckets'[b] = buckets[b]
    BY <1>1, <1>3, <2>1, BucketType DEF BucketsInv, TypeOK
  <2>3. PICK a \in 0..now : UsedSince(u, b, a)
    BY <2>1 DEF UsedInv
  <2> QED
    BY <1>1, <2>2, <2>3 DEF UsedSince, PassedSince
<1> QED
  BY <1>2, <1>3

LEMMA PassUsed ==
  ASSUME BucketsInv, UsedInv, NEW r \in Requests, Pass(r)
  PROVE  UsedInv'
<1>1. PICK v \in Visitors : \E l \in BucketsOf(v) :
        /\ BucketsInv'
        /\ v \in DOMAIN visitors /\ visitors[v].lastSeen = now
        /\ UNCHANGED <<now, visitors, replaced, granted>>
        /\ \A w \in Visitors : BucketsOf(w)' \subseteq BucketsOf(w)
        /\ buckets[l].tokens > 0
        /\ buckets' = [buckets EXCEPT ![l] =
                         [rate |-> @.rate, tokens |-> @.tokens - 1]]
        /\ \A w \in Visitors \ {v} : admitted'[w] = admitted[w]
        /\ \A t \in 0..MaxNow :
             admitted'[v][t] = IF t >= now THEN admitted[v][t] + 1
                                           ELSE admitted[v][t]
  BY PassBuckets
<1>2. PICK l \in BucketsOf(v) :
        /\ buckets[l].tokens > 0
        /\ buckets' = [buckets EXCEPT ![l] =
                         [rate |-> @.rate, tokens |-> @.tokens - 1]]
  BY <1>1
<1>3. /\ l \in Limiters /\ buckets[l].tokens \in Nat /\ buckets[l].rate \in Nat
      /\ buckets'[l].tokens = buckets[l].tokens - 1
      /\ buckets'[l].rate = buckets[l].rate
      /\ \A b \in Limiters \ {l} : buckets'[b] = buckets[b]
  BY <1>2, BucketType DEF BucketsInv, TypeOK
<1> SUFFICES ASSUME NEW u \in Visitors, NEW b \in BucketsOf(u)'
             PROVE  \E a \in 0..now' : UsedSince(u, b, a)'
  BY DEF UsedInv
<1>4. b \in BucketsOf(u) /\ b \in Limiters
  BY <1>1, BucketType
<1>5. PICK a \in 0..now : UsedSince(u, b, a)
  BY <1>4 DEF UsedInv
<1>6. PICK q \in Nat, t \in Nat, d \in Nat :
        q = buckets[b].rate /\ t = buckets[b].tokens /\ d = now - a
  BY <1>4, BucketType, PassedType
<1>7. /\ PassedSince(u, a) \in Nat
      /\ t + PassedSince(u, a) >= Allowance(1, q, d)
      /\ Allowance(1, q, d) \in Nat
  <2>1. PICK k \in Nat : k = 1
    OBVIOUS
  <2>2. Allowance(1, q, d) \in Nat
    BY <2>1, AllowanceGrows
  <2> QED
    BY <1>5, <1>6, <2>2, PassedType DEF UsedSince
<1>8. CASE u # v
  <2>1. buckets'[b] = buckets[b]
    BY <1>2, <1>3, <1>4, <1>8 DEF BucketsInv, BucketsApart
  <2>2. PassedSince(u, a)' = PassedSince(u, a)
    BY <1>1, <1>8 DEF PassedSince
  <2> QED
    BY <1>1, <1>5, <2>1, <2>2 DEF UsedSince
<1>9. CASE u = v
  <2>1. PassedSince(u, a)' = PassedSince(u, a) + 1
    BY <1>1, <1>9, PassCounts
  <2>2. /\ buckets'[b].rate = q
        /\ buckets'[b].tokens \in Nat
        /\ buckets'[b].tokens + 1 >= t
    <3>1. CASE b = l
      BY <1>2, <1>3, <1>6, <3>1
    <3>2. CASE b # l
      BY <1>3, <1>4, <1>6, <3>2
    <3> QED
      BY <3>1, <3>2
  <2>3. buckets'[b].tokens + PassedSince(u, a)' >= Allowance(1, q, d)
    BY <1>6, <1>7, <2>1, <2>2
  <2> QED
    BY <1>1, <1>6, <2>2, <2>3 DEF UsedSince
<1> QED
  BY <1>8, <1>9

LEMMA UsedInvNext == BucketsInv /\ UsedInv /\ [Next]_vars => UsedInv'
<1> SUFFICES ASSUME BucketsInv, UsedInv, [Next]_vars
             PROVE  UsedInv'
  OBVIOUS
<1>1. ASSUME NEW r \in Requests, Arrive(r) \/ Limit(r) \/ Handled(r)
      PROVE  UsedInv'
  <2>1. CASE Arrive(r)
    BY <2>1, ArriveBuckets, NarrowedUsed
  <2>2. CASE Found(r)
    BY <2>2, FoundBuckets, NarrowedUsed
  <2>3. CASE NotFound(r) \/ Reject(r) \/ Handled(r)
    BY <2>3, ReleaseBuckets, NarrowedUsed
  <2>4. CASE AddVisitor(r)
    BY <2>4, AddUsed
  <2>5. CASE Pass(r)
    BY <2>5, PassUsed
  <2> QED
    BY <1>1, <2>1, <2>2, <2>3, <2>4, <2>5 DEF Limit
<1>2. CASE UNCHANGED vars
  <2>1. Narrowed
    BY <1>2 DEF Narrowed, vars, context, histories, BucketsOf
  <2> QED
    BY <2>1, NarrowedUsed
<1> QED
  BY <1>1, <1>2, TickUsed, CleanupBuckets, NarrowedUsed DEF Next

(* Nothing else answers a request that the bucket has not let pass. *)
LEMMA OnlyRejected ==
  ASSUME BucketsInv, Next, NEW r \in Requests, pc[r] = "allow", pc'[r] = "idle"
  PROVE  Reject(r)
<1>1. pc \in [Requests -> {"idle", "lookup", "insert", "allow", "handler"}]
  BY DEF BucketsInv, TypeOK
<1>2. ASSUME Tick \/ CleanupVisitors
      PROVE  FALSE
  BY <1>1, <1>2 DEF Tick, CleanupVisitors
<1>3. PICK s \in Requests : Arrive(s) \/ Limit(s) \/ Handled(s)
  BY <1>2 DEF Next
<1>4. s = r
  BY <1>1, <1>3 DEF Arrive, ArriveFrom, Limit, Found, NotFound, AddVisitor,
                    Pass, Reject, Handled, Answer
<1> QED
  BY <1>1, <1>3, <1>4 DEF Arrive, ArriveFrom, Limit, Found, NotFound,
                          AddVisitor, Pass, Handled

LEMMA RejectedAtLimit ==
  ASSUME BucketsInv, UsedInv, NEW r \in Requests, Reject(r)
  PROVE  LET q == Min(granted[uid[r]])
         IN  \E a \in 0..now :
               PassedSince(uid[r], a) >= Burst(q) + q * (now - a)
<1>1. PICK u, l : u = uid[r] /\ l = limiter[r]
  OBVIOUS
<1>2. /\ buckets[l].tokens = 0
      /\ u \in Visitors /\ l \in BucketsOf(u)
      /\ buckets[l].rate \in granted[u]
      /\ granted[u] \in SUBSET Rates
  BY <1>1 DEF Reject, BucketsInv, TypeOK, Passage, BucketsOf, BucketsApart
<1>3. PICK a \in 0..now : UsedSince(u, l, a)
  BY <1>2 DEF UsedInv
<1>4. PICK p \in Nat, d \in Nat : p = buckets[l].rate /\ d = now - a
  BY <1>2, BucketType, PassedType
<1>5. PICK q \in Nat : q = Min(granted[u]) /\ q <= p
  <2>1. granted[u] \in SUBSET Nat /\ granted[u] # {}
    BY <1>2, RateLimiterAssumption
  <2>2. /\ Min(granted[u]) \in granted[u]
        /\ \A y \in granted[u] : Min(granted[u]) <= y
    BY <2>1, MinInSet
  <2> QED
    BY <1>2, <1>4, <2>1, <2>2
<1>6. Burst(p) + p * d >= Burst(q) + q * d
  <2>1. PICK e \in Nat : p = q + e
    <3>1. p - q \in Nat /\ p = q + (p - q)
      BY <1>5
    <3> QED
      BY <3>1
  <2>2. (q + e) * d = q * d + e * d
    OBVIOUS
  <2>3. q * d \in Nat /\ e * d \in Nat
    OBVIOUS
  <2> QED
    BY <2>1, <2>2, <2>3 DEF Burst
<1>7. /\ PassedSince(u, a) >= Burst(p) + p * d
      /\ PassedSince(u, a) \in Nat
  <2>1. PassedSince(u, a) \in Nat
    BY <1>2, PassedType
  <2>2. 0 + PassedSince(u, a) >= Allowance(1, p, d)
    BY <1>2, <1>3, <1>4 DEF UsedSince
  <2>3. Allowance(1, p, d) = Burst(p) + p * d
    BY DEF Allowance, Burst
  <2> QED
    BY <2>1, <2>2, <2>3
<1>8. PassedSince(u, a) >= Burst(q) + q * d
  <2>1. /\ Burst(p) \in Nat /\ p * d \in Nat
        /\ Burst(q) \in Nat /\ q * d \in Nat
    BY DEF Burst
  <2> QED
    BY <1>6, <1>7, <2>1
<1> QED
  BY <1>1, <1>4, <1>5, <1>8

(* A request is answered 429 only when its application has used up what    *)
(* its lowest rate allows, over some span of time up to now (Allow), for   *)
(* any number of applications and requests.                                *)
THEOREM LimitedOnlyAfterUse == Spec => LimitedOnlyAtLimit
<1>1. Init => BucketsInv /\ UsedInv
  BY BucketsInvInit, UsedInvInit
<1>2. BucketsInv /\ UsedInv /\ [Next]_vars => (BucketsInv /\ UsedInv)'
  BY BucketsInvNext, UsedInvNext
<1>3. BucketsInv /\ UsedInv /\ [Next]_vars =>
        [\A r \in Requests :
           (pc[r] = "allow" /\ pc'[r] = "idle") =>
             LET q == Min(granted[uid[r]])
             IN  \E a \in 0..now :
                   PassedSince(uid[r], a) >= Burst(q) + q * (now - a)]_vars
  <2> SUFFICES ASSUME BucketsInv, UsedInv, Next, NEW r \in Requests,
                      pc[r] = "allow", pc'[r] = "idle"
               PROVE  LET q == Min(granted[uid[r]])
                      IN  \E a \in 0..now :
                            PassedSince(uid[r], a) >= Burst(q) + q * (now - a)
    OBVIOUS
  <2>1. Reject(r)
    BY OnlyRejected
  <2> QED
    BY <2>1, RejectedAtLimit
<1> QED
  BY <1>1, <1>2, <1>3, PTL DEF Spec, LimitedOnlyAtLimit
=============================================================================
