---------------------------- MODULE RateLimiter ----------------------------
(***************************************************************************)
(* The rate limiter of the HTTP API (pkg/http/middleware): a map from the  *)
(* uid of an application to its token bucket, shared by all requests, and  *)
(* a ticker that removes the entries of those not seen for a while.        *)
(*                                                                         *)
(* getVisitor looks a uid up under the read lock; addVisitor inserts an    *)
(* entry under the write lock, without looking again.  Other requests run  *)
(* between the two.  A bucket is used outside both locks, and lives on as  *)
(* long as a request holds it.                                             *)
(*                                                                         *)
(* The authentication middleware passes on the rate that the table of      *)
(* applications has for the uid, requests per second.  A bucket keeps the  *)
(* rate of the request that made it.  One tick of the clock is a second.   *)
(***************************************************************************)
EXTENDS Naturals, FiniteSets, FiniteSetsExt

CONSTANTS
  Visitors,     \* uids of applications
  Requests,     \* the requests that are handled at the same time
  Limiters,     \* identities of token buckets
  Rates,        \* requests per second an application may be allowed
  Expiry,       \* 60 seconds
  MaxNow,       \* bound: the clock
  None          \* no uid, no bucket

(* Every handled request, and every entry, can have a bucket of its own;   *)
(* 60 seconds refill a bucket that 2 seconds fill.                         *)
ASSUME RateLimiterAssumption ==
  /\ Rates \subseteq Nat
  /\ IsFiniteSet(Rates)
  /\ Expiry \in Nat
  /\ Expiry >= 2
  /\ MaxNow \in Nat
  /\ IsFiniteSet(Visitors) /\ IsFiniteSet(Requests) /\ IsFiniteSet(Limiters)
  /\ Cardinality(Limiters) > Cardinality(Requests) + Cardinality(Visitors)
  /\ None \notin Visitors \union Limiters

(* rate.NewLimiter(r, r*2) *)
Burst(q) == 2 * q

VARIABLES
  now,          \* the clock
  visitors,     \* the map: uid -> [limiter, lastSeen]
  buckets,      \* the token buckets: [rate, tokens]
  pc,           \* per request: what it does next
  uid,          \* per request: the application it comes from
  rate,         \* per request: the rate of this application
  limiter,      \* per request: the bucket it holds
  admitted,     \* history: per uid, how many requests passed by a time
  replaced,     \* history: per uid, how often an entry was overwritten
  granted       \* history: per uid, the rates its requests came with

context   == <<uid, rate>>
histories == <<admitted, replaced, granted>>
vars      == <<now, visitors, buckets, pc, context, limiter, histories>>

TypeOK ==
  /\ now \in 0..MaxNow
  /\ DOMAIN visitors \subseteq Visitors
  /\ \A u \in DOMAIN visitors :
       visitors[u] \in [limiter : Limiters, lastSeen : 0..now]
  /\ buckets \in [Limiters -> [rate : Rates \union {0}, tokens : Nat]]
  /\ \A l \in Limiters : buckets[l].tokens <= Burst(buckets[l].rate)
  /\ pc \in [Requests -> {"idle", "lookup", "insert", "allow", "handler"}]
  /\ uid \in [Requests -> Visitors \union {None}]
  /\ rate \in [Requests -> Rates \union {None}]
  /\ limiter \in [Requests -> Limiters \union {None}]
  /\ admitted \in [Visitors -> [0..MaxNow -> Nat]]
  /\ replaced \in [Visitors -> Nat]
  /\ granted \in [Visitors -> SUBSET Rates]

NoBucket == [rate |-> 0, tokens |-> 0]

Init ==
  /\ now = 0
  /\ visitors = [u \in {} |-> None]
  /\ buckets = [l \in Limiters |-> NoBucket]
  /\ pc = [r \in Requests |-> "idle"]
  /\ uid = [r \in Requests |-> None]
  /\ rate = [r \in Requests |-> None]
  /\ limiter = [r \in Requests |-> None]
  /\ admitted = [u \in Visitors |-> [t \in 0..MaxNow |-> 0]]
  /\ replaced = [u \in Visitors |-> 0]
  /\ granted = [u \in Visitors |-> {}]

-----------------------------------------------------------------------------
(* The buckets nobody refers to: NewLimiter makes one of these. *)
Unused ==
  Limiters \ ({visitors[u].limiter : u \in DOMAIN visitors} \union
              {limiter[r] : r \in Requests})

(* Slips: the burst is the rate; the burst is more than twice the rate. *)
NewTokensRate(q) == q
NewTokensTriple(q) == 3 * q

(* A bucket starts full. *)
NewTokens(q) == Burst(q)

(* What a bucket has a second later, but never more than its burst.        *)
Refilled(bucket) ==
  [bucket EXCEPT !.tokens = IF @ + bucket.rate < Burst(bucket.rate)
                              THEN @ + bucket.rate ELSE Burst(bucket.rate)]

(* A slip: a duration in the wrong unit. *)
ExpiredAtOnce(u) == now - visitors[u].lastSeen > 0

(* clock.Now().Sub(v.lastSeen) > expiry *)
Expired(u) == now - visitors[u].lastSeen > Expiry

-----------------------------------------------------------------------------
(* A request passes the middleware in no time, so the clock advances when  *)
(* none is in it.  Nor is one in its handler then: the limiter has done    *)
(* with that request, and how long the handler takes is nothing to it.     *)
Tick ==
  /\ now < MaxNow
  /\ \A r \in Requests : pc[r] = "idle"
  /\ now' = now + 1
  /\ buckets' = [l \in Limiters |-> IF l \in Unused THEN NoBucket
                                    ELSE Refilled(buckets[l])]
  /\ UNCHANGED <<visitors, pc, context, limiter, histories>>

(* A request of application u, which has rate q, has come through the      *)
(* authentication middleware.                                              *)
ArriveFrom(r, u, q) ==
  /\ pc[r] = "idle"
  /\ pc' = [pc EXCEPT ![r] = "lookup"]
  /\ uid' = [uid EXCEPT ![r] = u]
  /\ rate' = [rate EXCEPT ![r] = q]
  /\ granted' = [granted EXCEPT ![u] = @ \union {q}]
  /\ UNCHANGED <<now, visitors, buckets, limiter, admitted, replaced>>

Arrive(r) == \E u \in Visitors : \E q \in Rates : ArriveFrom(r, u, q)

Found(r) ==
  /\ pc[r] = "lookup"
  /\ uid[r] \in DOMAIN visitors
  /\ visitors' = [visitors EXCEPT ![uid[r]].lastSeen = now]
  /\ limiter' = [limiter EXCEPT ![r] = visitors[uid[r]].limiter]
  /\ pc' = [pc EXCEPT ![r] = "allow"]
  /\ UNCHANGED <<now, buckets, context, histories>>

NotFound(r) ==
  /\ pc[r] = "lookup"
  /\ uid[r] \notin DOMAIN visitors
  /\ pc' = [pc EXCEPT ![r] = "insert"]
  /\ UNCHANGED <<now, visitors, buckets, context, limiter, histories>>

(* addVisitor makes an entry, whether or not there is one by now.          *)
AddVisitor(r) ==
  /\ pc[r] = "insert"
  /\ LET u == uid[r]
         l == CHOOSE x \in Unused : TRUE
     IN  /\ visitors' = [v \in DOMAIN visitors \union {u} |->
                           IF v = u THEN [limiter |-> l, lastSeen |-> now]
                                    ELSE visitors[v]]
         /\ buckets' = [buckets EXCEPT
                          ![l] = [rate |-> rate[r],
                                  tokens |-> NewTokens(rate[r])]]
         /\ limiter' = [limiter EXCEPT ![r] = l]
         /\ replaced' = [replaced EXCEPT ![u] =
                           IF u \in DOMAIN visitors THEN @ + 1 ELSE @]
  /\ pc' = [pc EXCEPT ![r] = "allow"]
  /\ UNCHANGED <<now, context, admitted, granted>>

(* limiter.Allow() takes a token: the request goes on to its handler. *)
Pass(r) ==
  /\ pc[r] = "allow"
  /\ buckets[limiter[r]].tokens > 0
  /\ buckets' = [buckets EXCEPT ![limiter[r]].tokens = @ - 1]
  /\ admitted' = [admitted EXCEPT ![uid[r]] =
                    [t \in 0..MaxNow |-> IF t >= now THEN @[t] + 1 ELSE @[t]]]
  /\ pc' = [pc EXCEPT ![r] = "handler"]
  /\ limiter' = [limiter EXCEPT ![r] = None]
  /\ UNCHANGED <<now, visitors, context, replaced, granted>>

Answer(r) ==
  /\ pc' = [pc EXCEPT ![r] = "idle"]
  /\ uid' = [uid EXCEPT ![r] = None]
  /\ rate' = [rate EXCEPT ![r] = None]

(* 429 Too Many Requests *)
Reject(r) ==
  /\ pc[r] = "allow"
  /\ buckets[limiter[r]].tokens = 0
  /\ Answer(r)
  /\ limiter' = [limiter EXCEPT ![r] = None]
  /\ UNCHANGED <<now, visitors, buckets, histories>>

(* The handler behind the middleware has answered. *)
Handled(r) ==
  /\ pc[r] = "handler"
  /\ Answer(r)
  /\ UNCHANGED <<now, visitors, buckets, limiter, histories>>

(* The ticker's goroutine, whenever it gets to run. *)
CleanupVisitors ==
  /\ \E u \in DOMAIN visitors : Expired(u)
  /\ visitors' = [u \in {v \in DOMAIN visitors : ~Expired(v)} |-> visitors[u]]
  /\ UNCHANGED <<now, buckets, pc, context, limiter, histories>>

-----------------------------------------------------------------------------
(* What the middleware does with a request. *)
Limit(r) ==
  Found(r) \/ NotFound(r) \/ AddVisitor(r) \/ Pass(r) \/ Reject(r)

Next ==
  \/ Tick
  \/ CleanupVisitors
  \/ \E r \in Requests : Arrive(r) \/ Limit(r) \/ Handled(r)

Spec == Init /\ [][Next]_vars

-----------------------------------------------------------------------------
(* Properties *)

(* How many requests of u have passed since time a. *)
PassedSince(u, a) ==
  admitted[u][now] - (IF a = 0 THEN 0 ELSE admitted[u][a - 1])

(* No application gets more than its burst and the tokens that accrue      *)
(* meanwhile, in any span of time up to now, but for one more burst each   *)
(* time two first requests overwrote one another's entry; all of it by the *)
(* highest rate it has had, as a bucket keeps its rate.  In particular,    *)
(* removing an entry and making a fresh bucket later gives nothing away.   *)
FairShare ==
  \A u \in {v \in Visitors : granted[v] # {}} :
    LET q == Max(granted[u])
    IN  \A a \in 0..now :
          PassedSince(u, a) <= (1 + replaced[u]) * Burst(q) + q * (now - a)

(* A request is turned away only when its application has used up the      *)
(* burst and the tokens accrued over some span of time up to now, by the   *)
(* lowest rate it has had: nobody is limited on another's account, or by a *)
(* bucket that starts short.                                               *)
LimitedOnlyAtLimit ==
  [][\A r \in Requests :
       (pc[r] = "allow" /\ pc'[r] = "idle") =>
         LET q == Min(granted[uid[r]])
         IN  \E a \in 0..now :
               PassedSince(uid[r], a) >= Burst(q) + q * (now - a)]_vars

(* What the comment on getVisitor says: an entry that is present is simply *)
(* returned, never made anew.                                              *)
EntryReturned == \A u \in Visitors : replaced[u] = 0
=============================================================================
