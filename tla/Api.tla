-------------------------------- MODULE Api --------------------------------
(***************************************************************************)
(* The applications that may use the HTTP API and their keys: the          *)
(* authentication middleware, the rate limiter behind it, and behind both  *)
(* the handler with which an application registers another; beside them    *)
(* the command api-key, and the operator who changes rates in the table.   *)
(*                                                                         *)
(* The middlewares run in the order in which HTTP.Start adds them: a       *)
(* request is authenticated, then limited, then handled.  What it needs of *)
(* the row of its application is read once, at the start, and travels with *)
(* it.  An INSERT of a name that another transaction has inserted waits    *)
(* for the end of that transaction: app_name is UNIQUE.                    *)
(*                                                                         *)
(* A key belongs to the one uid it contains.  A request without a valid    *)
(* key is answered 401 or 403 and changes nothing, so it has no action.    *)
(***************************************************************************)
EXTENDS RateLimiter, Sequences

CONSTANTS
  Admin,        \* the application registered first
  Console,      \* whoever runs the command api-key
  Names,        \* names of applications
  Scopes,       \* the scopes that are asked for, sequences of claims
  DefaultRate,  \* the default of column rate
  MaxRequests,  \* bound: authenticated requests
  MaxChanges,   \* bound: changes of a rate
  MaxFaults     \* bound: registrations whose end is lost

ASSUME ApiAssumption ==
  /\ Admin \in Visitors
  /\ Console \notin Requests
  /\ Names # {}
  /\ DefaultRate \in Rates
  /\ MaxRequests \in Nat /\ MaxChanges \in Nat /\ MaxFaults \in Nat

AllowedScopeClaims == {"create-users", "metadata", "timeseries"}

Clients == Requests \union {Console}

VARIABLES
  apps,         \* table applications: uid -> [name, scope, rate]
  roles,        \* per request: the claims of its application
  tx,           \* per client: the registration it has inserted
  told,         \* the registrations whose key somebody has been told
  requests,     \* how many requests have been authenticated
  changes,      \* how many rates have been changed
  faults        \* how many faults have happened

limiterVars == <<now, visitors, buckets, pc, context, limiter, histories>>
apiVars     == <<apps, roles, tx, told, requests, changes, faults>>
allVars     == <<limiterVars, apiVars>>

ToSet(s) == {s[i] : i \in DOMAIN s}

-----------------------------------------------------------------------------
(* Scope claims, and column scope.  A text is the sequence of its tokens:  *)
(* claims, braces and commas.                                              *)

(* A slip: the claims are not separated. *)
ValueUnseparated(claims) ==
  [i \in 1..(Len(claims) + 2) |->
     CASE i = 1               -> "{"
       [] i = Len(claims) + 2 -> "}"
       [] OTHER               -> claims[i - 1]]

(* ScopeClaims.Value: "{a,b}"; nobody is registered without a claim. *)
Value(claims) ==
  [i \in 1..(2 * Len(claims) + 1) |->
     CASE i = 1                   -> "{"
       [] i = 2 * Len(claims) + 1 -> "}"
       [] i % 2 = 0               -> claims[i \div 2]
       [] OTHER                   -> ","]

(* ScopeClaims.Scan: what is between the braces, split at the commas. *)
Scan(text) ==
  LET inner  == SubSeq(text, 2, Len(text) - 1)
      commas == {i \in DOMAIN inner : inner[i] = ","}
      Start(k) == CHOOSE i \in DOMAIN inner :
                    /\ i = 1 \/ i - 1 \in commas
                    /\ Cardinality({j \in commas : j < i}) = k - 1
  IN  [k \in 1..(Cardinality(commas) + 1) |-> inner[Start(k)]]

Permits(claims, claim) == claim \in ToSet(claims)

AreKnownClaims(claims) == ToSet(claims) \subseteq AllowedScopeClaims

(* An application that asks for no scope gets this one. *)
Granted(scope) == IF scope = <<>> THEN <<"timeseries">> ELSE scope

-----------------------------------------------------------------------------
Row(name, claims) ==
  [name |-> name, scope |-> Value(claims), rate |-> DefaultRate]

Registration(u, name, scope) == [uid |-> u, name |-> name, scope |-> scope]

Registrations == [uid : Visitors, name : Names, scope : Scopes]

(* A scope is a sequence, of claims that are known or not.                 *)
ASSUME RegistrationsAssumption ==
  /\ Scopes \subseteq Seq(STRING)
  /\ None \notin Registrations

(* The operator has made the first key, for somebody who may make more.    *)
First == Registration(Admin, CHOOSE n \in Names : TRUE, <<"create-users">>)

ApiTypeOK ==
  /\ TypeOK
  /\ DOMAIN apps \subseteq Visitors
  /\ \A u \in DOMAIN apps : apps[u].name \in Names /\ apps[u].rate \in Rates
  /\ \A r \in Requests : ToSet(roles[r]) \subseteq AllowedScopeClaims
  /\ \A c \in Clients : tx[c] \in Registrations \union {None}
  /\ told \subseteq Registrations \union {First}
  /\ requests \in 0..MaxRequests
  /\ changes \in 0..MaxChanges
  /\ faults \in 0..MaxFaults

ApiInit ==
  /\ Init
  /\ apps = [u \in {Admin} |-> Row(First.name, First.scope)]
  /\ roles = [r \in Requests |-> <<>>]
  /\ tx = [c \in Clients |-> None]
  /\ told = {First}
  /\ requests = 0
  /\ changes = 0
  /\ faults = 0

-----------------------------------------------------------------------------
(* The middlewares *)

LoadApp(u) == [roles |-> Scan(apps[u].scope), rate |-> apps[u].rate]

(* Whoever has been told a key sends it along. *)
Authenticate(r) ==
  /\ requests < MaxRequests
  /\ requests' = requests + 1
  /\ \E u \in {k.uid : k \in told} \intersect DOMAIN apps :
       /\ ArriveFrom(r, u, LoadApp(u).rate)
       /\ roles' = [roles EXCEPT ![r] = LoadApp(u).roles]
  /\ UNCHANGED <<apps, tx, told, changes, faults>>

LimitRequest(r) ==
  /\ Limit(r)
  /\ roles' = IF pc'[r] = "idle" THEN [roles EXCEPT ![r] = <<>>] ELSE roles
  /\ UNCHANGED <<apps, tx, told, requests, changes, faults>>

-----------------------------------------------------------------------------
(* CreateApp *)

(* The INSERT, in a transaction of its own, with a new uid and key. *)
Insert(c, name, scope) ==
  /\ tx[c] = None
  /\ AreKnownClaims(Granted(scope))
  /\ \A d \in Clients : tx[d] # None => tx[d].name # name
  /\ \A u \in DOMAIN apps : apps[u].name # name
  /\ \E u \in Visitors \ DOMAIN apps :
       /\ \A d \in Clients : tx[d] # None => tx[d].uid # u
       /\ tx' = [tx EXCEPT ![c] = Registration(u, name, scope)]

Register(c) ==
  apps' = [u \in DOMAIN apps \union {tx[c].uid} |->
             IF u = tx[c].uid THEN Row(tx[c].name, Granted(tx[c].scope))
                              ELSE apps[u]]

(* The COMMIT, and whoever asked is told the key.                          *)
Commit(c) ==
  /\ tx[c] # None
  /\ tx' = [tx EXCEPT ![c] = None]
  /\ Register(c)
  /\ told' = told \union {tx[c]}
  /\ UNCHANGED <<requests, changes, faults>>

(* The COMMIT fails, or its answer or the one with the key is lost: the    *)
(* application may be registered, and nobody is told its key.              *)
CommitFails(c) ==
  /\ tx[c] # None
  /\ faults < MaxFaults
  /\ faults' = faults + 1
  /\ tx' = [tx EXCEPT ![c] = None]
  /\ Register(c) \/ UNCHANGED apps
  /\ UNCHANGED <<told, requests, changes>>

-----------------------------------------------------------------------------
(* createAppHandler, and any other handler *)

CreateApp(r) ==
  /\ pc[r] = "handler"
  /\ Permits(roles[r], "create-users")
  /\ \E name \in Names : \E scope \in Scopes : Insert(r, name, scope)
  /\ UNCHANGED <<limiterVars, apps, roles, told, requests, changes, faults>>

Finish(r) ==
  /\ Handled(r)
  /\ roles' = [roles EXCEPT ![r] = <<>>]

(* Created, or 500. *)
CreateAppEnds(r) == (Commit(r) \/ CommitFails(r)) /\ Finish(r)

(* A slip: the request is checked after the transaction. *)
RefuseLate(r) ==
  /\ IF tx[r] = None THEN UNCHANGED apps ELSE Register(r)
  /\ tx' = [tx EXCEPT ![r] = None]
  /\ Finish(r)
  /\ UNCHANGED <<told, requests, changes, faults>>

(* Another handler; or this one answers 403, 422, or 500 for claims it     *)
(* does not know, for a name that is taken and for a statement that fails, *)
(* with nothing in the table.                                              *)
OtherAnswer(r) ==
  /\ tx[r] = None
  /\ Finish(r)
  /\ UNCHANGED <<apps, tx, told, requests, changes, faults>>

-----------------------------------------------------------------------------
(* The command api-key: it asks for some scope, and prints the key. *)
RunCommand ==
  /\ \E name \in Names : \E scope \in Scopes \ {<<>>} :
       Insert(Console, name, scope)
  /\ UNCHANGED <<limiterVars, apps, roles, told, requests, changes, faults>>

CommandEnds ==
  /\ Commit(Console) \/ CommitFails(Console)
  /\ UNCHANGED <<limiterVars, roles>>

(* The operator changes the rate of an application in the table. *)
ChangeRate ==
  /\ changes < MaxChanges
  /\ changes' = changes + 1
  /\ \E u \in DOMAIN apps : \E q \in Rates \ {apps[u].rate} :
       apps' = [apps EXCEPT ![u].rate = q]
  /\ UNCHANGED <<limiterVars, roles, tx, told, requests, faults>>

-----------------------------------------------------------------------------
ApiNext ==
  \/ \E r \in Requests :
       \/ Authenticate(r) \/ LimitRequest(r)
       \/ CreateApp(r) \/ CreateAppEnds(r) \/ OtherAnswer(r)
  \/ RunCommand \/ CommandEnds \/ ChangeRate
  \/ (Tick \/ CleanupVisitors) /\ UNCHANGED apiVars

ApiSpec == ApiInit /\ [][ApiNext]_allVars

-----------------------------------------------------------------------------
(* Properties *)

(* Whoever has been told a key can use it: its application is registered   *)
(* with the name that was given, reading column scope back gives the       *)
(* claims that were asked for, and of two who ask for the same name at the *)
(* same time only one is told a key.                                       *)
KeysWork ==
  /\ \A k \in told :
       /\ k.uid \in DOMAIN apps
       /\ apps[k.uid].name = k.name
       /\ ToSet(Scan(apps[k.uid].scope)) =
            IF k.scope = <<>> THEN {"timeseries"} ELSE ToSet(k.scope)
  /\ \A j, k \in told : j.name = k.name => j = k

(* A name is used up by an application whose key nobody knows only when    *)
(* the end of its registration was lost: no refusal, of a claim or a name, *)
(* leaves a row behind.                                                    *)
NamesLostBound ==
  Cardinality({u \in DOMAIN apps : \A k \in told : k.uid # u}) <= faults
=============================================================================
