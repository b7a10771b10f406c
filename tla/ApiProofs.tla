----------------------------- MODULE ApiProofs -----------------------------
(***************************************************************************)
(* What holds of the keys, of the limiter's map and of the limiter in its  *)
(* place for any number of applications, requests, names, scopes and       *)
(* rates.                                                                  *)
(*                                                                         *)
(* KeysWork needs two things: that what ScopeClaims.Value writes is what   *)
(* ScopeClaims.Scan reads (ScanValue), and that a registration between its *)
(* INSERT and its COMMIT is new to the table and to all others (KeysInv).  *)
(***************************************************************************)
EXTENDS Api, RateLimiterProofs, FiniteSetTheorems, TLAPS

-----------------------------------------------------------------------------
(* Column scope: what ScopeClaims.Value writes, ScopeClaims.Scan reads *)

(* What a text is made of. *)
Tokens == AllowedScopeClaims \union {"{", "}", ","}

(* There are m even numbers from 2 to 2 * m. *)
LEMMA Evens ==
  ASSUME NEW m \in Nat
  PROVE  Cardinality({2 * k : k \in 1..m}) = m
<1> DEFINE E == {2 * k : k \in 1..m}
           f == [k \in 1..m |-> 2 * k]
<1>1. f \in [1..m -> E]
  OBVIOUS
<1>2. \A a, b \in 1..m : f[a] = f[b] => a = b
  OBVIOUS
<1>3. \A y \in E : \E a \in 1..m : f[a] = y
  OBVIOUS
<1>4. IsInjective(f)
  BY <1>2 DEF IsInjective
<1> HIDE DEF E, f
<1>5. f \in Bijection(1..m, E)
  BY <1>1, <1>3, <1>4 DEF Bijection, Injection, Surjection
<1> QED
  BY <1>5, FS_CountingElements DEF ExistsBijection, E

LEMMA ValueType ==
  ASSUME NEW c \in Seq(AllowedScopeClaims), c # <<>>
  PROVE  /\ Value(c) \in Seq(Tokens)
         /\ Len(Value(c)) = 2 * Len(c) + 1
         /\ DOMAIN Value(c) = 1..(2 * Len(c) + 1)
<1> DEFINE n == Len(c)
           v == Value(c)
<1>1. n \in Nat \ {0} /\ 2 * n + 1 \in Nat
  OBVIOUS
<1>2. ASSUME NEW i \in 1..(2 * n + 1)
      PROVE  v[i] \in Tokens
  <2>1. CASE i = 1
    <3>1. v[i] = "{"
      BY <1>1, <2>1 DEF Value
    <3> QED
      BY <3>1 DEF Tokens
  <2>2. CASE i # 1 /\ i = 2 * n + 1
    <3>1. i % 2 # 0
      BY <1>1, <2>2
    <3>2. v[i] = "}"
      BY <1>1, <2>2, <3>1 DEF Value
    <3> QED
      BY <3>2 DEF Tokens
  <2>3. CASE i # 1 /\ i # 2 * n + 1 /\ i % 2 = 0
    <3>1. i \div 2 \in 1..n
      BY <1>1, <2>3
    <3>2. v[i] = c[i \div 2]
      BY <2>3 DEF Value
    <3>3. c[i \div 2] \in AllowedScopeClaims
      BY <3>1
    <3> QED
      BY <3>2, <3>3 DEF Tokens
  <2>4. CASE i # 1 /\ i # 2 * n + 1 /\ i % 2 # 0
    <3>1. v[i] = ","
      BY <2>4 DEF Value
    <3> QED
      BY <3>1 DEF Tokens
  <2> QED
    BY <2>1, <2>2, <2>3, <2>4
<1>3. v = [i \in 1..(2 * n + 1) |-> v[i]]
  BY DEF Value
<1> HIDE DEF n, v
<1>4. v \in [1..(2 * n + 1) -> Tokens]
  BY <1>2, <1>3
<1>5. v \in Seq(Tokens) /\ Len(v) = 2 * n + 1 /\ DOMAIN v = 1..(2 * n + 1)
  BY <1>1, <1>4
<1> QED
  BY <1>5 DEF n, v

Inside(text) == SubSeq(text, 2, Len(text) - 1)

(* The text between the braces has the claims at the odd places. *)
LEMMA Inner ==
  ASSUME NEW c \in Seq(AllowedScopeClaims), c # <<>>
  PROVE  /\ DOMAIN Inside(Value(c)) = 1..(2 * Len(c) - 1)
         /\ \A k \in 1..Len(c) : Inside(Value(c))[2 * k - 1] = c[k]
         /\ \A k \in 1..(Len(c) - 1) : Inside(Value(c))[2 * k] = ","
<1> DEFINE n == Len(c)
           v == Value(c)
           inner == Inside(v)
<1>1. n \in Nat \ {0} /\ DOMAIN c = 1..n
  OBVIOUS
<1>2. /\ v \in Seq(Tokens)
      /\ Len(v) = 2 * n + 1
      /\ DOMAIN v = 1..(2 * n + 1)
  BY <1>1, ValueType
<1>3. /\ DOMAIN inner = 1..(2 * n - 1)
      /\ \A i \in 1..(2 * n - 1) : inner[i] = v[i + 1]
  BY <1>1, <1>2 DEF Inside
<1>4. ASSUME NEW k \in 1..n
      PROVE  v[2 * k] = c[k]
  <2>1. 2 * k \in 1..(2 * n + 1) /\ 2 * k # 1 /\ 2 * k # 2 * n + 1
    BY <1>1
  <2>2. (2 * k) % 2 = 0 /\ (2 * k) \div 2 = k
    BY <1>1
  <2> QED
    BY <2>1, <2>2 DEF Value
<1>5. ASSUME NEW k \in 1..(n - 1)
      PROVE  v[2 * k + 1] = ","
  <2>1. 2 * k + 1 \in 1..(2 * n + 1) /\ 2 * k + 1 # 1 /\ 2 * k + 1 # 2 * n + 1
    BY <1>1
  <2>2. (2 * k + 1) % 2 # 0
    BY <1>1
  <2> QED
    BY <2>1, <2>2 DEF Value
<1> HIDE DEF inner, v, n
<1>6. ASSUME NEW k \in 1..n
      PROVE  inner[2 * k - 1] = c[k]
  <2>1. 2 * k - 1 \in 1..(2 * n - 1) /\ (2 * k - 1) + 1 = 2 * k
    BY <1>1
  <2> QED
    BY <1>3, <1>4, <2>1
<1>7. ASSUME NEW k \in 1..(n - 1)
      PROVE  inner[2 * k] = ","
  <2>1. 2 * k \in 1..(2 * n - 1)
    BY <1>1
  <2> QED
    BY <1>3, <1>5, <2>1
<1> QED
  BY <1>3, <1>6, <1>7 DEF inner, v, n

(* Reading column scope back gives the claims that were written. *)
LEMMA ScanValue ==
  ASSUME NEW c \in Seq(AllowedScopeClaims), c # <<>>
  PROVE  Scan(Value(c)) = c
<1> DEFINE n == Len(c)
           inner == Inside(Value(c))
           commas == {i \in DOMAIN inner : inner[i] = ","}
           P(k, i) == /\ i = 1 \/ i - 1 \in commas
                      /\ Cardinality({j \in commas : j < i}) = k - 1
           Start(k) == CHOOSE i \in DOMAIN inner : P(k, i)
<1>1. n \in Nat \ {0} /\ c = [k \in 1..n |-> c[k]]
  OBVIOUS
<1>2. Scan(Value(c)) = [k \in 1..(Cardinality(commas) + 1) |-> inner[Start(k)]]
  BY DEF Scan, Inside
<1>3. /\ DOMAIN inner = 1..(2 * n - 1)
      /\ \A k \in 1..n : inner[2 * k - 1] = c[k]
      /\ \A k \in 1..(n - 1) : inner[2 * k] = ","
  BY Inner
<1>4. \A k \in 1..n : c[k] \in AllowedScopeClaims
  OBVIOUS
<1> HIDE DEF n, inner
<1>5. ASSUME NEW i \in 1..(2 * n - 1)
      PROVE  \/ \E k \in 1..n : i = 2 * k - 1
             \/ \E k \in 1..(n - 1) : i = 2 * k
  <2>1. CASE i % 2 = 0
    <3>1. i \div 2 \in 1..(n - 1) /\ i = 2 * (i \div 2)
      BY <1>1, <2>1
    <3> QED
      BY <3>1
  <2>2. CASE i % 2 = 1
    <3> DEFINE h == i \div 2
    <3>1. h \in Nat /\ i = 2 * h + 1
      BY <1>1, <2>2
    <3> HIDE DEF h
    <3>2. h + 1 \in 1..n /\ i = 2 * (h + 1) - 1
      BY <1>1, <3>1
    <3> QED
      BY <3>2
  <2>3. i % 2 \in {0, 1}
    BY <1>1
  <2> QED
    BY <2>1, <2>2, <2>3
<1>6. \A k \in 1..n : inner[2 * k - 1] # ","
  BY <1>3, <1>4 DEF AllowedScopeClaims
<1>7. commas = {2 * k : k \in 1..(n - 1)}
  <2>1. ASSUME NEW i \in commas
        PROVE  i \in {2 * k : k \in 1..(n - 1)}
    BY <1>3, <1>5, <1>6
  <2>2. ASSUME NEW k \in 1..(n - 1)
        PROVE  2 * k \in commas
    <3>1. 2 * k \in 1..(2 * n - 1)
      BY <1>1
    <3> QED
      BY <1>3, <3>1
  <2> HIDE DEF commas
  <2>3. ASSUME NEW i \in {2 * k : k \in 1..(n - 1)}
        PROVE  i \in commas
    <3>1. PICK k \in 1..(n - 1) : i = 2 * k
      OBVIOUS
    <3> QED
      BY <2>2, <3>1
  <2> QED
    BY <2>1, <2>3, Zenon
<1>8. Cardinality(commas) = n - 1
  <2>1. n - 1 \in Nat
    BY <1>1
  <2> HIDE DEF commas
  <2> QED
    BY <1>7, <2>1, Evens
<1> HIDE DEF commas
<1>9. ASSUME NEW q \in 1..n
      PROVE  Cardinality({j \in commas : j < 2 * q - 1}) = q - 1
  <2>1. {j \in commas : j < 2 * q - 1} = {2 * k : k \in 1..(q - 1)}
    <3>1. ASSUME NEW j \in commas, j < 2 * q - 1
          PROVE  j \in {2 * k : k \in 1..(q - 1)}
      <4>1. PICK k \in 1..(n - 1) : j = 2 * k
        BY <1>7, <3>1
      <4>2. k \in 1..(q - 1)
        BY <1>1, <3>1, <4>1
      <4> QED
        BY <4>1, <4>2
    <3>2. ASSUME NEW k \in 1..(q - 1)
          PROVE  2 * k \in commas /\ 2 * k < 2 * q - 1
      <4>1. k \in 1..(n - 1)
        BY <1>1
      <4> QED
        BY <1>7, <4>1
    <3> QED
      BY <3>1, <3>2
  <2>2. q - 1 \in Nat
    BY <1>1
  <2> HIDE DEF commas
  <2> QED
    BY <2>1, <2>2, Evens
<1>10. ASSUME NEW k \in 1..n
       PROVE  Start(k) = 2 * k - 1
  <2>1. 2 * k - 1 \in DOMAIN inner /\ P(k, 2 * k - 1)
    <3>1. 2 * k - 1 \in 1..(2 * n - 1)
      BY <1>1
    <3>2. \/ 2 * k - 1 = 1
          \/ k - 1 \in 1..(n - 1) /\ (2 * k - 1) - 1 = 2 * (k - 1)
      BY <1>1
    <3>3. 2 * k - 1 = 1 \/ (2 * k - 1) - 1 \in commas
      BY <1>7, <3>2
    <3> QED
      BY <1>3, <1>9, <3>1, <3>3
  <2>2. ASSUME NEW i \in DOMAIN inner, P(k, i)
        PROVE  i = 2 * k - 1
    <3>1. PICK q \in 1..n : i = 2 * q - 1
      <4>1. CASE i = 1
        <5>1. 1 \in 1..n /\ i = 2 * 1 - 1
          BY <1>1, <4>1
        <5> QED
          BY <5>1
      <4>2. CASE i - 1 \in commas
        <5>1. PICK m \in 1..(n - 1) : i - 1 = 2 * m
          BY <1>7, <4>2
        <5>2. i \in Int
          <6>1. i \in 1..(2 * n - 1)
            BY <1>3
          <6> QED
            BY <1>1, <6>1
        <5>3. m + 1 \in 1..n /\ i = 2 * (m + 1) - 1
          BY <1>1, <5>1, <5>2
        <5> QED
          BY <5>3
      <4> QED
        BY <2>2, <4>1, <4>2
    <3>2. q - 1 = k - 1
      BY <1>9, <2>2, <3>1
    <3> QED
      BY <3>1, <3>2
  <2> HIDE DEF P
  <2> QED
    BY <2>1, <2>2
<1> HIDE DEF P, Start
<1>11. \A k \in 1..n : inner[Start(k)] = c[k]
  BY <1>3, <1>10
<1>12. Cardinality(commas) + 1 = n
  BY <1>1, <1>8
<1>13. Scan(Value(c)) = [k \in 1..n |-> inner[Start(k)]]
  BY <1>2, <1>12
<1>14. [k \in 1..n |-> inner[Start(k)]] = [k \in 1..n |-> c[k]]
  BY <1>11
<1> QED
  BY <1>1, <1>13, <1>14

(* Claims that are known are claims that can be written. *)
LEMMA KnownClaims ==
  ASSUME NEW scope \in Scopes, AreKnownClaims(Granted(scope))
  PROVE  /\ Granted(scope) \in Seq(AllowedScopeClaims)
         /\ Granted(scope) # <<>>
<1>1. CASE scope = <<>>
  BY <1>1 DEF Granted, AllowedScopeClaims
<1>2. CASE scope # <<>>
  <2>1. Granted(scope) = scope /\ scope \in Seq(STRING)
    BY <1>2, RegistrationsAssumption DEF Granted
  <2>2. \A i \in 1..Len(scope) : scope[i] \in AllowedScopeClaims
    BY <2>1 DEF AreKnownClaims, ToSet
  <2> QED
    BY <1>2, <2>1, <2>2
<1> QED
  BY <1>1, <1>2

-----------------------------------------------------------------------------
(* The keys *)

Rows == [name : Names \union {First.name}, scope : Seq(Tokens), rate : Rates]

(* A scope that is granted. *)
Writable(scope) ==
  Granted(scope) \in Seq(AllowedScopeClaims) /\ Granted(scope) # <<>>

(* Whoever has been told a key is registered with what was asked for. *)
ToldAreRegistered ==
  \A k \in told : /\ k.uid \in DOMAIN apps
                  /\ apps[k.uid].name = k.name
                  /\ apps[k.uid].scope = Value(Granted(k.scope))
                  /\ Writable(k.scope)

(* What app_name UNIQUE, and the uids, see to in the table ... *)
TableIsKeyed ==
  /\ \A u \in DOMAIN apps : apps[u] \in Rows
  /\ \A u, v \in DOMAIN apps : apps[u].name = apps[v].name => u = v
  /\ \A j, k \in told : j.uid = k.uid => j = k

(* ... and between the table and the transactions that wait to COMMIT. *)
PendingAreNew ==
  /\ tx \in [Clients -> Registrations \union {None}]
  /\ \A c \in Clients : tx[c] # None =>
       /\ tx[c].uid \notin DOMAIN apps
       /\ \A u \in DOMAIN apps : apps[u].name # tx[c].name
       /\ Writable(tx[c].scope)
  /\ \A c, d \in Clients : (tx[c] # None /\ tx[d] # None /\ c # d) =>
       tx[c].uid # tx[d].uid /\ tx[c].name # tx[d].name

KeysInv == ToldAreRegistered /\ TableIsKeyed /\ PendingAreNew

LEMMA KeysInvImpliesKeysWork == KeysInv => KeysWork
<1> SUFFICES ASSUME KeysInv PROVE KeysWork
  OBVIOUS
<1>1. ASSUME NEW k \in told
      PROVE  /\ k.uid \in DOMAIN apps
             /\ apps[k.uid].name = k.name
             /\ ToSet(Scan(apps[k.uid].scope)) =
                  IF k.scope = <<>> THEN {"timeseries"} ELSE ToSet(k.scope)
  <2>1. Scan(apps[k.uid].scope) = Granted(k.scope)
    BY ScanValue DEF KeysInv, ToldAreRegistered, Writable
  <2>2. CASE k.scope = <<>>
    <3>1. ToSet(<<"timeseries">>) = {"timeseries"}
      BY DEF ToSet
    <3> QED
      BY <2>1, <2>2, <3>1 DEF Granted, KeysInv, ToldAreRegistered
  <2>3. CASE k.scope # <<>>
    BY <2>1, <2>3 DEF Granted, KeysInv, ToldAreRegistered
  <2> QED
    BY <2>2, <2>3
<1>2. ASSUME NEW j \in told, NEW k \in told, j.name = k.name
      PROVE  j = k
  BY <1>2 DEF KeysInv, ToldAreRegistered, TableIsKeyed
<1> QED
  BY <1>1, <1>2 DEF KeysWork

LEMMA KeysInvInit == ApiInit => KeysInv
<1> SUFFICES ASSUME ApiInit PROVE KeysInv
  OBVIOUS
<1> DEFINE s == <<"create-users">>
<1>1. s \in Seq(AllowedScopeClaims) /\ s # <<>>
  BY DEF AllowedScopeClaims
<1>2. First.uid = Admin /\ First.scope = s /\ Granted(s) = s
  BY <1>1 DEF First, Registration, Granted
<1>3. /\ DOMAIN apps = {Admin}
      /\ apps[Admin] = Row(First.name, s)
      /\ told = {First}
      /\ tx = [c \in Clients |-> None]
  BY <1>2 DEF ApiInit
<1> HIDE DEF s
<1>4. Row(First.name, s) \in Rows
  BY <1>1, ValueType, ApiAssumption DEF Row, Rows
<1>5. /\ Row(First.name, s).name = First.name
      /\ Row(First.name, s).scope = Value(s)
  BY DEF Row
<1>6. ToldAreRegistered
  BY <1>1, <1>2, <1>3, <1>5 DEF ToldAreRegistered, Writable
<1>7. TableIsKeyed
  BY <1>3, <1>4 DEF TableIsKeyed
<1>8. PendingAreNew
  BY <1>3 DEF PendingAreNew
<1> QED
  BY <1>6, <1>7, <1>8 DEF KeysInv

(* INSERT waits for, or is refused because of, whatever has the name. *)
LEMMA InsertKeys ==
  ASSUME KeysInv, NEW c \in Clients, NEW name \in Names, NEW scope \in Scopes,
         Insert(c, name, scope), UNCHANGED <<apps, told>>
  PROVE  KeysInv'
<1>1. PICK u \in Visitors \ DOMAIN apps :
        /\ \A d \in Clients : tx[d] # None => tx[d].uid # u
        /\ tx' = [tx EXCEPT ![c] = Registration(u, name, scope)]
  BY DEF Insert
<1> DEFINE k == Registration(u, name, scope)
<1>2. k \in Registrations /\ k.uid = u /\ k.name = name /\ k.scope = scope
  BY DEF Registration, Registrations
<1>3. Writable(scope)
  BY KnownClaims DEF Insert, Writable
<1>4. /\ \A d \in Clients : tx[d] # None => tx[d].name # name
      /\ \A v \in DOMAIN apps : apps[v].name # name
  BY DEF Insert
<1> HIDE DEF k
<1>5. /\ tx' \in [Clients -> Registrations \union {None}]
      /\ tx'[c] = k
      /\ \A d \in Clients : d # c => tx'[d] = tx[d]
  BY <1>1, <1>2 DEF KeysInv, PendingAreNew, k
<1>6. PendingAreNew'
  BY <1>1, <1>2, <1>3, <1>4, <1>5 DEF KeysInv, PendingAreNew, Writable
<1> QED
  BY <1>6 DEF KeysInv, ToldAreRegistered, TableIsKeyed

(* COMMIT, whether or not somebody is told the key. *)
LEMMA RegisterKeys ==
  ASSUME KeysInv, NEW c \in Clients, tx[c] # None, Register(c),
         tx' = [tx EXCEPT ![c] = None],
         told' = told \/ told' = told \union {tx[c]}
  PROVE  KeysInv'
<1> DEFINE k == tx[c]
           row == Row(k.name, Granted(k.scope))
<1>1. /\ k \in Registrations
      /\ k.uid \notin DOMAIN apps
      /\ \A u \in DOMAIN apps : apps[u].name # k.name
      /\ Writable(k.scope)
  BY DEF KeysInv, PendingAreNew
<1>2. /\ row \in Rows
      /\ row.name = k.name
      /\ row.scope = Value(Granted(k.scope))
  BY <1>1, ValueType, ApiAssumption DEF Row, Rows, Registrations, Writable
<1>3. /\ DOMAIN apps' = DOMAIN apps \union {k.uid}
      /\ apps'[k.uid] = row
      /\ \A u \in DOMAIN apps : apps'[u] = apps[u]
  BY <1>1 DEF Register
<1>4. /\ tx' \in [Clients -> Registrations \union {None}]
      /\ tx'[c] = None
      /\ \A d \in Clients : d # c => tx'[d] = tx[d]
  BY DEF KeysInv, PendingAreNew
<1> HIDE DEF row
<1>5. ToldAreRegistered'
  BY <1>1, <1>2, <1>3 DEF KeysInv, ToldAreRegistered, Writable
<1>6. TableIsKeyed'
  BY <1>1, <1>2, <1>3 DEF KeysInv, TableIsKeyed, ToldAreRegistered
<1>7. PendingAreNew'
  BY <1>1, <1>2, <1>3, <1>4 DEF KeysInv, PendingAreNew, Writable
<1> QED
  BY <1>5, <1>6, <1>7 DEF KeysInv

(* ROLLBACK. *)
LEMMA DropKeys ==
  ASSUME KeysInv, NEW c \in Clients, tx' = [tx EXCEPT ![c] = None],
         UNCHANGED <<apps, told>>
  PROVE  KeysInv'
<1>1. /\ tx' \in [Clients -> Registrations \union {None}]
      /\ tx'[c] = None
      /\ \A d \in Clients : d # c => tx'[d] = tx[d]
  BY DEF KeysInv, PendingAreNew
<1>2. PendingAreNew'
  BY <1>1 DEF KeysInv, PendingAreNew, Writable
<1> QED
  BY <1>2 DEF KeysInv, ToldAreRegistered, TableIsKeyed

LEMMA ChangeRateKeys ==
  ASSUME KeysInv, ChangeRate
  PROVE  KeysInv'
<1>1. PICK u \in DOMAIN apps, q \in Rates :
        apps' = [apps EXCEPT ![u].rate = q]
  BY DEF ChangeRate
<1>2. DOMAIN apps' = DOMAIN apps
  BY <1>1
<1>3. ASSUME NEW v \in DOMAIN apps
      PROVE  /\ apps'[v] \in Rows
             /\ apps'[v].name = apps[v].name
             /\ apps'[v].scope = apps[v].scope
  <2>1. apps[v] \in Rows
    BY DEF KeysInv, TableIsKeyed
  <2>2. CASE v = u
    <3>1. apps'[v] = [apps[v] EXCEPT !.rate = q]
      BY <1>1, <2>2
    <3> QED
      BY <2>1, <3>1 DEF Rows
  <2>3. CASE v # u
    BY <1>1, <2>1, <2>3
  <2> QED
    BY <2>2, <2>3
<1>4. UNCHANGED <<tx, told>>
  BY DEF ChangeRate
<1>5. ToldAreRegistered'
  BY <1>2, <1>3, <1>4 DEF KeysInv, ToldAreRegistered, Writable
<1>6. TableIsKeyed'
  BY <1>2, <1>3, <1>4 DEF KeysInv, TableIsKeyed
<1>7. PendingAreNew'
  BY <1>2, <1>3, <1>4 DEF KeysInv, PendingAreNew, Writable
<1> QED
  BY <1>5, <1>6, <1>7 DEF KeysInv

LEMMA CommitKeys ==
  ASSUME KeysInv, NEW c \in Clients, Commit(c) \/ CommitFails(c)
  PROVE  KeysInv'
<1>1. CASE Commit(c)
  BY <1>1, RegisterKeys DEF Commit
<1>2. CASE CommitFails(c) /\ Register(c)
  BY <1>2, RegisterKeys DEF CommitFails
<1>3. CASE CommitFails(c) /\ UNCHANGED apps
  BY <1>3, DropKeys DEF CommitFails
<1> QED
  BY <1>1, <1>2, <1>3 DEF CommitFails

LEMMA SameKeys ==
  ASSUME KeysInv, UNCHANGED <<apps, tx, told>>
  PROVE  KeysInv'
BY DEF KeysInv, ToldAreRegistered, TableIsKeyed, PendingAreNew, Writable

LEMMA KeysInvNext == KeysInv /\ [ApiNext]_allVars => KeysInv'
<1> SUFFICES ASSUME KeysInv, [ApiNext]_allVars
             PROVE  KeysInv'
  OBVIOUS
<1>1. ASSUME NEW r \in Requests
      PROVE  r \in Clients
  BY DEF Clients
<1>2. Console \in Clients
  BY DEF Clients
<1>3. ASSUME NEW r \in Requests,
             Authenticate(r) \/ LimitRequest(r) \/ OtherAnswer(r)
      PROVE  KeysInv'
  BY <1>3, SameKeys DEF Authenticate, LimitRequest, OtherAnswer
<1>4. ASSUME NEW r \in Requests, CreateApp(r)
      PROVE  KeysInv'
  BY <1>1, <1>4, InsertKeys DEF CreateApp
<1>5. ASSUME NEW r \in Requests, CreateAppEnds(r)
      PROVE  KeysInv'
  BY <1>1, <1>5, CommitKeys DEF CreateAppEnds
<1>6. CASE RunCommand
  BY <1>2, <1>6, InsertKeys DEF RunCommand
<1>7. CASE CommandEnds
  BY <1>2, <1>7, CommitKeys DEF CommandEnds
<1>8. CASE ChangeRate
  BY <1>8, ChangeRateKeys
<1>9. CASE (Tick \/ CleanupVisitors) /\ UNCHANGED apiVars
  BY <1>9, SameKeys DEF apiVars
<1>10. CASE UNCHANGED allVars
  BY <1>10, SameKeys DEF allVars, apiVars
<1> QED
  BY <1>3, <1>4, <1>5, <1>6, <1>7, <1>8, <1>9, <1>10 DEF ApiNext

(* Whoever has been told a key is registered with the name and the claims  *)
(* that were asked for, and alone with that name (createAppHandler,        *)
(* CreateApp, ScopeClaims), for any number of clients, names and scopes.   *)
THEOREM KeysAlwaysWork == ApiSpec => []KeysWork
<1>1. ApiInit => KeysInv
  BY KeysInvInit
<1>2. KeysInv /\ [ApiNext]_allVars => KeysInv'
  BY KeysInvNext
<1>3. KeysInv => KeysWork
  BY KeysInvImpliesKeysWork
<1> QED
  BY <1>1, <1>2, <1>3, PTL DEF ApiSpec

-----------------------------------------------------------------------------
(* The names that are lost *)

(* The applications whose key nobody knows. *)
Lost == {u \in DOMAIN apps : \A k \in told : k.uid # u}

LostInv ==
  /\ faults \in Nat
  /\ IsFiniteSet(Lost)
  /\ Cardinality(Lost) <= faults

LEMMA LostInvInit == ApiInit => LostInv
<1> SUFFICES ASSUME ApiInit PROVE LostInv
  OBVIOUS
<1>1. First.uid = Admin
  BY DEF First, Registration
<1>2. Lost = {}
  BY <1>1 DEF ApiInit, Lost
<1> QED
  BY <1>2, FS_EmptySet DEF ApiInit, LostInv

LEMMA SameLost ==
  ASSUME LostInv, Lost' = Lost, UNCHANGED faults
  PROVE  LostInv'
BY DEF LostInv

LEMMA CommitLost ==
  ASSUME LostInv, NEW c \in Clients, Commit(c) \/ CommitFails(c)
  PROVE  LostInv'
<1>1. ASSUME Register(c)
      PROVE  DOMAIN apps' = DOMAIN apps \union {tx[c].uid}
  BY <1>1 DEF Register
<1>2. CASE Commit(c)
  <2>1. Lost' \subseteq Lost
    BY <1>1, <1>2 DEF Commit, Lost
  <2> QED
    BY <1>2, <2>1, FS_Subset, FS_CardinalityType DEF Commit, LostInv
<1>3. CASE CommitFails(c)
  <2>1. Lost' \subseteq Lost \union {tx[c].uid}
    BY <1>1, <1>3 DEF CommitFails, Lost
  <2>2. /\ IsFiniteSet(Lost \union {tx[c].uid})
        /\ Cardinality(Lost \union {tx[c].uid}) <= Cardinality(Lost) + 1
    <3>1. IsFiniteSet(Lost) /\ Cardinality(Lost) \in Nat
      BY FS_CardinalityType DEF LostInv
    <3>2. /\ IsFiniteSet(Lost \union {tx[c].uid})
          /\ Cardinality(Lost \union {tx[c].uid}) \in
               {Cardinality(Lost), Cardinality(Lost) + 1}
      BY <3>1, FS_AddElement
    <3> QED
      BY <3>1, <3>2
  <2>3. /\ IsFiniteSet(Lost')
        /\ Cardinality(Lost') <= Cardinality(Lost \union {tx[c].uid})
    BY <2>1, <2>2, FS_Subset
  <2>4. /\ Cardinality(Lost) \in Nat
        /\ Cardinality(Lost') \in Nat
        /\ Cardinality(Lost \union {tx[c].uid}) \in Nat
    BY <2>2, <2>3, FS_CardinalityType DEF LostInv
  <2>5. faults' = faults + 1
    BY <1>3 DEF CommitFails
  <2> QED
    BY <2>2, <2>3, <2>4, <2>5 DEF LostInv
<1> QED
  BY <1>2, <1>3

LEMMA LostInvNext == LostInv /\ [ApiNext]_allVars => LostInv'
<1> SUFFICES ASSUME LostInv, [ApiNext]_allVars
             PROVE  LostInv'
  OBVIOUS
<1>1. ASSUME UNCHANGED <<apps, told, faults>>
      PROVE  LostInv'
  BY <1>1, SameLost DEF Lost
<1>2. ASSUME NEW r \in Requests,
             \/ Authenticate(r) \/ LimitRequest(r)
             \/ CreateApp(r) \/ OtherAnswer(r)
      PROVE  LostInv'
  BY <1>1, <1>2 DEF Authenticate, LimitRequest, CreateApp, OtherAnswer
<1>3. ASSUME NEW r \in Requests, CreateAppEnds(r)
      PROVE  LostInv'
  BY <1>3, CommitLost DEF CreateAppEnds, Clients
<1>4. CASE RunCommand
  BY <1>1, <1>4 DEF RunCommand
<1>5. CASE CommandEnds
  BY <1>5, CommitLost DEF CommandEnds, Clients
<1>6. CASE ChangeRate
  <2>1. DOMAIN apps' = DOMAIN apps
    BY <1>6 DEF ChangeRate
  <2>2. Lost' = Lost
    BY <1>6, <2>1 DEF ChangeRate, Lost
  <2> QED
    BY <1>6, <2>2, SameLost DEF ChangeRate
<1>7. CASE (Tick \/ CleanupVisitors) /\ UNCHANGED apiVars
  BY <1>1, <1>7 DEF apiVars
<1>8. CASE UNCHANGED allVars
  BY <1>1, <1>8 DEF allVars, apiVars
<1> QED
  BY <1>2, <1>3, <1>4, <1>5, <1>6, <1>7, <1>8 DEF ApiNext

(* No more names are used up by applications whose key nobody knows than   *)
(* ends of registrations were lost (CreateApp).                            *)
THEOREM FewNamesLost == ApiSpec => []NamesLostBound
<1>1. ApiInit => LostInv
  BY LostInvInit
<1>2. LostInv /\ [ApiNext]_allVars => LostInv'
  BY LostInvNext
<1>3. LostInv => NamesLostBound
  BY DEF LostInv, Lost, NamesLostBound
<1> QED
  BY <1>1, <1>2, <1>3, PTL DEF ApiSpec

-----------------------------------------------------------------------------
(* Where requests come from *)

(* A request that is being handled comes from an application that is       *)
(* registered.                                                             *)
MapInv ==
  /\ uid \in [Requests -> Visitors \union {None}]
  /\ pc \in [Requests -> {"idle", "lookup", "insert", "allow", "handler"}]
  /\ DOMAIN apps \subseteq Visitors
  /\ \A r \in Requests : pc[r] # "idle" => uid[r] \in DOMAIN apps

LEMMA MapInvInit == ApiInit => MapInv
BY ApiAssumption DEF ApiInit, Init, MapInv

(* No application is ever removed. *)
LEMMA AppsGrow ==
  ASSUME DOMAIN apps \subseteq DOMAIN apps', DOMAIN apps' \subseteq Visitors,
         MapInv, UNCHANGED visitors,
         \/ UNCHANGED <<pc, uid>>
         \/ \E r \in Requests : Finish(r)
  PROVE  MapInv'
<1>1. CASE UNCHANGED <<pc, uid>>
  BY <1>1 DEF MapInv
<1>2. ASSUME NEW r \in Requests, Finish(r)
      PROVE  MapInv'
  BY <1>2 DEF Finish, Handled, Answer, MapInv
<1> QED
  BY <1>1, <1>2

LEMMA LimiterKnows ==
  ASSUME MapInv, NEW r \in Requests, Limit(r), UNCHANGED apps
  PROVE  MapInv'
<1>1. CASE Found(r) \/ NotFound(r) \/ Pass(r)
  BY <1>1 DEF Found, NotFound, Pass, MapInv, context
<1>2. CASE AddVisitor(r)
  <2>1. uid[r] \in DOMAIN apps
    BY <1>2 DEF AddVisitor, MapInv
  <2>2. DOMAIN visitors' = DOMAIN visitors \union {uid[r]}
    BY <1>2 DEF AddVisitor
  <2> QED
    BY <1>2, <2>1, <2>2 DEF AddVisitor, MapInv, context
<1>3. CASE Reject(r)
  BY <1>3 DEF Reject, Answer, MapInv
<1> QED
  BY <1>1, <1>2, <1>3 DEF Limit

LEMMA MapInvNext ==
  KeysInv /\ MapInv /\ [ApiNext]_allVars => MapInv'
<1> SUFFICES ASSUME KeysInv, MapInv, [ApiNext]_allVars
             PROVE  MapInv'
  OBVIOUS
<1>1. ASSUME UNCHANGED <<apps, visitors, pc, uid>>
      PROVE  MapInv'
  BY <1>1 DEF MapInv
<1>2. ASSUME NEW c \in Clients, Commit(c) \/ CommitFails(c)
      PROVE  /\ DOMAIN apps \subseteq DOMAIN apps'
             /\ DOMAIN apps' \subseteq Visitors
  <2>1. tx[c] # None /\ (Register(c) \/ UNCHANGED apps)
    BY <1>2 DEF Commit, CommitFails
  <2>2. tx[c].uid \in Visitors
    BY <2>1 DEF KeysInv, PendingAreNew, Registrations
  <2> QED
    BY <2>1, <2>2 DEF Register, MapInv
<1>3. ASSUME NEW r \in Requests, Authenticate(r)
      PROVE  MapInv'
  <2>1. PICK u \in DOMAIN apps : ArriveFrom(r, u, LoadApp(u).rate)
    BY <1>3 DEF Authenticate
  <2>2. UNCHANGED apps
    BY <1>3 DEF Authenticate
  <2> QED
    BY <2>1, <2>2 DEF ArriveFrom, MapInv
<1>4. ASSUME NEW r \in Requests, LimitRequest(r)
      PROVE  MapInv'
  BY <1>4, LimiterKnows DEF LimitRequest
<1>5. ASSUME NEW r \in Requests, CreateApp(r)
      PROVE  MapInv'
  BY <1>1, <1>5 DEF CreateApp, limiterVars, context
<1>6. ASSUME NEW r \in Requests, CreateAppEnds(r)
      PROVE  MapInv'
  BY <1>2, <1>6, AppsGrow DEF CreateAppEnds, Clients, Finish, Handled
<1>7. ASSUME NEW r \in Requests, OtherAnswer(r)
      PROVE  MapInv'
  <2>1. UNCHANGED <<apps, visitors>> /\ Finish(r)
    BY <1>7 DEF OtherAnswer, Finish, Handled
  <2> QED
    BY <2>1, AppsGrow DEF MapInv
<1>8. CASE RunCommand
  BY <1>1, <1>8 DEF RunCommand, limiterVars, context
<1>9. CASE CommandEnds
  BY <1>2, <1>9, AppsGrow DEF CommandEnds, Clients, limiterVars, context
<1>10. CASE ChangeRate
  <2>1. DOMAIN apps' = DOMAIN apps /\ UNCHANGED <<visitors, pc, uid>>
    BY <1>10 DEF ChangeRate, limiterVars, context
  <2> QED
    BY <2>1, AppsGrow DEF MapInv
<1>11. CASE Tick /\ UNCHANGED apiVars
  BY <1>1, <1>11 DEF Tick, apiVars, context
<1>12. CASE CleanupVisitors /\ UNCHANGED apiVars
  BY <1>12 DEF CleanupVisitors, apiVars, context, MapInv
<1>13. CASE UNCHANGED allVars
  BY <1>1, <1>13 DEF allVars, apiVars, limiterVars, context
<1> QED
  BY <1>3, <1>4, <1>5, <1>6, <1>7, <1>8, <1>9, <1>10, <1>11, <1>12, <1>13
     DEF ApiNext

-----------------------------------------------------------------------------
(* The limiter behind the authentication *)

LEMMA ApiStepsLimit ==
  KeysInv /\ MapInv /\ [ApiNext]_allVars => [Next]_vars
<1> SUFFICES ASSUME KeysInv, MapInv, [ApiNext]_allVars
             PROVE  [Next]_vars
  OBVIOUS
<1>1. ASSUME UNCHANGED limiterVars
      PROVE  [Next]_vars
  BY <1>1 DEF limiterVars, vars
<1>2. ASSUME NEW r \in Requests, Authenticate(r)
      PROVE  Next
  <2>1. PICK u \in DOMAIN apps : ArriveFrom(r, u, LoadApp(u).rate)
    BY <1>2 DEF Authenticate
  <2>2. u \in Visitors /\ LoadApp(u).rate \in Rates
    BY DEF MapInv, KeysInv, TableIsKeyed, Rows, LoadApp
  <2> QED
    BY <2>1, <2>2 DEF Arrive, Next
<1>3. ASSUME NEW r \in Requests, LimitRequest(r)
      PROVE  Next
  BY <1>3 DEF LimitRequest, Next
<1>4. ASSUME NEW r \in Requests, CreateAppEnds(r) \/ OtherAnswer(r)
      PROVE  Next
  BY <1>4 DEF CreateAppEnds, OtherAnswer, Finish, Next
<1>5. ASSUME NEW r \in Requests, CreateApp(r)
      PROVE  UNCHANGED limiterVars
  BY <1>5 DEF CreateApp
<1>6. CASE RunCommand \/ CommandEnds \/ ChangeRate
  BY <1>1, <1>6 DEF RunCommand, CommandEnds, ChangeRate
<1>7. CASE (Tick \/ CleanupVisitors) /\ UNCHANGED apiVars
  BY <1>7 DEF Next
<1>8. CASE UNCHANGED allVars
  BY <1>1, <1>8 DEF allVars
<1> QED
  BY <1>1, <1>2, <1>3, <1>4, <1>5, <1>6, <1>7, <1>8 DEF ApiNext

(* What the limiter is given by the authentication middleware and by the   *)
(* handlers is what its own specification allows: whatever holds of the    *)
(* limiter by itself holds of it in its place (HTTP.Start).                *)
THEOREM ApiImplementsLimiter == ApiSpec => Spec
<1>1. ApiInit => Init /\ KeysInv /\ MapInv
  BY KeysInvInit, MapInvInit DEF ApiInit
<1>2. KeysInv /\ MapInv /\ [ApiNext]_allVars => (KeysInv /\ MapInv)'
  BY KeysInvNext, MapInvNext
<1>3. KeysInv /\ MapInv /\ [ApiNext]_allVars => [Next]_vars
  BY ApiStepsLimit
<1> QED
  BY <1>1, <1>2, <1>3, PTL DEF ApiSpec, Spec

(* No registered application gets more than its share, by the highest rate *)
(* it has had in the table (loadApp, LimitRequest), for any number of      *)
(* applications, requests and changes of rates.                            *)
THEOREM ApiIsFair == ApiSpec => []FairShare
BY ApiImplementsLimiter, LimiterIsFair, PTL

(* No registered application is answered 429 before it has used up what    *)
(* the lowest rate allows that it has had in the table.                    *)
THEOREM ApiLimitsOnlyAfterUse == ApiSpec => LimitedOnlyAtLimit
BY ApiImplementsLimiter, LimitedOnlyAfterUse, PTL

-----------------------------------------------------------------------------
(* The types *)

(* Column scope has what ScopeClaims.Value wrote. *)
ScopesWritten ==
  \A u \in DOMAIN apps : \E c \in Seq(AllowedScopeClaims) :
    c # <<>> /\ apps[u].scope = Value(c)

Bounded ==
  /\ told \subseteq Registrations \union {First}
  /\ requests \in 0..MaxRequests
  /\ changes \in 0..MaxChanges
  /\ faults \in 0..MaxFaults

ClaimsInv ==
  /\ ScopesWritten
  /\ roles \in [Requests -> Seq(AllowedScopeClaims)]
  /\ Bounded

LEMMA ClaimsInvInit == ApiInit => ClaimsInv
<1> SUFFICES ASSUME ApiInit PROVE ClaimsInv
  OBVIOUS
<1> DEFINE s == <<"create-users">>
<1>1. s \in Seq(AllowedScopeClaims) /\ s # <<>> /\ First.scope = s
  BY DEF AllowedScopeClaims, First, Registration
<1>2. DOMAIN apps = {Admin} /\ apps[Admin].scope = Value(First.scope)
  BY DEF ApiInit, Row
<1> HIDE DEF s
<1>3. ScopesWritten
  BY <1>1, <1>2 DEF ScopesWritten
<1>4. Bounded
  BY ApiAssumption DEF ApiInit, Bounded
<1> QED
  BY <1>3, <1>4 DEF ApiInit, ClaimsInv

LEMMA RegisterWrites ==
  ASSUME KeysInv, ScopesWritten, NEW c \in Clients,
         tx[c] # None, Register(c) \/ UNCHANGED apps
  PROVE  ScopesWritten'
<1>1. CASE UNCHANGED apps
  BY <1>1 DEF ScopesWritten
<1>2. CASE Register(c)
  <2> DEFINE claims == Granted(tx[c].scope)
  <2>1. claims \in Seq(AllowedScopeClaims) /\ claims # <<>>
    BY DEF KeysInv, PendingAreNew, Writable
  <2>2. /\ DOMAIN apps' = DOMAIN apps \union {tx[c].uid}
        /\ apps'[tx[c].uid].scope = Value(claims)
        /\ \A u \in DOMAIN apps : u # tx[c].uid => apps'[u] = apps[u]
    BY <1>2 DEF Register, Row
  <2> HIDE DEF claims
  <2>3. ASSUME NEW u \in DOMAIN apps'
        PROVE  \E d \in Seq(AllowedScopeClaims) :
                 d # <<>> /\ apps'[u].scope = Value(d)
    <3>1. CASE u = tx[c].uid
      BY <2>1, <2>2, <3>1
    <3>2. CASE u # tx[c].uid
      <4>1. u \in DOMAIN apps /\ apps'[u] = apps[u]
        BY <2>2, <3>2
      <4> QED
        BY <4>1 DEF ScopesWritten
    <3> QED
      BY <3>1, <3>2
  <2> QED
    BY <2>3 DEF ScopesWritten
<1> QED
  BY <1>1, <1>2

LEMMA CommitClaims ==
  ASSUME KeysInv, ScopesWritten, Bounded, NEW c \in Clients,
         Commit(c) \/ CommitFails(c)
  PROVE  (ScopesWritten /\ Bounded)'
<1>1. tx[c] # None /\ (Register(c) \/ UNCHANGED apps)
  BY DEF Commit, CommitFails
<1>2. tx[c] \in Registrations
  BY <1>1 DEF KeysInv, PendingAreNew
<1>3. Bounded'
  BY <1>2, ApiAssumption DEF Commit, CommitFails, Bounded
<1> QED
  BY <1>1, <1>3, RegisterWrites

LEMMA ChangeRateClaims ==
  ASSUME KeysInv, ScopesWritten, Bounded, ChangeRate
  PROVE  (ScopesWritten /\ Bounded)'
<1>1. PICK u \in DOMAIN apps, q \in Rates :
        apps' = [apps EXCEPT ![u].rate = q]
  BY DEF ChangeRate
<1>2. DOMAIN apps' = DOMAIN apps
  BY <1>1
<1>3. ASSUME NEW v \in DOMAIN apps
      PROVE  apps'[v].scope = apps[v].scope
  <2>1. apps[v] \in Rows
    BY DEF KeysInv, TableIsKeyed
  <2>2. CASE v = u
    <3>1. apps'[v] = [apps[v] EXCEPT !.rate = q]
      BY <1>1, <2>2
    <3> QED
      BY <2>1, <3>1 DEF Rows
  <2>3. CASE v # u
    BY <1>1, <2>3
  <2> QED
    BY <2>2, <2>3
<1>4. ScopesWritten'
  BY <1>2, <1>3 DEF ScopesWritten
<1>5. Bounded'
  BY ApiAssumption DEF ChangeRate, Bounded
<1> QED
  BY <1>4, <1>5

LEMMA FinishRoles ==
  ASSUME roles \in [Requests -> Seq(AllowedScopeClaims)],
         NEW r \in Requests, roles' = [roles EXCEPT ![r] = <<>>]
  PROVE  roles' \in [Requests -> Seq(AllowedScopeClaims)]
<1>1. <<>> \in Seq(AllowedScopeClaims)
  OBVIOUS
<1> QED
  BY <1>1

LEMMA ClaimsInvNext ==
  KeysInv /\ ClaimsInv /\ [ApiNext]_allVars => ClaimsInv'
<1> SUFFICES ASSUME KeysInv, ClaimsInv, [ApiNext]_allVars
             PROVE  ClaimsInv'
  OBVIOUS
<1>1. ASSUME UNCHANGED <<apps, told, requests, changes, faults>>,
             \/ UNCHANGED roles
             \/ \E r \in Requests : roles' = [roles EXCEPT ![r] = <<>>]
      PROVE  ClaimsInv'
  BY <1>1, FinishRoles DEF ClaimsInv, ScopesWritten, Bounded
<1>2. ASSUME NEW r \in Requests, Authenticate(r)
      PROVE  ClaimsInv'
  <2>1. PICK u \in DOMAIN apps :
          roles' = [roles EXCEPT ![r] = LoadApp(u).roles]
    BY <1>2 DEF Authenticate
  <2>2. PICK c \in Seq(AllowedScopeClaims) :
          c # <<>> /\ apps[u].scope = Value(c)
    BY DEF ClaimsInv, ScopesWritten
  <2>3. LoadApp(u).roles = c
    BY <2>2, ScanValue DEF LoadApp
  <2>4. roles' \in [Requests -> Seq(AllowedScopeClaims)]
    BY <2>1, <2>3 DEF ClaimsInv
  <2>5. Bounded'
    BY <1>2, ApiAssumption DEF Authenticate, ClaimsInv, Bounded
  <2>6. ScopesWritten'
    BY <1>2 DEF Authenticate, ClaimsInv, ScopesWritten
  <2> QED
    BY <2>4, <2>5, <2>6 DEF ClaimsInv
<1>3. ASSUME NEW r \in Requests, LimitRequest(r) \/ OtherAnswer(r)
      PROVE  ClaimsInv'
  <2>1. \/ roles' = roles
        \/ roles' = [roles EXCEPT ![r] = <<>>]
    BY <1>3 DEF LimitRequest, OtherAnswer, Finish
  <2>2. UNCHANGED <<apps, told, requests, changes, faults>>
    BY <1>3 DEF LimitRequest, OtherAnswer
  <2> QED
    BY <1>1, <2>1, <2>2
<1>4. ASSUME NEW r \in Requests, CreateApp(r)
      PROVE  ClaimsInv'
  BY <1>1, <1>4 DEF CreateApp
<1>5. ASSUME NEW r \in Requests, CreateAppEnds(r)
      PROVE  ClaimsInv'
  BY <1>5, CommitClaims, FinishRoles
     DEF CreateAppEnds, Finish, ClaimsInv, Clients
<1>6. CASE RunCommand
  BY <1>1, <1>6 DEF RunCommand
<1>7. CASE CommandEnds
  BY <1>7, CommitClaims DEF CommandEnds, ClaimsInv, Clients
<1>8. CASE ChangeRate
  BY <1>8, ChangeRateClaims DEF ChangeRate, ClaimsInv
<1>9. CASE (Tick \/ CleanupVisitors) /\ UNCHANGED apiVars
  BY <1>1, <1>9 DEF apiVars
<1>10. CASE UNCHANGED allVars
  BY <1>1, <1>10 DEF allVars, apiVars
<1> QED
  BY <1>2, <1>3, <1>4, <1>5, <1>6, <1>7, <1>8, <1>9, <1>10 DEF ApiNext

LEMMA ApiTypes ==
  KeysInv /\ MapInv /\ ClaimsInv /\ TypeOK => ApiTypeOK
<1> SUFFICES ASSUME KeysInv, MapInv, ClaimsInv, TypeOK
             PROVE  ApiTypeOK
  OBVIOUS
<1>1. First.name \in Names
  BY ApiAssumption DEF First, Registration
<1>2. \A u \in DOMAIN apps : apps[u].name \in Names /\ apps[u].rate \in Rates
  BY <1>1 DEF KeysInv, TableIsKeyed, Rows
<1>3. ASSUME NEW r \in Requests
      PROVE  ToSet(roles[r]) \subseteq AllowedScopeClaims
  <2>1. roles[r] \in Seq(AllowedScopeClaims)
    BY DEF ClaimsInv
  <2> QED
    BY <2>1 DEF ToSet
<1> QED
  BY <1>2, <1>3
     DEF ApiTypeOK, ClaimsInv, Bounded, KeysInv, PendingAreNew, MapInv

(* The types: in particular no request ever carries a claim that is not    *)
(* known (loadApp, ScopeClaims.Scan), as every scope in the table was      *)
(* checked and then written by ScopeClaims.Value.                          *)
THEOREM ApiTypeCorrect == ApiSpec => []ApiTypeOK
<1>1. ApiInit => KeysInv /\ MapInv /\ ClaimsInv
  BY KeysInvInit, MapInvInit, ClaimsInvInit
<1>2. KeysInv /\ MapInv /\ ClaimsInv /\ [ApiNext]_allVars =>
        (KeysInv /\ MapInv /\ ClaimsInv)'
  BY KeysInvNext, MapInvNext, ClaimsInvNext
<1>3. KeysInv /\ MapInv /\ ClaimsInv /\ TypeOK => ApiTypeOK
  BY ApiTypes
<1>4. ApiSpec => []TypeOK
  BY ApiImplementsLimiter, LimiterTypes, PTL
<1> QED
  BY <1>1, <1>2, <1>3, <1>4, PTL DEF ApiSpec
=============================================================================
