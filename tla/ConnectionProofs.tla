-------------------------- MODULE ConnectionProofs --------------------------
(***************************************************************************)
(* Proofs about Connection, for any clients, virtual servers, ports,       *)
(* memory, timeout and size of the wheel.  The memory, the hash tables and *)
(* the timer wheel agree and a client has one connection for each          *)
(* protocol, whatever the hash function; ports are conserved and an answer *)
(* reaches the client that holds its port as long as the hash function     *)
(* keeps the two protocols of an address apart.                            *)
(***************************************************************************)
EXTENDS Connection, SequenceTheorems, FiniteSetTheorems, WellFoundedInduction, TLAPS

(* The memory in use is what the tables hold. *)
LinkedUsed ==
  /\ Distinct(linked)
  /\ \A i \in Conns : i \in Items(linked) <=> conn[i] # None

(* A connection in use is in one slot of the wheel, which is still to come. *)
OneTimer ==
  /\ \A t \in Seconds : Distinct(wheel[t])
  /\ \A i \in Conns, t \in Seconds : i \in Items(wheel[t]) => conn[i] # None /\ t \in Ahead
  /\ \A i \in Conns, t, u \in Seconds :
       i \in Items(wheel[t]) /\ i \in Items(wheel[u]) => t = u
  /\ \A i \in Conns : conn[i] # None => \E t \in Seconds : i \in Items(wheel[t])

OneEach ==
  \A i, j \in Conns :
    /\ conn[i] # None /\ conn[j] # None
    /\ conn[i].client = conn[j].client /\ conn[i].hashed = conn[j].hashed
    => i = j

PortIfFullNat ==
  \A i \in Conns : conn[i] # None => (conn[i].vs \in FullNat <=> conn[i].port # None)

IInv == TypeOK /\ LinkedUsed /\ OneTimer /\ OneEach /\ PortIfFullNat

(* The hash function keeps the protocols of an ip:port apart.              *)
ProtocolsApart == \A key \in Clients \cup Ports : Bucket(key, "tcp") # Bucket(key, "udp")

Holds(i, proto) == conn[i] # None /\ conn[i].vs \in FullNat /\ conn[i].hashed = proto

(* A port is free once or held by one connection, whose protocol is still  *)
(* the one it was created with.                                            *)
PortInv ==
  /\ \A i \in Conns : conn[i] # None => conn[i].protocol = conn[i].hashed
  /\ \A proto \in Protos :
       /\ Distinct(ports[proto])
       /\ \A i \in Conns : Holds(i, proto) => conn[i].port \notin Items(ports[proto])
       /\ \A i, j \in Conns :
            Holds(i, proto) /\ Holds(j, proto) /\ conn[i].port = conn[j].port => i = j
       /\ \A p \in Ports :
            p \in Items(ports[proto]) \/ \E i \in Conns : Holds(i, proto) /\ conn[i].port = p

-----------------------------------------------------------------------------
(* A smallest position. *)
LEMMA Smallest ==
  ASSUME NEW K \in SUBSET Nat, K # {}
  PROVE  \E k \in K : \A l \in K : k <= l
<1>1. PICK k \in K : \A l \in K : ~(<<l, k>> \in OpToRel(<, Nat))
  BY NatLessThanWellFounded, WFMin
<1>2. \A l \in K : ~(l < k)
  BY <1>1 DEF OpToRel
<1> QED BY <1>2

(* f numbers the positions K, and Kept takes them as they are numbered. *)
Picks(f, s, K) ==
  /\ f \in [1..Cardinality(K) -> K]
  /\ \A k \in K : \E m \in 1..Cardinality(K) : f[m] = k
  /\ \A m, o \in 1..Cardinality(K) : f[m] = f[o] => m = o
  /\ Kept(s, K) = [m \in 1..Cardinality(K) |-> s[f[m]]]

(* Kept takes the positions K of a sequence, each of them once. *)
LEMMA KeptPicks ==
  ASSUME NEW s, NEW n \in Nat, NEW K \in SUBSET (1..n)
  PROVE  /\ Cardinality(K) \in Nat
         /\ \E f : Picks(f, s, K)
<1> DEFINE N == Cardinality(K)
           c(k) == Cardinality({l \in K : l <= k})
           r == [k \in K |-> c(k)]
           f == [m \in 1..N |-> CHOOSE k \in K : c(k) = m]
<1>1. IsFiniteSet(K) /\ N \in Nat
  <2>1. IsFiniteSet(1..n)
    BY FS_Interval
  <2>2. IsFiniteSet(K)
    BY <2>1, FS_Subset
  <2> QED BY <2>2, FS_CardinalityType
<1>2. \A k \in K : IsFiniteSet({l \in K : l <= k}) /\ c(k) \in 1..N
  <2> TAKE k \in K
  <2>1. {l \in K : l <= k} \in SUBSET K
    OBVIOUS
  <2>2. IsFiniteSet({l \in K : l <= k}) /\ c(k) <= N
    BY <1>1, <2>1, FS_Subset
  <2>3. c(k) \in Nat
    BY <2>2, FS_CardinalityType
  <2>4. k \in {l \in K : l <= k}
    OBVIOUS
  <2>5. c(k) # 0
    BY <2>2, <2>4, FS_EmptySet
  <2> QED BY <1>1, <2>2, <2>3, <2>5
<1>3. \A k, l \in K : k < l => c(k) < c(l)
  <2> SUFFICES ASSUME NEW k \in K, NEW l \in K, k < l PROVE c(k) < c(l)
    OBVIOUS
  <2>1. {x \in K : x <= k} \in SUBSET {x \in K : x <= l}
    <3>1. \A x \in K : x <= k => x <= l
      OBVIOUS
    <3> HIDE DEF N
    <3> QED BY <3>1
  <2>2. l \in {x \in K : x <= l} /\ l \notin {x \in K : x <= k}
    OBVIOUS
  <2>3. c(k) <= c(l) /\ c(k) # c(l)
    BY <1>2, <2>1, <2>2, FS_Subset
  <2> QED BY <1>1, <1>2, <2>3
<1>4. r \in Injection(K, 1..N)
  <2>1. r \in [K -> 1..N]
    BY <1>2
  <2>2. ASSUME NEW k \in K, NEW l \in K, r[k] = r[l] PROVE k = l
    <3>1. c(k) = c(l) /\ c(k) \in Nat
      BY <1>1, <1>2, <2>2
    <3>2. ~(k < l) /\ ~(l < k)
      BY <1>3, <1>1, <1>2, <3>1
    <3> QED BY <3>2
  <2> QED BY <2>1, <2>2 DEF Injection, IsInjective
<1>5. IsFiniteSet(1..N) /\ Cardinality(1..N) = N
  BY <1>1, FS_Interval
<1>6. r \in Surjection(K, 1..N)
  BY <1>4, <1>5, FS_Injection
<1>7. \A m \in 1..N : \E k \in K : c(k) = m
  BY <1>6 DEF Surjection
<1>8. \A k, l \in K : c(k) = c(l) => k = l
  BY <1>4 DEF Injection, IsInjective
<1> HIDE DEF c
<1>9. \A m \in 1..N : f[m] \in K /\ c(f[m]) = m
  BY <1>7
<1>10. f \in [1..N -> K]
  BY <1>9
<1>11. \A k \in K : c(k) \in 1..N
  BY <1>2
<1>12. \A k \in K : \E m \in 1..N : f[m] = k
  BY <1>8, <1>9, <1>11
<1>13. \A m, o \in 1..N : f[m] = f[o] => m = o
  BY <1>9
<1>14. Kept(s, K) = [m \in 1..N |-> s[f[m]]]
  BY DEF Kept, c
<1>15. Picks(f, s, K)
  BY <1>10, <1>12, <1>13, <1>14 DEF Picks
<1> QED BY <1>1, <1>15

LEMMA KeptSeq ==
  ASSUME NEW T, NEW s, NEW n \in Nat, NEW K \in SUBSET (1..n), \A k \in K : s[k] \in T
  PROVE  /\ Kept(s, K) \in Seq(T)
         /\ Items(Kept(s, K)) = {s[k] : k \in K}
         /\ (\A k, l \in K : s[k] = s[l] => k = l) => Distinct(Kept(s, K))
<1> DEFINE N == Cardinality(K)
<1>1. N \in Nat
  BY KeptPicks
<1>a. PICK f : Picks(f, s, K)
  BY KeptPicks
<1>2. /\ f \in [1..N -> K]
      /\ \A k \in K : \E m \in 1..N : f[m] = k
      /\ \A m, o \in 1..N : f[m] = f[o] => m = o
      /\ Kept(s, K) = [m \in 1..N |-> s[f[m]]]
  BY <1>a DEF Picks
<1> DEFINE g == Kept(s, K)
<1>3. /\ g = [m \in 1..N |-> g[m]]
      /\ DOMAIN g = 1..N
      /\ \A m \in 1..N : f[m] \in K /\ g[m] = s[f[m]]
  BY <1>2
<1> HIDE DEF N, g
<1>4. g \in Seq(T)
  <2>1. \A m \in 1..N : g[m] \in T
    BY <1>3
  <2>2. [m \in 1..N |-> g[m]] \in Seq(T)
    BY <1>1, <2>1, IsASeq
  <2> QED BY <1>3, <2>2
<1>5. Items(g) = {s[k] : k \in K}
  <2>1. \A x \in Items(g) : x \in {s[k] : k \in K}
    BY <1>3 DEF Items
  <2>2. ASSUME NEW k \in K PROVE s[k] \in Items(g)
    <3>1. PICK m \in 1..N : f[m] = k
      BY <1>2
    <3>2. m \in DOMAIN g /\ g[m] = s[k]
      BY <1>3, <3>1
    <3> QED BY <3>2 DEF Items
  <2> QED BY <2>1, <2>2
<1>6. (\A k, l \in K : s[k] = s[l] => k = l) => Distinct(g)
  BY <1>2, <1>3 DEF Distinct
<1> QED BY <1>4, <1>5, <1>6 DEF g

LEMMA WithoutSeq ==
  ASSUME NEW T, NEW s \in Seq(T), NEW S
  PROVE  /\ Without(s, S) \in Seq(T)
         /\ \A x : x \in Items(Without(s, S)) <=> x \in Items(s) /\ x \notin S
         /\ Distinct(s) => Distinct(Without(s, S))
<1> DEFINE K == {k \in DOMAIN s : s[k] \notin S}
<1>1. Len(s) \in Nat /\ DOMAIN s = 1..Len(s) /\ K \in SUBSET (1..Len(s)) /\ \A k \in K : s[k] \in T
  OBVIOUS
<1>2. /\ Kept(s, K) \in Seq(T)
      /\ Items(Kept(s, K)) = {s[k] : k \in K}
      /\ (\A k, l \in K : s[k] = s[l] => k = l) => Distinct(Kept(s, K))
  BY <1>1, KeptSeq
<1>3. \A x : x \in {s[k] : k \in K} <=> x \in Items(s) /\ x \notin S
  BY DEF Items
<1>4. Distinct(s) => \A k, l \in K : s[k] = s[l] => k = l
  BY DEF Distinct
<1> QED BY <1>2, <1>3, <1>4 DEF Without

-----------------------------------------------------------------------------
(* What a step leaves of the connections that it does not free: the        *)
(* protocol and the state may change, the rest does not.                   *)
SameConns(c) ==
  /\ c \in [Conns -> ConnRecord \cup {None}]
  /\ \A i \in Conns : c[i] = None <=> conn[i] = None
  /\ \A i \in Conns : conn[i] # None =>
       /\ c[i].client = conn[i].client /\ c[i].vs = conn[i].vs
       /\ c[i].port = conn[i].port /\ c[i].hashed = conn[i].hashed

LEMMA UsedTyped ==
  ASSUME TypeOK, NEW i \in Conns, conn[i] # None
  PROVE  conn[i] \in ConnRecord
BY DEF TypeOK

LEMMA ItemsTyped ==
  ASSUME NEW T, NEW s \in Seq(T)
  PROVE  Items(s) \subseteq T
BY DEF Items

LEMMA ConcatItems ==
  ASSUME NEW T, NEW s \in Seq(T), NEW t \in Seq(T)
  PROVE  /\ s \o t \in Seq(T)
         /\ \A x : x \in Items(s \o t) <=> x \in Items(s) \/ x \in Items(t)
         /\ (/\ Distinct(s) /\ Distinct(t)
             /\ \A x \in Items(s) : x \notin Items(t)) => Distinct(s \o t)
<1> DEFINE u == s \o t
<1>1. /\ u \in Seq(T) /\ Len(u) = Len(s) + Len(t)
      /\ \A k \in 1..(Len(s) + Len(t)) : u[k] = IF k <= Len(s) THEN s[k] ELSE t[k - Len(s)]
  BY ConcatProperties
<1>2. /\ Len(s) \in Nat /\ Len(t) \in Nat
      /\ DOMAIN s = 1..Len(s) /\ DOMAIN t = 1..Len(t) /\ DOMAIN u = 1..(Len(s) + Len(t))
  BY <1>1, LenProperties
<1> HIDE DEF u
<1>3. ASSUME NEW x \in Items(u) PROVE x \in Items(s) \/ x \in Items(t)
  <2>1. PICK k \in 1..(Len(s) + Len(t)) : x = u[k]
    BY <1>2 DEF Items
  <2>2. CASE k <= Len(s)
    <3>1. k \in DOMAIN s /\ x = s[k]
      BY <1>1, <1>2, <2>1, <2>2
    <3> QED BY <3>1 DEF Items
  <2>3. CASE k > Len(s)
    <3>1. k - Len(s) \in DOMAIN t /\ x = t[k - Len(s)]
      BY <1>1, <1>2, <2>1, <2>3
    <3> QED BY <3>1 DEF Items
  <2> QED BY <1>2, <2>2, <2>3
<1>4. ASSUME NEW x \in Items(s) PROVE x \in Items(u)
  <2>1. PICK k \in 1..Len(s) : x = s[k]
    BY <1>2 DEF Items
  <2>2. k \in DOMAIN u /\ u[k] = x
    BY <1>1, <1>2, <2>1
  <2> QED BY <2>2 DEF Items
<1>5. ASSUME NEW x \in Items(t) PROVE x \in Items(u)
  <2>1. PICK k \in 1..Len(t) : x = t[k]
    BY <1>2 DEF Items
  <2>2. k + Len(s) \in DOMAIN u /\ u[k + Len(s)] = x
    BY <1>1, <1>2, <2>1
  <2> QED BY <2>2 DEF Items
<1>6. ASSUME Distinct(s), Distinct(t), \A x \in Items(s) : x \notin Items(t)
      PROVE  Distinct(u)
  <2> SUFFICES ASSUME NEW k \in DOMAIN u, NEW l \in DOMAIN u, u[k] = u[l]
               PROVE  k = l
    BY DEF Distinct
  <2>1. \A m \in DOMAIN u :
          \/ m \in DOMAIN s /\ u[m] = s[m] /\ u[m] \in Items(s)
          \/ m - Len(s) \in DOMAIN t /\ u[m] = t[m - Len(s)] /\ u[m] \in Items(t)
    BY <1>1, <1>2 DEF Items
  <2>2. CASE k \in DOMAIN s /\ l \in DOMAIN s /\ u[k] = s[k] /\ u[l] = s[l]
    BY <1>6, <2>2 DEF Distinct
  <2>3. CASE /\ k - Len(s) \in DOMAIN t /\ l - Len(s) \in DOMAIN t
             /\ u[k] = t[k - Len(s)] /\ u[l] = t[l - Len(s)]
    <3>1. k - Len(s) = l - Len(s)
      BY <1>6, <2>3 DEF Distinct
    <3> QED BY <1>2, <3>1
  <2> QED BY <1>6, <2>1, <2>2, <2>3
<1> QED BY <1>1, <1>3, <1>4, <1>5, <1>6 DEF u

(* The slots of the wheel, as numbers. *)
LEMMA Wrap ==
  \A a \in Nat : a < 2 * WheelSize =>
    /\ a % WheelSize = IF a < WheelSize THEN a ELSE a - WheelSize
    /\ a % WheelSize \in Seconds
<1> SUFFICES ASSUME NEW a \in Nat, a < 2 * WheelSize
             PROVE  /\ a % WheelSize = IF a < WheelSize THEN a ELSE a - WheelSize
                    /\ a % WheelSize \in Seconds
  OBVIOUS
<1>1. WheelSize \in Nat /\ WheelSize > 0
  BY TimeAssumption
<1>2. CASE a < WheelSize
  BY <1>1, <1>2 DEF Seconds
<1>3. CASE a >= WheelSize
  <2>1. a % WheelSize = (a - WheelSize) % WheelSize
    BY <1>1, <1>3
  <2>2. a - WheelSize \in 0..(WheelSize - 1)
    BY <1>1, <1>3
  <2>3. (a - WheelSize) % WheelSize = a - WheelSize
    BY <1>1, <2>2
  <2> QED BY <1>1, <1>3, <2>1, <2>2, <2>3 DEF Seconds
<1> QED BY <1>1, <1>2, <1>3

(* What is ahead stays ahead when the clock ticks, but for the slot that   *)
(* is due.                                                                 *)
LEMMA AheadOfTick ==
  ASSUME second \in Seconds, NEW t \in Ahead, second' = (second + 1) % WheelSize,
         t # second'
  PROVE  t \in Ahead'
<1>1. /\ WheelSize \in Nat /\ WheelSize > 0 /\ Timeout \in Nat /\ Timeout > 0
      /\ Timeout < WheelSize /\ second \in Nat /\ second < WheelSize
  BY TimeAssumption DEF Seconds
<1>2. PICK d \in 1..Timeout : t = (second + d) % WheelSize
  BY DEF Ahead
<1>3. d # 1
  BY <1>2
<1>4. d - 1 \in 1..Timeout
  BY <1>1, <1>3
<1>5. t = IF second + d < WheelSize THEN second + d ELSE second + d - WheelSize
  BY <1>1, <1>2, Wrap
<1>6. second' = IF second + 1 < WheelSize THEN second + 1 ELSE second + 1 - WheelSize
  BY <1>1, Wrap
<1>7. second' + (d - 1) \in Nat /\ second' + (d - 1) < 2 * WheelSize
  BY <1>1, <1>6
<1>8. (second' + (d - 1)) % WheelSize
        = IF second' + (d - 1) < WheelSize THEN second' + (d - 1)
                                           ELSE second' + (d - 1) - WheelSize
  <2> DEFINE a == second' + (d - 1)
  <2>1. a \in Nat /\ a < 2 * WheelSize
    BY <1>7
  <2> HIDE DEF a
  <2>2. a % WheelSize = IF a < WheelSize THEN a ELSE a - WheelSize
    BY <2>1, Wrap
  <2> QED BY <1>1, <1>6, <2>2 DEF a
<1>9. t = (second' + (d - 1)) % WheelSize
  BY <1>1, <1>5, <1>6, <1>8
<1> QED BY <1>4, <1>9 DEF Ahead

-----------------------------------------------------------------------------
(* The ports that the connections of s give back to the range of proto.    *)
LEMMA ReturnedPorts ==
  ASSUME TypeOK, PortIfFullNat, NEW c, SameConns(c), NEW proto \in Protos,
         NEW s \in Seq(Conns), \A i \in Items(s) : conn[i] # None
  PROVE  /\ Returned(s, c, proto) \in Seq(Ports)
         /\ \A p : p \in Items(Returned(s, c, proto)) <=>
              \E i \in Items(s) :
                conn[i].vs \in FullNat /\ c[i].protocol = proto /\ conn[i].port = p
         /\ (/\ Distinct(s)
             /\ \A i, j \in Items(s) :
                  /\ conn[i].vs \in FullNat /\ conn[j].vs \in FullNat
                  /\ c[i].protocol = proto /\ c[j].protocol = proto
                  /\ conn[i].port = conn[j].port
                  => i = j) => Distinct(Returned(s, c, proto))
<1> DEFINE g == [k \in DOMAIN s |-> c[s[k]].port]
           K == {k \in DOMAIN s : c[s[k]].vs \in FullNat /\ c[s[k]].protocol = proto}
           r == Kept(g, K)
<1>1. /\ Len(s) \in Nat /\ DOMAIN s = 1..Len(s) /\ K \in SUBSET (1..Len(s))
      /\ \A k \in DOMAIN s : s[k] \in Conns /\ s[k] \in Items(s)
  BY DEF Items
<1>2. \A i \in Items(s) : /\ i \in Conns /\ c[i].vs = conn[i].vs /\ c[i].port = conn[i].port
                          /\ conn[i] \in ConnRecord
  BY ItemsTyped, UsedTyped DEF SameConns
<1>3. \A k \in K : /\ g[k] = conn[s[k]].port /\ conn[s[k]].vs \in FullNat
                   /\ c[s[k]].protocol = proto /\ s[k] \in Items(s)
  BY <1>1, <1>2
<1>4. \A i \in Items(s) : conn[i].vs \in FullNat => conn[i].port \in Ports
  BY <1>2 DEF PortIfFullNat, ConnRecord
<1>5. \A k \in K : g[k] \in Ports
  BY <1>3, <1>4
<1>6. \A k \in DOMAIN s :
        conn[s[k]].vs \in FullNat /\ c[s[k]].protocol = proto => k \in K
  BY <1>1, <1>2
<1>7. Returned(s, c, proto) = r
  BY DEF Returned
<1> HIDE DEF g, K
<1>8. /\ r \in Seq(Ports)
      /\ Items(r) = {g[k] : k \in K}
      /\ (\A k, l \in K : g[k] = g[l] => k = l) => Distinct(r)
  BY <1>1, <1>5, KeptSeq
<1> HIDE DEF r
<1>9. ASSUME NEW p \in Items(r)
      PROVE  \E i \in Items(s) :
               conn[i].vs \in FullNat /\ c[i].protocol = proto /\ conn[i].port = p
  <2>1. PICK k \in K : p = g[k]
    BY <1>8, <1>9
  <2> QED BY <1>3, <2>1
<1>10. ASSUME NEW i \in Items(s), conn[i].vs \in FullNat, c[i].protocol = proto
       PROVE  conn[i].port \in Items(r)
  <2>1. PICK k \in DOMAIN s : i = s[k]
    BY DEF Items
  <2>2. k \in K
    BY <1>6, <1>10, <2>1
  <2> QED BY <1>3, <1>8, <2>1, <2>2
<1>11. ASSUME Distinct(s),
              \A i, j \in Items(s) :
                /\ conn[i].vs \in FullNat /\ conn[j].vs \in FullNat
                /\ c[i].protocol = proto /\ c[j].protocol = proto
                /\ conn[i].port = conn[j].port
                => i = j
       PROVE  Distinct(r)
  <2>1. \A k, l \in K : g[k] = g[l] => s[k] = s[l]
    BY <1>3, <1>11
  <2>2. \A k, l \in K : s[k] = s[l] => k = l
    BY <1>1, <1>11 DEF Distinct
  <2> QED BY <1>8, <2>1, <2>2
<1> QED BY <1>7, <1>8, <1>9, <1>10, <1>11

(* The connections after some of them were freed. *)
LEMMA FreedConns ==
  ASSUME TypeOK, NEW c, SameConns(c), NEW s, Free(s, c)
  PROVE  /\ conn' \in [Conns -> ConnRecord \cup {None}]
         /\ \A i \in Conns : conn'[i] # None <=> conn[i] # None /\ i \notin Items(s)
         /\ \A i \in Conns : conn'[i] # None =>
              /\ conn'[i] = c[i]
              /\ conn'[i].client = conn[i].client /\ conn'[i].vs = conn[i].vs
              /\ conn'[i].port = conn[i].port /\ conn'[i].hashed = conn[i].hashed
<1>1. conn' = [i \in Conns |-> IF i \in Items(s) THEN None ELSE c[i]]
  BY DEF Free
<1>2. \A i \in Conns : conn'[i] = IF i \in Items(s) THEN None ELSE c[i]
  BY <1>1
<1> QED BY <1>1, <1>2 DEF SameConns

(* Freeing connections, each once, keeps tables, timers and memory in      *)
(* agreement.                                                              *)
LEMMA FreeKeeps ==
  ASSUME IInv, NEW c, SameConns(c), NEW s \in Seq(Conns), Free(s, c),
         \A i \in Items(s) : conn[i] # None,
         second' \in Seconds, out' \in ForwardRecord \cup {None},
         \A t \in Ahead : (\E i \in Items(wheel[t]) : i \notin Items(s)) => t \in Ahead'
  PROVE  IInv'
<1> USE DEF IInv
<1>1. /\ conn' \in [Conns -> ConnRecord \cup {None}]
      /\ \A i \in Conns : conn'[i] # None <=> conn[i] # None /\ i \notin Items(s)
      /\ \A i \in Conns : conn'[i] # None =>
           /\ conn'[i].client = conn[i].client /\ conn'[i].vs = conn[i].vs
           /\ conn'[i].port = conn[i].port /\ conn'[i].hashed = conn[i].hashed
  BY FreedConns
<1>2. /\ linked' \in Seq(Conns)
      /\ \A i : i \in Items(linked') <=> i \in Items(linked) /\ i \notin Items(s)
      /\ Distinct(linked) => Distinct(linked')
  <2>1. linked \in Seq(Conns) /\ linked' = Without(linked, Items(s))
    BY DEF TypeOK, Free
  <2> QED BY <2>1, WithoutSeq
<1>3. /\ wheel' \in [Seconds -> Seq(Conns)]
      /\ \A t \in Seconds :
           /\ \A i : i \in Items(wheel'[t]) <=> i \in Items(wheel[t]) /\ i \notin Items(s)
           /\ Distinct(wheel[t]) => Distinct(wheel'[t])
  <2>1. wheel' = [t \in Seconds |-> Without(wheel[t], Items(s))]
    BY DEF Free
  <2>2. \A t \in Seconds : wheel[t] \in Seq(Conns) /\ wheel'[t] = Without(wheel[t], Items(s))
    BY <2>1 DEF TypeOK
  <2>3. \A t \in Seconds :
          /\ Without(wheel[t], Items(s)) \in Seq(Conns)
          /\ \A i : i \in Items(Without(wheel[t], Items(s)))
                      <=> i \in Items(wheel[t]) /\ i \notin Items(s)
          /\ Distinct(wheel[t]) => Distinct(Without(wheel[t], Items(s)))
    BY <2>2, WithoutSeq
  <2>4. \A t \in Seconds : wheel'[t] \in Seq(Conns)
    BY <2>2, <2>3
  <2>5. wheel' \in [Seconds -> Seq(Conns)]
    BY <2>1, <2>3
  <2> QED BY <2>2, <2>3, <2>5
<1>4. ports' \in [Protos -> Seq(Ports)]
  <2>1. \A proto \in Protos : Returned(s, c, proto) \in Seq(Ports)
    BY ReturnedPorts
  <2>2. \A proto \in Protos : ports[proto] \o Returned(s, c, proto) \in Seq(Ports)
    BY <2>1, ConcatProperties DEF TypeOK
  <2>3. ports' = [proto \in Protos |-> ports[proto] \o Returned(s, c, proto)]
    BY DEF Free
  <2> QED BY <2>2, <2>3
<1>5. TypeOK'
  BY <1>1, <1>2, <1>3, <1>4 DEF TypeOK
<1>6. LinkedUsed'
  BY <1>1, <1>2 DEF LinkedUsed
<1>7. OneTimer'
  <2>1. \A t \in Seconds : Distinct(wheel'[t])
    BY <1>3 DEF OneTimer
  <2>2. \A i \in Conns, t \in Seconds :
          i \in Items(wheel'[t]) => conn'[i] # None /\ t \in Ahead'
    BY <1>1, <1>3 DEF OneTimer
  <2>3. \A i \in Conns, t, u \in Seconds :
          i \in Items(wheel'[t]) /\ i \in Items(wheel'[u]) => t = u
    BY <1>3 DEF OneTimer
  <2>4. \A i \in Conns : conn'[i] # None => \E t \in Seconds : i \in Items(wheel'[t])
    BY <1>1, <1>3 DEF OneTimer
  <2> QED BY <2>1, <2>2, <2>3, <2>4 DEF OneTimer
<1>8. OneEach'
  BY <1>1 DEF OneEach
<1>9. PortIfFullNat'
  BY <1>1 DEF PortIfFullNat
<1> QED BY <1>5, <1>6, <1>7, <1>8, <1>9

(* So does a step that only moves protocols and states.                    *)
LEMMA MoveKeeps ==
  ASSUME IInv, NEW c, SameConns(c), conn' = c, UNCHANGED <<linked, ports, wheel, second>>,
         out' \in ForwardRecord \cup {None}
  PROVE  IInv'
<1> USE DEF IInv, SameConns
<1>1. TypeOK'
  BY DEF TypeOK
<1>2. LinkedUsed'
  BY DEF LinkedUsed
<1>3. Ahead' = Ahead
  BY DEF Ahead
<1>4. OneTimer'
  BY <1>3 DEF OneTimer
<1>5. OneEach'
  BY DEF OneEach
<1>6. PortIfFullNat'
  BY DEF PortIfFullNat
<1> QED BY <1>1, <1>2, <1>4, <1>5, <1>6

-----------------------------------------------------------------------------
(* A lookup gives a linked connection of this key and bucket, if there is  *)
(* one.                                                                    *)
LEMMA LookupGives ==
  ASSUME TypeOK, LinkedUsed, NEW key, NEW field, NEW proto
  PROVE  LET i == Lookup(key, field, proto) IN
         /\ i # None => i \in Conns /\ conn[i] # None /\ InBucket(i, key, field, proto)
         /\ i = None => \A j \in Conns : conn[j] # None => ~InBucket(j, key, field, proto)
<1> DEFINE found == {k \in DOMAIN linked : InBucket(linked[k], key, field, proto)}
           first == CHOOSE k \in found : \A l \in found : k <= l
           i == Lookup(key, field, proto)
<1>1. i = IF found = {} THEN None ELSE linked[first]
  BY DEF Lookup
<1>2. DOMAIN linked \in SUBSET Nat /\ \A k \in DOMAIN linked : linked[k] \in Conns
  BY DEF TypeOK
<1>3. \A j \in Conns : conn[j] # None <=> \E k \in DOMAIN linked : j = linked[k]
  BY DEF LinkedUsed, Items
<1>4. CASE found = {}
  <2>1. \A k \in DOMAIN linked : ~InBucket(linked[k], key, field, proto)
    BY <1>4
  <2>2. \A j \in Conns : conn[j] # None => ~InBucket(j, key, field, proto)
    BY <1>3, <2>1
  <2> QED BY <1>1, <1>4, <2>2
<1>5. CASE found # {}
  <2>1. found \in SUBSET Nat
    BY <1>2
  <2>2. \E k \in found : \A l \in found : k <= l
    BY <1>5, <2>1, Smallest
  <2> HIDE DEF found
  <2>3. first \in found
    BY <2>2
  <2>4. i = linked[first]
    BY <1>1, <1>5
  <2> HIDE DEF first, i
  <2>5. first \in DOMAIN linked /\ InBucket(linked[first], key, field, proto)
    BY <2>3 DEF found
  <2>6. i \in Conns /\ conn[i] # None /\ InBucket(i, key, field, proto)
    BY <1>2, <1>3, <2>4, <2>5
  <2>7. i # None
    BY <2>6, NoneAssumption
  <2> QED BY <2>6, <2>7 DEF i
<1> QED BY <1>4, <1>5

LEMMA NextStateTyped ==
  ASSUME NEW state \in States, NEW fin \in BOOLEAN, NEW ack \in BOOLEAN
  PROVE  NextState(state, fin, ack) \in States
<1>1. CASE fin /\ state = "init"
  BY <1>1 DEF NextState, States
<1>2. CASE ack /\ state = "fin1"
  BY <1>2 DEF NextState, States
<1>3. CASE fin /\ state = "fin1 ack"
  BY <1>3 DEF NextState, States
<1>4. CASE ack /\ state = "fin2"
  BY <1>4 DEF NextState, States
<1> QED BY <1>1, <1>2, <1>3, <1>4 DEF NextState

(* A packet of a known connection changes its protocol and its state, or   *)
(* frees it.                                                               *)
Touched(c, i, proto) ==
  /\ SameConns(c)
  /\ c[i].protocol = proto
  /\ \A j \in Conns : j # i => c[j] = conn[j]
  /\ Free(<<i>>, c) \/ (conn' = c /\ UNCHANGED <<linked, ports, wheel>>)

LEMMA TouchMoves ==
  ASSUME IInv, NEW i \in Conns, conn[i] # None, NEW proto \in Protos,
         NEW fin \in BOOLEAN, NEW ack \in BOOLEAN, Touch(i, proto, fin, ack)
  PROVE  \E c : Touched(c, i, proto)
<1> DEFINE x == [conn[i] EXCEPT !.protocol = proto]
           y == IF proto = "tcp" THEN [x EXCEPT !.state = NextState(x.state, fin, ack)] ELSE x
           c == [conn EXCEPT ![i] = y]
<1>1. conn[i] \in ConnRecord
  BY UsedTyped DEF IInv
<1>2. /\ x \in ConnRecord /\ x.protocol = proto
      /\ x.client = conn[i].client /\ x.vs = conn[i].vs
      /\ x.port = conn[i].port /\ x.hashed = conn[i].hashed
  BY <1>1 DEF ConnRecord
<1>3. NextState(x.state, fin, ack) \in States
  BY <1>2, NextStateTyped DEF ConnRecord
<1> HIDE DEF x
<1>4. /\ y \in ConnRecord /\ y.protocol = proto
      /\ y.client = conn[i].client /\ y.vs = conn[i].vs
      /\ y.port = conn[i].port /\ y.hashed = conn[i].hashed
  BY <1>2, <1>3 DEF ConnRecord
<1>5. y # None
  BY <1>4, NoneAssumption
<1>6. Free(<<i>>, c) \/ (conn' = c /\ UNCHANGED <<linked, ports, wheel>>)
  BY DEF Touch, x
<1> HIDE DEF y
<1>7. conn \in [Conns -> ConnRecord \cup {None}]
  BY DEF IInv, TypeOK
<1>8. /\ c \in [Conns -> ConnRecord \cup {None}]
      /\ c[i] = y /\ \A j \in Conns : j # i => c[j] = conn[j]
  BY <1>4, <1>7
<1> HIDE DEF c
<1>9. SameConns(c)
  BY <1>4, <1>5, <1>8 DEF SameConns
<1>10. Touched(c, i, proto)
  BY <1>4, <1>6, <1>8, <1>9 DEF Touched
<1> QED BY <1>10

LEMMA SingleItems ==
  ASSUME NEW T, NEW i \in T
  PROVE  <<i>> \in Seq(T) /\ Items(<<i>>) = {i} /\ Distinct(<<i>>)
BY DEF Items, Distinct

LEMMA TouchKeeps ==
  ASSUME IInv, NEW i \in Conns, conn[i] # None, NEW proto \in Protos,
         NEW fin \in BOOLEAN, NEW ack \in BOOLEAN, Touch(i, proto, fin, ack),
         second' = second, out' \in ForwardRecord \cup {None}
  PROVE  IInv'
<1>1. PICK c : Touched(c, i, proto)
  BY TouchMoves
<1>2. CASE conn' = c /\ UNCHANGED <<linked, ports, wheel>>
  BY <1>1, <1>2, MoveKeeps DEF Touched
<1>3. CASE Free(<<i>>, c)
  <2>1. <<i>> \in Seq(Conns) /\ \A j \in Items(<<i>>) : conn[j] # None
    BY SingleItems
  <2>2. Ahead' = Ahead
    BY DEF Ahead
  <2>3. second' \in Seconds
    BY DEF IInv, TypeOK
  <2> QED BY <1>1, <1>3, <2>1, <2>2, <2>3, FreeKeeps DEF Touched
<1> QED BY <1>1, <1>2, <1>3 DEF Touched

LEMMA ForwardTyped ==
  ASSUME NEW origin \in {"client", "server"}, NEW addressed \in VServers \cup Ports \cup Clients,
         NEW proto \in Protos, NEW to \in {"client", "server"}, NEW client \in Clients,
         NEW vs \in VServers, Forward(origin, addressed, proto, to, client, vs)
  PROVE  /\ out' \in ForwardRecord \cup {None}
         /\ out'.origin = origin /\ out'.addressed = addressed /\ out'.proto = proto
         /\ out'.to = to /\ out'.client = client /\ out'.vs = vs
BY DEF Forward, ForwardRecord

LEMMA ProtoTyped ==
  ASSUME NEW v
  PROVE  ProtoOf(v) \in Protos
BY DEF ProtoOf, Protos

(* A connection that was looked up, and what it is known for. *)
LEMMA Found ==
  ASSUME IInv, NEW key, NEW field, NEW proto, Lookup(key, field, proto) # None
  PROVE  LET i == Lookup(key, field, proto) IN
         /\ i \in Conns /\ conn[i] # None /\ conn[i] \in ConnRecord
         /\ conn[i].client \in Clients /\ conn[i].vs \in VServers
         /\ InBucket(i, key, field, proto)
<1> DEFINE i == Lookup(key, field, proto)
<1>1. i \in Conns /\ conn[i] # None /\ InBucket(i, key, field, proto)
  BY LookupGives DEF IInv
<1> HIDE DEF i
<1>2. conn[i] \in ConnRecord
  BY <1>1, UsedTyped DEF IInv
<1>3. conn[i].client \in Clients /\ conn[i].vs \in VServers
  BY <1>2 DEF ConnRecord
<1> QED BY <1>1, <1>2, <1>3 DEF i

LEMMA FromKnownClientKeeps ==
  ASSUME IInv, NEW cl \in Clients, NEW v \in VServers, NEW fin \in BOOLEAN, NEW ack \in BOOLEAN,
         FromKnownClient(cl, v, fin, ack)
  PROVE  IInv'
<1> DEFINE i == Lookup(cl, "client", ProtoOf(v))
<1>1. /\ i # None /\ Touch(i, ProtoOf(v), fin, ack)
      /\ Forward("client", v, ProtoOf(v), "server", cl, conn[i].vs)
      /\ second' = second
  BY DEF FromKnownClient
<1>2. i \in Conns /\ conn[i] # None /\ conn[i].vs \in VServers
  BY <1>1, Found
<1> HIDE DEF i
<1>3. out' \in ForwardRecord \cup {None}
  BY <1>1, <1>2, ForwardTyped, ProtoTyped
<1> QED BY <1>1, <1>2, <1>3, ProtoTyped, TouchKeeps

LEMMA ToSelfPortKeeps ==
  ASSUME IInv, NEW port \in Ports, NEW proto \in Protos, NEW fin \in BOOLEAN, NEW ack \in BOOLEAN,
         ToSelfPort(port, proto, fin, ack)
  PROVE  IInv'
<1> DEFINE i == Lookup(port, "port", proto)
<1>1. /\ i # None /\ Touch(i, proto, fin, ack)
      /\ Forward("server", port, proto, "client", conn[i].client, conn[i].vs)
      /\ second' = second
  BY DEF ToSelfPort
<1>2. i \in Conns /\ conn[i] # None /\ conn[i].vs \in VServers /\ conn[i].client \in Clients
  BY <1>1, Found
<1> HIDE DEF i
<1>3. out' \in ForwardRecord \cup {None}
  BY <1>1, <1>2, ForwardTyped
<1> QED BY <1>1, <1>2, <1>3, TouchKeeps

LEMMA ToRemoteClientKeeps ==
  ASSUME IInv, NEW cl \in Clients, NEW proto \in Protos, NEW fin \in BOOLEAN, NEW ack \in BOOLEAN,
         ToRemoteClient(cl, proto, fin, ack)
  PROVE  IInv'
<1> DEFINE i == Lookup(cl, "client", proto)
<1>1. /\ i # None /\ Touch(i, proto, fin, ack)
      /\ Forward("server", cl, proto, "server", cl, conn[i].vs)
      /\ second' = second
  BY DEF ToRemoteClient
<1>2. i \in Conns /\ conn[i] # None /\ conn[i].vs \in VServers
  BY <1>1, Found
<1> HIDE DEF i
<1>3. out' \in ForwardRecord \cup {None}
  BY <1>1, <1>2, ForwardTyped
<1> QED BY <1>1, <1>2, <1>3, TouchKeeps

-----------------------------------------------------------------------------
(* The new connection i of client cl. *)
Created(i, cl, v) ==
  /\ i \in Conns /\ conn[i] = None
  /\ conn'[i] \in ConnRecord
  /\ conn'[i].client = cl /\ conn'[i].vs = v /\ conn'[i].port = SelfPort(v)
  /\ conn'[i].protocol = ProtoOf(v) /\ conn'[i].hashed = ProtoOf(v)
  /\ conn' \in [Conns -> ConnRecord \cup {None}]
  /\ \A j \in Conns : j # i => conn'[j] = conn[j]
  /\ linked' = <<i>> \o linked
  /\ Arm(i)

LEMMA SelfPortTyped ==
  ASSUME TypeOK, NEW v, TakePort(v)
  PROVE  /\ SelfPort(v) \in Ports \cup {None}
         /\ v \in FullNat <=> SelfPort(v) # None
         /\ ports' \in [Protos -> Seq(Ports)]
<1>1. CASE v \in FullNat
  <2>1. ports[ProtoOf(v)] \in Seq(Ports) /\ ports[ProtoOf(v)] # <<>>
    BY <1>1, ProtoTyped DEF TakePort, TypeOK
  <2>2. Head(ports[ProtoOf(v)]) \in Ports /\ Tail(ports[ProtoOf(v)]) \in Seq(Ports)
    BY <2>1, HeadTailProperties
  <2>3. SelfPort(v) \in Ports /\ SelfPort(v) # None
    BY <1>1, <2>2, NoneAssumption DEF SelfPort
  <2>4. ports' = [ports EXCEPT ![ProtoOf(v)] = Tail(ports[ProtoOf(v)])]
    BY <1>1 DEF TakePort
  <2>5. ports' \in [Protos -> Seq(Ports)]
    BY <2>2, <2>4 DEF TypeOK
  <2> QED BY <1>1, <2>3, <2>5
<1>2. CASE v \notin FullNat
  BY <1>2 DEF SelfPort, TakePort, TypeOK
<1> QED BY <1>1, <1>2

LEMMA Creates ==
  ASSUME IInv, NEW cl \in Clients, NEW v \in VServers, NEW fin \in BOOLEAN, NEW ack \in BOOLEAN,
         FromNewClient(cl, v, fin, ack)
  PROVE  \E i : Created(i, cl, v)
<1> DEFINE proto == ProtoOf(v)
<1>1. PICK i \in Conns, garbage \in States :
        /\ conn[i] = None
        /\ conn' = [conn EXCEPT ![i] =
             [client |-> cl, vs |-> v, port |-> SelfPort(v), protocol |-> proto, hashed |-> proto,
              state |-> IF proto = "tcp" THEN NextState("init", fin, ack) ELSE garbage]]
        /\ linked' = <<i>> \o linked
        /\ Arm(i)
  BY DEF FromNewClient
<1> DEFINE st == IF proto = "tcp" THEN NextState("init", fin, ack) ELSE garbage
           x == [client |-> cl, vs |-> v, port |-> SelfPort(v), protocol |-> proto,
                 hashed |-> proto, state |-> st]
<1>2. "init" \in States
  BY DEF States
<1>3. st \in States
  BY <1>2, NextStateTyped
<1> HIDE DEF st
<1>4. SelfPort(v) \in Ports \cup {None}
  BY SelfPortTyped DEF IInv, FromNewClient
<1>5. proto \in Protos
  BY ProtoTyped
<1>6. /\ x \in ConnRecord
      /\ x.client = cl /\ x.vs = v /\ x.port = SelfPort(v)
      /\ x.protocol = proto /\ x.hashed = proto
  BY <1>3, <1>4, <1>5 DEF ConnRecord
<1>7. conn' = [conn EXCEPT ![i] = x]
  BY <1>1 DEF st
<1> HIDE DEF x, proto
<1>8. conn \in [Conns -> ConnRecord \cup {None}]
  BY DEF IInv, TypeOK
<1>9. /\ conn' \in [Conns -> ConnRecord \cup {None}] /\ conn'[i] = x
      /\ \A j \in Conns : j # i => conn'[j] = conn[j]
  BY <1>6, <1>7, <1>8
<1>10. Created(i, cl, v)
  BY <1>1, <1>6, <1>9 DEF Created, proto
<1> QED BY <1>10

LEMMA ArmSlots ==
  ASSUME TypeOK, NEW i \in Conns, Arm(i)
  PROVE  LET new == (second + Timeout) % WheelSize IN
         /\ new \in Seconds /\ new \in Ahead
         /\ wheel' \in [Seconds -> Seq(Conns)]
         /\ \A t \in Seconds : t # new => wheel'[t] = wheel[t]
         /\ \A j : j \in Items(wheel'[new]) <=> j = i \/ j \in Items(wheel[new])
         /\ (Distinct(wheel[new]) /\ i \notin Items(wheel[new])) => Distinct(wheel'[new])
<1> DEFINE new == (second + Timeout) % WheelSize
<1>1. second + Timeout \in Nat /\ second + Timeout < 2 * WheelSize /\ Timeout \in 1..Timeout
  BY TimeAssumption DEF TypeOK, Seconds
<1>2. new \in Seconds
  BY <1>1, Wrap
<1>3. new \in Ahead
  BY <1>1 DEF Ahead
<1>4. wheel' = [wheel EXCEPT ![new] = <<i>> \o wheel[new]]
  BY DEF Arm
<1> HIDE DEF new
<1>5. wheel[new] \in Seq(Conns) /\ wheel \in [Seconds -> Seq(Conns)]
  BY <1>2 DEF TypeOK
<1>6. <<i>> \in Seq(Conns) /\ Items(<<i>>) = {i} /\ Distinct(<<i>>)
  BY SingleItems
<1> DEFINE s == <<i>>
           w == wheel[new]
<1>7. s \in Seq(Conns) /\ w \in Seq(Conns)
  BY <1>5, <1>6
<1> HIDE DEF s, w
<1>8. /\ s \o w \in Seq(Conns)
      /\ \A j : j \in Items(s \o w) <=> j \in Items(s) \/ j \in Items(w)
      /\ (/\ Distinct(s) /\ Distinct(w)
          /\ \A j \in Items(s) : j \notin Items(w)) => Distinct(s \o w)
  BY <1>7, ConcatItems
<1>9. wheel'[new] = s \o w /\ \A t \in Seconds : t # new => wheel'[t] = wheel[t]
  BY <1>2, <1>4, <1>5 DEF s, w
<1>10. wheel' \in [Seconds -> Seq(Conns)]
  BY <1>4, <1>5, <1>8 DEF s, w
<1>11. \A j : j \in Items(wheel'[new]) <=> j = i \/ j \in Items(wheel[new])
  BY <1>6, <1>8, <1>9 DEF s, w
<1>12. (Distinct(wheel[new]) /\ i \notin Items(wheel[new])) => Distinct(wheel'[new])
  BY <1>6, <1>8, <1>9 DEF s, w
<1> QED BY <1>2, <1>3, <1>9, <1>10, <1>11, <1>12 DEF new

LEMMA FromNewClientKeeps ==
  ASSUME IInv, NEW cl \in Clients, NEW v \in VServers, NEW fin \in BOOLEAN, NEW ack \in BOOLEAN,
         FromNewClient(cl, v, fin, ack)
  PROVE  IInv'
<1> DEFINE new == (second + Timeout) % WheelSize
<1>1. PICK i : Created(i, cl, v)
  BY Creates
<1>2. /\ i \in Conns /\ conn[i] = None /\ conn'[i] \in ConnRecord /\ conn'[i] # None
      /\ conn'[i].client = cl /\ conn'[i].vs = v /\ conn'[i].port = SelfPort(v)
      /\ conn'[i].hashed = ProtoOf(v)
      /\ conn' \in [Conns -> ConnRecord \cup {None}]
      /\ \A j \in Conns : j # i => conn'[j] = conn[j]
      /\ linked' = <<i>> \o linked
  BY <1>1, NoneAssumption DEF Created
<1>3. second' = second /\ TakePort(v) /\ Lookup(cl, "client", ProtoOf(v)) = None
      /\ Forward("client", v, ProtoOf(v), "server", cl, v)
  BY DEF FromNewClient
<1>4. TypeOK /\ LinkedUsed /\ OneTimer /\ OneEach /\ PortIfFullNat
  BY DEF IInv
<1>5. /\ new \in Seconds /\ new \in Ahead
      /\ wheel' \in [Seconds -> Seq(Conns)]
      /\ \A t \in Seconds : t # new => wheel'[t] = wheel[t]
      /\ \A j : j \in Items(wheel'[new]) <=> j = i \/ j \in Items(wheel[new])
      /\ (Distinct(wheel[new]) /\ i \notin Items(wheel[new])) => Distinct(wheel'[new])
  BY <1>1, <1>4, ArmSlots DEF Created
<1> HIDE DEF new
<1>6. /\ linked' \in Seq(Conns)
      /\ \A j : j \in Items(linked') <=> j = i \/ j \in Items(linked)
      /\ Distinct(linked) /\ i \notin Items(linked) => Distinct(linked')
  <2>1. <<i>> \in Seq(Conns) /\ Items(<<i>>) = {i} /\ Distinct(<<i>>)
    BY <1>2, SingleItems
  <2> DEFINE s == <<i>>
  <2>2. s \in Seq(Conns) /\ linked \in Seq(Conns) /\ linked' = s \o linked
    BY <1>2, <1>4, <2>1 DEF TypeOK
  <2> HIDE DEF s
  <2>3. /\ s \o linked \in Seq(Conns)
        /\ \A j : j \in Items(s \o linked) <=> j \in Items(s) \/ j \in Items(linked)
        /\ (/\ Distinct(s) /\ Distinct(linked)
            /\ \A j \in Items(s) : j \notin Items(linked)) => Distinct(s \o linked)
    BY <2>2, ConcatItems
  <2> QED BY <2>1, <2>2, <2>3 DEF s
<1>7. i \notin Items(linked) /\ \A t \in Seconds : i \notin Items(wheel[t])
  BY <1>2, <1>4 DEF LinkedUsed, OneTimer
<1>8. TypeOK'
  <2>1. out' \in ForwardRecord \cup {None}
    BY <1>3, ForwardTyped, ProtoTyped
  <2>2. ports' \in [Protos -> Seq(Ports)]
    BY <1>3, <1>4, SelfPortTyped
  <2> QED BY <1>2, <1>3, <1>4, <1>5, <1>6, <2>1, <2>2 DEF TypeOK
<1>9. LinkedUsed'
  BY <1>2, <1>4, <1>6, <1>7 DEF LinkedUsed
<1>10. OneTimer'
  <2>1. Ahead' = Ahead
    BY <1>3 DEF Ahead
  <2>2. \A t \in Seconds : Distinct(wheel'[t])
    BY <1>4, <1>5, <1>7 DEF OneTimer
  <2>3. \A j \in Conns, t \in Seconds :
          j \in Items(wheel'[t]) <=> j \in Items(wheel[t]) \/ (j = i /\ t = new)
    BY <1>5
  <2>4. \A j \in Conns : conn'[j] # None <=> conn[j] # None \/ j = i
    BY <1>2
  <2>5. \A j \in Conns, t \in Seconds :
          j \in Items(wheel'[t]) => conn'[j] # None /\ t \in Ahead'
    BY <1>4, <1>5, <2>1, <2>3, <2>4 DEF OneTimer
  <2>6. \A j \in Conns, t, u \in Seconds :
          j \in Items(wheel'[t]) /\ j \in Items(wheel'[u]) => t = u
    BY <1>4, <1>7, <2>3 DEF OneTimer
  <2>7. \A j \in Conns : conn'[j] # None => \E t \in Seconds : j \in Items(wheel'[t])
    BY <1>4, <1>5, <2>3, <2>4 DEF OneTimer
  <2> QED BY <2>2, <2>5, <2>6, <2>7 DEF OneTimer
<1>11. OneEach'
  <2>1. \A j \in Conns : conn[j] # None => ~InBucket(j, cl, "client", ProtoOf(v))
    BY <1>3, <1>4, LookupGives
  <2>2. \A j \in Conns :
          conn[j] # None /\ conn[j].client = cl => conn[j].hashed # ProtoOf(v)
    BY <2>1 DEF InBucket
  <2> QED BY <1>2, <1>4, <2>2 DEF OneEach
<1>12. PortIfFullNat'
  <2>1. v \in FullNat <=> SelfPort(v) # None
    BY <1>3, <1>4, SelfPortTyped
  <2> QED BY <1>2, <1>4, <2>1 DEF PortIfFullNat
<1> QED BY <1>8, <1>9, <1>10, <1>11, <1>12 DEF IInv

-----------------------------------------------------------------------------
(* What the clock frees. *)
LEMMA TickFrees ==
  ASSUME IInv, Tick
  PROVE  /\ second' = (second + 1) % WheelSize /\ second' \in Seconds
         /\ out' = out
         /\ Free(wheel[second'], conn) /\ SameConns(conn)
         /\ wheel[second'] \in Seq(Conns) /\ Distinct(wheel[second'])
         /\ \A i \in Items(wheel[second']) : i \in Conns /\ conn[i] # None
<1> USE DEF IInv
<1>1. second' = (second + 1) % WheelSize /\ out' = out /\ Free(wheel[second'], conn)
  BY DEF Tick
<1>2. second + 1 \in Nat /\ second + 1 < 2 * WheelSize
  BY TimeAssumption DEF TypeOK, Seconds
<1>3. second' \in Seconds
  BY <1>1, <1>2, Wrap
<1>4. wheel[second'] \in Seq(Conns) /\ Distinct(wheel[second'])
  BY <1>3 DEF TypeOK, OneTimer
<1>5. Items(wheel[second']) \subseteq Conns
  BY <1>4, ItemsTyped
<1>6. \A i \in Items(wheel[second']) : i \in Conns /\ conn[i] # None
  BY <1>3, <1>5 DEF OneTimer
<1>7. SameConns(conn)
  BY DEF SameConns, TypeOK
<1> QED BY <1>1, <1>3, <1>4, <1>6, <1>7

LEMMA TickKeeps == IInv /\ Tick => IInv'
<1> SUFFICES ASSUME IInv, Tick PROVE IInv'
  OBVIOUS
<1>1. /\ second' = (second + 1) % WheelSize /\ second' \in Seconds
      /\ out' = out
      /\ Free(wheel[second'], conn) /\ SameConns(conn)
      /\ wheel[second'] \in Seq(Conns)
      /\ \A i \in Items(wheel[second']) : conn[i] # None
  BY TickFrees
<1>2. \A t \in Ahead :
        (\E i \in Items(wheel[t]) : i \notin Items(wheel[second'])) => t \in Ahead'
  <2>1. second \in Seconds
    BY DEF IInv, TypeOK
  <2> QED BY <1>1, <2>1, AheadOfTick
<1>3. out' \in ForwardRecord \cup {None}
  BY <1>1 DEF IInv, TypeOK
<1> DEFINE s == wheel[second']
<1>4. /\ s \in Seq(Conns) /\ Free(s, conn) /\ \A i \in Items(s) : conn[i] # None
      /\ \A t \in Ahead : (\E i \in Items(wheel[t]) : i \notin Items(s)) => t \in Ahead'
  BY <1>1, <1>2
<1> HIDE DEF s
<1> QED BY <1>1, <1>3, <1>4, FreeKeeps

-----------------------------------------------------------------------------
(* At the start there are no connections, and no timers. *)
THEOREM Initial == Init => IInv
<1> SUFFICES ASSUME Init PROVE IInv
  OBVIOUS
<1>1. \A s \in [1..Cardinality(Ports) -> Ports] : s \in Seq(Ports)
  <2>1. Cardinality(Ports) \in Nat
    BY PortsAssumption, FS_CardinalityType
  <2> QED BY <2>1
<1>2. TypeOK
  <2>1. 0 \in Seconds
    BY TimeAssumption DEF Seconds
  <2>2. ports \in [Protos -> Seq(Ports)]
    BY <1>1 DEF Init
  <2> QED BY <2>1, <2>2 DEF Init, TypeOK
<1>3. Items(<<>>) = {} /\ Distinct(<<>>)
  BY DEF Items, Distinct
<1>4. \A i \in Conns : conn[i] = None
  BY DEF Init
<1>5. LinkedUsed
  BY <1>3, <1>4 DEF Init, LinkedUsed
<1>6. OneTimer
  BY <1>3, <1>4 DEF Init, OneTimer
<1> QED BY <1>2, <1>4, <1>5, <1>6 DEF IInv, OneEach, PortIfFullNat

(* Every step keeps it. *)
THEOREM Inductive == IInv /\ [Next]_vars => IInv'
<1> SUFFICES ASSUME IInv, [Next]_vars PROVE IInv'
  OBVIOUS
<1>1. CASE Tick
  BY <1>1, TickKeeps
<1>2. CASE \E fin, ack \in BOOLEAN : Packet(fin, ack)
  <2> PICK fin \in BOOLEAN, ack \in BOOLEAN : Packet(fin, ack)
    BY <1>2
  <2>1. CASE \E cl \in Clients, v \in VServers : FromKnownClient(cl, v, fin, ack)
    BY <2>1, FromKnownClientKeeps
  <2>2. CASE \E cl \in Clients, v \in VServers : FromNewClient(cl, v, fin, ack)
    BY <2>2, FromNewClientKeeps
  <2>3. CASE \E p \in Ports, proto \in Protos : ToSelfPort(p, proto, fin, ack)
    BY <2>3, ToSelfPortKeeps
  <2>4. CASE \E cl \in Clients, proto \in Protos : ToRemoteClient(cl, proto, fin, ack)
    BY <2>4, ToRemoteClientKeeps
  <2> QED BY <2>1, <2>2, <2>3, <2>4 DEF Packet
<1>3. CASE UNCHANGED vars
  <2> USE <1>3 DEF vars
  <2>1. TypeOK'
    BY DEF IInv, TypeOK
  <2>2. LinkedUsed'
    BY DEF IInv, LinkedUsed
  <2>3. OneTimer'
    BY DEF IInv, OneTimer, Ahead
  <2>4. OneEach' /\ PortIfFullNat'
    BY DEF IInv, OneEach, PortIfFullNat
  <2> QED BY <2>1, <2>2, <2>3, <2>4 DEF IInv
<1> QED BY <1>1, <1>2, <1>3 DEF Next

THEOREM Invariance == Spec => []IInv
BY Initial, Inductive, PTL DEF Spec

(* Every variable has its type. *)
THEOREM TypeCorrect == Spec => []TypeOK
<1>1. IInv => TypeOK
  BY DEF IInv
<1> QED BY <1>1, Invariance, PTL

(* A client never has two connections for one protocol, whatever           *)
(* connections share a bucket: connection_lookup() is asked before         *)
(* connection_create().                                                    *)
THEOREM OneForEachClient == Spec => []OneConnection
<1>1. IInv => OneConnection
  <2> SUFFICES ASSUME IInv PROVE OneConnection
    OBVIOUS
  <2>1. \A i \in Live : i \in Conns /\ conn[i] # None
    BY ItemsTyped DEF IInv, TypeOK, LinkedUsed, Live
  <2> QED BY <2>1 DEF IInv, OneEach, OneConnection
<1> QED BY <1>1, Invariance, PTL

(* The memory, the tables and the wheel agree: connection_free() leaves a  *)
(* connection in none of them, and every other has one timer, that is due  *)
(* within the timeout.                                                     *)
THEOREM TablesAgree == Spec => []TimersArmed
<1>1. IInv => TimersArmed
  <2> SUFFICES ASSUME IInv PROVE TimersArmed
    OBVIOUS
  <2>1. Distinct(linked) /\ \A t \in Seconds : Distinct(wheel[t])
    BY DEF IInv, LinkedUsed, OneTimer
  <2>2. ASSUME NEW i \in Conns
        PROVE  LET slots == {t \in Seconds : i \in Items(wheel[t])}
               IN  /\ i \in Live <=> conn[i] # None
                   /\ IF i \in Live THEN \E t \in Ahead : slots = {t} ELSE slots = {}
    <3> DEFINE slots == {t \in Seconds : i \in Items(wheel[t])}
    <3>1. i \in Live <=> conn[i] # None
      BY DEF IInv, LinkedUsed, Live
    <3>2. CASE i \in Live
      <4>1. PICK t \in Seconds : i \in Items(wheel[t])
        BY <3>1, <3>2 DEF IInv, OneTimer
      <4>2. t \in Ahead /\ \A u \in Seconds : i \in Items(wheel[u]) => u = t
        BY <4>1 DEF IInv, OneTimer
      <4>3. slots = {t}
        BY <4>1, <4>2
      <4> QED BY <3>1, <3>2, <4>2, <4>3
    <3>3. CASE i \notin Live
      <4>1. slots = {}
        BY <3>1, <3>3 DEF IInv, OneTimer
      <4> QED BY <3>1, <3>3, <4>1
    <3> QED BY <3>2, <3>3
  <2> QED BY <2>1, <2>2 DEF TimersArmed
<1> QED BY <1>1, Invariance, PTL

-----------------------------------------------------------------------------
(* The ports.  A lookup gives a connection of the protocol asked for.      *)
LEMMA FoundOfProto ==
  ASSUME ProtocolsApart, IInv, NEW key \in Clients \cup Ports, NEW field, NEW proto \in Protos,
         Lookup(key, field, proto) # None
  PROVE  conn[Lookup(key, field, proto)].hashed = proto
<1> DEFINE i == Lookup(key, field, proto)
<1>1. conn[i] \in ConnRecord /\ InBucket(i, key, field, proto)
  BY Found
<1> HIDE DEF i
<1>2. conn[i].hashed \in Protos /\ Bucket(key, conn[i].hashed) = Bucket(key, proto)
  BY <1>1 DEF InBucket, ConnRecord
<1>3. conn[i].hashed \in {"tcp", "udp"} /\ proto \in {"tcp", "udp"}
  BY <1>2 DEF Protos
<1>4. Bucket(key, "tcp") # Bucket(key, "udp")
  BY DEF ProtocolsApart
<1>5. conn[i].hashed = proto
  BY <1>2, <1>3, <1>4
<1> QED BY <1>5 DEF i

LEMMA MovePorts ==
  ASSUME PortInv, NEW c, SameConns(c), conn' = c, ports' = ports,
         \A i \in Conns : conn[i] # None => c[i].protocol = conn[i].hashed
  PROVE  PortInv'
<1>1. \A i \in Conns, proto \in Protos :
        /\ Holds(i, proto)' <=> Holds(i, proto)
        /\ Holds(i, proto) => conn'[i].port = conn[i].port
  BY DEF SameConns, Holds
<1>2. \A i \in Conns : conn'[i] # None => conn'[i].protocol = conn'[i].hashed
  BY DEF SameConns
<1> QED BY <1>1, <1>2 DEF PortInv

(* Ports come back to the range they were taken from. *)
LEMMA FreePorts ==
  ASSUME IInv, PortInv, NEW c, SameConns(c), NEW s \in Seq(Conns), Distinct(s), Free(s, c),
         \A i \in Items(s) : conn[i] # None,
         \A i \in Conns : conn[i] # None => c[i].protocol = conn[i].hashed
  PROVE  PortInv'
<1>1. /\ \A i \in Conns : conn'[i] # None <=> conn[i] # None /\ i \notin Items(s)
      /\ \A i \in Conns : conn'[i] # None =>
           /\ conn'[i] = c[i] /\ conn'[i].vs = conn[i].vs
           /\ conn'[i].port = conn[i].port /\ conn'[i].hashed = conn[i].hashed
  BY FreedConns DEF IInv
<1>2. \A i \in Conns, proto \in Protos :
        /\ Holds(i, proto)' <=> Holds(i, proto) /\ i \notin Items(s)
        /\ Holds(i, proto)' => conn'[i].port = conn[i].port
  BY <1>1 DEF Holds
<1>3. \A i \in Conns : conn'[i] # None => conn'[i].protocol = conn'[i].hashed
  BY <1>1
<1>4. ASSUME NEW proto \in Protos
      PROVE  /\ Distinct(ports'[proto])
             /\ \A i \in Conns : Holds(i, proto)' => conn'[i].port \notin Items(ports'[proto])
             /\ \A i, j \in Conns :
                  Holds(i, proto)' /\ Holds(j, proto)' /\ conn'[i].port = conn'[j].port => i = j
             /\ \A p \in Ports : \/ p \in Items(ports'[proto])
                                 \/ \E i \in Conns : Holds(i, proto)' /\ conn'[i].port = p
  <2> DEFINE r == Returned(s, c, proto)
  <2>1. Items(s) \subseteq Conns
    BY ItemsTyped
  <2>2. \A i \in Items(s) :
          Holds(i, proto) <=> conn[i].vs \in FullNat /\ c[i].protocol = proto
    BY <2>1 DEF Holds
  <2>3. /\ Distinct(ports[proto])
        /\ \A i \in Conns : Holds(i, proto) => conn[i].port \notin Items(ports[proto])
        /\ \A i, j \in Conns :
             Holds(i, proto) /\ Holds(j, proto) /\ conn[i].port = conn[j].port => i = j
        /\ \A p \in Ports :
             p \in Items(ports[proto]) \/ \E i \in Conns : Holds(i, proto) /\ conn[i].port = p
    BY DEF PortInv
  <2>4. /\ r \in Seq(Ports)
        /\ \A p : p \in Items(r) <=>
             \E i \in Items(s) :
               conn[i].vs \in FullNat /\ c[i].protocol = proto /\ conn[i].port = p
        /\ (/\ Distinct(s)
            /\ \A i, j \in Items(s) :
                 /\ conn[i].vs \in FullNat /\ conn[j].vs \in FullNat
                 /\ c[i].protocol = proto /\ c[j].protocol = proto
                 /\ conn[i].port = conn[j].port
                 => i = j) => Distinct(r)
    BY ReturnedPorts DEF IInv
  <2>5. ports'[proto] = ports[proto] \o r /\ ports[proto] \in Seq(Ports)
    BY DEF Free, IInv, TypeOK
  <2> HIDE DEF r
  <2>6. Distinct(r)
    BY <2>1, <2>2, <2>3, <2>4
  <2>7. \A p : p \in Items(r) <=> \E i \in Items(s) : Holds(i, proto) /\ conn[i].port = p
    BY <2>2, <2>4
  <2>8. \A p \in Items(ports[proto]) : p \notin Items(r)
    BY <2>1, <2>3, <2>7
  <2>9. /\ \A p : p \in Items(ports'[proto]) <=> p \in Items(ports[proto]) \/ p \in Items(r)
        /\ Distinct(ports'[proto])
    BY <2>3, <2>4, <2>5, <2>6, <2>8, ConcatItems
  <2>10. ASSUME NEW i \in Conns, Holds(i, proto)'
         PROVE  conn'[i].port \notin Items(ports'[proto])
    <3>1. Holds(i, proto) /\ i \notin Items(s) /\ conn'[i].port = conn[i].port
      BY <1>2, <2>10
    <3>2. conn[i].port \notin Items(r)
      BY <2>1, <2>3, <2>7, <3>1
    <3> QED BY <2>3, <2>9, <3>1, <3>2
  <2>11. \A i, j \in Conns :
           Holds(i, proto)' /\ Holds(j, proto)' /\ conn'[i].port = conn'[j].port => i = j
    BY <1>2, <2>3
  <2>12. ASSUME NEW p \in Ports, p \notin Items(ports'[proto])
         PROVE  \E i \in Conns : Holds(i, proto)' /\ conn'[i].port = p
    <3>1. PICK i \in Conns : Holds(i, proto) /\ conn[i].port = p
      BY <2>3, <2>9, <2>12
    <3>2. i \notin Items(s)
      BY <2>7, <2>9, <2>12, <3>1
    <3> QED BY <1>2, <3>1, <3>2
  <2> QED BY <2>9, <2>10, <2>11, <2>12
<1> QED BY <1>3, <1>4 DEF PortInv

LEMMA TouchPorts ==
  ASSUME IInv, PortInv, NEW i \in Conns, conn[i] # None, NEW proto \in Protos,
         conn[i].hashed = proto,
         NEW fin \in BOOLEAN, NEW ack \in BOOLEAN, Touch(i, proto, fin, ack)
  PROVE  PortInv'
<1>1. PICK c : Touched(c, i, proto)
  BY TouchMoves
<1>2. \A j \in Conns : conn[j] # None => c[j].protocol = conn[j].hashed
  BY <1>1 DEF Touched, PortInv
<1>3. CASE conn' = c /\ ports' = ports
  BY <1>1, <1>2, <1>3, MovePorts DEF Touched
<1>4. CASE Free(<<i>>, c)
  <2>1. <<i>> \in Seq(Conns) /\ Distinct(<<i>>) /\ \A j \in Items(<<i>>) : conn[j] # None
    BY SingleItems
  <2> QED BY <1>1, <1>2, <1>4, <2>1, FreePorts DEF Touched
<1> QED BY <1>1, <1>3, <1>4 DEF Touched

LEMMA TailItems ==
  ASSUME NEW T, NEW s \in Seq(T), s # <<>>, Distinct(s)
  PROVE  /\ Head(s) \in Items(s) /\ Distinct(Tail(s))
         /\ \A x : x \in Items(Tail(s)) <=> x \in Items(s) /\ x # Head(s)
<1>1. /\ Len(s) \in Nat /\ Len(s) > 0 /\ DOMAIN s = 1..Len(s)
      /\ DOMAIN Tail(s) = 1..(Len(s) - 1)
      /\ \A k \in 1..(Len(s) - 1) : Tail(s)[k] = s[k + 1]
      /\ Head(s) = s[1]
  OBVIOUS
<1> DEFINE u == Tail(s)
<1> HIDE DEF u
<1>2. Head(s) \in Items(s)
  BY <1>1 DEF Items
<1>3. Distinct(u)
  BY <1>1 DEF Distinct, u
<1>4. ASSUME NEW x \in Items(u) PROVE x \in Items(s) /\ x # Head(s)
  <2>1. PICK k \in 1..(Len(s) - 1) : x = s[k + 1]
    BY <1>1 DEF Items, u
  <2>2. k + 1 \in DOMAIN s /\ 1 \in DOMAIN s /\ k + 1 # 1
    BY <1>1
  <2> QED BY <1>1, <2>1, <2>2 DEF Items, Distinct
<1>5. ASSUME NEW x \in Items(s), x # Head(s) PROVE x \in Items(u)
  <2>1. PICK k \in 1..Len(s) : x = s[k]
    BY <1>1 DEF Items
  <2>2. k - 1 \in DOMAIN u /\ u[k - 1] = x
    BY <1>1, <1>5, <2>1 DEF u
  <2> QED BY <2>2 DEF Items
<1> QED BY <1>2, <1>3, <1>4, <1>5 DEF u

(* A new connection takes a port out of the range, or none. *)
LEMMA NewPorts ==
  ASSUME IInv, PortInv, NEW cl \in Clients, NEW v \in VServers,
         NEW fin \in BOOLEAN, NEW ack \in BOOLEAN, FromNewClient(cl, v, fin, ack)
  PROVE  PortInv'
<1> DEFINE own == ProtoOf(v)
<1>1. PICK i : Created(i, cl, v)
  BY Creates
<1>2. /\ i \in Conns /\ conn[i] = None /\ conn'[i] # None
      /\ conn'[i].vs = v /\ conn'[i].port = SelfPort(v)
      /\ conn'[i].protocol = own /\ conn'[i].hashed = own
      /\ \A j \in Conns : j # i => conn'[j] = conn[j]
  BY <1>1, NoneAssumption DEF Created
<1>3. TakePort(v) /\ own \in Protos
  BY ProtoTyped DEF FromNewClient
<1>4. \A j \in Conns, proto \in Protos :
        /\ Holds(j, proto)' <=> Holds(j, proto) \/ (j = i /\ proto = own /\ v \in FullNat)
        /\ Holds(j, proto) => j # i /\ conn'[j].port = conn[j].port
  BY <1>2 DEF Holds
<1>5. \A j \in Conns : conn'[j] # None => conn'[j].protocol = conn'[j].hashed
  BY <1>2 DEF PortInv
<1>6. ASSUME NEW proto \in Protos
      PROVE  /\ Distinct(ports'[proto])
             /\ \A j \in Conns : Holds(j, proto)' => conn'[j].port \notin Items(ports'[proto])
             /\ \A j, k \in Conns :
                  Holds(j, proto)' /\ Holds(k, proto)' /\ conn'[j].port = conn'[k].port => j = k
             /\ \A p \in Ports : \/ p \in Items(ports'[proto])
                                 \/ \E j \in Conns : Holds(j, proto)' /\ conn'[j].port = p
  <2>1. /\ Distinct(ports[proto])
        /\ \A j \in Conns : Holds(j, proto) => conn[j].port \notin Items(ports[proto])
        /\ \A j, k \in Conns :
             Holds(j, proto) /\ Holds(k, proto) /\ conn[j].port = conn[k].port => j = k
        /\ \A p \in Ports :
             p \in Items(ports[proto]) \/ \E j \in Conns : Holds(j, proto) /\ conn[j].port = p
    BY DEF PortInv
  <2>2. CASE v \in FullNat /\ proto = own
    <3> DEFINE h == Head(ports[proto])
    <3>1. ports[proto] \in Seq(Ports) /\ ports[proto] # <<>> /\ ports'[proto] = Tail(ports[proto])
      BY <1>3, <2>2 DEF TakePort, IInv, TypeOK
    <3>2. conn'[i].port = h
      BY <1>2, <2>2 DEF SelfPort
    <3> HIDE DEF h
    <3>3. /\ h \in Items(ports[proto]) /\ Distinct(ports'[proto])
          /\ \A p : p \in Items(ports'[proto]) <=> p \in Items(ports[proto]) /\ p # h
      BY <2>1, <3>1, TailItems DEF h
    <3>4. \A j \in Conns : Holds(j, proto)' => conn'[j].port \notin Items(ports'[proto])
      BY <1>4, <2>1, <3>2, <3>3
    <3>5. \A j, k \in Conns :
            Holds(j, proto)' /\ Holds(k, proto)' /\ conn'[j].port = conn'[k].port => j = k
      BY <1>4, <2>1, <3>2, <3>3
    <3>6. ASSUME NEW p \in Ports, p \notin Items(ports'[proto])
          PROVE  \E j \in Conns : Holds(j, proto)' /\ conn'[j].port = p
      <4>1. CASE p = h
        BY <1>2, <1>4, <2>2, <3>2, <4>1
      <4>2. CASE p # h
        <5>1. PICK j \in Conns : Holds(j, proto) /\ conn[j].port = p
          BY <2>1, <3>3, <3>6, <4>2
        <5> QED BY <1>4, <5>1
      <4> QED BY <4>1, <4>2
    <3> QED BY <3>3, <3>4, <3>5, <3>6
  <2>3. CASE ~(v \in FullNat /\ proto = own)
    <3>1. ports'[proto] = ports[proto]
      BY <1>3, <2>3 DEF TakePort, IInv, TypeOK
    <3>2. \A j \in Conns : /\ Holds(j, proto)' <=> Holds(j, proto)
                           /\ Holds(j, proto) => conn'[j].port = conn[j].port
      BY <1>4, <2>3
    <3> HIDE DEF own
    <3> QED BY <2>1, <3>1, <3>2
  <2> QED BY <2>2, <2>3
<1> QED BY <1>5, <1>6 DEF PortInv

LEMMA InitialPorts == Init => PortInv
<1> SUFFICES ASSUME Init PROVE PortInv
  OBVIOUS
<1>1. \A i \in Conns : conn[i] = None
  BY DEF Init
<1>2. ASSUME NEW proto \in Protos
      PROVE  Items(ports[proto]) = Ports /\ Distinct(ports[proto])
  <2> DEFINE N == Cardinality(Ports)
             s == ports[proto]
  <2>1. N \in Nat
    BY PortsAssumption, FS_CardinalityType
  <2>2. IsFiniteSet(1..N) /\ Cardinality(1..N) = N
    BY <2>1, FS_Interval
  <2>3. s \in [1..N -> Ports] /\ Items(s) = Ports
    BY DEF Init
  <2> HIDE DEF N, s
  <2>4. s \in Surjection(1..N, Ports)
    BY <2>3 DEF Surjection, Items
  <2>5. s \in Injection(1..N, Ports)
    BY <2>2, <2>4, FS_SurjSameCardinalityImpliesInj DEF N
  <2>6. Distinct(s)
    BY <2>3, <2>5 DEF Injection, IsInjective, Distinct
  <2> QED BY <2>3, <2>6 DEF s
<1> QED BY <1>1, <1>2 DEF PortInv, Holds

LEMMA InductivePorts ==
  ASSUME ProtocolsApart
  PROVE  IInv /\ PortInv /\ [Next]_vars => PortInv'
<1> SUFFICES ASSUME IInv, PortInv, [Next]_vars PROVE PortInv'
  OBVIOUS
<1>1. CASE Tick
  <2> DEFINE s == wheel[second']
  <2>1. /\ Free(s, conn) /\ SameConns(conn) /\ s \in Seq(Conns) /\ Distinct(s)
        /\ \A i \in Items(s) : conn[i] # None
    BY <1>1, TickFrees
  <2> HIDE DEF s
  <2>2. \A i \in Conns : conn[i] # None => conn[i].protocol = conn[i].hashed
    BY DEF PortInv
  <2> QED BY <2>1, <2>2, FreePorts
<1>2. CASE \E fin, ack \in BOOLEAN : Packet(fin, ack)
  <2> PICK fin \in BOOLEAN, ack \in BOOLEAN : Packet(fin, ack)
    BY <1>2
  <2>1. ASSUME NEW key \in Clients \cup Ports, NEW field, NEW proto \in Protos,
               Lookup(key, field, proto) # None,
               Touch(Lookup(key, field, proto), proto, fin, ack)
        PROVE  PortInv'
    BY <2>1, Found, FoundOfProto, TouchPorts
  <2>2. CASE \E cl \in Clients, v \in VServers : FromKnownClient(cl, v, fin, ack)
    BY <2>1, <2>2, ProtoTyped DEF FromKnownClient
  <2>3. CASE \E cl \in Clients, v \in VServers : FromNewClient(cl, v, fin, ack)
    BY <2>3, NewPorts
  <2>4. CASE \E p \in Ports, proto \in Protos : ToSelfPort(p, proto, fin, ack)
    BY <2>1, <2>4 DEF ToSelfPort
  <2>5. CASE \E cl \in Clients, proto \in Protos : ToRemoteClient(cl, proto, fin, ack)
    BY <2>1, <2>5 DEF ToRemoteClient
  <2> QED BY <2>2, <2>3, <2>4, <2>5 DEF Packet
<1>3. CASE UNCHANGED vars
  BY <1>3 DEF vars, PortInv, Holds
<1> QED BY <1>1, <1>2, <1>3 DEF Next

LEMMA InvariancePorts ==
  ASSUME ProtocolsApart
  PROVE  Spec => [](IInv /\ PortInv)
<1>1. Init => IInv /\ PortInv
  BY Initial, InitialPorts
<1>2. IInv /\ PortInv /\ [Next]_vars => (IInv /\ PortInv)'
  BY Inductive, InductivePorts
<1> QED BY <1>1, <1>2, PTL DEF Spec

LEMMA HoldsLive ==
  ASSUME IInv, NEW proto
  PROVE  \A i : i \in FullNatConns(proto) <=> i \in Conns /\ Holds(i, proto)
<1>1. \A i : i \in Live <=> i \in Conns /\ conn[i] # None
  BY ItemsTyped DEF IInv, TypeOK, LinkedUsed, Live
<1> QED BY <1>1 DEF FullNatConns, Holds

(* Every port of a range is free once or held by one connection, in        *)
(* whatever order connections are created, closed and timed out: the port  *)
(* that connection_set_self_ip_port() takes is the one connection_free()   *)
(* gives back, and to the range it came from.                              *)
THEOREM PortsKept ==
  ASSUME ProtocolsApart
  PROVE  Spec => []PortsConserved
<1>1. IInv /\ PortInv => PortsConserved
  <2> SUFFICES ASSUME IInv, PortInv, NEW proto \in Protos
               PROVE  /\ Distinct(ports[proto])
                      /\ Items(ports[proto]) \cup {conn[i].port : i \in FullNatConns(proto)} = Ports
                      /\ \A i \in FullNatConns(proto) : conn[i].port \notin Items(ports[proto])
                      /\ \A i, j \in FullNatConns(proto) : conn[i].port = conn[j].port => i = j
    BY DEF PortsConserved
  <2>1. \A i : i \in FullNatConns(proto) <=> i \in Conns /\ Holds(i, proto)
    BY HoldsLive
  <2>2. /\ Distinct(ports[proto])
        /\ \A i \in Conns : Holds(i, proto) => conn[i].port \notin Items(ports[proto])
        /\ \A i, j \in Conns :
             Holds(i, proto) /\ Holds(j, proto) /\ conn[i].port = conn[j].port => i = j
        /\ \A p \in Ports :
             p \in Items(ports[proto]) \/ \E i \in Conns : Holds(i, proto) /\ conn[i].port = p
    BY DEF PortInv
  <2>3. Items(ports[proto]) \subseteq Ports
    BY ItemsTyped DEF IInv, TypeOK
  <2>4. \A i \in FullNatConns(proto) : conn[i].port \in Ports
    BY <2>1, UsedTyped DEF Holds, IInv, PortIfFullNat, ConnRecord
  <2>5. Items(ports[proto]) \cup {conn[i].port : i \in FullNatConns(proto)} = Ports
    BY <2>1, <2>2, <2>3, <2>4
  <2> QED BY <2>1, <2>2, <2>5
<1> QED BY <1>1, InvariancePorts, PTL

(* A server's answer reaches the client that holds the port it was sent    *)
(* to, for the protocol of the packet (connection_lookup() in              *)
(* self_hashtable, and process_connection()).                              *)
THEOREM AnswersReach ==
  ASSUME ProtocolsApart
  PROVE  Spec => AnswersReachOwner
<1> DEFINE A == out' # None /\ out'.origin = "server" /\ out'.addressed \in Ports =>
                  \E i \in FullNatConns(out'.proto) :
                    conn[i].port = out'.addressed /\ conn[i].client = out'.client
<1>1. IInv /\ [Next]_vars => [A]_out
  <2> SUFFICES ASSUME IInv, [Next]_vars, ~UNCHANGED out PROVE A
    OBVIOUS
  <2>1. PICK fin \in BOOLEAN, ack \in BOOLEAN : Packet(fin, ack)
    BY DEF Next, Tick, vars
  <2>2. ASSUME NEW cl \in Clients, NEW v \in VServers,
               FromKnownClient(cl, v, fin, ack) \/ FromNewClient(cl, v, fin, ack)
        PROVE  A
    <3>1. out'.origin = "client"
      BY <2>2 DEF FromKnownClient, FromNewClient, Forward
    <3> QED BY <3>1
  <2>3. ASSUME NEW port \in Ports, NEW proto \in Protos, ToSelfPort(port, proto, fin, ack)
        PROVE  A
    <3> DEFINE i == Lookup(port, "port", proto)
    <3>1. i # None /\ Forward("server", port, proto, "client", conn[i].client, conn[i].vs)
      BY <2>3 DEF ToSelfPort
    <3>2. /\ i \in Conns /\ conn[i] # None /\ InBucket(i, port, "port", proto)
          /\ conn[i].client \in Clients /\ conn[i].vs \in VServers
      BY <3>1, Found
    <3>3. conn[i].hashed = proto
      BY <3>1, FoundOfProto
    <3> HIDE DEF i
    <3>4. out'.addressed = port /\ out'.proto = proto /\ out'.client = conn[i].client
      BY <3>1 DEF Forward
    <3>5. conn[i].port = port
      BY <3>2 DEF InBucket
    <3>6. conn[i].vs \in FullNat
      BY <3>2, <3>5, NoneAssumption DEF IInv, PortIfFullNat
    <3>7. i \in FullNatConns(proto)
      BY <3>2, <3>3, <3>6, HoldsLive DEF Holds
    <3> QED BY <3>4, <3>5, <3>7
  <2>4. ASSUME NEW cl \in Clients, NEW proto \in Protos, ToRemoteClient(cl, proto, fin, ack)
        PROVE  A
    <3>1. out'.addressed = cl
      BY <2>4 DEF ToRemoteClient, Forward
    <3> QED BY <3>1, PortsAssumption
  <2> QED BY <2>1, <2>2, <2>3, <2>4 DEF Packet
<1> QED BY <1>1, Invariance, PTL DEF Spec, AnswersReachOwner
=============================================================================
