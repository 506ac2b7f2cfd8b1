---------------------------- MODULE UspaceProofs ----------------------------
(***************************************************************************)
(* Proofs about the smaller parts of uspace: what the rest of it takes for *)
(* granted, that is lists, pools of memory and checksums, the rules by     *)
(* which packets are dispatched to the processes, and the timer wheel.     *)
(***************************************************************************)
EXTENDS Lists, MemPool, Checksum, Dispatch, Timer, SequenceTheorems, TLAPS

(***************************************************************************)
(* Lists                                                                   *)
(***************************************************************************)
HeadsGiven == Heads \subseteq Node /\ None \notin Node

(* What Linked says, of any pointers and owners, with their types: a head  *)
(* is in its own list, and a node in that of a head or none.               *)
Sound(p, o) ==
  /\ p.next \in [Node -> Node] /\ p.prev \in [Node -> Node]
  /\ o \in [Node -> Heads \cup {None}]
  /\ \A h \in Heads : o[h] = h
  /\ \A n \in Node : o[n] # None =>
       /\ o[p.next[n]] = o[n] /\ o[p.prev[n]] = o[n]
       /\ p.prev[p.next[n]] = n /\ p.next[p.prev[n]] = n

(* What OneRing says of them. *)
Ringed(p, o) ==
  \A h \in Heads : \A S \in SUBSET Node :
    (S # {} /\ \A n \in S : o[n] = h /\ p.next[n] \in S) => h \in S

Whole(p, o) == Sound(p, o) /\ Ringed(p, o)

ListInv == Whole(Pointers, owner)

(* __list_add() after any node of a list. *)
LEMMA InsertSound ==
  ASSUME HeadsGiven, NEW p, NEW o, Sound(p, o), NEW new \in Node, NEW b \in Node,
         o[new] = None, o[b] # None
  PROVE  Sound(Insert(p, new, b, p.next[b]), [o EXCEPT ![new] = o[b]])
<1> DEFINE a == p.next[b]  q == Insert(p, new, b, a)  r == [o EXCEPT ![new] = o[b]]
<1>1. a \in Node /\ o[a] = o[b] /\ p.prev[a] = b /\ new # a /\ new # b /\ new \notin Heads
  BY DEF HeadsGiven, Sound
<1>2. /\ q.next = [p.next EXCEPT ![new] = a, ![b] = new]
      /\ q.prev = [p.prev EXCEPT ![a] = new, ![new] = b]
  BY DEF Insert
<1>3. /\ \A x \in Node : r[x] = IF x = new THEN o[b] ELSE o[x]
      /\ \A x \in Node : q.next[x] = IF x = b THEN new ELSE IF x = new THEN a ELSE p.next[x]
      /\ \A x \in Node : q.prev[x] = IF x = new THEN b ELSE IF x = a THEN new ELSE p.prev[x]
  BY <1>1, <1>2 DEF Sound
<1>4. \A x \in Node : o[x] # None =>
        /\ p.next[x] \in Node /\ p.prev[x] \in Node /\ p.next[x] # new /\ p.prev[x] # new
        /\ o[p.next[x]] = o[x] /\ o[p.prev[x]] = o[x]
        /\ p.prev[p.next[x]] = x /\ p.next[p.prev[x]] = x
  BY DEF Sound
<1>5. /\ q.next \in [Node -> Node] /\ q.prev \in [Node -> Node]
      /\ r \in [Node -> Heads \cup {None}] /\ \A h \in Heads : r[h] = h
  <2>1. q.next \in [Node -> Node] /\ q.prev \in [Node -> Node]
    BY <1>1, <1>2 DEF Sound
  <2>2. o \in [Node -> Heads \cup {None}]
    BY DEF Sound
  <2>3. r \in [Node -> Heads \cup {None}]
    BY <2>2
  <2>4. \A h \in Heads : r[h] = h
    BY <1>1, <1>3 DEF Sound, HeadsGiven
  <2> QED BY <2>1, <2>3, <2>4
<1>6. ASSUME NEW n \in Node, r[n] # None
      PROVE /\ r[q.next[n]] = r[n] /\ r[q.prev[n]] = r[n]
            /\ q.prev[q.next[n]] = n /\ q.next[q.prev[n]] = n
  <2> HIDE DEF q, r
  <2>1. CASE n = new
    BY <1>1, <1>3, <2>1
  <2>2. CASE n # new
    BY <1>1, <1>3, <1>4, <1>6, <2>2
  <2> QED BY <2>1, <2>2
<1> HIDE DEF q, r
<1>7. Sound(q, r)
  BY <1>5, <1>6 DEF Sound
<1> QED BY <1>7 DEF q, r

(* __list_del() of any node of a list but its head. *)
LEMMA UnlinkSound ==
  ASSUME HeadsGiven, NEW p, NEW o, Sound(p, o), NEW e \in Node, e \notin Heads, o[e] # None
  PROVE  Sound(Unlink(p, e), [o EXCEPT ![e] = None])
<1> DEFINE b == p.prev[e]  a == p.next[e]  q == Unlink(p, e)  r == [o EXCEPT ![e] = None]
<1>1. /\ a \in Node /\ b \in Node /\ o[a] = o[e] /\ o[b] = o[e]
      /\ p.prev[a] = e /\ p.next[b] = e
  BY DEF Sound
<1>2. /\ q.next = [p.next EXCEPT ![b] = a] /\ q.prev = [p.prev EXCEPT ![a] = b]
  BY DEF Unlink, Join
<1>3. /\ \A x \in Node : r[x] = IF x = e THEN None ELSE o[x]
      /\ \A x \in Node : q.next[x] = IF x = b THEN a ELSE p.next[x]
      /\ \A x \in Node : q.prev[x] = IF x = a THEN b ELSE p.prev[x]
  BY <1>1, <1>2 DEF Sound
<1>4. \A x \in Node : o[x] # None =>
        /\ p.next[x] \in Node /\ p.prev[x] \in Node
        /\ o[p.next[x]] = o[x] /\ o[p.prev[x]] = o[x]
        /\ p.prev[p.next[x]] = x /\ p.next[p.prev[x]] = x
  BY DEF Sound
<1>5. /\ q.next \in [Node -> Node] /\ q.prev \in [Node -> Node]
      /\ r \in [Node -> Heads \cup {None}] /\ \A h \in Heads : r[h] = h
  BY <1>1, <1>2, <1>3 DEF Sound, HeadsGiven
<1>6. ASSUME NEW n \in Node, r[n] # None
      PROVE /\ r[q.next[n]] = r[n] /\ r[q.prev[n]] = r[n]
            /\ q.prev[q.next[n]] = n /\ q.next[q.prev[n]] = n
  <2> HIDE DEF q, r, a, b
  <2>1. n # e /\ o[n] # None /\ r[n] = o[n]
    BY <1>3, <1>6
  <2>2. n = b => a # e
    BY <1>1, <2>1 DEF b
  <2>3. n = a => b # e
    BY <1>1, <2>1 DEF a
  <2>4. n # b => p.next[n] # e
    BY <1>1, <1>4, <2>1 DEF b
  <2>5. n # a => p.prev[n] # e
    BY <1>1, <1>4, <2>1 DEF a
  <2> QED BY <1>1, <1>3, <1>4, <2>1, <2>2, <2>3, <2>4, <2>5
<1> HIDE DEF q, r
<1>7. Sound(q, r)
  BY <1>5, <1>6 DEF Sound
<1> QED BY <1>7 DEF q, r

(* INIT_LIST_HEAD() of a node that is in no list. *)
LEMMA InitSound ==
  ASSUME HeadsGiven, NEW p, NEW o, Sound(p, o), NEW n \in Node, o[n] = None
  PROVE  Sound(InitHead(p, n), o)
<1> DEFINE q == InitHead(p, n)
<1>1. q.next = [p.next EXCEPT ![n] = n] /\ q.prev = [p.prev EXCEPT ![n] = n]
  BY DEF InitHead
<1>2. \A x \in Node : o[x] # None =>
        /\ p.next[x] \in Node /\ p.prev[x] \in Node /\ p.next[x] # n /\ p.prev[x] # n /\ x # n
        /\ o[p.next[x]] = o[x] /\ o[p.prev[x]] = o[x]
        /\ p.prev[p.next[x]] = x /\ p.next[p.prev[x]] = x
  BY DEF Sound
<1> HIDE DEF q
<1>3. q.next \in [Node -> Node] /\ q.prev \in [Node -> Node]
  BY <1>1 DEF Sound
<1>4. \A x \in Node : x # n => q.next[x] = p.next[x] /\ q.prev[x] = p.prev[x]
  BY <1>1 DEF Sound
<1>5. Sound(q, o)
  BY <1>2, <1>3, <1>4 DEF Sound
<1> QED BY <1>5 DEF q

(* __list_splice() of a list with nodes, after any node of another list,   *)
(* and INIT_LIST_HEAD() of its head.                                       *)
Renamed(o, l, h) == [n \in Node |-> IF n \notin Heads /\ o[n] = l THEN h ELSE o[n]]

LEMMA SpliceSound ==
  ASSUME HeadsGiven, NEW p, NEW o, Sound(p, o), NEW l \in Heads, NEW h \in Heads, l # h,
         NEW b \in Node, o[b] = h, p.next[l] # l
  PROVE  Sound(InitHead(Splice(p, l, b, p.next[b]), l),
               Renamed(o, l, h))
<1> DEFINE a == p.next[b]  first == p.next[l]  last == p.prev[l]
           q == InitHead(Splice(p, l, b, a), l)
           r == Renamed(o, l, h)
<1>1. /\ l \in Node /\ h \in Node /\ l # None /\ h # None /\ o[l] = l /\ o[h] = h
      /\ a \in Node /\ first \in Node /\ last \in Node
      /\ o[a] = h /\ o[first] = l /\ o[last] = l
      /\ p.prev[a] = b /\ p.prev[first] = l /\ p.next[last] = l
  BY DEF HeadsGiven, Sound
<1>2. first # l /\ last # l
  BY <1>1
<1>3. \A x \in Node : o[x] # None =>
        /\ p.next[x] \in Node /\ p.prev[x] \in Node
        /\ o[p.next[x]] = o[x] /\ o[p.prev[x]] = o[x]
        /\ p.prev[p.next[x]] = x /\ p.next[p.prev[x]] = x
  BY DEF Sound
<1>4. /\ q.next = [[p.next EXCEPT ![b] = first, ![last] = a] EXCEPT ![l] = l]
      /\ q.prev = [[p.prev EXCEPT ![first] = b, ![a] = last] EXCEPT ![l] = l]
  BY DEF InitHead, Splice
<1>5. /\ \A x \in Node : q.next[x] = IF x = l THEN l ELSE IF x = last THEN a
                                     ELSE IF x = b THEN first ELSE p.next[x]
      /\ \A x \in Node : q.prev[x] = IF x = l THEN l ELSE IF x = a THEN last
                                     ELSE IF x = first THEN b ELSE p.prev[x]
  BY <1>1, <1>4 DEF Sound
<1>6. q.next \in [Node -> Node] /\ q.prev \in [Node -> Node]
  <2> HIDE DEF a, first, last, q, r
  <2>1. [p.next EXCEPT ![b] = first, ![last] = a] \in [Node -> Node]
    BY <1>1 DEF Sound
  <2>2. [p.prev EXCEPT ![first] = b, ![a] = last] \in [Node -> Node]
    BY <1>1 DEF Sound
  <2> QED BY <1>1, <1>4, <2>1, <2>2
<1>7. /\ r \in [Node -> Heads \cup {None}] /\ \A x \in Heads : r[x] = x
      /\ \A x \in Node : r[x] = IF x \notin Heads /\ o[x] = l THEN h ELSE o[x]
  BY DEF Sound, HeadsGiven, Renamed
<1>8. \A x \in Heads : o[x] = x
  BY DEF Sound
<1> HIDE DEF a, first, last, q, r
<1>9. ASSUME NEW n \in Node, r[n] # None
      PROVE /\ r[q.next[n]] = r[n] /\ r[q.prev[n]] = r[n]
            /\ q.prev[q.next[n]] = n /\ q.next[q.prev[n]] = n
  <2>1. o[n] # None
    BY <1>1, <1>7, <1>9
  <2>2. CASE n = l
    BY <1>1, <1>5, <1>7, <2>2
  <2>3. CASE n # l /\ o[n] = l
    <3>1. n \notin Heads /\ r[n] = h
      BY <1>7, <1>8, <2>3
    <3>2. n # b /\ n # a
      BY <1>1, <2>3
    <3>3. r[q.next[n]] = h /\ q.prev[q.next[n]] = n
      <4>1. CASE n = last
        BY <1>1, <1>2, <1>5, <1>7, <2>3, <4>1
      <4>2. CASE n # last
        <5>1. q.next[n] = p.next[n]
          BY <1>5, <2>3, <3>2, <4>2
        <5>2. p.next[n] # l /\ p.next[n] # first
          BY <1>1, <1>3, <2>1, <2>3, <4>2 DEF last
        <5>3. p.next[n] # a /\ p.next[n] \notin Heads
          BY <1>1, <1>3, <1>8, <2>1, <2>3, <5>2
        <5> QED BY <1>3, <1>5, <1>7, <2>1, <2>3, <5>1, <5>2, <5>3
      <4> QED BY <4>1, <4>2
    <3>4. r[q.prev[n]] = h /\ q.next[q.prev[n]] = n
      <4>1. CASE n = first
        BY <1>1, <1>2, <1>5, <1>7, <2>3, <3>2, <4>1
      <4>2. CASE n # first
        <5>1. q.prev[n] = p.prev[n]
          BY <1>5, <2>3, <3>2, <4>2
        <5>2. p.prev[n] # l /\ p.prev[n] # last
          BY <1>1, <1>3, <2>1, <2>3, <4>2 DEF first
        <5>3. p.prev[n] # b /\ p.prev[n] \notin Heads
          BY <1>1, <1>3, <1>8, <2>1, <2>3, <5>2
        <5> QED BY <1>3, <1>5, <1>7, <2>1, <2>3, <5>1, <5>2, <5>3
      <4> QED BY <4>1, <4>2
    <3> QED BY <3>1, <3>3, <3>4
  <2>4. CASE o[n] # l
    <3>1. r[n] = o[n] /\ n # first /\ n # last /\ n # l
      BY <1>1, <1>7, <2>4
    <3>2. r[q.next[n]] = r[n] /\ q.prev[q.next[n]] = n
      <4>1. CASE n = b
        BY <1>1, <1>2, <1>5, <1>7, <1>8, <3>1, <4>1
      <4>2. CASE n # b
        <5>1. q.next[n] = p.next[n] /\ p.next[n] \in Node /\ o[p.next[n]] = o[n]
          BY <1>3, <1>5, <2>1, <3>1, <4>2
        <5>2. p.next[n] # l /\ p.next[n] # first /\ p.next[n] # last
          BY <1>1, <2>4, <5>1
        <5>3. p.next[n] # a
          BY <1>1, <1>3, <2>1, <4>2
        <5> QED BY <1>3, <1>5, <1>7, <2>1, <2>4, <3>1, <5>1, <5>2, <5>3
      <4> QED BY <4>1, <4>2
    <3>3. r[q.prev[n]] = r[n] /\ q.next[q.prev[n]] = n
      <4>1. CASE n = a
        BY <1>1, <1>2, <1>5, <1>7, <1>8, <3>1, <4>1
      <4>2. CASE n # a
        <5>1. q.prev[n] = p.prev[n] /\ p.prev[n] \in Node /\ o[p.prev[n]] = o[n]
          BY <1>3, <1>5, <2>1, <3>1, <4>2
        <5>2. p.prev[n] # l /\ p.prev[n] # first /\ p.prev[n] # last
          BY <1>1, <2>4, <5>1
        <5>3. p.prev[n] # b
          BY <1>1, <1>3, <2>1, <4>2 DEF a
        <5> QED BY <1>3, <1>5, <1>7, <2>1, <2>4, <3>1, <5>1, <5>2, <5>3
      <4> QED BY <4>1, <4>2
    <3> QED BY <3>2, <3>3
  <2> QED BY <2>2, <2>3, <2>4
<1>10. Sound(q, r)
  BY <1>6, <1>7, <1>9 DEF Sound
<1> QED BY <1>10 DEF q, r, a

(* None of them makes a second ring of the nodes of a list: a set of nodes *)
(* that only lead to one another, without the head, was one before.        *)
LEMMA InsertWhole ==
  ASSUME HeadsGiven, NEW p, NEW o, Whole(p, o), NEW new \in Node, NEW b \in Node,
         o[new] = None, o[b] # None
  PROVE  Whole(Insert(p, new, b, p.next[b]), [o EXCEPT ![new] = o[b]])
<1> DEFINE a == p.next[b]  q == Insert(p, new, b, a)  r == [o EXCEPT ![new] = o[b]]
<1>1. Sound(q, r)
  BY InsertSound DEF Whole
<1>2. a \in Node /\ p.prev[a] = b /\ o[a] = o[b] /\ new # a /\ new # b /\ new \notin Heads
  BY DEF HeadsGiven, Sound, Whole
<1>3. /\ \A x \in Node : r[x] = IF x = new THEN o[b] ELSE o[x]
      /\ \A x \in Node : q.next[x] = IF x = b THEN new ELSE IF x = new THEN a ELSE p.next[x]
  BY <1>2 DEF Sound, Whole, Insert
<1>4. \A x \in Node : o[x] # None => o[p.next[x]] = o[x]
  BY DEF Sound, Whole
<1>5. None \notin Heads
  BY DEF HeadsGiven
<1> HIDE DEF a, q, r
<1>6. ASSUME NEW h \in Heads, NEW S \in SUBSET Node, S # {},
             \A n \in S : r[n] = h /\ q.next[n] \in S
      PROVE h \in S
  <2> DEFINE T == S \ {new}
  <2>1. T # {}
    BY <1>2, <1>3, <1>6
  <2>2. ASSUME NEW n \in T PROVE o[n] = h /\ p.next[n] \in T
    <3>1. o[n] = h /\ p.next[n] # new
      BY <1>3, <1>4, <1>5, <1>6
    <3>2. p.next[n] \in S
      <4>1. CASE n = b
        BY <1>2, <1>3, <1>6, <4>1 DEF a
      <4>2. CASE n # b
        BY <1>3, <1>6, <4>2
      <4> QED BY <4>1, <4>2
    <3> QED BY <3>1, <3>2
  <2>3. h \in T
    <3> HIDE DEF T
    <3>1. T \in SUBSET Node
      BY DEF T
    <3> QED BY <2>1, <2>2, <3>1 DEF Whole, Ringed
  <2> QED BY <2>3
<1>7. Whole(q, r)
  BY <1>1, <1>6 DEF Whole, Ringed
<1> QED BY <1>7 DEF a, q, r

LEMMA UnlinkWhole ==
  ASSUME HeadsGiven, NEW p, NEW o, Whole(p, o), NEW e \in Node, e \notin Heads, o[e] # None
  PROVE  Whole(Unlink(p, e), [o EXCEPT ![e] = None])
<1> DEFINE b == p.prev[e]  a == p.next[e]  q == Unlink(p, e)  r == [o EXCEPT ![e] = None]
<1>1. Sound(q, r)
  BY UnlinkSound DEF Whole
<1>2. a \in Node /\ b \in Node /\ o[b] = o[e] /\ p.next[b] = e
  BY DEF Sound, Whole
<1>3. /\ \A x \in Node : r[x] = IF x = e THEN None ELSE o[x]
      /\ \A x \in Node : q.next[x] = IF x = b THEN a ELSE p.next[x]
  BY <1>2 DEF Sound, Whole, Unlink, Join
<1>4. None \notin Heads
  BY DEF HeadsGiven
<1> HIDE DEF a, b, q, r
<1>5. ASSUME NEW h \in Heads, NEW S \in SUBSET Node, S # {},
             \A n \in S : r[n] = h /\ q.next[n] \in S
      PROVE h \in S
  <2> DEFINE T == IF b \in S THEN S \cup {e} ELSE S
  <2>1. T \in SUBSET Node /\ T # {}
    BY <1>5
  <2>2. ASSUME NEW n \in T PROVE o[n] = h /\ p.next[n] \in T
    <3>1. CASE n = e
      <4>1. b \in S
        BY <1>3, <1>4, <1>5, <2>2, <3>1
      <4>2. p.next[e] \in S /\ o[e] = h
        BY <1>2, <1>3, <1>4, <1>5, <4>1 DEF a
      <4> QED BY <3>1, <4>1, <4>2
    <3>2. CASE n # e
      <4>1. n \in S /\ o[n] = h
        BY <1>3, <1>5, <2>2, <3>2
      <4>2. CASE n = b
        BY <1>2, <4>1, <4>2
      <4>3. CASE n # b
        BY <1>3, <1>5, <4>1, <4>3
      <4> QED BY <4>1, <4>2, <4>3
    <3> QED BY <3>1, <3>2
  <2>3. h \in T
    <3> HIDE DEF T
    <3> QED BY <2>1, <2>2 DEF Whole, Ringed
  <2> QED BY <2>3
<1>6. Whole(q, r)
  BY <1>1, <1>5 DEF Whole, Ringed
<1> QED BY <1>6 DEF q, r

LEMMA InitWhole ==
  ASSUME HeadsGiven, NEW p, NEW o, Whole(p, o), NEW n \in Node, o[n] = None
  PROVE  Whole(InitHead(p, n), o)
<1> DEFINE q == InitHead(p, n)
<1>1. Sound(q, o)
  BY InitSound DEF Whole
<1>2. \A x \in Node : o[x] # None => q.next[x] = p.next[x]
  BY DEF InitHead, Whole, Sound
<1>3. None \notin Heads
  BY DEF HeadsGiven
<1> HIDE DEF q
<1>4. ASSUME NEW h \in Heads, NEW S \in SUBSET Node, S # {},
             \A x \in S : o[x] = h /\ q.next[x] \in S
      PROVE h \in S
  <2>1. \A x \in S : o[x] = h /\ p.next[x] \in S
    BY <1>2, <1>3, <1>4
  <2> QED BY <1>4, <2>1 DEF Whole, Ringed
<1>5. Whole(q, o)
  BY <1>1, <1>4 DEF Whole, Ringed
<1> QED BY <1>5 DEF q

LEMMA SpliceWhole ==
  ASSUME HeadsGiven, NEW p, NEW o, Whole(p, o), NEW l \in Heads, NEW h \in Heads, l # h,
         NEW b \in Node, o[b] = h, p.next[l] # l
  PROVE  Whole(InitHead(Splice(p, l, b, p.next[b]), l),
               Renamed(o, l, h))
<1>2a. Sound(p, o)
  BY DEF Whole
<1> DEFINE a == p.next[b]  first == p.next[l]  last == p.prev[l]
           q == InitHead(Splice(p, l, b, a), l)
           r == Renamed(o, l, h)
<1>1. Sound(q, r)
  BY <1>2a, SpliceSound
<1>2. /\ l \in Node /\ h \in Node /\ l # None /\ h # None /\ o[l] = l /\ o[h] = h
      /\ a \in Node /\ first \in Node /\ last \in Node
      /\ o[a] = h /\ o[first] = l /\ o[last] = l /\ first # l /\ last # l
  BY DEF HeadsGiven, Sound, Whole
<1>3. \A x \in Node : o[x] # None =>
        p.next[x] \in Node /\ o[p.next[x]] = o[x] /\ p.prev[p.next[x]] = x
  BY DEF Sound, Whole
<1>4. q.next = [[p.next EXCEPT ![b] = first, ![last] = a] EXCEPT ![l] = l]
  BY DEF InitHead, Splice
<1>5. \A x \in Node : q.next[x] = IF x = l THEN l ELSE IF x = last THEN a
                                  ELSE IF x = b THEN first ELSE p.next[x]
  BY <1>2, <1>4 DEF Sound, Whole
<1>6. /\ \A x \in Node : r[x] = IF x \notin Heads /\ o[x] = l THEN h ELSE o[x]
      /\ \A x \in Heads : o[x] = x /\ x # None
  BY DEF Sound, Whole, HeadsGiven, Renamed
<1> HIDE DEF a, first, last, q, r
<1>7. ASSUME NEW g \in Heads, NEW S \in SUBSET Node, S # {},
             \A n \in S : r[n] = g /\ q.next[n] \in S
      PROVE g \in S
  <2>1. CASE g = l
    \* Only the head itself is left in its list
    BY <1>2, <1>6, <1>7, <2>1
  <2>2. CASE g # l /\ g # h
    \* Another list is as it was
    <3>1. ASSUME NEW n \in S PROVE o[n] = g /\ p.next[n] \in S
      <4>1. o[n] = g /\ n # l /\ n # last /\ n # b
        BY <1>2, <1>6, <1>7, <2>2
      <4> QED BY <1>5, <1>7, <4>1
    <3> QED BY <1>7, <3>1 DEF Whole, Ringed
  <2>3. CASE g = h
    <3>1. \A n \in S : n # l /\ (o[n] = h \/ o[n] = l)
      BY <1>2, <1>6, <1>7, <2>3
    <3>2. ASSUME NEW x \in S, o[x] = l PROVE last \in S
      <4> DEFINE T == {n \in S : o[n] = l}
      <4>1. SUFFICES ASSUME last \notin S PROVE FALSE
        OBVIOUS
      <4>2. ASSUME NEW n \in T PROVE o[n] = l /\ p.next[n] \in T
        <5>1. q.next[n] = p.next[n]
          BY <1>2, <1>5, <3>1, <4>1
        <5> QED BY <1>2, <1>3, <1>7, <5>1
      <4>3. T \in SUBSET Node /\ T # {} /\ l \notin T
        BY <3>1, <3>2
      <4> HIDE DEF T
      <4> QED BY <4>2, <4>3 DEF Whole, Ringed
    <3> DEFINE T == {n \in S : o[n] = h}
    <3>3. ASSUME last \in S PROVE a \in S
      BY <1>2, <1>5, <1>7, <3>3
    <3>4. T # {}
      BY <1>2, <1>7, <3>1, <3>2, <3>3
    <3>5. ASSUME NEW n \in T PROVE o[n] = h /\ p.next[n] \in T
      <4>1. CASE n = b
        <5>1. first \in S
          BY <1>2, <1>5, <1>7, <4>1
        <5>2. a \in S
          BY <1>2, <3>2, <3>3, <5>1
        <5> QED BY <1>2, <4>1, <5>2 DEF a
      <4>2. CASE n # b
        <5>1. q.next[n] = p.next[n]
          BY <1>2, <1>5, <3>1, <4>2
        <5> QED BY <1>2, <1>3, <1>7, <5>1
      <4> QED BY <4>1, <4>2
    <3>6. h \in T
      <4>1. T \in SUBSET Node
        OBVIOUS
      <4> HIDE DEF T
      <4> QED BY <3>4, <3>5, <4>1 DEF Whole, Ringed
    <3> QED BY <2>3, <3>6
  <2> QED BY <2>1, <2>2, <2>3
<1>8. Whole(q, r)
  BY <1>1, <1>7 DEF Whole, Ringed
<1> QED BY <1>8 DEF a, q, r

LEMMA ListInitInv == HeadsGiven /\ ListInit => ListInv
<1> SUFFICES ASSUME HeadsGiven, ListInit PROVE ListInv
  OBVIOUS
<1>1. /\ Pointers.next = next /\ Pointers.prev = prev
      /\ \A n \in Node : owner[n] = IF n \in Heads THEN n ELSE None
      /\ owner \in [Node -> Heads \cup {None}]
  BY DEF Pointers, ListInit
<1>2. next \in [Node -> Node] /\ prev \in [Node -> Node]
      /\ \A h \in Heads : next[h] = h /\ prev[h] = h
  BY DEF ListInit
<1>3. \A n \in Node : owner[n] # None => n \in Heads /\ owner[n] = n
  BY <1>1
<1>4. Sound(Pointers, owner)
  BY <1>1, <1>2, <1>3 DEF Sound, HeadsGiven
<1>5. Ringed(Pointers, owner)
  BY <1>3 DEF Ringed, HeadsGiven
<1> QED BY <1>4, <1>5 DEF ListInv, Whole

(* The functions' results, as the next pointers. *)
LEMMA BecomeWhole ==
  ASSUME NEW q, Become(q), Whole(q, owner')
  PROVE  ListInv'
BY DEF Become, ListInv, Whole, Sound, Ringed, Pointers

(* Adding a node that is in no list to a list, at either end. *)
LEMMA AddWhole ==
  ASSUME HeadsGiven, NEW p, NEW o, Whole(p, o), NEW new \in Node, NEW h \in Heads, o[new] = None
  PROVE  /\ Whole(AddHead(p, new, h), [o EXCEPT ![new] = h])
         /\ Whole(AddTail(p, new, h), [o EXCEPT ![new] = h])
<1>1. h \in Node /\ o[h] = h /\ h # None /\ p.prev[h] \in Node
      /\ o[p.prev[h]] = h /\ p.next[p.prev[h]] = h
  BY DEF HeadsGiven, Whole, Sound
<1>2. Whole(AddHead(p, new, h), [o EXCEPT ![new] = h])
  <2>1. Whole(Insert(p, new, h, p.next[h]), [o EXCEPT ![new] = o[h]])
    BY <1>1, InsertWhole
  <2> QED BY <1>1, <2>1 DEF AddHead
<1>3. Whole(AddTail(p, new, h), [o EXCEPT ![new] = h])
  <2> DEFINE b == p.prev[h]
  <2>1. b \in Node /\ o[b] = h /\ o[b] # None /\ p.next[b] = h
    BY <1>1
  <2>2. AddTail(p, new, h) = Insert(p, new, b, h)
    BY DEF AddTail
  <2> HIDE DEF b
  <2>3. Whole(Insert(p, new, b, p.next[b]), [o EXCEPT ![new] = o[b]])
    BY <2>1, InsertWhole
  <2> QED BY <2>1, <2>2, <2>3
<1> QED BY <1>2, <1>3

(* A function of list.h that is called as the guards say leaves all lists  *)
(* sound.                                                                  *)
LEMMA ListStep ==
  ASSUME HeadsGiven, ListInv, [ListNext]_lists
  PROVE  ListInv'
<1> DEFINE p == Pointers
<1>1. /\ \A h \in Heads : h \in Node /\ owner[h] = h /\ h # None
      /\ p.next = next /\ p.prev = prev /\ Whole(p, owner)
      /\ owner \in [Node -> Heads \cup {None}]
      /\ next \in [Node -> Node] /\ prev \in [Node -> Node]
  BY DEF ListInv, Whole, Sound, HeadsGiven, Pointers
<1>2. ASSUME NEW e \in Node, Listed(e)
      PROVE /\ Whole(Unlink(p, e), [owner EXCEPT ![e] = None])
            /\ [owner EXCEPT ![e] = None][e] = None
            /\ \A x : [[owner EXCEPT ![e] = None] EXCEPT ![e] = x] = [owner EXCEPT ![e] = x]
  BY <1>1, <1>2, UnlinkWhole DEF Listed
<1> HIDE DEF p
<1>3. ASSUME NEW n \in Node, NEW h \in Heads, ListAdd(n, h) \/ ListAddTail(n, h) PROVE ListInv'
  <2>1. owner[n] = None /\ owner' = [owner EXCEPT ![n] = h]
    BY <1>3 DEF ListAdd, ListAddTail, Free
  <2>2. /\ Whole(AddHead(p, n, h), owner') /\ Whole(AddTail(p, n, h), owner')
    BY <1>1, <2>1, AddWhole
  <2> QED BY <1>3, <2>2, BecomeWhole DEF ListAdd, ListAddTail, p
<1>4. ASSUME NEW e \in Node, NEW h \in Heads, ListMove(e, h) \/ ListMoveTail(e, h) PROVE ListInv'
  <2> DEFINE u == Unlink(p, e)  o == [owner EXCEPT ![e] = None]
  <2>1. Listed(e) /\ owner' = [owner EXCEPT ![e] = h]
    BY <1>4 DEF ListMove, ListMoveTail
  <2>2. Whole(u, o) /\ o[e] = None /\ [o EXCEPT ![e] = h] = owner'
    BY <1>2, <2>1
  <2> HIDE DEF u, o
  <2>3. Whole(AddHead(u, e, h), owner') /\ Whole(AddTail(u, e, h), owner')
    BY <2>2, AddWhole
  <2> QED BY <1>4, <2>3, BecomeWhole DEF ListMove, ListMoveTail, u, p
<1>5. ASSUME NEW e \in Node, ListDel(e) PROVE ListInv'
  <2>1. Whole(Unlink(p, e), owner')
    BY <1>2, <1>5 DEF ListDel
  <2> QED BY <1>5, <2>1, BecomeWhole DEF ListDel, p
<1>6. ASSUME NEW e \in Node, ListDelInit(e) PROVE ListInv'
  <2>1. Whole(Unlink(p, e), owner') /\ owner'[e] = None
    BY <1>2, <1>6 DEF ListDelInit
  <2>2. Whole(InitHead(Unlink(p, e), e), owner')
    BY <2>1, InitWhole
  <2> QED BY <1>6, <2>2, BecomeWhole DEF ListDelInit, p
<1>7. ASSUME NEW old \in Node, NEW new \in Node, ListReplace(old, new) PROVE ListInv'
  <2> DEFINE u == Unlink(p, old)  o == [owner EXCEPT ![old] = None]
             b == p.prev[old]  a == p.next[old]
  <2>1. /\ Listed(old) /\ Free(new) /\ old # new
        /\ Become(Insert(p, new, b, a))
        /\ owner' = [owner EXCEPT ![old] = None, ![new] = owner[old]]
    BY <1>1, <1>7 DEF ListReplace, Listed, Free, p
  <2>2. /\ a \in Node /\ b \in Node /\ owner[b] = owner[old]
        /\ p.next[b] = old /\ p.prev[a] = old /\ new # a /\ new # b
    BY <1>1, <2>1 DEF Whole, Sound, Listed, Free
  <2>3. Whole(u, o) /\ o[new] = None
    BY <1>1, <1>2, <2>1 DEF Free
  <2>4. b # old
    \* Or it was a ring without the head
    <3>1. SUFFICES ASSUME b = old PROVE FALSE
      OBVIOUS
    <3>2. owner[old] \in Heads /\ old \notin Heads
      BY <1>1, <2>1 DEF Listed
    <3>3. {old} \in SUBSET Node /\ \A n \in {old} : owner[n] = owner[old] /\ p.next[n] \in {old}
      BY <2>2, <3>1
    <3>4. owner[old] \in {old}
      BY <1>1, <3>2, <3>3 DEF Whole, Ringed
    <3> QED BY <3>2, <3>4
  <2>5. u.next[b] = a /\ o[b] = owner[old] /\ o[b] # None
    BY <1>1, <2>1, <2>2, <2>4 DEF Unlink, Join, Listed
  <2>6. Whole(Insert(u, new, b, a), [o EXCEPT ![new] = o[b]])
    <3> HIDE DEF u, o, a, b
    <3> QED BY <2>2, <2>3, <2>5, InsertWhole
  <2>7. [o EXCEPT ![new] = o[b]] = owner'
    BY <2>1, <2>5
  <2>8. Insert(u, new, b, a) = Insert(p, new, b, a)
    BY <1>1, <2>1, <2>2 DEF Unlink, Join, Insert
  <2> HIDE DEF a, b
  <2> QED BY <2>1, <2>6, <2>7, <2>8, BecomeWhole
<1>8. ASSUME NEW h \in Heads, ListRotateLeft(h) PROVE ListInv'
  <2>1. next[h] \in Node /\ ListMoveTail(next[h], h)
    BY <1>1, <1>8 DEF ListRotateLeft
  <2> QED BY <1>4, <2>1
<1>9. ASSUME NEW l \in Heads, NEW h \in Heads, ListSpliceTailInit(l, h) \/ ListSpliceInit(l, h)
      PROVE ListInv'
  <2> DEFINE r == Renamed(owner, l, h)
  <2>1. l # h /\ owner' = r
    BY <1>9 DEF ListSpliceTailInit, ListSpliceInit, Renamed
  <2>2. CASE ListEmpty(l)
    <3>1. next' = next /\ prev' = prev
      BY <1>9, <2>2 DEF ListSpliceTailInit, ListSpliceInit
    <3> DEFINE T == {n \in Node : n # l /\ owner[n] = l}
    <3>2. ASSUME NEW n \in T PROVE owner[n] = l /\ p.next[n] \in T
      BY <1>1, <2>2 DEF ListEmpty, Whole, Sound
    <3>3. T = {}
      <4>1. T \in SUBSET Node /\ l \notin T
        OBVIOUS
      <4> HIDE DEF T
      <4> QED BY <1>1, <3>2, <4>1 DEF Whole, Ringed
    <3>4. r = owner
      BY <1>1, <3>3 DEF Renamed
    <3> QED BY <1>1, <2>1, <3>1, <3>4 DEF ListInv, Pointers, p
  <2>3. CASE ~ListEmpty(l)
    <3>1. p.next[l] # l /\ h \in Node /\ owner[h] = h /\ p.prev[h] \in Node
          /\ owner[p.prev[h]] = h /\ p.next[p.prev[h]] = h
      BY <1>1, <2>3 DEF ListEmpty, Whole, Sound
    <3>2. Whole(InitHead(Splice(p, l, h, p.next[h]), l), r)
      BY <1>1, <2>1, <3>1, SpliceWhole
    <3>3. Whole(InitHead(Splice(p, l, p.prev[h], h), l), r)
      <4> DEFINE b == p.prev[h]
      <4>1. b \in Node /\ owner[b] = h /\ p.next[b] = h
        BY <3>1
      <4> HIDE DEF b
      <4>2. Whole(InitHead(Splice(p, l, b, p.next[b]), l), r)
        BY <1>1, <2>1, <3>1, <4>1, SpliceWhole
      <4> QED BY <4>1, <4>2 DEF b
    <3>4. Become(InitHead(Splice(p, l, h, p.next[h]), l))
          \/ Become(InitHead(Splice(p, l, p.prev[h], h), l))
      BY <1>1, <1>9, <2>3 DEF ListSpliceTailInit, ListSpliceInit, p
    <3> HIDE DEF r
    <3> QED BY <2>1, <3>2, <3>3, <3>4, BecomeWhole
  <2> QED BY <2>2, <2>3
<1>10. CASE UNCHANGED lists
  BY <1>10 DEF lists, ListInv, Whole, Sound, Ringed, Pointers
<1> QED BY <1>3, <1>4, <1>5, <1>6, <1>7, <1>8, <1>9, <1>10 DEF ListNext

(* Whatever the program does with its lists, as long as it adds only nodes *)
(* that are in none and takes only nodes out that are in one, walking them *)
(* from any node, forward or backward, meets the nodes of that list and    *)
(* comes back.  It need not know which list a node is in.                  *)
THEOREM AlwaysLinked == ASSUME HeadsGiven PROVE ListSpec => []Linked
<1>1. ListInit => ListInv
  BY ListInitInv
<1>2. ListInv /\ [ListNext]_lists => ListInv'
  BY ListStep
<1>3. ListInv => Linked
  BY DEF ListInv, Whole, Sound, Linked, Pointers
<1> QED BY <1>1, <1>2, <1>3, PTL DEF ListSpec

(* And every list is one ring with its head, so that such a walk misses    *)
(* none of its nodes.                                                      *)
THEOREM AlwaysOneRing == ASSUME HeadsGiven PROVE ListSpec => []OneRing
<1>1. ListInit => ListInv
  BY ListInitInv
<1>2. ListInv /\ [ListNext]_lists => ListInv'
  BY ListStep
<1>3. ListInv => OneRing
  BY DEF ListInv, Whole, Ringed, OneRing, Pointers
<1> QED BY <1>1, <1>2, <1>3, PTL DEF ListSpec

(***************************************************************************)
(* The pool of memory                                                      *)
(***************************************************************************)
PoolInv ==
  /\ chunks \in Nat /\ free \in Seq(Objects) /\ given \subseteq Objects
  /\ NoneTwice /\ NoneLost

(* With every chunk, its objects are added.                                *)
LEMMA MoreObjects ==
  ASSUME Num \in Nat, chunks \in Nat, chunks' = chunks + 1
  PROVE  Objects' = Objects \cup {<<chunks, k>> : k \in 0..(Num - 1)}
<1>1. 0..(chunks' - 1) = (0..(chunks - 1)) \cup {chunks}
  OBVIOUS
<1> QED BY <1>1 DEF Objects

LEMMA PoolStep == ASSUME Num \in Nat, PoolInv, [PoolNext]_pool PROVE PoolInv'
<1>1. /\ chunks \in Nat /\ free \in Seq(Objects) /\ given \subseteq Objects
      /\ \A i, j \in 1..Len(free) : free[i] = free[j] => i = j
      /\ \A i \in 1..Len(free) : free[i] \notin given /\ free[i] \in Objects
      /\ given \cup FreeObjects = Objects /\ num = Len(free) /\ Len(free) \in Nat
  BY DEF PoolInv, NoneTwice, NoneLost
<1>2. CASE AllocFree
  <2>1. /\ free' = Tail(free) /\ given' = given \cup {free[1]} /\ num' = num - 1
        /\ chunks' = chunks /\ Objects' = Objects /\ Len(free) >= 1
    BY <1>1, <1>2 DEF AllocFree, Objects
  <2>2. /\ Len(free') = Len(free) - 1 /\ free' \in Seq(Objects)
        /\ \A i \in 1..Len(free') : free'[i] = free[i + 1] /\ i + 1 \in 1..Len(free)
    BY <1>1, <2>1
  <2>3. \A i \in 1..Len(free) : i # 1 => i - 1 \in 1..Len(free') /\ free[i] = free'[i - 1]
    BY <1>1, <2>1, <2>2
  <2>4. FreeObjects = FreeObjects' \cup {free[1]}
    BY <1>1, <2>1, <2>2, <2>3 DEF FreeObjects
  <2>5. NoneTwice'
    <3>1. \A i, j \in 1..Len(free') : free'[i] = free'[j] => i = j
      BY <1>1, <2>1, <2>2
    <3>2. \A i \in 1..Len(free') : free'[i] \notin given'
      BY <1>1, <2>1, <2>2
    <3> QED BY <3>1, <3>2 DEF NoneTwice
  <2>6. NoneLost'
    BY <1>1, <2>1, <2>2, <2>4 DEF NoneLost
  <2>7. free[1] \in Objects
    BY <1>1, <2>1
  <2> QED BY <1>1, <2>1, <2>2, <2>5, <2>6, <2>7 DEF PoolInv
<1>3. CASE AllocChunk
  <2>1. /\ free = <<>> /\ Num \in Nat /\ Num > 0 /\ chunks' = chunks + 1
        /\ free' = [i \in 1..(Num - 1) |-> <<chunks, (Num - 1) - i>>]
        /\ given' = given \cup {<<chunks, Num - 1>>} /\ num' = (num + Num) - 1
    BY <1>3 DEF AllocChunk
  <2>2. Objects' = Objects \cup {<<chunks, k>> : k \in 0..(Num - 1)}
    BY <1>1, <2>1, MoreObjects
  <2>3. /\ given = Objects /\ Len(free) = 0 /\ \A k \in 0..(Num - 1) : <<chunks, k>> \notin Objects
    BY <1>1, <2>1 DEF FreeObjects, Objects
  <2>4. /\ Len(free') = Num - 1
        /\ \A i \in 1..Len(free') :
              free'[i] = <<chunks, (Num - 1) - i>> /\ (Num - 1) - i \in 0..(Num - 1)
        /\ \A k \in 0..(Num - 1) : k # Num - 1 =>
              (Num - 1) - k \in 1..Len(free') /\ <<chunks, k>> = free'[(Num - 1) - k]
    BY <2>1
  <2>5. free' \in Seq(Objects')
    <3>1. \A i \in 1..(Num - 1) : <<chunks, (Num - 1) - i>> \in Objects'
      BY <2>1, <2>2
    <3> DEFINE n == Num - 1
    <3>2. n \in Nat
      BY <2>1
    <3>3. free' = [i \in 1..n |-> <<chunks, n - i>>]
      BY <2>1
    <3>4. \A i \in 1..n : <<chunks, n - i>> \in Objects'
      BY <3>1
    <3> HIDE DEF n
    <3>5. free' \in [1..n -> Objects']
      BY <3>3, <3>4
    <3> QED BY <3>2, <3>5, SeqDef
  <2>6. FreeObjects' = {<<chunks, k>> : k \in 0..(Num - 2)}
    <3>1. ASSUME NEW i \in 1..Len(free') PROVE free'[i] \in {<<chunks, k>> : k \in 0..(Num - 2)}
      BY <2>1, <2>4
    <3>2. ASSUME NEW k \in 0..(Num - 2) PROVE <<chunks, k>> \in FreeObjects'
      <4>1. (Num - 1) - k \in 1..Len(free') /\ <<chunks, k>> = free'[(Num - 1) - k]
        BY <2>1, <2>4
      <4> QED BY <4>1 DEF FreeObjects
    <3> QED BY <3>1, <3>2 DEF FreeObjects
  <2>7. NoneTwice'
    <3>1. \A i, j \in 1..Len(free') : free'[i] = free'[j] => i = j
      BY <2>1, <2>4
    <3>2. ASSUME NEW i \in 1..Len(free') PROVE free'[i] \notin given'
      BY <2>1, <2>3, <2>4
    <3> QED BY <3>1, <3>2 DEF NoneTwice
  <2>8. given' \cup FreeObjects' = Objects'
    <3>1. {<<chunks, k>> : k \in 0..(Num - 1)} = {<<chunks, Num - 1>>} \cup FreeObjects'
      BY <2>1, <2>6
    <3> QED BY <2>1, <2>2, <2>3, <3>1
  <2>9. num' = Len(free')
    BY <1>1, <2>1, <2>3, <2>4
  <2> QED BY <1>1, <2>1, <2>2, <2>5, <2>7, <2>8, <2>9 DEF PoolInv, NoneLost
<1>4. CASE AllocFails
  <2>1. /\ free' = free /\ num' = num /\ given' = given /\ chunks' \in Nat /\ Objects' = Objects
    <3>1. CASE UNCHANGED pool
      BY <1>1, <3>1 DEF pool, Objects
    <3>2. CASE Num = 0 /\ chunks' = chunks + 1 /\ UNCHANGED <<free, num, given>>
      BY <1>1, <3>2 DEF Objects
    <3> QED BY <1>4, <3>1, <3>2 DEF AllocFails
  <2> QED BY <1>1, <2>1 DEF PoolInv, NoneTwice, NoneLost, FreeObjects
<1>5. ASSUME NEW node \in given, FreeObject(node) PROVE PoolInv'
  <2>1. /\ free' = <<node>> \o free /\ given' = given \ {node} /\ num' = num + 1
        /\ chunks' = chunks /\ Objects' = Objects /\ node \in Objects
    BY <1>1, <1>5 DEF FreeObject, Objects
  <2>2. /\ free' \in Seq(Objects) /\ Len(free') = Len(free) + 1 /\ free'[1] = node
        /\ \A i \in 1..Len(free') : i # 1 => free'[i] = free[i - 1] /\ i - 1 \in 1..Len(free)
    BY <1>1, <2>1
  <2>3. \A i \in 1..Len(free) : i + 1 \in 1..Len(free') /\ free'[i + 1] = free[i]
    BY <1>1, <2>1
  <2>4. FreeObjects' = {node} \cup FreeObjects
    <3>1. \A x \in FreeObjects' : x = node \/ x \in FreeObjects
      BY <2>2 DEF FreeObjects
    <3>2. 1 \in 1..Len(free')
      BY <1>1, <2>2
    <3>3. node \in FreeObjects'
      BY <2>2, <3>2 DEF FreeObjects
    <3>4. \A x \in FreeObjects : x \in FreeObjects'
      BY <2>3 DEF FreeObjects
    <3> QED BY <3>1, <3>3, <3>4
  <2>5. NoneTwice'
    <3>1. \A i, j \in 1..Len(free') : free'[i] = free'[j] => i = j
      BY <1>1, <2>2
    <3>2. \A i \in 1..Len(free') : free'[i] \notin given'
      BY <1>1, <2>1, <2>2
    <3> QED BY <3>1, <3>2 DEF NoneTwice
  <2>6. NoneLost'
    BY <1>1, <2>1, <2>2, <2>4 DEF NoneLost
  <2> QED BY <1>1, <2>1, <2>2, <2>5, <2>6 DEF PoolInv
<1>6. CASE UNCHANGED pool
  BY <1>1, <1>6 DEF pool, PoolInv, NoneTwice, NoneLost, FreeObjects, Objects
<1> QED BY <1>2, <1>3, <1>4, <1>5, <1>6 DEF PoolNext

(* mem_pool_alloc() never returns an object that is in use, and every      *)
(* object of every chunk is either in use or in the free list, whose       *)
(* length the counter tells: nothing is lost by being freed, and memory    *)
(* that was freed is used before more of it is taken.                      *)
THEOREM PoolKeepsAll == ASSUME Num \in Nat PROVE PoolSpec => [](NoneTwice /\ NoneLost)
<1>1. PoolInit => PoolInv
  <2> SUFFICES ASSUME PoolInit PROVE PoolInv
    OBVIOUS
  <2>1. free = <<>> /\ num = 0 /\ chunks = 0 /\ given = {}
    BY DEF PoolInit
  <2>2. Objects = {} /\ FreeObjects = {}
    BY <2>1 DEF Objects, FreeObjects
  <2>3. free \in Seq(Objects) /\ Len(free) = 0
    BY <2>1, EmptySeq, Zenon
  <2> QED BY <2>1, <2>2, <2>3 DEF PoolInv, NoneTwice, NoneLost
<1>2. PoolInv /\ [PoolNext]_pool => PoolInv'
  BY PoolStep
<1>3. PoolInv => NoneTwice /\ NoneLost
  BY DEF PoolInv
<1> QED BY <1>1, <1>2, <1>3, PTL DEF PoolSpec

(***************************************************************************)
(* Checksums                                                               *)
(***************************************************************************)
Wide == 4294967296

(* The quotient and the remainder that folding adds. *)
LEMMA Divided ==
  ASSUME NEW x \in Nat
  PROVE  /\ x \div 65536 \in Nat /\ x % 65536 \in Nat /\ x % 65536 < 65536
         /\ x = (65536 * (x \div 65536)) + (x % 65536)
OBVIOUS

(* Folding keeps a sum modulo 65535. *)
LEMMA FoldKeeps ==
  ASSUME NEW x \in Nat, x >= 65536, x < Wide
  PROVE  /\ Fold(x) \in Nat /\ Fold(x) > 0
         /\ Fold(x) <= 131070 /\ (x <= 131070 => Fold(x) <= 65535)
         /\ \E k \in Nat : x = (65535 * k) + Fold(x)
<1> DEFINE q == x \div 65536  r == x % 65536
<1>1. q \in Nat /\ r \in Nat /\ r < 65536 /\ x = (65536 * q) + r
  BY Divided
<1>2. Fold(x) = q + r
  BY DEF Fold, Word
<1> HIDE DEF q, r
<1>3. q >= 1 /\ q < 65536
  BY <1>1 DEF Wide
<1>4. x = (65535 * q) + (q + r)
  BY <1>1
<1>5. x <= 131070 => q + r <= 65535
  BY <1>1, <1>3
<1>6. \E k \in Nat : x = (65535 * k) + Fold(x)
  <2> q \in Nat
    BY <1>1
  <2> WITNESS q \in Nat
  <2> QED BY <1>2, <1>4
<1>7. q + r \in Nat /\ q + r > 0 /\ q + r <= 131070
  BY <1>1, <1>3
<1> QED BY <1>2, <1>5, <1>6, <1>7

LEMMA FoldedKeeps ==
  ASSUME NEW x \in Nat, x < Wide
  PROVE  /\ Folded(x) \in Nat /\ Folded(x) <= 65535
         /\ Folded(x) = 0 <=> x = 0
         /\ \E k \in Nat : x = (65535 * k) + Folded(x)
<1>1. CASE x < 65536
  <2>1. Folded(x) = x
    BY <1>1 DEF Folded, Word
  <2>2. x = (65535 * 0) + x
    OBVIOUS
  <2>3. x <= 65535
    BY <1>1
  <2> QED BY <2>1, <2>2, <2>3
<1>2. CASE x >= 65536
  <2> DEFINE y == Fold(x)
  <2>1. PICK k \in Nat : x = (65535 * k) + y
    BY <1>2, FoldKeeps
  <2>2. y \in Nat /\ y > 0 /\ y <= 131070
    BY <1>2, FoldKeeps
  <2>3. Folded(x) = IF y < 65536 THEN y ELSE Fold(y)
    BY <1>2 DEF Folded, Word
  <2> HIDE DEF y
  <2>4. CASE y < 65536
    <3>1. Folded(x) = y
      BY <2>3, <2>4
    <3>2. y <= 65535
      BY <2>2, <2>4
    <3> QED BY <1>2, <2>1, <2>2, <3>1, <3>2
  <2>5. CASE y >= 65536
    <3> DEFINE z == Fold(y)
    <3>1. z \in Nat /\ z > 0 /\ z <= 65535 /\ \E m \in Nat : y = (65535 * m) + z
      BY <2>2, <2>5, FoldKeeps DEF Wide
    <3>2. Folded(x) = z
      BY <2>2, <2>3, <2>5
    <3> HIDE DEF z
    <3>3. PICK m \in Nat : y = (65535 * m) + z
      BY <3>1
    <3>4. x = (65535 * (k + m)) + z /\ k + m \in Nat
      BY <2>1, <3>1, <3>3
    <3> QED BY <1>2, <3>1, <3>2, <3>4
  <2> QED BY <2>2, <2>4, <2>5
<1> QED BY <1>1, <1>2

(* Two multiples of 65535 with what is left over of them. *)
LEMMA SameRest ==
  ASSUME NEW m \in Nat, NEW n \in Nat, NEW g \in Nat, NEW d \in Int,
         g <= 65535, -65535 < d, d < 65535, (65535 * m) + g = (65535 * n) + d, n >= 1,
         g = 0 => (65535 * m) + g = 0
  PROVE  g = 65535 <=> d = 0
<1>1. CASE g = 65535
  <2>1. 65535 * ((m + 1) - n) = d
    BY <1>1
  <2>2. m + 1 = n
    BY <2>1
  <2> QED BY <1>1, <2>1, <2>2
<1>2. CASE g # 65535
  <2>1. SUFFICES ASSUME d = 0 PROVE FALSE
    BY <1>2
  <2>2. g = 65535 * (n - m)
    BY <2>1
  <2>3. n = m
    BY <1>2, <2>2
  <2>4. g = 0
    BY <2>2, <2>3
  <2>5. (65535 * n) = 0
    BY <2>1, <2>4
  <2> QED BY <2>5
<1> QED BY <1>1, <1>2

(* What a receiver makes of a sum and the complement of another.           *)
LEMMA ComplementAccepted ==
  ASSUME NEW x \in Nat, NEW y \in Nat, x < Wide, y + 65535 < Wide,
         -65535 < y - x, y - x < 65535
  PROVE  Folded(y + Complement(x)) = 65535 <=> y = x
<1> DEFINE f == Folded(x)
<1>1. PICK k \in Nat : f \in Nat /\ f <= 65535 /\ x = (65535 * k) + f
  BY FoldedKeeps
<1>2. Complement(x) = 65535 - f
  BY DEF Complement, Word
<1> HIDE DEF f
<1> DEFINE c == Complement(x)
<1>3. c \in Nat /\ c <= 65535 /\ c + f = 65535
  BY <1>1, <1>2
<1> HIDE DEF c
<1> DEFINE s == y + c  g == Folded(s)
<1>4. s \in Nat /\ s < Wide
  <2>1. y + c <= y + 65535
    BY <1>3
  <2> QED BY <1>3, <2>1 DEF Wide
<1>5. PICK m \in Nat : g \in Nat /\ g <= 65535 /\ (g = 0 <=> s = 0) /\ s = (65535 * m) + g
  <2> HIDE DEF s
  <2> QED BY <1>4, FoldedKeeps
<1>6. s = (65535 * (k + 1)) + (y - x)
  BY <1>1, <1>3
<1> HIDE DEF s, g
<1> DEFINE n == k + 1  d == y - x
<1>7. /\ n \in Nat /\ n >= 1 /\ d \in Int /\ -65535 < d /\ d < 65535 /\ (d = 0 <=> y = x)
      /\ (65535 * m) + g = (65535 * n) + d /\ (g = 0 => (65535 * m) + g = 0)
  BY <1>5, <1>6
<1> HIDE DEF n, d
<1>8. g = 65535 <=> d = 0
  BY <1>5, <1>7, SameRest
<1> QED BY <1>7, <1>8 DEF s, g, c

(* The loop of _checksum() leaves what fits in the 16 bits that it         *)
(* returns, and folds no more than twice.                                  *)
THEOREM ChecksumFits ==
  \A sum \in Nat : sum < Wide => Folded(sum) \in Upto(65535) /\ Complement(sum) \in Upto(65535)
<1> SUFFICES ASSUME NEW sum \in Nat, sum < Wide
             PROVE  Folded(sum) \in Upto(65535) /\ Complement(sum) \in Upto(65535)
  OBVIOUS
<1>1. Folded(sum) \in Nat /\ Folded(sum) <= 65535
  BY FoldedKeeps
<1> QED BY <1>1 DEF Complement, Word, Upto

(* An IPv4 header with the checksum of checksum_ipv4() in it sums to       *)
(* 65535, as who receives it requires.                                     *)
THEOREM HeaderAccepted ==
  \A header \in Upto(655350) : Folded(header + CheckIpv4(header)) = 65535
<1> SUFFICES ASSUME NEW header \in Upto(655350)
             PROVE  Folded(header + CheckIpv4(header)) = 65535
  OBVIOUS
<1>1. header \in Nat /\ header < Wide /\ header + 65535 < Wide /\ header - header = 0
  BY DEF Wide, Upto
<1>2. Folded(header + Complement(header)) = 65535
  BY <1>1, ComplementAccepted
<1> QED BY <1>2 DEF CheckIpv4

(* By how much checksum_tcpudp() is wrong. *)
Gap(pkt) == IF pkt.v4 THEN 0 ELSE 256 * (pkt.protocol - pkt.saddr1)

(* What the receiver sums, but for the checksum, is y. *)
Received(pkt, y) ==
  y + 65535 < Wide /\ \A c \in Nat : Accepts(pkt, c) <=> Folded(y + c) = 65535

LEMMA PacketSums ==
  ASSUME NEW pkt \in Packets
  PROVE  /\ SumTcpUdp(pkt) \in Nat /\ SumTcpUdp(pkt) < Wide
         /\ \E y \in Nat : Received(pkt, y) /\ y - SumTcpUdp(pkt) = Gap(pkt)
<1> DEFINE a == pkt.addresses  e == pkt.protocol  s == pkt.saddr1  l == pkt.length  n == pkt.data
<1>1. /\ a \in Nat /\ e \in Nat /\ s \in Nat /\ l \in Nat /\ n \in Nat
      /\ a <= 1048560 /\ e <= 255 /\ s <= 255 /\ l <= 65535 /\ n <= 2147450880
  BY DEF Packets, Upto, Word
<1>2. SumTcpUdp(pkt) = a + (256 * (IF pkt.v4 THEN e ELSE s)) + l + n
  BY DEF SumTcpUdp
<1>3. \A c : Accepts(pkt, c) <=> Folded(a + (256 * e) + l + n + c) = 65535
  BY DEF Accepts, Word
<1> HIDE DEF a, e, s, l, n
<1> DEFINE x == a + (256 * (IF pkt.v4 THEN e ELSE s)) + l + n  y == a + (256 * e) + l + n
<1>4. x \in Nat /\ x < Wide
  <2>1. CASE pkt.v4
    BY <1>1, <2>1 DEF Wide
  <2>2. CASE ~pkt.v4
    BY <1>1, <2>2 DEF Wide
  <2> QED BY <2>1, <2>2
<1>5. y \in Nat /\ y + 65535 < Wide
  BY <1>1 DEF Wide
<1>6. y - x = IF pkt.v4 THEN 0 ELSE 256 * (e - s)
  <2>1. CASE pkt.v4
    BY <1>1, <2>1
  <2>2. CASE ~pkt.v4
    BY <1>1, <2>2
  <2> QED BY <2>1, <2>2
<1> HIDE DEF x
<1>7. x = SumTcpUdp(pkt)
  BY <1>2 DEF x
<1>8. \A c \in Nat : Accepts(pkt, c) <=> Folded(y + c) = 65535
  BY <1>3
<1> HIDE DEF y
<1>9. Received(pkt, y)
  BY <1>5, <1>8 DEF Received
<1>10. y - SumTcpUdp(pkt) = Gap(pkt)
  BY <1>6, <1>7 DEF Gap, e, s
<1> QED BY <1>4, <1>5, <1>7, <1>9, <1>10

(* Whoever receives a forwarded IPv4 packet, of whatever size and          *)
(* contents, accepts the checksum that checksum_tcp() or checksum_udp()    *)
(* has put into it.                                                        *)
THEOREM Ipv4Accepted == \A pkt \in Packets : pkt.v4 => Accepts(pkt, Check(pkt))
<1> SUFFICES ASSUME NEW pkt \in Packets, pkt.v4 PROVE Accepts(pkt, Check(pkt))
  BY Zenon
<1> DEFINE x == SumTcpUdp(pkt)
<1>1. x \in Nat /\ x < Wide /\ Check(pkt) = Complement(x)
  BY PacketSums DEF Check
<1>2. PICK y \in Nat : Received(pkt, y) /\ y - x = Gap(pkt)
  BY PacketSums, Zenon
<1>2a. y + 65535 < Wide /\ \A c \in Nat : Accepts(pkt, c) <=> Folded(y + c) = 65535
  BY <1>2 DEF Received
<1>2b. y - x = 0
  BY <1>2 DEF Gap
<1>3. Complement(x) \in Nat
  BY <1>1, FoldedKeeps DEF Complement, Word
<1> HIDE DEF x
<1>4. y = x
  BY <1>1, <1>2b
<1>5. Folded(y + Complement(x)) = 65535
  BY <1>1, <1>2a, <1>4, ComplementAccepted
<1> QED BY <1>1, <1>2a, <1>3, <1>5

(* For an IPv6 packet checksum_tcpudp() adds byte 9 of the header as if it *)
(* was the protocol, and that is a byte of the source address: the packet  *)
(* is accepted by who receives it only when the two happen to be equal.    *)
THEOREM Ipv6AcceptedByChance ==
  \A pkt \in Packets : ~pkt.v4 => (Accepts(pkt, Check(pkt)) <=> pkt.saddr1 = pkt.protocol)
<1> SUFFICES ASSUME NEW pkt \in Packets, ~pkt.v4
             PROVE  Accepts(pkt, Check(pkt)) <=> pkt.saddr1 = pkt.protocol
  BY Zenon
<1> DEFINE x == SumTcpUdp(pkt)
<1>1. x \in Nat /\ x < Wide /\ Check(pkt) = Complement(x)
  BY PacketSums DEF Check
<1>2. PICK y \in Nat : Received(pkt, y) /\ y - x = Gap(pkt)
  BY PacketSums, Zenon
<1>2a. y + 65535 < Wide /\ \A c \in Nat : Accepts(pkt, c) <=> Folded(y + c) = 65535
  BY <1>2 DEF Received
<1>2b. y - x = 256 * (pkt.protocol - pkt.saddr1)
  BY <1>2 DEF Gap
<1>3. Complement(x) \in Nat
  BY <1>1, FoldedKeeps DEF Complement, Word
<1>4. /\ pkt.protocol \in Nat /\ pkt.protocol <= 255
      /\ pkt.saddr1 \in Nat /\ pkt.saddr1 <= 255
  BY DEF Packets, Upto
<1> HIDE DEF x
<1>5. -65535 < y - x /\ y - x < 65535 /\ (y = x <=> pkt.saddr1 = pkt.protocol)
  BY <1>1, <1>2b, <1>4
<1>6. Folded(y + Complement(x)) = 65535 <=> y = x
  BY <1>1, <1>2a, <1>5, ComplementAccepted
<1> QED BY <1>1, <1>2a, <1>3, <1>5, <1>6

(***************************************************************************)
(* Dispatch, for every number of processes, every base port and every      *)
(* width of a byte.  The slices of two processes are disjoint, exchanging  *)
(* the bytes of a port number loses nothing, and a process takes ports     *)
(* from its own slice only: so no two connections share one.               *)
(***************************************************************************)
(* What connects a connection to its process. *)
PortsOwned ==
  /\ \A x \in FullNatConns : \E p \in Slice(x.proc) : x.port = SwapBytes(p)
  /\ \A x, y \in FullNatConns : x.proc = y.proc /\ x.port = y.port => x = y

IInv == TypeOK /\ PortsOwned

-----------------------------------------------------------------------------
(* Division by a positive number, as the provers need it. *)
LEMMA DivMod ==
  ASSUME NEW a \in Nat, NEW b \in Nat \ {0}
  PROVE  /\ a \div b \in Nat /\ a % b \in 0..(b - 1)
         /\ a = b * (a \div b) + (a % b)
  OBVIOUS

(* A quotient and a remainder are determined by the number they make up. *)
LEMMA DivModUnique ==
  ASSUME NEW b \in Nat \ {0}, NEW q1 \in Nat, NEW q2 \in Nat,
         NEW r1 \in 0..(b - 1), NEW r2 \in 0..(b - 1),
         b * q1 + r1 = b * q2 + r2
  PROVE  q1 = q2 /\ r1 = r2
<1>1. ASSUME q1 < q2 PROVE FALSE
  <2>1. b * q2 >= b * (q1 + 1)
    BY <1>1
  <2> QED BY <2>1
<1>2. ASSUME q2 < q1 PROVE FALSE
  <2>1. b * q1 >= b * (q2 + 1)
    BY <1>2
  <2> QED BY <2>1
<1>3. q1 = q2
  BY <1>1, <1>2
<1> QED BY <1>3

LEMMA SwapBytesInjective ==
  ASSUME NEW p \in 0..PortMax, NEW q \in 0..PortMax, SwapBytes(p) = SwapBytes(q)
  PROVE  p = q
<1> USE NumAssumption
<1> DEFINE hp == p \div Radix
           lp == p % Radix
           hq == q \div Radix
           lq == q % Radix
<1>1. p \in Nat /\ q \in Nat /\ Radix \in Nat \ {0} /\ p < Radix * Radix /\ q < Radix * Radix
  BY DEF PortMax
<1>2. /\ hp \in Nat /\ lp \in 0..(Radix - 1) /\ p = Radix * hp + lp
      /\ hq \in Nat /\ lq \in 0..(Radix - 1) /\ q = Radix * hq + lq
  BY <1>1, DivMod
<1>3. ASSUME NEW h \in Nat, NEW l \in 0..(Radix - 1), Radix * h + l < Radix * Radix
      PROVE  h \in 0..(Radix - 1)
  <2>1. ASSUME h >= Radix PROVE FALSE
    <3>1. Radix * h >= Radix * Radix
      BY <1>1, <2>1
    <3> QED BY <1>1, <1>3, <3>1
  <2> QED BY <1>1, <2>1
<1>4. hp \in 0..(Radix - 1) /\ hq \in 0..(Radix - 1)
  <2> HIDE DEF hp, lp, hq, lq
  <2> QED BY <1>1, <1>2, <1>3
<1>5. Radix * lp + hp = Radix * lq + hq
  <2>1. SwapBytes(p) = lp * Radix + hp /\ SwapBytes(q) = lq * Radix + hq
    BY DEF SwapBytes
  <2> HIDE DEF hp, lp, hq, lq
  <2> QED BY <1>1, <1>2, <2>1
<1>6. lp = lq /\ hp = hq
  <2> HIDE DEF hp, lp, hq, lq
  <2>1. lp \in Nat /\ lq \in Nat
    BY <1>1, <1>2
  <2> QED BY <1>1, <1>4, <1>5, <2>1, DivModUnique
<1> HIDE DEF hp, lp, hq, lq
<1> QED BY <1>2, <1>6

-----------------------------------------------------------------------------
LEMMA SliceType ==
  /\ PortSlice \in Nat \ {0}
  /\ NumProc * PortSlice <= PortMax - PortBase
  /\ PortMax \in Nat
<1> USE NumAssumption
<1>1. PortMax \in Int
  BY DEF PortMax
<1>2. PortMax - PortBase \in Nat /\ PortMax - PortBase >= NumProc /\ PortMax \in Nat
  BY <1>1
<1>3. /\ PortSlice \in Nat
      /\ (PortMax - PortBase) % NumProc \in 0..(NumProc - 1)
      /\ PortMax - PortBase = NumProc * PortSlice + ((PortMax - PortBase) % NumProc)
  BY <1>2, DivMod DEF PortSlice
<1>4. ASSUME PortSlice = 0 PROVE FALSE
  BY <1>2, <1>3, <1>4
<1>5. NumProc * PortSlice \in Nat
  BY <1>3
<1> QED BY <1>2, <1>3, <1>4, <1>5

(* Every slice lies between the base port and the largest port. *)
LEMMA SliceInRange ==
  ASSUME NEW i \in Procs
  PROVE  Slice(i) \subseteq PortBase..PortMax
<1> USE NumAssumption, SliceType
<1>1. i \in Nat /\ i + 1 <= NumProc
  BY DEF Procs
<1>2. (i + 1) * PortSlice <= NumProc * PortSlice
  BY <1>1
<1>3. i * PortSlice \in Nat /\ (i + 1) * PortSlice = i * PortSlice + PortSlice
  BY <1>1
<1> QED
  BY <1>2, <1>3 DEF Slice, SelfPortLow, SelfPortHigh

(* The slices of two processes have no port in common. *)
LEMMA SlicesDisjoint ==
  ASSUME NEW i \in Procs, NEW j \in Procs, NEW p \in Slice(i), p \in Slice(j)
  PROVE  i = j
<1> USE NumAssumption, SliceType
<1>0. i \in Nat /\ j \in Nat
  BY DEF Procs
<1>1. /\ i * PortSlice \in Nat /\ j * PortSlice \in Nat
      /\ (i + 1) * PortSlice = i * PortSlice + PortSlice
      /\ (j + 1) * PortSlice = j * PortSlice + PortSlice
  BY <1>0
<1>2. /\ i * PortSlice + PortBase <= p /\ p < (i + 1) * PortSlice + PortBase
      /\ j * PortSlice + PortBase <= p /\ p < (j + 1) * PortSlice + PortBase
      /\ p \in Int
  BY <1>1 DEF Slice, SelfPortLow, SelfPortHigh
<1>3. ASSUME i < j PROVE FALSE
  <2>1. (i + 1) * PortSlice <= j * PortSlice
    BY <1>0, <1>3
  <2> QED BY <1>1, <1>2, <2>1
<1>4. ASSUME j < i PROVE FALSE
  <2>1. (j + 1) * PortSlice <= i * PortSlice
    BY <1>0, <1>4
  <2> QED BY <1>1, <1>2, <2>1
<1> QED BY <1>0, <1>3, <1>4

(* dispatch_port_to_id() is right about ports in host order. *)
THEOREM HostOrderDispatch ==
  ASSUME NEW i \in Procs, NEW p \in Slice(i)
  PROVE  DispatchPortToId(p) = i
<1> USE NumAssumption, SliceType
<1>0. i \in Nat /\ i * PortSlice \in Nat
  BY DEF Procs
<1>1. p - PortBase - i * PortSlice \in 0..(PortSlice - 1) /\ p - PortBase \in Nat
  BY <1>0 DEF Slice, SelfPortLow, SelfPortHigh
<1> DEFINE q == (p - PortBase) \div PortSlice
           r == (p - PortBase) % PortSlice
<1>2. q \in Nat /\ r \in 0..(PortSlice - 1) /\ p - PortBase = PortSlice * q + r
  BY <1>1, DivMod
<1>3. DispatchPortToId(p) = q
  BY <1>1 DEF DispatchPortToId, Quotient
<1> HIDE DEF q, r
<1>4. PortSlice * q + r = PortSlice * i + (p - PortBase - i * PortSlice)
  BY <1>0, <1>1, <1>2
<1> QED BY <1>0, <1>1, <1>2, <1>3, <1>4, DivModUnique

-----------------------------------------------------------------------------
LEMMA PortsOwnedImpliesDiffer ==
  ASSUME IInv PROVE SelfPortsDiffer
<1> SUFFICES ASSUME NEW x \in FullNatConns, NEW y \in FullNatConns, x.port = y.port
             PROVE  x = y
  BY DEF SelfPortsDiffer
<1>1. x.proc \in Procs /\ y.proc \in Procs
  BY DEF IInv, TypeOK, FullNatConns, Connection
<1>2. PICK p \in Slice(x.proc) : x.port = SwapBytes(p)
  BY DEF IInv, PortsOwned
<1>3. PICK q \in Slice(y.proc) : y.port = SwapBytes(q)
  BY DEF IInv, PortsOwned
<1>4. p \in 0..PortMax /\ q \in 0..PortMax
  BY <1>1, <1>2, <1>3, SliceInRange, SliceType, NumAssumption
<1>5. p = q
  BY <1>2, <1>3, <1>4, SwapBytesInjective
<1>6. x.proc = y.proc
  BY <1>1, <1>2, <1>3, <1>5, SlicesDisjoint
<1> QED BY <1>6 DEF IInv, PortsOwned

LEMMA RequestTarget ==
  ASSUME TypeOK, NEW c \in Clients, NEW v \in VsIps
  PROVE  Target(rss[c][v], RequestOf(c, v)) \in Procs
<1>1. rss[c][v] \in Procs
  BY DEF TypeOK
<1>2. c \notin VsIps /\ v # SelfIp /\ v \in Hashed
  BY AddressAssumption DEF VsIps, Hashed
<1>3. Target(rss[c][v], RequestOf(c, v)) = hash[rss[c][v]][v]
  BY <1>2 DEF Target, RequestOf
<1> QED BY <1>1, <1>2, <1>3 DEF TypeOK

THEOREM Initial == Init => IInv
BY DEF Init, IInv, TypeOK, PortsOwned, FullNatConns

THEOREM Inductive == IInv /\ [Next]_vars => IInv'
<1> SUFFICES ASSUME IInv, [Next]_vars PROVE IInv'
  OBVIOUS
<1>1. ASSUME NEW c \in Clients, NEW v \in VsIps, Request(c, v) PROVE IInv'
  <2> DEFINE j == Target(rss[c][v], RequestOf(c, v))
  <2>1. j \in Procs
    BY RequestTarget DEF IInv
  <2> HIDE DEF j
  <2>2. PICK port \in IF v \in FullNat THEN FreePorts(j) ELSE {NoPort} :
          conns' = conns \cup {[proc |-> j, client |-> c, vs |-> v, port |-> port]}
    BY <1>1 DEF Request, j
  <2> DEFINE new == [proc |-> j, client |-> c, vs |-> v, port |-> port]
  <2>3. CASE v \in FullNat
    <3>1. PICK p \in Slice(j) : port = SwapBytes(p)
      BY <2>2, <2>3 DEF FreePorts
    <3>2. p \in 0..PortMax
      BY <2>1, SliceInRange, SliceType, NumAssumption
    <3>3. \A y \in conns : y.proc = j => y.port # port
      BY <2>2, <2>3 DEF FreePorts
    <3>4. new \in Connection
      BY <2>1, <3>1, <3>2 DEF Connection
    <3>5. TypeOK'
      BY <1>1, <2>2, <3>4 DEF Request, IInv, TypeOK
    <3>6. FullNatConns' = FullNatConns \cup {new}
      BY <2>2, <2>3 DEF FullNatConns
    <3>7. \A y \in FullNatConns : y \in conns
      BY DEF FullNatConns
    <3>8. PortsOwned'
      BY <3>1, <3>3, <3>6, <3>7 DEF IInv, PortsOwned
    <3> QED BY <3>5, <3>8 DEF IInv
  <2>4. CASE v \notin FullNat
    <3>1. new \in Connection
      BY <2>1, <2>2, <2>4 DEF Connection
    <3>2. TypeOK'
      BY <1>1, <2>2, <3>1 DEF Request, IInv, TypeOK
    <3>3. FullNatConns' = FullNatConns
      BY <2>2, <2>4 DEF FullNatConns
    <3>4. PortsOwned'
      BY <3>3 DEF IInv, PortsOwned
    <3> QED BY <3>2, <3>4 DEF IInv
  <2> QED BY <2>3, <2>4
<1>2. ASSUME NEW x \in conns, Close(x) PROVE IInv'
  BY <1>2 DEF IInv, Close, TypeOK, PortsOwned, FullNatConns
<1>3. CASE UNCHANGED vars
  BY <1>3 DEF vars, IInv, TypeOK, PortsOwned, FullNatConns
<1> QED BY <1>1, <1>2, <1>3 DEF Next

THEOREM Invariance == Spec => []IInv
BY Initial, Inductive, PTL DEF Spec

(* Connections, hashes and rx queues have their types: a request never     *)
(* leaves the array of processes.                                          *)
THEOREM TypeCorrect == Spec => []TypeOK
<1>1. IInv => TypeOK
  BY DEF IInv
<1> QED BY Invariance, <1>1, PTL

(* However many processes share the self ips, no two connections of the    *)
(* system ever have the same self port.                                    *)
THEOREM SelfPortsAlwaysDiffer == Spec => []SelfPortsDiffer
BY Invariance, PortsOwnedImpliesDiffer, PTL

-----------------------------------------------------------------------------
(* A smaller dividend leaves nothing. *)
LEMMA SmallQuotient ==
  ASSUME NEW a \in Nat, NEW b \in Nat \ {0}, a < b
  PROVE  a \div b = 0 /\ a % b = a
<1> DEFINE q == a \div b
           r == a % b
<1>1. q \in Nat /\ r \in 0..(b - 1) /\ a = b * q + r
  BY DivMod
<1> HIDE DEF q, r
<1>2. 0 \in Nat /\ a \in 0..(b - 1) /\ b * q + r = b * 0 + a
  BY <1>1
<1>3. q = 0 /\ r = a
  BY <1>1, <1>2, DivModUnique
<1> QED BY <1>3 DEF q, r

(* A port number stays one when its bytes change places, and only the      *)
(* largest becomes the largest.                                            *)
LEMMA SwapBytesRange ==
  ASSUME NEW p \in 0..PortMax
  PROVE  SwapBytes(p) \in 0..PortMax /\ (SwapBytes(p) = PortMax => p = PortMax)
<1> USE NumAssumption
<1> DEFINE h == p \div Radix
           l == p % Radix
<1>1. Radix \in Nat \ {0} /\ PortMax = Radix * Radix - 1 /\ Radix * Radix \in Nat \ {0}
  BY DEF PortMax
<1>2. p \in Nat
  BY <1>1
<1>3. h \in Nat /\ l \in 0..(Radix - 1) /\ p = Radix * h + l
  BY <1>1, <1>2, DivMod
<1>4. SwapBytes(p) = l * Radix + h
  BY DEF SwapBytes
<1> HIDE DEF h, l
<1>5. ASSUME h >= Radix PROVE FALSE
  <2>1. Radix * h >= Radix * Radix
    BY <1>1, <1>3, <1>5
  <2> QED BY <1>1, <1>2, <1>3, <2>1
<1>6. h \in 0..(Radix - 1)
  BY <1>1, <1>3, <1>5
<1>7. /\ l * Radix \in Nat /\ l * Radix <= (Radix - 1) * Radix
      /\ (Radix - 1) * Radix = Radix * Radix - Radix
  BY <1>1, <1>3
<1>8. SwapBytes(p) \in 0..PortMax
  BY <1>1, <1>4, <1>6, <1>7
<1>9. ASSUME SwapBytes(p) = PortMax PROVE p = PortMax
  <2>1. Radix * l + h = Radix * (Radix - 1) + (Radix - 1)
    BY <1>1, <1>3, <1>4, <1>6, <1>7, <1>9
  <2>2. l \in Nat /\ Radix - 1 \in Nat /\ Radix - 1 \in 0..(Radix - 1)
    BY <1>1, <1>3
  <2>3. l = Radix - 1 /\ h = Radix - 1
    BY <1>1, <1>6, <2>1, <2>2, DivModUnique
  <2> QED BY <1>1, <1>3, <1>7, <2>3
<1> QED BY <1>8, <1>9

(* With a single process, and a base port that is smaller than the rest of *)
(* the ports, dispatch_port_to_id() is right although it is given ports in *)
(* network order: every reply stays where its connection is.               *)
THEOREM SingleProcessDispatch ==
  ASSUME NumProc = 1, PortBase < PortSlice
  PROVE  Spec => []ReplyReachesOwner
<1> USE NumAssumption, SliceType
<1>1. ASSUME IInv, NEW x \in FullNatConns, NEW k \in Procs
      PROVE  Target(k, ReplyOf(x)) = x.proc
  <2>1. x.vs \in FullNat /\ x.proc \in Procs /\ x.proc = 0
    BY <1>1 DEF IInv, TypeOK, Connection, FullNatConns, Procs
  <2>2. Target(k, ReplyOf(x)) = DispatchPortToId(x.port)
    BY <2>1, AddressAssumption DEF Target, ReplyOf, VsIps
  <2>3. PICK p \in Slice(0) : x.port = SwapBytes(p)
    BY <1>1, <2>1 DEF IInv, PortsOwned
  <2>4. p \in 0..(PortMax - 1)
    BY <2>3 DEF Slice, SelfPortLow, SelfPortHigh
  <2>5. x.port \in 0..(PortMax - 1)
    BY <2>3, <2>4, SwapBytesRange
  <2>6. PortSlice = PortMax - PortBase
    <3>1. (PortMax - PortBase) \in Nat
      OBVIOUS
    <3>2. (PortMax - PortBase) \div 1 = PortMax - PortBase
      BY <3>1
    <3> QED BY <3>2 DEF PortSlice
  <2>7. CASE x.port >= PortBase
    <3>1. x.port - PortBase \in Nat /\ x.port - PortBase < PortSlice
      BY <2>5, <2>6, <2>7
    <3>2. (x.port - PortBase) \div PortSlice = 0
      BY <3>1, SmallQuotient
    <3> QED BY <2>1, <2>2, <3>1, <3>2 DEF DispatchPortToId, Quotient
  <2>8. CASE x.port < PortBase
    <3>1. -(x.port - PortBase) \in Nat /\ -(x.port - PortBase) < PortSlice
      BY <2>5, <2>8
    <3>2. (-(x.port - PortBase)) \div PortSlice = 0
      BY <3>1, SmallQuotient
    <3>3. ~(x.port - PortBase >= 0)
      BY <2>5, <2>8
    <3> QED BY <2>1, <2>2, <3>2, <3>3 DEF DispatchPortToId, Quotient
  <2> QED BY <2>5, <2>7, <2>8
<1>2. IInv => ReplyReachesOwner
  BY <1>1 DEF ReplyReachesOwner
<1> QED BY Invariance, <1>2, PTL

(***************************************************************************)
(* The timer wheel fires on time, for every size of it, every frequency of *)
(* the clock and every delay between two calls of timer_expire().          *)
(*                                                                         *)
(* WheelInv is the idea of the wheel: a timer that is r entries ahead has  *)
(* r seconds left, less what has passed since the last full second.        *)
(***************************************************************************)
WheelInv ==
  \A t \in Armed : \E r \in 1..WheelSize :
    /\ slot[t] = After(r)
    /\ left[t] = Rest(r * Frequency - Elapse)

TimerInv == TimerTypeOK /\ WheelInv

-----------------------------------------------------------------------------
(* Two numbers closer than n have different remainders. *)
LEMMA ModDiffers ==
  ASSUME NEW n \in Nat \ {0}, NEW a \in Nat, NEW b \in Nat, a < b, b - a < n
  PROVE  a % n # b % n
<1> SUFFICES ASSUME a % n = b % n PROVE FALSE
  OBVIOUS
<1> DEFINE p == a \div n
           q == b \div n
<1>a. p \in Nat /\ a % n \in 0..(n - 1) /\ a = n * p + (a % n)
  BY DivMod
<1>b. q \in Nat /\ b % n \in 0..(n - 1) /\ b = n * q + (b % n)
  BY DivMod
<1> HIDE DEF p, q
<1>1. p \in Nat /\ q \in Nat /\ a % n \in Nat /\ a = n * p + (a % n) /\ b = n * q + (a % n)
  BY <1>a, <1>b
<1>2. n * q - n * p = b - a
  BY <1>1
<1>3. CASE q <= p
  <2>1. n * q <= n * p
    BY <1>1, <1>3
  <2> QED BY <1>1, <1>2, <2>1
<1>4. CASE q >= p + 1
  <2>1. n * q >= n * (p + 1)
    BY <1>1, <1>4
  <2>2. n * (p + 1) = n * p + n
    BY <1>1
  <2> QED BY <1>1, <1>2, <2>1, <2>2
<1> QED BY <1>1, <1>3, <1>4

(* Going on from a remainder is going on from the number. *)
LEMMA ModAdd ==
  ASSUME NEW n \in Nat \ {0}, NEW a \in Nat, NEW b \in Nat
  PROVE  ((a % n) + b) % n = (a + b) % n
<1> DEFINE c == a % n
           p == a \div n
<1>1. p \in Nat /\ c \in Nat /\ a = n * p + c
  BY DivMod
<1> HIDE DEF p, c
<1> DEFINE d == (c + b) % n
           e == (a + b) % n
           q == (c + b) \div n
           s == (a + b) \div n
<1>a. q \in Nat /\ d \in 0..(n - 1) /\ c + b = n * q + d
  <2>1. c + b \in Nat
    BY <1>1
  <2> QED BY <2>1, DivMod
<1>b. s \in Nat /\ e \in 0..(n - 1) /\ a + b = n * s + e
  <2>1. a + b \in Nat
    OBVIOUS
  <2> QED BY <2>1, DivMod
<1> HIDE DEF d, e, q, s
<1>2. /\ q \in Nat /\ d \in 0..(n - 1) /\ c + b = n * q + d
      /\ s \in Nat /\ e \in 0..(n - 1) /\ a + b = n * s + e
  BY <1>a, <1>b
<1>3. n * (p + q) = n * p + n * q
  BY <1>1, <1>2
<1>4. n * (p + q) + d = n * s + e
  BY <1>1, <1>2, <1>3
<1>5. p + q = s
  <2>1. ASSUME p + q < s PROVE FALSE
    <3>1. n * s >= n * (p + q + 1) /\ n * (p + q + 1) = n * (p + q) + n
      BY <1>1, <1>2, <2>1
    <3> QED BY <1>1, <1>2, <1>4, <3>1
  <2>2. ASSUME p + q > s PROVE FALSE
    <3>1. n * (p + q) >= n * (s + 1) /\ n * (s + 1) = n * s + n
      BY <1>1, <1>2, <2>2
    <3> QED BY <1>1, <1>2, <1>4, <3>1
  <2> QED BY <1>1, <1>2, <2>1, <2>2
<1>6. d = e
  BY <1>1, <1>2, <1>4, <1>5
<1> QED BY <1>6 DEF d, e, c

-----------------------------------------------------------------------------
(* timer_expire takes exactly the full seconds that end before now.  *)
LEMMA TurnsCount ==
  ASSUME TimerTypeOK
  PROVE  /\ Elapse \in Nat /\ Turns \in Nat
         /\ Turns * Frequency \in Nat
         /\ Elapse - Turns * Frequency \in 0..Frequency
         /\ \A r \in Nat \ {0} : r * Frequency < Elapse <=> r <= Turns
<1> USE SizeAssumption
<1>1. Elapse \in Nat
  BY DEF TimerTypeOK, Elapse
<1>2. CASE Elapse = 0
  <2>1. Turns = 0
    BY <1>2 DEF Turns
  <2>2. ASSUME NEW r \in Nat \ {0} PROVE r * Frequency >= 1
    BY <2>2
  <2> QED BY <1>2, <2>1, <2>2
<1>3. CASE Elapse # 0
  <2>1. /\ Turns \in Nat /\ (Elapse - 1) % Frequency \in 0..(Frequency - 1)
        /\ Elapse - 1 = Frequency * Turns + ((Elapse - 1) % Frequency)
    <3>1. Elapse - 1 \in Nat /\ Turns = (Elapse - 1) \div Frequency
      BY <1>1, <1>3 DEF Turns
    <3> QED BY <3>1, DivMod
  <2>2. Turns * Frequency \in Nat /\ Turns * Frequency = Frequency * Turns
    BY <2>1
  <2>3. /\ Turns * Frequency <= Elapse - 1
        /\ Elapse - 1 < Turns * Frequency + Frequency
    BY <1>1, <2>1, <2>2
  <2>4. ASSUME NEW r \in Nat \ {0} PROVE r * Frequency < Elapse <=> r <= Turns
    <3>1. r * Frequency \in Nat
      OBVIOUS
    <3>2. CASE r <= Turns
      <4>1. r * Frequency <= Turns * Frequency
        BY <2>1, <3>2
      <4> QED BY <1>1, <2>2, <2>3, <3>1, <3>2, <4>1
    <3>3. CASE r >= Turns + 1
      <4>1. r * Frequency >= (Turns + 1) * Frequency
        BY <2>1, <3>3
      <4>2. (Turns + 1) * Frequency = Turns * Frequency + Frequency
        BY <2>1
      <4> QED BY <1>1, <2>1, <2>2, <2>3, <3>1, <3>3, <4>1, <4>2
    <3> QED BY <2>1, <3>2, <3>3
  <2> QED BY <1>1, <2>1, <2>2, <2>3, <2>4
<1> QED BY <1>2, <1>3

(* The entries that the wheel comes past are those of overdue timers: a    *)
(* timer r entries ahead is passed iff the wheel makes r steps or more.    *)
LEMMA PassedIffDue ==
  ASSUME TimerTypeOK, NEW t \in Armed, NEW r \in 1..WheelSize,
         slot[t] = After(r), left[t] = Rest(r * Frequency - Elapse)
  PROVE  /\ (\E j \in 1..Turns : slot[t] = After(j)) <=> r <= Turns
         /\ left[t] = -1 <=> r <= Turns
<1> USE SizeAssumption
<1>1. Elapse \in Nat /\ Turns \in Nat /\ second \in Nat /\ r \in Nat \ {0}
  BY TurnsCount DEF TimerTypeOK, Slots
<1>2. ASSUME NEW j \in 1..Turns, slot[t] = After(j), r > Turns PROVE FALSE
  <2>1. /\ second + j \in Nat /\ second + r \in Nat /\ WheelSize \in Nat \ {0}
        /\ second + j < second + r /\ (second + r) - (second + j) < WheelSize
    BY <1>1, <1>2
  <2>2. (second + j) % WheelSize # (second + r) % WheelSize
    BY <2>1, ModDiffers
  <2> QED BY <1>2, <2>2 DEF After
<1>3. r <= Turns => \E j \in 1..Turns : slot[t] = After(j)
  BY <1>1
<1>4. left[t] = -1 <=> r * Frequency < Elapse
  <2>1. r * Frequency \in Nat
    BY <1>1
  <2> QED BY <1>1, <2>1 DEF Rest
<1>5. r * Frequency < Elapse <=> r <= Turns
  BY <1>1, TurnsCount
<1> QED BY <1>1, <1>2, <1>3, <1>4, <1>5

-----------------------------------------------------------------------------
LEMMA TimerInitial == TimerInit => TimerInv
<1> USE SizeAssumption
<1> QED BY DEF TimerInit, TimerInv, TimerTypeOK, WheelInv, Armed, Slots

LEMMA RestType == ASSUME NEW x \in Int PROVE Rest(x) \in Int
BY DEF Rest

LEMMA PassInductive == ASSUME TimerInv, Pass PROVE TimerInv'
<1> USE SizeAssumption, UnarmedAssumption
<1>1. TimerTypeOK'
  <2>1. ASSUME NEW t \in Armed PROVE left[t] - 1 \in Int
    <3>1. PICK r \in 1..WheelSize : left[t] = Rest(r * Frequency - Elapse)
      BY DEF TimerInv, WheelInv
    <3>2. r * Frequency - Elapse \in Int
      BY DEF TimerInv, TimerTypeOK, Elapse
    <3> QED BY <3>1, <3>2, RestType
  <2>2. left' \in [Timers -> Int \cup {Unarmed}]
    BY <2>1, RestType DEF Pass
  <2>3. since' \in 0..MaxPass
    BY DEF TimerInv, TimerTypeOK, Pass
  <2> QED BY <2>2, <2>3 DEF TimerInv, TimerTypeOK, Pass, Slots
<1>2. ASSUME NEW t \in Armed'
      PROVE  \E r \in 1..WheelSize : slot'[t] = After(r)' /\ left'[t] = Rest(r * Frequency - Elapse)'
  <2>1. t \in Armed /\ slot'[t] = slot[t] /\ left'[t] = Rest(left[t] - 1)
    BY <1>2 DEF Pass, Armed
  <2>2. PICK r \in 1..WheelSize : slot[t] = After(r) /\ left[t] = Rest(r * Frequency - Elapse)
    BY <2>1 DEF TimerInv, WheelInv
  <2>3. Elapse \in Nat /\ Elapse' = Elapse + 1 /\ r * Frequency \in Nat
    BY DEF TimerInv, TimerTypeOK, Pass, Elapse
  <2>4. left'[t] = Rest(r * Frequency - Elapse')
    BY <2>1, <2>2, <2>3 DEF Rest
  <2>5. After(r)' = After(r)
    BY DEF Pass, After
  <2> QED BY <2>1, <2>2, <2>4, <2>5 DEF Rest
<1> QED BY <1>1, <1>2 DEF TimerInv, WheelInv

LEMMA AddInductive ==
  ASSUME TimerInv, NEW t \in Timers, NEW s \in Requests, Add(t, s) PROVE TimerInv'
<1> USE SizeAssumption, UnarmedAssumption
<1> DEFINE g == Granted(s)
<1>1. g \in 1..WheelSize
  BY RequestsAssumption DEF Granted
<1> HIDE DEF g
<1>2. g * Frequency \in Nat /\ Elapse \in Nat
  BY <1>1 DEF TimerInv, TimerTypeOK, Elapse
<1>3. After(g) \in Slots
  BY <1>1, DivMod DEF TimerInv, TimerTypeOK, After, Slots
<1>4. /\ slot' = [slot EXCEPT ![t] = After(g)]
      /\ left' = [left EXCEPT ![t] = Rest(g * Frequency - Elapse)]
      /\ UNCHANGED <<since, fill, second>>
  BY DEF Add, g, After, Elapse
<1>5. TimerTypeOK'
  BY <1>2, <1>3, <1>4, RestType DEF TimerInv, TimerTypeOK
<1>6. ASSUME NEW u \in Armed'
      PROVE  \E r \in 1..WheelSize : slot'[u] = After(r)' /\ left'[u] = Rest(r * Frequency - Elapse)'
  <2>1. Elapse' = Elapse /\ \A r \in Int : After(r)' = After(r)
    BY <1>4 DEF Elapse, After
  <2>2. CASE u = t
    BY <1>1, <1>4, <2>1, <2>2 DEF TimerInv, TimerTypeOK, Rest
  <2>3. CASE u # t
    <3>1. u \in Armed /\ slot'[u] = slot[u] /\ left'[u] = left[u]
      BY <1>4, <1>6, <2>3 DEF TimerInv, TimerTypeOK, Armed
    <3> QED BY <2>1, <3>1 DEF TimerInv, WheelInv, Rest
  <2> QED BY <2>2, <2>3
<1> QED BY <1>5, <1>6 DEF TimerInv, WheelInv

LEMMA DelInductive == ASSUME TimerInv, NEW t \in Timers, Del(t) PROVE TimerInv'
<1>1. TimerTypeOK'
  BY DEF TimerInv, TimerTypeOK, Del
<1>2. ASSUME NEW u \in Armed'
      PROVE  \E r \in 1..WheelSize : slot'[u] = After(r)' /\ left'[u] = Rest(r * Frequency - Elapse)'
  <2>1. u \in Armed /\ slot'[u] = slot[u] /\ left'[u] = left[u]
    BY <1>2 DEF TimerInv, TimerTypeOK, Armed, Del
  <2>2. Elapse' = Elapse /\ \A r \in Int : After(r)' = After(r)
    BY DEF Del, Elapse, After
  <2> QED BY <2>1, <2>2 DEF TimerInv, WheelInv, Rest
<1> QED BY <1>1, <1>2 DEF TimerInv, WheelInv

(* A timer that is not handled is as many entries nearer as the wheel has  *)
(* made steps, and as many seconds were taken from what has passed.        *)
LEMMA ExpireInductive == ASSUME TimerInv, Expire PROVE TimerInv'
<1> USE SizeAssumption, UnarmedAssumption
<1>1. /\ TimerTypeOK /\ Elapse \in Nat /\ Turns \in Nat /\ Turns * Frequency \in Nat
      /\ Elapse - Turns * Frequency \in 0..Frequency /\ second \in Nat
  BY TurnsCount DEF TimerInv, TimerTypeOK, Slots
<1>2. second' = After(Turns) /\ After(Turns) \in Slots
  BY <1>1, DivMod DEF Expire, After, Slots
<1>3. Elapse' = Elapse - Turns * Frequency
  BY <1>1 DEF Expire, Elapse, TimerTypeOK
<1>4. TimerTypeOK'
  <2>1. since' \in 0..MaxPass /\ fill' \in 0..Frequency
    BY <1>1 DEF Expire, TimerTypeOK
  <2>2. slot' \in [Timers -> Slots \cup {Unarmed}] /\ left' \in [Timers -> Int \cup {Unarmed}]
    BY <1>1 DEF Expire, TimerTypeOK
  <2> QED BY <1>2, <2>1, <2>2 DEF TimerTypeOK
<1>5. ASSUME NEW t \in Armed'
      PROVE  \E r \in 1..WheelSize : slot'[t] = After(r)' /\ left'[t] = Rest(r * Frequency - Elapse)'
  <2>1. /\ t \in Armed /\ slot'[t] = slot[t] /\ left'[t] = left[t]
        /\ ~ \E j \in 1..Turns : slot[t] = After(j)
    BY <1>5 DEF Expire, Armed
  <2>2. PICK r \in 1..WheelSize : slot[t] = After(r) /\ left[t] = Rest(r * Frequency - Elapse)
    BY <2>1 DEF TimerInv, WheelInv
  <2>3. r > Turns
    BY <1>1, <2>1, <2>2, PassedIffDue
  <2>4. PICK s \in 1..WheelSize : Turns + s = r
    <3>1. r - Turns \in 1..WheelSize /\ Turns + (r - Turns) = r
      BY <1>1, <2>3
    <3> QED BY <3>1
  <2>5. After(s)' = After(r)
    <3>1. After(s)' = (((second + Turns) % WheelSize) + s) % WheelSize
      BY <1>2 DEF After
    <3>2. After(s)' = (second + Turns + s) % WheelSize
      <4>1. second + Turns \in Nat /\ s \in Nat /\ WheelSize \in Nat \ {0}
        BY <1>1
      <4> QED BY <3>1, <4>1, ModAdd
    <3>3. second + Turns + s = second + r
      BY <1>1, <2>4
    <3> QED BY <3>2, <3>3 DEF After
  <2>6. s * Frequency - Elapse' = r * Frequency - Elapse
    <3>1. r * Frequency = Turns * Frequency + s * Frequency
      BY <1>1, <2>4
    <3>2. s * Frequency \in Int
      BY <2>4
    <3> QED BY <1>1, <1>3, <3>1, <3>2
  <2> QED BY <2>1, <2>2, <2>4, <2>5, <2>6 DEF Rest
<1> QED BY <1>4, <1>5 DEF TimerInv, WheelInv

THEOREM TimerInductive == TimerInv /\ [TimerNext]_timerVars => TimerInv'
<1> SUFFICES ASSUME TimerInv, [TimerNext]_timerVars PROVE TimerInv'
  OBVIOUS
<1>1. CASE Pass
  BY <1>1, PassInductive
<1>2. CASE Expire
  BY <1>2, ExpireInductive
<1>3. ASSUME NEW t \in Timers, Del(t) PROVE TimerInv'
  BY <1>3, DelInductive
<1>4. ASSUME NEW t \in Timers, NEW s \in Requests, Add(t, s) PROVE TimerInv'
  BY <1>4, AddInductive
<1>5. CASE UNCHANGED timerVars
  BY <1>5 DEF timerVars, TimerInv, TimerTypeOK, WheelInv, Armed, After, Elapse, Rest
<1> QED BY <1>1, <1>2, <1>3, <1>4, <1>5 DEF TimerNext

(* The wheel and the clock agree, and have their types, at all times. *)
THEOREM TimerInvariance == TimerSpec => []TimerInv
<1> QED BY TimerInitial, TimerInductive, PTL DEF TimerSpec

(* Every variable of the wheel stays in its range. *)
THEOREM TimerTypeCorrect == TimerSpec => []TimerTypeOK
<1>1. TimerInv => TimerTypeOK
  BY DEF TimerInv
<1> QED BY <1>1, TimerInvariance, PTL

(* timer_expire() handles the timers whose time is over, and no others,    *)
(* however many seconds it has to catch up with.                           *)
THEOREM FiringOnTime == TimerSpec => FiresOnTime
<1> DEFINE OnTime == Expire => \A t \in Armed : slot'[t] = Unarmed <=> left[t] = -1
<1>1. ASSUME TimerInv, Expire, NEW t \in Armed PROVE slot'[t] = Unarmed <=> left[t] = -1
  <2>1. PICK r \in 1..WheelSize : slot[t] = After(r) /\ left[t] = Rest(r * Frequency - Elapse)
    BY <1>1 DEF TimerInv, WheelInv
  <2>2. (\E j \in 1..Turns : slot[t] = After(j)) <=> left[t] = -1
    BY <1>1, <2>1, PassedIffDue DEF TimerInv
  <2>3. slot'[t] = Unarmed <=> \E j \in 1..Turns : slot[t] = After(j)
    BY <1>1 DEF Expire, Armed
  <2> QED BY <2>2, <2>3
<1>2. TimerInv => OnTime
  BY <1>1
<1>3. TimerInv => [OnTime]_timerVars
  BY <1>2
<1> HIDE DEF OnTime
<1>4. TimerSpec => [][OnTime]_timerVars
  BY <1>3, TimerInvariance, PTL
<1> QED BY <1>4 DEF OnTime, FiresOnTime
=============================================================================
