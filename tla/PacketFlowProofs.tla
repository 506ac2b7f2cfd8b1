-------------------------- MODULE PacketFlowProofs --------------------------
(***************************************************************************)
(* Proofs about PacketFlow for every number of processes and buffers and   *)
(* all sizes of the rings and queues.                                      *)
(*                                                                         *)
(* Conservation counts, and counting says nothing of a step.  The          *)
(* invariant names the place of every buffer instead: there are functions  *)
(* (kind, at, dest) on the buffers that every list, ring and queue agrees  *)
(* with.  That a foreign buffer never gets into a free pool needs what the *)
(* queues hold, with the states of the packets: a packet in state RECLAIM  *)
(* is on its way to its owner.                                             *)
(***************************************************************************)
EXTENDS PacketFlow, SequenceTheorems, FiniteSetTheorems, TLAPS

(* Nothing is in the sequence twice. *)
OneToOne(s) == \A k, l \in 1..Len(s) : s[k] = s[l] => k = l

-----------------------------------------------------------------------------
(* Sequences of buffers. *)
LEMMA SeqElements ==
  ASSUME NEW s \in Seq(Packets)
  PROVE  /\ Elements(s) = {s[k] : k \in 1..Len(s)}
         /\ Elements(s) \subseteq Packets
BY DEF Elements

(* A sequence of the elements of a set has each of them once. *)
LEMMA SeqOfSet ==
  ASSUME NEW S \in SUBSET Packets, NEW s \in SetToSeqs(S)
  PROVE  /\ s \in Seq(Packets)
         /\ Elements(s) = S
         /\ OneToOne(s)
<1> DEFINE n == Cardinality(S)
<1>0. IsFiniteSet(S) /\ n \in Nat
  BY FlowAssumption, FS_Subset, FS_CardinalityType
<1>1. s \in [1..n -> S] /\ \A k, l \in 1..n : k # l => s[k] # s[l]
  BY DEF SetToSeqs
<1> HIDE DEF n
<1>2. s \in Injection(1..n, S)
  BY <1>1 DEF Injection, IsInjective
<1>3. IsFiniteSet(1..n) /\ Cardinality(1..n) = n
  BY <1>0, FS_Interval
<1>4. s \in Surjection(1..n, S)
  BY <1>0, <1>2, <1>3, FS_Injection DEF n
<1>5. \A x \in S : \E k \in 1..n : s[k] = x
  BY <1>4 DEF Surjection
<1>6. s \in Seq(Packets) /\ Len(s) = n /\ DOMAIN s = 1..n
  BY <1>0, <1>1
<1>7. Elements(s) = S
  BY <1>1, <1>5, <1>6 DEF Elements
<1> QED BY <1>1, <1>6, <1>7 DEF OneToOne

(* Two sequences that are put together. *)
LEMMA ConcatElements ==
  ASSUME NEW s \in Seq(Packets), NEW t \in Seq(Packets)
  PROVE  /\ s \o t \in Seq(Packets)
         /\ Elements(s \o t) = Elements(s) \cup Elements(t)
         /\ OneToOne(s \o t) <=>
              OneToOne(s) /\ OneToOne(t) /\ Elements(s) \cap Elements(t) = {}
<1> DEFINE u == s \o t
           m == Len(s)
           n == Len(t)
<1>1. /\ u \in Seq(Packets) /\ Len(u) = m + n /\ m \in Nat /\ n \in Nat
      /\ \A k \in 1..m : u[k] = s[k]
      /\ \A k \in (m + 1)..(m + n) : u[k] = t[k - m]
  OBVIOUS
<1>2. \A k \in 1..n : u[m + k] = t[k]
  <2> SUFFICES ASSUME NEW k \in 1..n PROVE u[m + k] = t[k]
    OBVIOUS
  <2>1. m + k \in (m + 1)..(m + n) /\ (m + k) - m = k
    BY <1>1
  <2> QED BY <1>1, <2>1
<1>3. /\ Elements(s) = {s[k] : k \in 1..m} /\ Elements(t) = {t[k] : k \in 1..n}
      /\ Elements(u) = {u[k] : k \in 1..(m + n)}
  BY <1>1, SeqElements
<1>0. /\ OneToOne(u) <=> \A k, l \in 1..(m + n) : u[k] = u[l] => k = l
      /\ OneToOne(s) <=> \A k, l \in 1..m : s[k] = s[l] => k = l
      /\ OneToOne(t) <=> \A k, l \in 1..n : t[k] = t[l] => k = l
  BY <1>1 DEF OneToOne
<1> HIDE DEF u, m, n
<1>4. \A k \in 1..(m + n) : k \in 1..m \/ \E l \in 1..n : k = m + l
  <2> SUFFICES ASSUME NEW k \in 1..(m + n), k \notin 1..m
               PROVE \E l \in 1..n : k = m + l
    OBVIOUS
  <2>1. k - m \in 1..n /\ k = m + (k - m)
    BY <1>1
  <2> QED BY <2>1
<1>5. /\ \A k \in 1..m : k \in 1..(m + n)
      /\ \A k \in 1..n : m + k \in 1..(m + n) /\ m + k \notin 1..m
  BY <1>1
<1>6. Elements(u) = Elements(s) \cup Elements(t)
  <2>1. ASSUME NEW k \in 1..(m + n) PROVE u[k] \in Elements(s) \cup Elements(t)
    BY <1>1, <1>2, <1>3, <1>4
  <2>2. ASSUME NEW k \in 1..m PROVE s[k] \in Elements(u)
    BY <1>1, <1>3, <1>5
  <2>3. ASSUME NEW k \in 1..n PROVE t[k] \in Elements(u)
    BY <1>2, <1>3, <1>5
  <2> QED BY <1>3, <2>1, <2>2, <2>3
<1>7. ASSUME OneToOne(s), OneToOne(t), Elements(s) \cap Elements(t) = {}
      PROVE  OneToOne(u)
  <2> SUFFICES ASSUME NEW k \in 1..(m + n), NEW l \in 1..(m + n), u[k] = u[l]
               PROVE  k = l
    BY <1>0
  <2>1. CASE k \in 1..m /\ l \in 1..m
    BY <1>0, <1>1, <1>7, <2>1
  <2>2. CASE k \notin 1..m /\ l \notin 1..m
    <3>1. PICK a \in 1..n, b \in 1..n : k = m + a /\ l = m + b
      BY <1>4, <2>2
    <3> QED BY <1>0, <1>2, <1>7, <3>1
  <2>3. CASE k \in 1..m /\ l \notin 1..m
    <3>1. PICK b \in 1..n : l = m + b
      BY <1>4, <2>3
    <3>2. s[k] = t[b] /\ s[k] \in Elements(s) /\ t[b] \in Elements(t)
      BY <1>1, <1>2, <1>3, <2>3, <3>1
    <3> QED BY <1>7, <3>2
  <2>4. CASE k \notin 1..m /\ l \in 1..m
    <3>1. PICK a \in 1..n : k = m + a
      BY <1>4, <2>4
    <3>2. t[a] = s[l] /\ s[l] \in Elements(s) /\ t[a] \in Elements(t)
      BY <1>1, <1>2, <1>3, <2>4, <3>1
    <3> QED BY <1>7, <3>2
  <2> QED BY <2>1, <2>2, <2>3, <2>4
<1>8. ASSUME OneToOne(u)
      PROVE  OneToOne(s) /\ OneToOne(t) /\ Elements(s) \cap Elements(t) = {}
  <2>1. OneToOne(s)
    BY <1>0, <1>1, <1>5, <1>8
  <2>2. OneToOne(t)
    <3> SUFFICES ASSUME NEW k \in 1..n, NEW l \in 1..n, t[k] = t[l] PROVE k = l
      BY <1>0
    <3>1. m + k = m + l
      BY <1>0, <1>2, <1>5, <1>8
    <3> QED BY <1>1, <3>1
  <2>3. ASSUME NEW k \in 1..m, NEW l \in 1..n, s[k] = t[l] PROVE FALSE
    BY <1>0, <1>1, <1>2, <1>5, <1>8, <2>3
  <2> QED BY <1>3, <2>1, <2>2, <2>3
<1> QED BY <1>1, <1>6, <1>7, <1>8 DEF u

(* A sequence that is cut in two. *)
LEMMA Cut ==
  ASSUME NEW s \in Seq(Packets), NEW n \in 0..Len(s)
  PROVE  /\ SubSeq(s, 1, n) \in Seq(Packets) /\ Len(SubSeq(s, 1, n)) = n
         /\ SubSeq(s, n + 1, Len(s)) \in Seq(Packets)
         /\ Len(SubSeq(s, n + 1, Len(s))) = Len(s) - n
         /\ SubSeq(s, 1, n) \o SubSeq(s, n + 1, Len(s)) = s
<1>0. /\ Len(s) \in Nat /\ n \in Nat /\ n + 1 \in Nat
      /\ \A k \in 1..n : s[k] \in Packets
      /\ \A k \in (n + 1)..Len(s) : s[k] \in Packets
  OBVIOUS
<1>1. SubSeq(s, 1, n) \in Seq(Packets) /\ Len(SubSeq(s, 1, n)) = n
  <2>1. /\ SubSeq(s, 1, n) \in Seq(Packets)
        /\ Len(SubSeq(s, 1, n)) = IF 1 <= n THEN n - 1 + 1 ELSE 0
    BY <1>0, SubSeqProperties
  <2> QED BY <1>0, <2>1
<1>2. /\ SubSeq(s, n + 1, Len(s)) \in Seq(Packets)
      /\ Len(SubSeq(s, n + 1, Len(s))) = Len(s) - n
  <2>1. /\ SubSeq(s, n + 1, Len(s)) \in Seq(Packets)
        /\ Len(SubSeq(s, n + 1, Len(s)))
             = IF n + 1 <= Len(s) THEN Len(s) - (n + 1) + 1 ELSE 0
    BY <1>0, SubSeqProperties
  <2> QED BY <1>0, <2>1
<1>3. SubSeq(s, 1, n) \o SubSeq(s, n + 1, Len(s)) = SubSeq(s, 1, Len(s))
  <2>1. 1 \in 1..(Len(s) + 1) /\ n \in (1 - 1)..Len(s) /\ Len(s) \in n..Len(s)
    BY <1>0
  <2> QED BY <2>1, ConcatAdjacentSubSeq, Zenon
<1>4. SubSeq(s, 1, Len(s)) = s
  BY SubSeqFull
<1> QED BY <1>1, <1>2, <1>3, <1>4

(* Three sequences that are put together. *)
LEMMA Regrouped ==
  ASSUME NEW a \in Seq(Packets), NEW b \in Seq(Packets), NEW c \in Seq(Packets)
  PROVE  /\ a \o b \in Seq(Packets) /\ Len(a \o b) = Len(a) + Len(b)
         /\ (a \o b) \o c = a \o (b \o c)
BY ConcatProperties, ConcatAssociative

-----------------------------------------------------------------------------
(* The types. *)
ListsOK ==
  /\ free \in [Procs -> SUBSET Packets] /\ rxRing \in [Procs -> SUBSET Packets]
  /\ rxFull \in [Procs -> SUBSET Packets] /\ recvd \in [Procs -> SUBSET Packets]
  /\ dispd \in [Procs -> SUBSET Packets] /\ toFree \in [Procs -> SUBSET Packets]
  /\ toReclaim \in [Procs -> SUBSET Packets]
  /\ pc \in [Procs -> Calls] /\ state \in [Packets -> LfqStates]

(* The rings, and that no buffer is in one, or in a queue, twice. *)
RxOK ==
  \A i \in Procs :
    rxFull[i] \subseteq rxRing[i] /\ Cardinality(rxRing[i]) <= RxSize - 1

TxOK ==
  /\ tx \in [Procs -> Seq(Packets)] /\ sent \in [Procs -> Nat] /\ done \in [Procs -> Nat]
  /\ \A i \in Procs :
       /\ done[i] <= sent[i] /\ sent[i] <= AtMost(Len(tx[i]), TxSize - 1)
       /\ OneToOne(tx[i])

QueuesOK ==
  /\ DOMAIN pending = Procs /\ DOMAIN chan = Procs
  /\ \A i \in Procs :
       /\ pending[i] \in [Others(i) -> Seq(Packets)] /\ chan[i] \in [Others(i) -> Seq(Packets)]
       /\ \A j \in Others(i) :
            Len(chan[i][j]) <= QueueSize - 1 /\ OneToOne(Queue(i, j))

(* Whose buffers the lists may hold. *)
OwnersInv ==
  \A i \in Procs :
    /\ free[i] \subseteq Owned(i) /\ rxRing[i] \subseteq Owned(i)
    /\ recvd[i] \subseteq Owned(i) /\ toFree[i] \subseteq Owned(i)
    /\ pc[i] = "free" => toReclaim[i] \subseteq Owned(i)

(* What a packet in a queue is there for. *)
QueuedInv ==
  \A i \in Procs : \A j \in Others(i) : \A p \in Elements(Queue(i, j)) :
    \/ Owner[p] = i /\ state[p] = "DISPATCH"
    \/ Owner[p] = j /\ state[p] = "RECLAIM"

(* Every buffer p is in one place: in a list of process at[p], which       *)
(* kind[p] names, or in its tx ring, or on its way from at[p] to dest[p].  *)
Kinds == ListNames \cup {"tx", "queue"}
Listed(kind, at) ==
  \A p \in Packets, i \in Procs :
    /\ p \in free[i] <=> kind[p] = "free" /\ at[p] = i
    /\ p \in rxRing[i] <=> kind[p] = "rxRing" /\ at[p] = i
    /\ p \in recvd[i] <=> kind[p] = "recvd" /\ at[p] = i
    /\ p \in dispd[i] <=> kind[p] = "dispd" /\ at[p] = i
    /\ p \in toFree[i] <=> kind[p] = "toFree" /\ at[p] = i
    /\ p \in toReclaim[i] <=> kind[p] = "toReclaim" /\ at[p] = i
    /\ p \in Elements(tx[i]) <=> kind[p] = "tx" /\ at[p] = i
OnTheWay(kind, at, dest) ==
  \A p \in Packets :
    /\ kind[p] = "queue" => dest[p] # at[p]
    /\ \A i \in Procs : \A j \in Others(i) :
         p \in Elements(Queue(i, j)) <=> kind[p] = "queue" /\ at[p] = i /\ dest[p] = j
Located(kind, at, dest) ==
  /\ kind \in [Packets -> Kinds] /\ at \in [Packets -> Procs] /\ dest \in [Packets -> Procs]
  /\ Listed(kind, at)
  /\ OnTheWay(kind, at, dest)

OnePlace == \E kind, at, dest : Located(kind, at, dest)

(* The inductive invariant. *)
IInv ==
  /\ ListsOK /\ RxOK /\ TxOK /\ QueuesOK
  /\ OwnersInv /\ QueuedInv
  /\ OnePlace

-----------------------------------------------------------------------------
(* lfq_send_flush moves packets within the queues and loses none. *)
LEMMA FlushQueues ==
  ASSUME QueuesOK, NEW i \in Procs, NEW out \in [Others(i) -> Seq(Packets)], Flush(i, out),
         \A j \in Others(i) : OneToOne(chan[i][j] \o out[j])
  PROVE  /\ QueuesOK'
         /\ \A j \in Others(i) : Queue(i, j)' = chan[i][j] \o out[j]
         /\ \A k \in Procs \ {i} : \A j \in Others(k) : Queue(k, j)' = Queue(k, j)
<1> DEFINE n(j) == AtMost(Len(out[j]), QueueSize - 1 - Len(chan[i][j]))
<1>1. /\ pending' = [pending EXCEPT ![i] =
            [j \in Others(i) |-> SubSeq(out[j], n(j) + 1, Len(out[j]))]]
      /\ chan' = [chan EXCEPT ![i] =
            [j \in Others(i) |-> chan[i][j] \o SubSeq(out[j], 1, n(j))]]
  BY DEF Flush
<1>2. \A j \in Others(i) :
        /\ out[j] \in Seq(Packets) /\ chan[i][j] \in Seq(Packets)
        /\ n(j) \in 0..Len(out[j]) /\ Len(chan[i][j]) + n(j) <= QueueSize - 1
  BY FlowAssumption DEF QueuesOK, AtMost
<1> HIDE DEF n
<1>3. ASSUME NEW j \in Others(i)
      PROVE  /\ pending'[i][j] \in Seq(Packets) /\ chan'[i][j] \in Seq(Packets)
             /\ Len(chan'[i][j]) <= QueueSize - 1
             /\ chan'[i][j] \o pending'[i][j] = chan[i][j] \o out[j]
  <2> DEFINE a == SubSeq(out[j], 1, n(j))
             b == SubSeq(out[j], n(j) + 1, Len(out[j]))
  <2>1. a \in Seq(Packets) /\ Len(a) = n(j) /\ b \in Seq(Packets) /\ a \o b = out[j]
    BY <1>2, Cut
  <2>2. pending'[i][j] = b /\ chan'[i][j] = chan[i][j] \o a
    BY <1>1 DEF QueuesOK
  <2> HIDE DEF a, b
  <2>3. chan[i][j] \o a \in Seq(Packets) /\ Len(chan[i][j] \o a) = Len(chan[i][j]) + Len(a)
        /\ (chan[i][j] \o a) \o b = chan[i][j] \o (a \o b)
    BY <1>2, <2>1, Regrouped, ZenonT(40)
  <2>4. /\ pending'[i][j] \in Seq(Packets) /\ chan'[i][j] \in Seq(Packets)
        /\ chan'[i][j] \o pending'[i][j] = chan[i][j] \o out[j]
        /\ Len(chan'[i][j]) = Len(chan[i][j]) + Len(a)
    BY <2>1, <2>2, <2>3, Zenon
  <2> QED BY <1>2, <2>1, <2>4
<1>4. /\ DOMAIN pending' = Procs /\ DOMAIN chan' = Procs
      /\ \A k \in Procs \ {i} : pending'[k] = pending[k] /\ chan'[k] = chan[k]
      /\ pending'[i] = [j \in Others(i) |-> pending'[i][j]]
      /\ chan'[i] = [j \in Others(i) |-> chan'[i][j]]
  BY <1>1 DEF QueuesOK
<1>5. \A j \in Others(i) : Queue(i, j)' = chan[i][j] \o out[j]
  BY <1>3 DEF Queue
<1>6. \A k \in Procs \ {i} : \A j \in Others(k) : Queue(k, j)' = Queue(k, j)
  BY <1>4 DEF Queue
<1>7. pending'[i] \in [Others(i) -> Seq(Packets)] /\ chan'[i] \in [Others(i) -> Seq(Packets)]
  BY <1>3, <1>4
<1>8. ASSUME NEW k \in Procs
      PROVE  /\ pending'[k] \in [Others(k) -> Seq(Packets)]
             /\ chan'[k] \in [Others(k) -> Seq(Packets)]
             /\ \A j \in Others(k) :
                  Len(chan'[k][j]) <= QueueSize - 1 /\ OneToOne(Queue(k, j)')
  <2>1. CASE k = i
    BY <1>3, <1>5, <1>7, <2>1
  <2>2. CASE k # i
    BY <1>4, <1>6, <2>2 DEF QueuesOK
  <2> QED BY <2>1, <2>2
<1>9. QueuesOK'
  <2>1. \A k \in Procs, j \in Procs : OneToOne(Queue(k, j))' <=> OneToOne(Queue(k, j)')
    OBVIOUS
  <2> QED BY <1>4, <1>8, <2>1 DEF QueuesOK
<1> QED BY <1>5, <1>6, <1>9

(* lfq_send of the packets of s, and a flush, add just these to the queues. *)
LEMMA SendQueues ==
  ASSUME QueuesOK, NEW i \in Procs, NEW s \in SUBSET Packets, NEW to, SendAndFlush(i, s, to),
         \A j \in Others(i) : Elements(Queue(i, j)) \cap s = {}
  PROVE  /\ QueuesOK'
         /\ \A j \in Others(i) :
              Elements(Queue(i, j)') = Elements(Queue(i, j)) \cup {p \in s : to[p] = j}
         /\ \A k \in Procs \ {i} : \A j \in Others(k) : Queue(k, j)' = Queue(k, j)
<1>1. PICK new \in Buffered(i, s, to) :
        Flush(i, [j \in Others(i) |-> pending[i][j] \o new[j]])
  BY DEF SendAndFlush
<1> DEFINE out == [j \in Others(i) |-> pending[i][j] \o new[j]]
<1>2. ASSUME NEW j \in Others(i)
      PROVE  /\ new[j] \in Seq(Packets) /\ OneToOne(new[j])
             /\ Elements(new[j]) = {p \in s : to[p] = j}
  <2>1. new \in [Others(i) -> UNION {SetToSeqs(t) : t \in SUBSET s}]
        /\ Elements(new[j]) = {p \in s : to[p] = j}
    BY DEF Buffered
  <2>2. PICK t \in SUBSET s : new[j] \in SetToSeqs(t)
    BY <2>1
  <2> QED BY <2>1, <2>2, SeqOfSet
<1>3. ASSUME NEW j \in Others(i)
      PROVE  /\ out[j] \in Seq(Packets)
             /\ chan[i][j] \o out[j] = Queue(i, j) \o new[j]
             /\ Queue(i, j) \in Seq(Packets) /\ OneToOne(Queue(i, j))
  <2>1. chan[i][j] \in Seq(Packets) /\ pending[i][j] \in Seq(Packets) /\ OneToOne(Queue(i, j))
    BY DEF QueuesOK
  <2>2. chan[i][j] \o (pending[i][j] \o new[j]) = (chan[i][j] \o pending[i][j]) \o new[j]
    BY <1>2, <2>1, Regrouped, ZenonT(40)
  <2>3. pending[i][j] \o new[j] \in Seq(Packets) /\ chan[i][j] \o pending[i][j] \in Seq(Packets)
    BY <1>2, <2>1, Regrouped, ZenonT(40)
  <2>4. out[j] = pending[i][j] \o new[j]
    OBVIOUS
  <2> HIDE DEF out
  <2> QED BY <2>1, <2>2, <2>3, <2>4, Zenon DEF Queue
<1> HIDE DEF out
<1>4. ASSUME NEW j \in Others(i)
      PROVE  /\ OneToOne(chan[i][j] \o out[j])
             /\ Elements(chan[i][j] \o out[j]) = Elements(Queue(i, j)) \cup {p \in s : to[p] = j}
  <2>1. Elements(Queue(i, j)) \cap Elements(new[j]) = {}
    BY <1>2
  <2>2. /\ OneToOne(Queue(i, j) \o new[j])
        /\ Elements(Queue(i, j) \o new[j]) = Elements(Queue(i, j)) \cup Elements(new[j])
    BY <1>2, <1>3, <2>1, ConcatElements, Zenon
  <2> QED BY <1>2, <1>3, <2>2, Zenon
<1>5. out \in [Others(i) -> Seq(Packets)]
  <2>1. out = [j \in Others(i) |-> out[j]]
    BY DEF out
  <2> QED BY <1>3, <2>1
<1>6. Flush(i, out)
  BY <1>1 DEF out
<1>7. /\ QueuesOK'
      /\ \A j \in Others(i) : Queue(i, j)' = chan[i][j] \o out[j]
      /\ \A k \in Procs \ {i} : \A j \in Others(k) : Queue(k, j)' = Queue(k, j)
  BY <1>4, <1>5, <1>6, FlushQueues
<1> QED BY <1>4, <1>7

-----------------------------------------------------------------------------
(* A step that leaves the queues alone. *)
LEMMA SameQueues ==
  ASSUME QueuesOK, UNCHANGED queues
  PROVE  /\ QueuesOK'
         /\ \A i \in Procs : \A j \in Others(i) : Queue(i, j)' = Queue(i, j)
<1>1. pending' = pending /\ chan' = chan
  BY DEF queues
<1>2. \A i, j : Queue(i, j)' = Queue(i, j)
  BY <1>1 DEF Queue
<1>3. QueuesOK'
  BY <1>1, <1>2 DEF QueuesOK
<1> QED BY <1>2, <1>3

(* A step that brings no packet into a queue and changes the state of none *)
(* there.                                                                  *)
LEMMA SameStates ==
  ASSUME QueuedInv,
         \A i \in Procs : \A j \in Others(i) :
           /\ Elements(Queue(i, j)') \subseteq Elements(Queue(i, j))
           /\ \A p \in Elements(Queue(i, j)') : state'[p] = state[p]
  PROVE  QueuedInv'
<1>1. \A i, j : Elements(Queue(i, j))' = Elements(Queue(i, j)')
  BY DEF Elements
<1> QED BY <1>1 DEF QueuedInv

(* What a queue holds is in no list. *)
LEMMA Apart ==
  ASSUME OnePlace
  PROVE  \A p \in Packets, i \in Procs, j \in Procs : \A k \in Others(j) :
           p \in rxRing[i] \cup recvd[i] \cup dispd[i] \cup toReclaim[i]
             => p \notin Elements(Queue(j, k))
BY DEF OnePlace, Located, Listed, OnTheWay

(* What a queue holds is published or buffered, and not both. *)
LEMMA QueueElements ==
  ASSUME QueuesOK, NEW i \in Procs, NEW j \in Others(i)
  PROVE  /\ chan[i][j] \in Seq(Packets) /\ pending[i][j] \in Seq(Packets)
         /\ Queue(i, j) \in Seq(Packets)
         /\ Elements(Queue(i, j)) = Elements(chan[i][j]) \cup Elements(pending[i][j])
         /\ Elements(chan[i][j]) \cap Elements(pending[i][j]) = {}
         /\ OneToOne(pending[i][j])
         /\ Elements(Queue(i, j)) \subseteq Packets
<1>1. chan[i][j] \in Seq(Packets) /\ pending[i][j] \in Seq(Packets) /\ OneToOne(Queue(i, j))
  BY DEF QueuesOK
<1>2. /\ Queue(i, j) \in Seq(Packets)
      /\ Elements(Queue(i, j)) = Elements(chan[i][j]) \cup Elements(pending[i][j])
      /\ Elements(chan[i][j]) \cap Elements(pending[i][j]) = {}
      /\ OneToOne(pending[i][j])
  BY <1>1, ConcatElements, Zenon DEF Queue
<1>3. Elements(Queue(i, j)) \subseteq Packets
  BY <1>2, SeqElements
<1> QED BY <1>1, <1>2, <1>3

(* The buffers of s get into the place k. *)
Become(kind, kind2, s, k) ==
  \A p \in Packets : kind2[p] = IF p \in s THEN k ELSE kind[p]

LEMMA Relisted ==
  ASSUME NEW kind \in [Packets -> Kinds], NEW s, NEW k \in Kinds
  PROVE  \E kind2 \in [Packets -> Kinds] : Become(kind, kind2, s, k)
<1> WITNESS [p \in Packets |-> IF p \in s THEN k ELSE kind[p]] \in [Packets -> Kinds]
<1> QED BY DEF Become

(* Moves between lists and rings do not concern the queues. *)
LEMMA NotMoved ==
  ASSUME NEW kind, NEW at, NEW dest, OnTheWay(kind, at, dest), NEW kind2,
         \A p \in Packets : kind2[p] = "queue" <=> kind[p] = "queue",
         \A i \in Procs : \A j \in Others(i) : Queue(i, j)' = Queue(i, j)
  PROVE  OnTheWay(kind2, at, dest)'
BY DEF OnTheWay

(* The kinds one by one, which is what a step needs. *)
LEMMA KindsAre ==
  /\ "free" \in Kinds /\ "rxRing" \in Kinds /\ "recvd" \in Kinds /\ "dispd" \in Kinds
  /\ "toFree" \in Kinds /\ "toReclaim" \in Kinds /\ "tx" \in Kinds /\ "queue" \in Kinds
BY DEF Kinds, ListNames

(* Sets of buffers have sizes. *)
LEMMA UnionBound ==
  ASSUME NEW S \in SUBSET Packets, NEW T \in SUBSET Packets
  PROVE  /\ Cardinality(S) \in Nat /\ Cardinality(T) \in Nat /\ Cardinality(S \cup T) \in Nat
         /\ Cardinality(S \cup T) <= Cardinality(S) + Cardinality(T)
         /\ T \subseteq S => Cardinality(T) <= Cardinality(S)
<1>1. IsFiniteSet(S) /\ IsFiniteSet(T) /\ IsFiniteSet(S \cap T) /\ IsFiniteSet(S \cup T)
  BY FlowAssumption, FS_Subset
<1>2. Cardinality(S \cup T) = Cardinality(S) + Cardinality(T) - Cardinality(S \cap T)
  BY <1>1, FS_Union
<1>3. /\ Cardinality(S) \in Nat /\ Cardinality(T) \in Nat
      /\ Cardinality(S \cap T) \in Nat /\ Cardinality(S \cup T) \in Nat
  BY <1>1, FS_CardinalityType
<1>4. T \subseteq S => Cardinality(T) <= Cardinality(S)
  BY <1>1, FS_Subset
<1> QED BY <1>2, <1>3, <1>4

-----------------------------------------------------------------------------
(* The steps, one by one.  driver_alloc_rx_buffer: free -> rxRing. *)
LEMMA AllocRxKeeps ==
  ASSUME IInv, NEW i \in Procs, AllocRx(i)
  PROVE  IInv'
<1>0. ListsOK /\ RxOK /\ TxOK /\ QueuesOK /\ OwnersInv /\ QueuedInv
  BY DEF IInv
<1>1. PICK s \in SUBSET free[i] :
        /\ Cardinality(s) = AtMost(Cardinality(free[i]), RxSize - 1 - Cardinality(rxRing[i]))
        /\ free' = [free EXCEPT ![i] = @ \ s]
        /\ rxRing' = [rxRing EXCEPT ![i] = @ \cup s]
  BY DEF AllocRx
<1>2. /\ pc' = [pc EXCEPT ![i] = "recv"]
      /\ UNCHANGED <<rxFull, recvd, dispd, toFree, toReclaim, tx, sent, done, state>>
      /\ UNCHANGED <<queues, state>>
  BY DEF AllocRx, Call, lists, txVars
<1>3. ListsOK'
  BY <1>0, <1>1, <1>2 DEF ListsOK, Calls
<1>4. RxOK'
  <2>1. s \in SUBSET Packets /\ rxRing[i] \in SUBSET Packets /\ free[i] \in SUBSET Packets
    BY <1>0 DEF ListsOK
  <2>2. Cardinality(rxRing[i] \cup s) <= RxSize - 1
    <3>1. /\ Cardinality(rxRing[i]) \in Nat /\ Cardinality(s) \in Nat
          /\ Cardinality(rxRing[i] \cup s) \in Nat
          /\ Cardinality(rxRing[i] \cup s) <= Cardinality(rxRing[i]) + Cardinality(s)
          /\ Cardinality(free[i]) \in Nat
      BY <2>1, UnionBound
    <3>2. Cardinality(rxRing[i]) <= RxSize - 1 /\ RxSize \in Nat
      BY <1>0, FlowAssumption DEF RxOK
    <3> QED BY <1>1, <3>1, <3>2 DEF AtMost
  <2> QED BY <1>0, <1>1, <1>2, <2>2 DEF RxOK, ListsOK
<1>5. TxOK'
  BY <1>0, <1>2 DEF TxOK
<1>6. OwnersInv'
  BY <1>0, <1>1, <1>2 DEF OwnersInv, ListsOK
<1>7. /\ QueuesOK'
      /\ \A j \in Procs : \A k \in Others(j) : Queue(j, k)' = Queue(j, k)
  BY <1>0, <1>2, SameQueues
<1>9. QueuedInv'
  BY <1>0, <1>2, <1>7, SameStates
<1>8. OnePlace'
  <2>1. PICK kind, at, dest : Located(kind, at, dest)
    BY DEF IInv, OnePlace
  <2>2. kind \in [Packets -> Kinds] /\ Listed(kind, at) /\ OnTheWay(kind, at, dest)
    BY <2>1 DEF Located
  <2>3. PICK kind2 \in [Packets -> Kinds] : Become(kind, kind2, s, "rxRing")
    BY <2>2, KindsAre, Relisted, Zenon
  <2>4. Listed(kind2, at)'
    <3>1. /\ free'[i] = free[i] \ s /\ rxRing'[i] = rxRing[i] \cup s
          /\ \A j \in Procs : j # i => free'[j] = free[j] /\ rxRing'[j] = rxRing[j]
      BY <1>0, <1>1 DEF ListsOK
    <3>2. \A p \in s : p \in free[i]
      OBVIOUS
    <3> QED BY <1>2, <2>2, <2>3, <3>1, <3>2 DEF Listed, Become
  <2>5. OnTheWay(kind2, at, dest)'
    <3>1. \A p \in Packets : kind2[p] = "queue" <=> kind[p] = "queue"
      BY <2>2, <2>3 DEF Listed, Become
    <3> QED BY <1>7, <2>2, <3>1, NotMoved
  <2>6. Located(kind2, at, dest)'
    BY <2>1, <2>3, <2>4, <2>5 DEF Located
  <2> QED BY <2>6 DEF OnePlace
<1> QED BY <1>3, <1>4, <1>5, <1>6, <1>7, <1>8, <1>9 DEF IInv

(* driver_recv, packet_init_and_filter: rxRing -> recvd, toFree. *)
LEMMA RecvKeeps ==
  ASSUME IInv, NEW i \in Procs, Recv(i)
  PROVE  IInv'
<1>0. ListsOK /\ RxOK /\ TxOK /\ QueuesOK /\ OwnersInv /\ QueuedInv /\ OnePlace
  BY DEF IInv
<1>1. PICK bad \in SUBSET rxFull[i] :
        /\ toFree' = [toFree EXCEPT ![i] = @ \cup bad]
        /\ recvd' = [recvd EXCEPT ![i] = @ \cup (rxFull[i] \ bad)]
  BY DEF Recv, InitAndFilter
<1>2. /\ pc' = [pc EXCEPT ![i] = "dispatch"]
      /\ rxRing' = [rxRing EXCEPT ![i] = @ \ rxFull[i]]
      /\ rxFull' = [rxFull EXCEPT ![i] = {}]
      /\ state' = [p \in Packets |-> IF p \in rxFull[i] THEN "START" ELSE state[p]]
      /\ UNCHANGED <<free, dispd, toReclaim, tx, sent, done>> /\ UNCHANGED queues
  BY DEF Recv, Call, InitAndFilter, txVars
<1>3. ListsOK'
  BY <1>0, <1>1, <1>2 DEF ListsOK, Calls, LfqStates
<1>4. RxOK'
  <2>1. rxRing[i] \in SUBSET Packets /\ rxRing[i] \ rxFull[i] \in SUBSET Packets
    BY <1>0 DEF ListsOK
  <2>2. /\ Cardinality(rxRing[i] \ rxFull[i]) <= Cardinality(rxRing[i])
        /\ Cardinality(rxRing[i]) \in Nat /\ Cardinality(rxRing[i] \ rxFull[i]) \in Nat
    BY <2>1, UnionBound
  <2>3. Cardinality(rxRing[i] \ rxFull[i]) <= RxSize - 1
    BY <1>0, <2>2, FlowAssumption DEF RxOK
  <2> QED BY <1>0, <1>2, <2>3 DEF RxOK, ListsOK
<1>5. TxOK'
  BY <1>0, <1>2 DEF TxOK
<1>6. OwnersInv'
  BY <1>0, <1>1, <1>2 DEF OwnersInv, ListsOK, RxOK
<1>7. /\ QueuesOK'
      /\ \A j \in Procs : \A k \in Others(j) : Queue(j, k)' = Queue(j, k)
  BY <1>0, <1>2, SameQueues
<1>8. QueuedInv'
  <2>1. ASSUME NEW j \in Procs, NEW k \in Others(j), NEW p \in Elements(Queue(j, k))
        PROVE  p \in Packets /\ p \notin rxFull[i]
    BY <1>0, Apart, QueueElements DEF RxOK
  <2> QED BY <1>0, <1>2, <1>7, <2>1, SameStates
<1>9. OnePlace'
  <2>1. PICK kind, at, dest : Located(kind, at, dest)
    BY <1>0 DEF OnePlace
  <2>2. kind \in [Packets -> Kinds] /\ Listed(kind, at) /\ OnTheWay(kind, at, dest)
    BY <2>1 DEF Located
  <2>3. PICK kind1 \in [Packets -> Kinds] : Become(kind, kind1, rxFull[i], "recvd")
    BY <2>2, KindsAre, Relisted, Zenon
  <2>4. PICK kind2 \in [Packets -> Kinds] : Become(kind1, kind2, bad, "toFree")
    BY KindsAre, Relisted, Zenon
  <2>5. Listed(kind2, at)'
    <3>1. /\ rxRing'[i] = rxRing[i] \ rxFull[i]
          /\ toFree'[i] = toFree[i] \cup bad /\ recvd'[i] = recvd[i] \cup (rxFull[i] \ bad)
          /\ \A j \in Procs : j # i => /\ rxRing'[j] = rxRing[j] /\ toFree'[j] = toFree[j]
                                     /\ recvd'[j] = recvd[j]
      BY <1>0, <1>1, <1>2 DEF ListsOK
    <3>2. /\ \A p \in rxFull[i] : p \in rxRing[i]
          /\ \A p \in bad : p \in rxFull[i]
      BY <1>0 DEF RxOK
    <3> QED BY <1>2, <2>2, <2>3, <2>4, <3>1, <3>2 DEF Listed, Become
  <2>6. OnTheWay(kind2, at, dest)'
    <3>1. \A p \in Packets : kind2[p] = "queue" <=> kind[p] = "queue"
      BY <1>0, <2>2, <2>3, <2>4 DEF Listed, RxOK, Become
    <3> QED BY <1>7, <2>2, <3>1, NotMoved
  <2>7. Located(kind2, at, dest)'
    BY <2>1, <2>5, <2>6 DEF Located
  <2> QED BY <2>7 DEF OnePlace
<1> QED BY <1>3, <1>4, <1>5, <1>6, <1>7, <1>8, <1>9 DEF IInv

(* process_packets: recvd -> tx, toFree; dispd -> tx, toReclaim. *)
LEMMA ProcessKeeps ==
  ASSUME IInv, NEW i \in Procs, Process(i)
  PROVE  IInv'
<1>0. ListsOK /\ RxOK /\ TxOK /\ QueuesOK /\ OwnersInv /\ QueuedInv /\ OnePlace
  BY DEF IInv
<1>1. PICK xmit \in SUBSET (recvd[i] \cup dispd[i]) :
        /\ \E s \in SetToSeqs(xmit) : tx' = [tx EXCEPT ![i] = @ \o s]
        /\ toFree' = [toFree EXCEPT ![i] = @ \cup (recvd[i] \ xmit)]
        /\ toReclaim' = [toReclaim EXCEPT ![i] = @ \cup (dispd[i] \ xmit)]
  BY DEF Process
<1>2. /\ pc[i] = "process" /\ pc' = [pc EXCEPT ![i] = "reclaimTx"]
      /\ recvd' = [recvd EXCEPT ![i] = {}]
      /\ dispd' = [dispd EXCEPT ![i] = {}]
      /\ UNCHANGED <<free, rxRing, rxFull, sent, done, state>> /\ UNCHANGED queues
  BY DEF Process, Call, rxVars
<1>3. PICK s \in SetToSeqs(xmit) : tx' = [tx EXCEPT ![i] = @ \o s]
  BY <1>1
<1>4. xmit \in SUBSET Packets
  BY <1>0, <1>1 DEF ListsOK
<1>5. s \in Seq(Packets) /\ Elements(s) = xmit /\ OneToOne(s)
  BY <1>4, SeqOfSet
<1>6. ListsOK'
  BY <1>0, <1>1, <1>2 DEF ListsOK, Calls
<1>7. RxOK'
  BY <1>0, <1>2 DEF RxOK
<1>8. PICK kind, at, dest : Located(kind, at, dest)
  BY <1>0 DEF OnePlace
<1>9. kind \in [Packets -> Kinds] /\ Listed(kind, at) /\ OnTheWay(kind, at, dest)
  BY <1>8 DEF Located
<1>10. tx[i] \in Seq(Packets) /\ OneToOne(tx[i])
  BY <1>0 DEF TxOK
<1>11. /\ tx[i] \o s \in Seq(Packets) /\ Len(tx[i] \o s) = Len(tx[i]) + Len(s)
       /\ OneToOne(tx[i] \o s) /\ Elements(tx[i] \o s) = Elements(tx[i]) \cup xmit
  <2>1. Elements(tx[i]) \cap Elements(s) = {}
    BY <1>4, <1>5, <1>9 DEF Listed
  <2>2. /\ OneToOne(tx[i] \o s) /\ tx[i] \o s \in Seq(Packets)
        /\ Elements(tx[i] \o s) = Elements(tx[i]) \cup Elements(s)
    BY <1>5, <1>10, <2>1, ConcatElements, Zenon
  <2>3. Len(tx[i] \o s) = Len(tx[i]) + Len(s)
    BY <1>5, <1>10, Regrouped, ZenonT(40)
  <2> QED BY <1>5, <2>2, <2>3
<1>12. /\ tx'[i] = tx[i] \o s
       /\ \A j \in Procs : j # i => tx'[j] = tx[j]
       /\ DOMAIN tx' = Procs /\ tx' = [j \in Procs |-> tx'[j]]
  BY <1>0, <1>3 DEF TxOK
<1>13. TxOK'
  <2>1. ASSUME NEW j \in Procs
        PROVE  /\ tx'[j] \in Seq(Packets) /\ Len(tx'[j]) >= Len(tx[j]) /\ OneToOne(tx'[j])
               /\ Len(tx[j]) \in Nat /\ Len(tx'[j]) \in Nat
    <3>1. CASE j = i
      <4>1. Len(s) \in Nat /\ Len(tx[i]) \in Nat
        BY <1>5, <1>10
      <4>2. /\ tx'[i] \in Seq(Packets) /\ OneToOne(tx'[i])
            /\ Len(tx'[i]) = Len(tx[i]) + Len(s)
        BY <1>11, <1>12, Zenon
      <4> QED BY <3>1, <4>1, <4>2
    <3>2. CASE j # i
      BY <1>0, <1>12, <3>2 DEF TxOK
    <3> QED BY <3>1, <3>2
  <2>2. tx' \in [Procs -> Seq(Packets)]
    BY <1>12, <2>1
  <2>3. \A j \in Procs : sent'[j] <= AtMost(Len(tx'[j]), TxSize - 1)
    <3> SUFFICES ASSUME NEW j \in Procs PROVE sent[j] <= AtMost(Len(tx'[j]), TxSize - 1)
      BY <1>2
    <3>1. sent[j] \in Nat /\ sent[j] <= AtMost(Len(tx[j]), TxSize - 1)
      BY <1>0 DEF TxOK
    <3> QED BY <2>1, <3>1, FlowAssumption DEF AtMost
  <2>4. sent' = sent /\ done' = done /\ \A j \in Procs : OneToOne(tx'[j])
    BY <1>2, <2>1
  <2> QED BY <1>0, <2>2, <2>3, <2>4 DEF TxOK
<1>14. OwnersInv'
  BY <1>0, <1>1, <1>2 DEF OwnersInv, ListsOK
<1>15. /\ QueuesOK'
       /\ \A j \in Procs : \A k \in Others(j) : Queue(j, k)' = Queue(j, k)
  BY <1>0, <1>2, SameQueues
<1>16. QueuedInv'
  BY <1>0, <1>2, <1>15, SameStates
<1>17. OnePlace'
  <2>1. PICK kind1 \in [Packets -> Kinds] : Become(kind, kind1, recvd[i], "toFree")
    BY <1>9, KindsAre, Relisted, Zenon
  <2>2. PICK kind2 \in [Packets -> Kinds] : Become(kind1, kind2, dispd[i], "toReclaim")
    BY KindsAre, Relisted, Zenon
  <2>3. PICK kind3 \in [Packets -> Kinds] : Become(kind2, kind3, xmit, "tx")
    BY KindsAre, Relisted, Zenon
  <2>4. Listed(kind3, at)'
    <3>1. /\ recvd'[i] = {} /\ dispd'[i] = {}
          /\ toFree'[i] = toFree[i] \cup (recvd[i] \ xmit)
          /\ toReclaim'[i] = toReclaim[i] \cup (dispd[i] \ xmit)
          /\ Elements(tx'[i]) = Elements(tx[i]) \cup xmit
          /\ \A j \in Procs : j # i => /\ recvd'[j] = recvd[j] /\ dispd'[j] = dispd[j]
                                     /\ toFree'[j] = toFree[j] /\ toReclaim'[j] = toReclaim[j]
                                     /\ Elements(tx'[j]) = Elements(tx[j])
      BY <1>0, <1>1, <1>2, <1>11, <1>12 DEF ListsOK
    <3>2. \A p \in xmit : p \in recvd[i] \/ p \in dispd[i]
      BY <1>1
    <3> QED BY <1>2, <1>9, <2>1, <2>2, <2>3, <3>1, <3>2 DEF Listed, Become
  <2>5. OnTheWay(kind3, at, dest)'
    <3>1. \A p \in Packets : kind3[p] = "queue" <=> kind[p] = "queue"
      BY <1>1, <1>9, <2>1, <2>2, <2>3 DEF Listed, Become
    <3> QED BY <1>9, <1>15, <3>1, NotMoved
  <2>6. Located(kind3, at, dest)'
    BY <1>8, <2>4, <2>5 DEF Located
  <2> QED BY <2>6 DEF OnePlace
<1> QED BY <1>6, <1>7, <1>13, <1>14, <1>15, <1>16, <1>17 DEF IInv

(* driver_reclaim_tx_buffer: tx -> toReclaim, from the front. *)
LEMMA ReclaimTxKeeps ==
  ASSUME IInv, NEW i \in Procs, ReclaimTx(i)
  PROVE  IInv'
<1> DEFINE n == IF sent[i] = 0 THEN 0 ELSE AtMost(done[i], sent[i] - 1)
           a == SubSeq(tx[i], 1, n)
           b == SubSeq(tx[i], n + 1, Len(tx[i]))
<1>0. ListsOK /\ RxOK /\ TxOK /\ QueuesOK /\ OwnersInv /\ QueuedInv /\ OnePlace
  BY DEF IInv
<1>1. /\ pc[i] = "reclaimTx" /\ pc' = [pc EXCEPT ![i] = "reclaim"]
      /\ toReclaim' = [toReclaim EXCEPT ![i] = @ \cup Elements(a)]
      /\ tx' = [tx EXCEPT ![i] = b]
      /\ sent' = [sent EXCEPT ![i] = @ - n]
      /\ done' = [done EXCEPT ![i] = @ - n]
      /\ UNCHANGED <<free, rxRing, rxFull, recvd, dispd, toFree, state>> /\ UNCHANGED queues
  BY DEF ReclaimTx, Call, rxVars
<1>2. /\ tx[i] \in Seq(Packets) /\ OneToOne(tx[i]) /\ sent[i] \in Nat /\ done[i] \in Nat
      /\ done[i] <= sent[i] /\ sent[i] <= Len(tx[i]) /\ sent[i] <= TxSize - 1
      /\ Len(tx[i]) \in Nat /\ TxSize \in Nat
  BY <1>0, FlowAssumption DEF TxOK, AtMost
<1>3. n \in 0..Len(tx[i]) /\ n <= done[i]
  BY <1>2 DEF AtMost
<1> HIDE DEF n
<1>4. a \in Seq(Packets) /\ b \in Seq(Packets) /\ Len(b) = Len(tx[i]) - n /\ a \o b = tx[i]
  BY <1>2, <1>3, Cut
<1> HIDE DEF a, b
<1>5. /\ OneToOne(b) /\ Elements(a) \cap Elements(b) = {}
      /\ Elements(tx[i]) = Elements(a) \cup Elements(b)
  <2>1. OneToOne(a \o b)
    BY <1>2, <1>4
  <2>2. /\ OneToOne(b) /\ Elements(a) \cap Elements(b) = {}
        /\ Elements(a \o b) = Elements(a) \cup Elements(b)
    BY <1>4, <2>1, ConcatElements, Zenon
  <2> QED BY <1>4, <2>2
<1>6. Elements(a) \subseteq Packets
  BY <1>4, SeqElements
<1>7. ListsOK'
  BY <1>0, <1>1, <1>6 DEF ListsOK, Calls
<1>8. RxOK'
  BY <1>0, <1>1 DEF RxOK
<1>9. /\ tx'[i] = b /\ sent'[i] = sent[i] - n /\ done'[i] = done[i] - n
      /\ \A j \in Procs : j # i => tx'[j] = tx[j] /\ sent'[j] = sent[j] /\ done'[j] = done[j]
      /\ tx' = [j \in Procs |-> tx'[j]]
      /\ sent' = [j \in Procs |-> sent'[j]] /\ done' = [j \in Procs |-> done'[j]]
  BY <1>0, <1>1 DEF TxOK
<1>10. TxOK'
  <2>1. ASSUME NEW j \in Procs
        PROVE  /\ tx'[j] \in Seq(Packets) /\ sent'[j] \in Nat /\ done'[j] \in Nat
               /\ done'[j] <= sent'[j] /\ sent'[j] <= AtMost(Len(tx'[j]), TxSize - 1)
               /\ OneToOne(tx'[j])
    <3>1. CASE j = i
      <4>1. sent[i] - n \in Nat /\ done[i] - n \in Nat /\ done[i] - n <= sent[i] - n
            /\ sent[i] - n <= AtMost(Len(tx[i]) - n, TxSize - 1)
        BY <1>2, <1>3 DEF AtMost
      <4> QED BY <1>4, <1>5, <1>9, <3>1, <4>1
    <3>2. CASE j # i
      BY <1>0, <1>9, <3>2 DEF TxOK
    <3> QED BY <3>1, <3>2
  <2>2. tx' \in [Procs -> Seq(Packets)] /\ sent' \in [Procs -> Nat] /\ done' \in [Procs -> Nat]
    BY <1>9, <2>1
  <2> QED BY <2>1, <2>2 DEF TxOK
<1>11. OwnersInv'
  BY <1>0, <1>1 DEF OwnersInv, ListsOK
<1>12. /\ QueuesOK'
       /\ \A j \in Procs : \A k \in Others(j) : Queue(j, k)' = Queue(j, k)
  BY <1>0, <1>1, SameQueues
<1>13. QueuedInv'
  BY <1>0, <1>1, <1>12, SameStates
<1>14. OnePlace'
  <2>1. PICK kind, at, dest : Located(kind, at, dest)
    BY <1>0 DEF OnePlace
  <2>2. kind \in [Packets -> Kinds] /\ Listed(kind, at) /\ OnTheWay(kind, at, dest)
    BY <2>1 DEF Located
  <2>3. PICK kind2 \in [Packets -> Kinds] : Become(kind, kind2, Elements(a), "toReclaim")
    BY <2>2, KindsAre, Relisted, Zenon
  <2>4. Listed(kind2, at)'
    <3>1. /\ toReclaim'[i] = toReclaim[i] \cup Elements(a)
          /\ Elements(tx'[i]) = Elements(tx[i]) \ Elements(a)
          /\ \A j \in Procs : j # i => /\ toReclaim'[j] = toReclaim[j]
                                     /\ Elements(tx'[j]) = Elements(tx[j])
      BY <1>0, <1>1, <1>5, <1>9 DEF ListsOK
    <3>2. \A p \in Elements(a) : p \in Elements(tx[i])
      BY <1>5
    <3> QED BY <1>1, <2>2, <2>3, <3>1, <3>2 DEF Listed, Become
  <2>5. OnTheWay(kind2, at, dest)'
    <3>1. \A p \in Packets : kind2[p] = "queue" <=> kind[p] = "queue"
      BY <1>5, <2>2, <2>3 DEF Listed, Become
    <3> QED BY <1>12, <2>2, <3>1, NotMoved
  <2>6. Located(kind2, at, dest)'
    BY <2>1, <2>4, <2>5 DEF Located
  <2> QED BY <2>6 DEF OnePlace
<1> QED BY <1>7, <1>8, <1>10, <1>11, <1>12, <1>13, <1>14 DEF IInv

(* packet_zone_reclaim: toFree, toReclaim -> free. *)
LEMMA ReclaimZoneKeeps ==
  ASSUME IInv, NEW i \in Procs, ReclaimZone(i)
  PROVE  IInv'
<1>0. ListsOK /\ RxOK /\ TxOK /\ QueuesOK /\ OwnersInv /\ QueuedInv /\ OnePlace
  BY DEF IInv
<1>1. /\ pc[i] = "free" /\ pc' = [pc EXCEPT ![i] = "send"]
      /\ free' = [free EXCEPT ![i] = @ \cup toFree[i] \cup toReclaim[i]]
      /\ toFree' = [toFree EXCEPT ![i] = {}]
      /\ toReclaim' = [toReclaim EXCEPT ![i] = {}]
      /\ UNCHANGED <<rxRing, rxFull, recvd, dispd, tx, sent, done, state>> /\ UNCHANGED queues
  BY DEF ReclaimZone, Call, rxVars, txVars
<1>2. ListsOK'
  BY <1>0, <1>1 DEF ListsOK, Calls
<1>3. RxOK' /\ TxOK'
  BY <1>0, <1>1 DEF RxOK, TxOK
<1>4. OwnersInv'
  BY <1>0, <1>1 DEF OwnersInv, ListsOK
<1>5. /\ QueuesOK'
      /\ \A j \in Procs : \A k \in Others(j) : Queue(j, k)' = Queue(j, k)
  BY <1>0, <1>1, SameQueues
<1>6. QueuedInv'
  BY <1>0, <1>1, <1>5, SameStates
<1>7. OnePlace'
  <2>1. PICK kind, at, dest : Located(kind, at, dest)
    BY <1>0 DEF OnePlace
  <2>2. kind \in [Packets -> Kinds] /\ Listed(kind, at) /\ OnTheWay(kind, at, dest)
    BY <2>1 DEF Located
  <2>3. PICK kind2 \in [Packets -> Kinds] :
          Become(kind, kind2, toFree[i] \cup toReclaim[i], "free")
    BY <2>2, KindsAre, Relisted, Zenon
  <2>4. Listed(kind2, at)'
    <3>1. /\ free'[i] = free[i] \cup toFree[i] \cup toReclaim[i]
          /\ toFree'[i] = {} /\ toReclaim'[i] = {}
          /\ \A j \in Procs : j # i => /\ free'[j] = free[j] /\ toFree'[j] = toFree[j]
                                     /\ toReclaim'[j] = toReclaim[j]
      BY <1>0, <1>1 DEF ListsOK
    <3> QED BY <1>1, <2>2, <2>3, <3>1 DEF Listed, Become
  <2>5. OnTheWay(kind2, at, dest)'
    <3>1. \A p \in Packets : kind2[p] = "queue" <=> kind[p] = "queue"
      BY <2>2, <2>3 DEF Listed, Become
    <3> QED BY <1>5, <2>2, <3>1, NotMoved
  <2>6. Located(kind2, at, dest)'
    BY <2>1, <2>4, <2>5 DEF Located
  <2> QED BY <2>6 DEF OnePlace
<1> QED BY <1>2, <1>3, <1>4, <1>5, <1>6, <1>7 DEF IInv

(* Steps that move no buffer. *)
LEMMA NoMove ==
  ASSUME OnePlace,
         UNCHANGED <<free, rxRing, recvd, dispd, toFree, toReclaim, tx>>,
         \A i \in Procs : \A j \in Others(i) :
           Elements(Queue(i, j)') = Elements(Queue(i, j))
  PROVE  OnePlace'
<1>1. PICK kind, at, dest : Located(kind, at, dest)
  BY DEF OnePlace
<1>2. \A i, j : Elements(Queue(i, j))' = Elements(Queue(i, j)')
  BY DEF Elements
<1>3. Listed(kind, at)' /\ OnTheWay(kind, at, dest)'
  BY <1>1, <1>2 DEF Located, Listed, OnTheWay
<1>4. Located(kind, at, dest)'
  BY <1>1, <1>3 DEF Located
<1> QED BY <1>4 DEF OnePlace

(* driver_send only tells the NIC of more of the ring. *)
LEMMA SendKeeps ==
  ASSUME IInv, NEW i \in Procs, Send(i)
  PROVE  IInv'
<1>0. ListsOK /\ RxOK /\ TxOK /\ QueuesOK /\ OwnersInv /\ QueuedInv /\ OnePlace
  BY DEF IInv
<1>1. /\ pc' = [pc EXCEPT ![i] = "flush"]
      /\ sent' = [sent EXCEPT ![i] = AtMost(Len(tx[i]), TxSize - 1)]
      /\ UNCHANGED <<free, rxRing, rxFull, recvd, dispd, toFree, toReclaim, tx, done, state>>
      /\ UNCHANGED queues
  BY DEF Send, Call, rxVars, lists
<1>2. ListsOK' /\ RxOK' /\ OwnersInv'
  BY <1>0, <1>1 DEF ListsOK, RxOK, OwnersInv, Calls
<1>3. TxOK'
  <2>1. AtMost(Len(tx[i]), TxSize - 1) \in Nat /\ sent[i] <= AtMost(Len(tx[i]), TxSize - 1)
    BY <1>0, FlowAssumption DEF TxOK, AtMost
  <2>2. done[i] <= AtMost(Len(tx[i]), TxSize - 1)
    BY <1>0, <2>1 DEF TxOK
  <2> HIDE DEF AtMost
  <2>3. /\ sent' \in [Procs -> Nat] /\ sent'[i] = AtMost(Len(tx[i]), TxSize - 1)
        /\ \A j \in Procs : j # i => sent'[j] = sent[j]
    BY <1>0, <1>1, <2>1 DEF TxOK
  <2>4. \A j \in Procs : done'[j] <= sent'[j] /\ sent'[j] <= AtMost(Len(tx'[j]), TxSize - 1)
    BY <1>0, <1>1, <2>1, <2>2, <2>3 DEF TxOK
  <2> QED BY <1>0, <1>1, <2>3, <2>4 DEF TxOK
<1>4. /\ QueuesOK'
      /\ \A j \in Procs : \A k \in Others(j) : Queue(j, k)' = Queue(j, k)
  BY <1>0, <1>1, SameQueues
<1>5. QueuedInv'
  BY <1>0, <1>1, <1>4, SameStates
<1>6. OnePlace'
  BY <1>0, <1>1, <1>4, NoMove
<1> QED BY <1>2, <1>3, <1>4, <1>5, <1>6 DEF IInv

(* The NIC marks descriptors, it moves none. *)
LEMMA NicKeeps ==
  ASSUME IInv, NEW i \in Procs, FrameArrives(i) \/ FrameSent(i)
  PROVE  IInv'
<1>0. ListsOK /\ RxOK /\ TxOK /\ QueuesOK /\ OwnersInv /\ QueuedInv /\ OnePlace
  BY DEF IInv
<1>1. /\ UNCHANGED <<pc, free, rxRing, recvd, dispd, toFree, toReclaim, tx, sent, state>>
      /\ UNCHANGED queues
  BY DEF FrameArrives, FrameSent, rxVars, lists, txVars
<1>2. ListsOK' /\ RxOK' /\ TxOK'
  <2>1. CASE FrameArrives(i)
    <3>1. PICK p \in rxRing[i] : rxFull' = [rxFull EXCEPT ![i] = @ \cup {p}]
      BY <2>1 DEF FrameArrives
    <3>2. done' = done
      BY <2>1 DEF FrameArrives, txVars
    <3> QED BY <1>0, <1>1, <3>1, <3>2 DEF ListsOK, RxOK, TxOK
  <2>2. CASE FrameSent(i)
    <3>1. done[i] < sent[i] /\ done' = [done EXCEPT ![i] = @ + 1] /\ rxFull' = rxFull
      BY <2>2 DEF FrameSent, rxVars
    <3>2. done' \in [Procs -> Nat] /\ \A j \in Procs : done'[j] <= sent[j]
      BY <1>0, <3>1 DEF TxOK
    <3> QED BY <1>0, <1>1, <3>1, <3>2 DEF ListsOK, RxOK, TxOK
  <2> QED BY <2>1, <2>2
<1>3. OwnersInv'
  BY <1>0, <1>1 DEF OwnersInv
<1>4. /\ QueuesOK'
      /\ \A j \in Procs : \A k \in Others(j) : Queue(j, k)' = Queue(j, k)
  BY <1>0, <1>1, SameQueues
<1>5. QueuedInv'
  BY <1>0, <1>1, <1>4, SameStates
<1>6. OnePlace'
  BY <1>0, <1>1, <1>4, NoMove
<1> QED BY <1>2, <1>3, <1>4, <1>5, <1>6 DEF IInv

(* dispatch_flush moves packets within the queues. *)
LEMMA DispatchFlushKeeps ==
  ASSUME IInv, NEW i \in Procs, DispatchFlush(i)
  PROVE  IInv'
<1>0. ListsOK /\ RxOK /\ TxOK /\ QueuesOK /\ OwnersInv /\ QueuedInv /\ OnePlace
  BY DEF IInv
<1>1. /\ pc' = [pc EXCEPT ![i] = "alloc"] /\ Flush(i, pending[i])
      /\ UNCHANGED <<free, rxRing, rxFull, recvd, dispd, toFree, toReclaim, tx, sent, done, state>>
  BY DEF DispatchFlush, Call, rxVars, lists, txVars
<1>2. ListsOK' /\ RxOK' /\ OwnersInv' /\ TxOK'
  BY <1>0, <1>1 DEF ListsOK, RxOK, OwnersInv, TxOK, Calls
<1>3. /\ pending[i] \in [Others(i) -> Seq(Packets)]
      /\ \A j \in Others(i) : OneToOne(chan[i][j] \o pending[i][j])
  BY <1>0 DEF QueuesOK, Queue
<1>4. /\ QueuesOK'
      /\ \A j \in Others(i) : Queue(i, j)' = chan[i][j] \o pending[i][j]
      /\ \A k \in Procs \ {i} : \A j \in Others(k) : Queue(k, j)' = Queue(k, j)
  BY <1>0, <1>1, <1>3, FlushQueues
<1>5. \A k \in Procs : \A j \in Others(k) : Queue(k, j)' = Queue(k, j)
  BY <1>4 DEF Queue
<1>6. QueuedInv'
  BY <1>0, <1>1, <1>5, SameStates
<1>7. OnePlace'
  BY <1>0, <1>1, <1>5, NoMove
<1> QED BY <1>2, <1>4, <1>6, <1>7 DEF IInv

(* The buffers of s get on their way from process i, each to to[p]. *)
LEMMA SentOnTheWay ==
  ASSUME NEW kind, NEW at, NEW dest, OnTheWay(kind, at, dest), NEW i \in Procs,
         NEW s, NEW to, NEW kind2, NEW dest2,
         \A p \in s : at[p] = i /\ kind[p] # "queue" /\ to[p] \in Others(i),
         Become(kind, kind2, s, "queue"),
         \A p \in Packets : dest2[p] = IF p \in s THEN to[p] ELSE dest[p],
         \A j \in Others(i) :
           Elements(Queue(i, j)') = Elements(Queue(i, j)) \cup {p \in s : to[p] = j},
         \A k \in Procs \ {i} : \A j \in Others(k) : Queue(k, j)' = Queue(k, j)
  PROVE  OnTheWay(kind2, at, dest2)'
<1>1. \A k, j : Elements(Queue(k, j))' = Elements(Queue(k, j)')
  BY DEF Elements
<1>2. ASSUME NEW p \in Packets, kind2[p] = "queue" PROVE dest2[p] # at[p]
  BY <1>2 DEF Become, OnTheWay, Others
<1>3. ASSUME NEW p \in Packets, NEW k \in Procs, NEW j \in Others(k)
      PROVE  p \in Elements(Queue(k, j)')
               <=> kind2[p] = "queue" /\ at[p] = k /\ dest2[p] = j
  <2>1. p \in Elements(Queue(k, j)) <=> kind[p] = "queue" /\ at[p] = k /\ dest[p] = j
    BY DEF OnTheWay
  <2>2. CASE k = i
    BY <2>1, <2>2 DEF Become
  <2>3. CASE k # i
    BY <2>1, <2>3 DEF Become
  <2> QED BY <2>2, <2>3
<1> QED BY <1>1, <1>2, <1>3 DEF OnTheWay

(* dispatch_packet, up to lfq_recv: recvd -> queue, for the others. *)
LEMMA DispatchOutKeeps ==
  ASSUME IInv, NEW i \in Procs, DispatchOut(i)
  PROVE  IInv'
<1>0. ListsOK /\ RxOK /\ TxOK /\ QueuesOK /\ OwnersInv /\ QueuedInv /\ OnePlace
  BY DEF IInv
<1>1. /\ pc' = [pc EXCEPT ![i] = "dispatched"]
      /\ UNCHANGED <<free, rxRing, rxFull, dispd, toFree, toReclaim, tx, sent, done>>
  BY DEF DispatchOut, Call, rxVars, txVars
<1>2. RxOK' /\ TxOK'
  BY <1>0, <1>1 DEF RxOK, TxOK
<1>3. CASE recvd[i] = {}
  <2>1. UNCHANGED <<recvd, state>> /\ UNCHANGED queues
    BY <1>3 DEF DispatchOut
  <2>2. ListsOK' /\ OwnersInv'
    BY <1>0, <1>1, <2>1 DEF ListsOK, OwnersInv, Calls
  <2>3. /\ QueuesOK'
        /\ \A j \in Procs : \A k \in Others(j) : Queue(j, k)' = Queue(j, k)
    BY <1>0, <2>1, SameQueues
  <2>4. QueuedInv'
    BY <1>0, <2>1, <2>3, SameStates
  <2>5. OnePlace'
    BY <1>0, <1>1, <2>1, <2>3, NoMove
  <2> QED BY <1>2, <2>2, <2>3, <2>4, <2>5 DEF IInv
<1>4. CASE recvd[i] # {}
  <2>1. PICK to \in [recvd[i] -> Procs] :
          LET away == {p \in recvd[i] : to[p] # i} IN
          /\ recvd' = [recvd EXCEPT ![i] = @ \ away]
          /\ state' = [p \in Packets |-> IF p \in away THEN "DISPATCH" ELSE state[p]]
          /\ SendAndFlush(i, away, to)
    BY <1>4 DEF DispatchOut
  <2> DEFINE away == {p \in recvd[i] : to[p] # i}
  <2>2. /\ recvd' = [recvd EXCEPT ![i] = @ \ away]
        /\ state' = [p \in Packets |-> IF p \in away THEN "DISPATCH" ELSE state[p]]
        /\ SendAndFlush(i, away, to)
    BY <2>1
  <2>3. /\ away \in SUBSET Packets /\ away \in SUBSET recvd[i]
        /\ \A p \in away : to[p] \in Others(i)
    BY <1>0, <2>1 DEF ListsOK, Others
  <2> HIDE DEF away
  <2>4. ListsOK' /\ OwnersInv'
    BY <1>0, <1>1, <2>2, <2>3 DEF ListsOK, OwnersInv, Calls, LfqStates
  <2>5. \A j \in Procs : \A k \in Others(j) : Elements(Queue(j, k)) \cap away = {}
    BY <1>0, <2>3, Apart
  <2>6. /\ QueuesOK'
        /\ \A j \in Others(i) :
             Elements(Queue(i, j)') = Elements(Queue(i, j)) \cup {p \in away : to[p] = j}
        /\ \A k \in Procs \ {i} : \A j \in Others(k) : Queue(k, j)' = Queue(k, j)
    BY <1>0, <2>2, <2>3, <2>5, SendQueues
  <2>7. QueuedInv'
    <3>1. \A k, j : Elements(Queue(k, j))' = Elements(Queue(k, j)')
      BY DEF Elements
    <3>2. ASSUME NEW k \in Procs, NEW j \in Others(k), NEW p \in Elements(Queue(k, j)')
          PROVE  \/ Owner[p] = k /\ state'[p] = "DISPATCH"
                 \/ Owner[p] = j /\ state'[p] = "RECLAIM"
      <4>1. CASE p \in Elements(Queue(k, j))
        <5>1. p \in Packets /\ p \notin away
          BY <1>0, <2>5, <4>1, QueueElements
        <5> QED BY <1>0, <2>2, <4>1, <5>1 DEF QueuedInv
      <4>2. CASE p \notin Elements(Queue(k, j))
        <5>1. k = i /\ p \in away
          BY <2>6, <4>2
        <5>2. p \in Packets /\ Owner[p] = i
          BY <1>0, <2>3, <5>1 DEF OwnersInv, Owned
        <5> QED BY <2>2, <5>1, <5>2
      <4> QED BY <4>1, <4>2
    <3> QED BY <3>1, <3>2 DEF QueuedInv
  <2>8. OnePlace'
    <3>1. PICK kind, at, dest : Located(kind, at, dest)
      BY <1>0 DEF OnePlace
    <3>2. /\ kind \in [Packets -> Kinds] /\ Listed(kind, at) /\ OnTheWay(kind, at, dest)
          /\ dest \in [Packets -> Procs]
      BY <3>1 DEF Located
    <3>3. PICK kind2 \in [Packets -> Kinds] : Become(kind, kind2, away, "queue")
      BY <3>2, KindsAre, Relisted, Zenon
    <3>4. PICK dest2 \in [Packets -> Procs] :
            \A p \in Packets : dest2[p] = IF p \in away THEN to[p] ELSE dest[p]
      <4> DEFINE new == [p \in Packets |-> IF p \in away THEN to[p] ELSE dest[p]]
      <4>1. new \in [Packets -> Procs]
        BY <2>3, <3>2 DEF Others
      <4> QED BY <4>1
    <3>5. Listed(kind2, at)'
      <4>1. /\ recvd'[i] = recvd[i] \ away
            /\ \A j \in Procs : j # i => recvd'[j] = recvd[j]
        BY <1>0, <2>2 DEF ListsOK
      <4>2. \A p \in away : p \in recvd[i]
        BY <2>3
      <4> QED BY <1>1, <3>2, <3>3, <4>1, <4>2 DEF Listed, Become
    <3>6. OnTheWay(kind2, at, dest2)'
      <4>1. \A p \in away : at[p] = i /\ kind[p] # "queue" /\ to[p] \in Others(i)
        BY <2>3, <3>2 DEF Listed
      <4> QED BY <2>6, <3>2, <3>3, <3>4, <4>1, SentOnTheWay
    <3>7. Located(kind2, at, dest2)'
      BY <3>1, <3>5, <3>6 DEF Located
    <3> QED BY <3>7 DEF OnePlace
  <2> QED BY <1>2, <2>4, <2>6, <2>7, <2>8 DEF IInv
<1> QED BY <1>3, <1>4

(* dispatch_reclaim: toReclaim -> queue, to the owner. *)
LEMMA DispatchReclaimKeeps ==
  ASSUME IInv, NEW i \in Procs, DispatchReclaim(i)
  PROVE  IInv'
<1> DEFINE foreign == toReclaim[i] \ Owned(i)
<1>0. ListsOK /\ RxOK /\ TxOK /\ QueuesOK /\ OwnersInv /\ QueuedInv /\ OnePlace
  BY DEF IInv
<1>1. /\ pc' = [pc EXCEPT ![i] = "free"]
      /\ toReclaim' = [toReclaim EXCEPT ![i] = @ \ foreign]
      /\ state' = [p \in Packets |-> IF p \in foreign THEN "RECLAIM" ELSE state[p]]
      /\ UNCHANGED <<free, rxRing, rxFull, recvd, dispd, toFree, tx, sent, done>>
  BY DEF DispatchReclaim, Call, rxVars, txVars
<1>2. /\ foreign \in SUBSET Packets /\ foreign \in SUBSET toReclaim[i]
      /\ \A p \in foreign : Owner[p] \in Others(i)
      /\ toReclaim[i] \ foreign \subseteq Owned(i)
  BY <1>0, FlowAssumption DEF ListsOK, Others, Owned
<1>3. toReclaim[i] = {} => foreign = {} /\ UNCHANGED queues
  BY DEF DispatchReclaim
<1>4. toReclaim[i] # {} => SendAndFlush(i, foreign, Owner)
  BY DEF DispatchReclaim
<1> HIDE DEF foreign
<1>5. ListsOK' /\ OwnersInv'
  BY <1>0, <1>1, <1>2 DEF ListsOK, OwnersInv, Calls, LfqStates
<1>6. RxOK' /\ TxOK'
  BY <1>0, <1>1 DEF RxOK, TxOK
<1>7. \A j \in Procs : \A k \in Others(j) : Elements(Queue(j, k)) \cap foreign = {}
  BY <1>0, <1>2, Apart
<1>8. /\ QueuesOK'
      /\ \A j \in Others(i) :
           Elements(Queue(i, j)') = Elements(Queue(i, j)) \cup {p \in foreign : Owner[p] = j}
      /\ \A k \in Procs \ {i} : \A j \in Others(k) : Queue(k, j)' = Queue(k, j)
  <2>1. CASE toReclaim[i] = {}
    BY <1>0, <1>3, <2>1, SameQueues
  <2>2. CASE toReclaim[i] # {}
    BY <1>0, <1>2, <1>4, <1>7, <2>2, SendQueues
  <2> QED BY <2>1, <2>2
<1>9. QueuedInv'
  <2>1. \A k, j : Elements(Queue(k, j))' = Elements(Queue(k, j)')
    BY DEF Elements
  <2>2. ASSUME NEW k \in Procs, NEW j \in Others(k), NEW p \in Elements(Queue(k, j)')
        PROVE  \/ Owner[p] = k /\ state'[p] = "DISPATCH"
               \/ Owner[p] = j /\ state'[p] = "RECLAIM"
    <3>1. CASE p \in Elements(Queue(k, j))
      <4>1. p \in Packets /\ p \notin foreign
        BY <1>0, <1>7, <3>1, QueueElements
      <4> QED BY <1>0, <1>1, <3>1, <4>1 DEF QueuedInv
    <3>2. CASE p \notin Elements(Queue(k, j))
      <4>1. k = i /\ p \in foreign /\ Owner[p] = j
        BY <1>8, <3>2
      <4> QED BY <1>1, <1>2, <4>1
    <3> QED BY <3>1, <3>2
  <2> QED BY <2>1, <2>2 DEF QueuedInv
<1>10. OnePlace'
  <2>1. PICK kind, at, dest : Located(kind, at, dest)
    BY <1>0 DEF OnePlace
  <2>2. /\ kind \in [Packets -> Kinds] /\ Listed(kind, at) /\ OnTheWay(kind, at, dest)
        /\ dest \in [Packets -> Procs]
    BY <2>1 DEF Located
  <2>3. PICK kind2 \in [Packets -> Kinds] : Become(kind, kind2, foreign, "queue")
    BY <2>2, KindsAre, Relisted, Zenon
  <2>4. PICK dest2 \in [Packets -> Procs] :
          \A p \in Packets : dest2[p] = IF p \in foreign THEN Owner[p] ELSE dest[p]
    <3> DEFINE new == [p \in Packets |-> IF p \in foreign THEN Owner[p] ELSE dest[p]]
    <3>1. new \in [Packets -> Procs]
      BY <1>2, <2>2 DEF Others
    <3> QED BY <3>1
  <2>5. Listed(kind2, at)'
    <3>1. /\ toReclaim'[i] = toReclaim[i] \ foreign
          /\ \A j \in Procs : j # i => toReclaim'[j] = toReclaim[j]
      BY <1>0, <1>1 DEF ListsOK
    <3>2. \A p \in foreign : p \in toReclaim[i]
      BY <1>2
    <3> QED BY <1>1, <2>2, <2>3, <3>1, <3>2 DEF Listed, Become
  <2>6. OnTheWay(kind2, at, dest2)'
    <3>1. \A p \in foreign : at[p] = i /\ kind[p] # "queue" /\ Owner[p] \in Others(i)
      BY <1>2, <2>2 DEF Listed
    <3> QED BY <1>8, <2>2, <2>3, <2>4, <3>1, SentOnTheWay
  <2>7. Located(kind2, at, dest2)'
    BY <2>1, <2>5, <2>6 DEF Located
  <2> QED BY <2>7 DEF OnePlace
<1> QED BY <1>5, <1>6, <1>8, <1>9, <1>10 DEF IInv

(* lfq_recv takes all that is published in the queues to i. *)
Got(i) == UNION {Elements(chan[j][i]) : j \in Others(i)}

(* The queues after that. *)
LEMMA ReceivedQueues ==
  ASSUME QueuesOK, OnePlace, NEW i \in Procs, pending' = pending,
         chan' = [j \in Procs |-> [k \in Others(j) |-> IF k = i THEN <<>> ELSE chan[j][k]]]
  PROVE  /\ QueuesOK'
         /\ \A j \in Procs : \A k \in Others(j) :
              Elements(Queue(j, k)') = Elements(Queue(j, k)) \ Got(i)
         /\ \A p \in Got(i) : \E j \in Others(i) : p \in Elements(Queue(j, i))
<1>1. PICK kind, at, dest : OnTheWay(kind, at, dest)
  BY DEF OnePlace, Located
<1>2. \A p : p \in Got(i) <=> \E j \in Others(i) : p \in Elements(chan[j][i])
  BY DEF Got
<1>3. \A j \in Procs : \A k \in Others(j) :
        /\ chan[j][k] \in Seq(Packets) /\ pending[j][k] \in Seq(Packets)
        /\ Elements(Queue(j, k)) = Elements(chan[j][k]) \cup Elements(pending[j][k])
        /\ Elements(chan[j][k]) \cap Elements(pending[j][k]) = {}
        /\ OneToOne(pending[j][k]) /\ Elements(Queue(j, k)) \subseteq Packets
  BY QueueElements
<1>4. \A j \in Procs : j \in Others(i) <=> i \in Others(j)
  BY DEF Others
<1>5. \A p \in Got(i) : \E j \in Others(i) : p \in Elements(Queue(j, i))
  BY <1>2, <1>3, <1>4 DEF Others
<1>6. ASSUME NEW j \in Procs, NEW k \in Others(j), NEW p \in Got(i), p \in Elements(Queue(j, k))
      PROVE  k = i /\ p \in Elements(chan[j][k])
  <2>1. PICK l \in Others(i) : p \in Elements(chan[l][i])
    BY <1>2
  <2>2. l \in Procs /\ i \in Others(l) /\ p \in Elements(Queue(l, i)) /\ p \in Packets
    BY <1>3, <1>4, <2>1 DEF Others
  <2>3. dest[p] = i /\ at[p] = l
    BY <1>1, <2>2 DEF OnTheWay
  <2>4. dest[p] = k /\ at[p] = j
    BY <1>1, <1>6, <2>2 DEF OnTheWay
  <2> QED BY <2>1, <2>3, <2>4
<1>7. ASSUME NEW j \in Procs, NEW k \in Others(j)
      PROVE  /\ chan'[j][k] \in Seq(Packets) /\ Len(chan'[j][k]) <= QueueSize - 1
             /\ OneToOne(Queue(j, k)')
             /\ Elements(Queue(j, k)') = Elements(Queue(j, k)) \ Got(i)
  <2>1. CASE k = i
    <3>1. chan'[j][k] = <<>>
      BY <2>1
    <3>2. Queue(j, k)' = pending[j][k]
      <4>1. <<>> \o pending[j][k] = pending[j][k]
        BY <1>3, ConcatEmptySeq, Zenon
      <4>2. Queue(j, k)' = chan'[j][k] \o pending'[j][k]
        BY DEF Queue
      <4> QED BY <3>1, <4>1, <4>2, Zenon
    <3>3. Elements(pending[j][k]) = Elements(Queue(j, k)) \ Got(i)
      <4>1. \A p \in Elements(chan[j][k]) : p \in Got(i)
        BY <1>2, <1>4, <2>1
      <4>2. /\ Elements(Queue(j, k)) = Elements(chan[j][k]) \cup Elements(pending[j][k])
            /\ Elements(chan[j][k]) \cap Elements(pending[j][k]) = {}
        BY <1>3
      <4>3. ASSUME NEW p \in Elements(pending[j][k]) PROVE p \notin Got(i)
        BY <1>6, <4>2, <4>3
      <4> QED BY <4>1, <4>2, <4>3
    <3>4. chan'[j][k] \in Seq(Packets) /\ Len(chan'[j][k]) = 0
      BY <3>1, EmptySeq
    <3>5. 0 <= QueueSize - 1
      BY FlowAssumption
    <3> QED BY <1>3, <3>2, <3>3, <3>4, <3>5
  <2>2. CASE k # i
    <3>1. chan'[j][k] = chan[j][k]
      BY <2>2
    <3>2. Queue(j, k)' = Queue(j, k)
      BY <3>1 DEF Queue
    <3>3. Elements(Queue(j, k)) = Elements(Queue(j, k)) \ Got(i)
      BY <1>6, <2>2
    <3> QED BY <1>3, <3>1, <3>2, <3>3 DEF QueuesOK
  <2> QED BY <2>1, <2>2
<1>8. QueuesOK'
  <2>1. DOMAIN chan' = Procs /\ \A j \in Procs : chan'[j] \in [Others(j) -> Seq(Packets)]
    <3>1. \A j \in Procs : chan'[j] = [k \in Others(j) |-> chan'[j][k]]
      OBVIOUS
    <3> QED BY <1>7, <3>1
  <2>2. \A j, k : OneToOne(Queue(j, k))' <=> OneToOne(Queue(j, k)')
    BY DEF OneToOne
  <2> QED BY <1>7, <2>1, <2>2 DEF QueuesOK
<1> QED BY <1>5, <1>7, <1>8

(* dispatch_packet, from lfq_recv on: queue -> dispd, toFree. *)
LEMMA DispatchInKeeps ==
  ASSUME IInv, NEW i \in Procs, DispatchIn(i)
  PROVE  IInv'
<1> DEFINE back == {p \in Got(i) : state[p] = "RECLAIM"}
<1>0. ListsOK /\ RxOK /\ TxOK /\ QueuesOK /\ OwnersInv /\ QueuedInv /\ OnePlace
  BY DEF IInv
<1>1. /\ pc[i] = "dispatched" /\ pc' = [pc EXCEPT ![i] = "process"] /\ pending' = pending
      /\ chan' = [j \in Procs |-> [k \in Others(j) |-> IF k = i THEN <<>> ELSE chan[j][k]]]
      /\ toFree' = [toFree EXCEPT ![i] = @ \cup back]
      /\ dispd' = [dispd EXCEPT ![i] = @ \cup (Got(i) \ back)]
      /\ state' = [p \in Packets |-> IF p \in back THEN "END" ELSE state[p]]
      /\ UNCHANGED <<free, rxRing, rxFull, recvd, toReclaim, tx, sent, done>>
  BY DEF DispatchIn, Call, Got, rxVars, txVars
<1>2. /\ QueuesOK'
      /\ \A j \in Procs : \A k \in Others(j) :
           Elements(Queue(j, k)') = Elements(Queue(j, k)) \ Got(i)
      /\ \A p \in Got(i) : \E j \in Others(i) : p \in Elements(Queue(j, i))
  BY <1>0, <1>1, ReceivedQueues
<1>3. \A p \in back : p \in Got(i) /\ state[p] = "RECLAIM"
  OBVIOUS
<1> HIDE DEF back
<1>4. \A j \in Others(i) : j \in Procs /\ i \in Others(j)
  BY DEF Others
<1>5. \A p \in Got(i) : p \in Packets
  BY <1>0, <1>2, <1>4, QueueElements
<1>6. \A p \in back : Owner[p] = i
  BY <1>0, <1>2, <1>3, <1>4 DEF QueuedInv
<1>7. ListsOK' /\ OwnersInv' /\ RxOK' /\ TxOK'
  <2>1. ListsOK'
    BY <1>0, <1>1, <1>3, <1>5 DEF ListsOK, Calls, LfqStates
  <2>2. OwnersInv'
    BY <1>0, <1>1, <1>3, <1>5, <1>6 DEF ListsOK, OwnersInv, Owned
  <2>3. RxOK' /\ TxOK'
    BY <1>0, <1>1 DEF RxOK, TxOK
  <2> QED BY <2>1, <2>2, <2>3
<1>8. QueuedInv'
  <2>1. ASSUME NEW j \in Procs, NEW k \in Others(j), NEW p \in Elements(Queue(j, k)')
        PROVE  p \in Packets /\ p \notin back /\ p \in Elements(Queue(j, k))
    BY <1>0, <1>2, <1>3, QueueElements
  <2>2. \A j \in Procs : \A k \in Others(j) :
           /\ Elements(Queue(j, k)') \subseteq Elements(Queue(j, k))
           /\ \A p \in Elements(Queue(j, k)') : state'[p] = state[p]
    BY <1>1, <2>1
  <2> QED BY <1>0, <2>2, SameStates
<1>9. OnePlace'
  <2>1. PICK kind, at, dest : Located(kind, at, dest)
    BY <1>0 DEF OnePlace
  <2>2. /\ kind \in [Packets -> Kinds] /\ Listed(kind, at) /\ OnTheWay(kind, at, dest)
        /\ at \in [Packets -> Procs] /\ dest \in [Packets -> Procs]
    BY <2>1 DEF Located
  <2>3. PICK kind1 \in [Packets -> Kinds] : Become(kind, kind1, Got(i), "dispd")
    BY <2>2, KindsAre, Relisted, Zenon
  <2>4. PICK kind2 \in [Packets -> Kinds] : Become(kind1, kind2, back, "toFree")
    BY KindsAre, Relisted, Zenon
  <2>5. PICK at2 \in [Packets -> Procs] :
          \A p \in Packets : at2[p] = IF p \in Got(i) THEN i ELSE at[p]
    <3> DEFINE new == [p \in Packets |-> IF p \in Got(i) THEN i ELSE at[p]]
    <3>1. new \in [Packets -> Procs]
      BY <2>2
    <3> QED BY <3>1
  <2>6. \A p \in Got(i) : kind[p] = "queue"
    BY <1>2, <1>4, <1>5, <2>2 DEF OnTheWay
  <2>7. Listed(kind2, at2)'
    <3>1. /\ toFree'[i] = toFree[i] \cup back /\ dispd'[i] = dispd[i] \cup (Got(i) \ back)
          /\ \A j \in Procs : j # i => toFree'[j] = toFree[j] /\ dispd'[j] = dispd[j]
      BY <1>0, <1>1 DEF ListsOK
    <3> QED BY <1>1, <1>3, <2>2, <2>3, <2>4, <2>5, <2>6, <3>1 DEF Listed, Become
  <2>8. OnTheWay(kind2, at2, dest)'
    <3>1. \A j, k : Elements(Queue(j, k))' = Elements(Queue(j, k)')
      BY DEF Elements
    <3>2. \A p \in Packets : kind2[p] = "queue" => kind[p] = "queue" /\ p \notin Got(i)
      BY <1>3, <2>3, <2>4 DEF Become
    <3>3. \A p \in Packets : p \notin Got(i) => kind2[p] = kind[p] /\ at2[p] = at[p]
      BY <1>3, <2>3, <2>4, <2>5 DEF Become
    <3> QED BY <1>2, <2>2, <3>1, <3>2, <3>3 DEF OnTheWay
  <2>9. Located(kind2, at2, dest)'
    BY <2>2, <2>7, <2>8 DEF Located
  <2> QED BY <2>9 DEF OnePlace
<1> QED BY <1>2, <1>7, <1>8, <1>9 DEF IInv

-----------------------------------------------------------------------------
(* At the start every buffer is free or in an ARP request of its owner. *)
THEOREM Initial == Init => IInv
<1> SUFFICES ASSUME Init PROVE IInv
  OBVIOUS
<1>1. ASSUME NEW i \in Procs
      PROVE  tx[i] \in Seq(Packets) /\ OneToOne(tx[i]) /\ Elements(tx[i]) \subseteq Owned(i)
  <2>1. PICK s \in SUBSET Owned(i) : tx[i] \in SetToSeqs(s)
    BY DEF Init, Requests
  <2>2. s \in SUBSET Packets
    BY DEF Owned
  <2> QED BY <2>1, <2>2, SeqOfSet
<1>2. tx \in [Procs -> Seq(Packets)]
  BY <1>1 DEF Init
<1>3. \A i \in Procs : /\ free[i] = Owned(i) \ Elements(tx[i]) /\ pc[i] = "alloc"
                      /\ rxRing[i] = {} /\ rxFull[i] = {} /\ recvd[i] = {} /\ dispd[i] = {}
                      /\ toFree[i] = {} /\ toReclaim[i] = {}
                      /\ sent[i] = 0 /\ done[i] = 0
  BY DEF Init, Empty
<1>4. \A i \in Procs : \A j \in Others(i) : pending[i][j] = <<>> /\ chan[i][j] = <<>>
  BY DEF Init, NoQueues
<1>5. ListsOK
  <2>1. \A i \in Procs : Owned(i) \subseteq Packets
    BY DEF Owned
  <2> QED BY <2>1 DEF Init, Empty, ListsOK, Calls, LfqStates
<1>6. RxOK
  <2>1. Cardinality({}) = 0 /\ 0 <= RxSize - 1
    BY FS_EmptySet, FlowAssumption
  <2> QED BY <1>3, <2>1 DEF RxOK
<1>7. TxOK
  <2>1. \A i \in Procs : 0 <= AtMost(Len(tx[i]), TxSize - 1)
    BY <1>2, FlowAssumption DEF AtMost
  <2>2. sent \in [Procs -> Nat] /\ done \in [Procs -> Nat]
    BY DEF Init
  <2> QED BY <1>1, <1>2, <1>3, <2>1, <2>2 DEF TxOK
<1>8. \A i \in Procs : \A j \in Others(i) :
        Queue(i, j) = <<>> /\ Elements(Queue(i, j)) = {} /\ OneToOne(Queue(i, j))
  <2>1. <<>> \o <<>> = <<>>
    OBVIOUS
  <2>2. Elements(<<>>) = {} /\ OneToOne(<<>>)
    BY DEF Elements, OneToOne
  <2> QED BY <1>4, <2>1, <2>2 DEF Queue
<1>9. QueuesOK
  <2>1. <<>> \in Seq(Packets) /\ Len(<<>>) = 0 /\ 0 <= QueueSize - 1
    BY EmptySeq, FlowAssumption
  <2>2. /\ DOMAIN pending = Procs /\ DOMAIN chan = Procs
        /\ \A i \in Procs : pending[i] = [j \in Others(i) |-> <<>>]
        /\ \A i \in Procs : chan[i] = [j \in Others(i) |-> <<>>]
    BY DEF Init, NoQueues
  <2> QED BY <1>4, <1>8, <2>1, <2>2 DEF QueuesOK
<1>10. OwnersInv /\ QueuedInv
  BY <1>3, <1>8 DEF OwnersInv, QueuedInv
<1>11. OnePlace
  <2> DEFINE kind == [p \in Packets |-> IF p \in Elements(tx[Owner[p]]) THEN "tx" ELSE "free"]
  <2>1. kind \in [Packets -> Kinds] /\ Owner \in [Packets -> Procs]
    BY KindsAre, FlowAssumption
  <2>2. Listed(kind, Owner)
    BY <1>1, <1>3, <2>1 DEF Listed, Owned
  <2>3. OnTheWay(kind, Owner, Owner)
    BY <1>8 DEF OnTheWay
  <2>4. Located(kind, Owner, Owner)
    BY <2>1, <2>2, <2>3 DEF Located
  <2> QED BY <2>4 DEF OnePlace
<1> QED BY <1>5, <1>6, <1>7, <1>9, <1>10, <1>11 DEF IInv

(* No call of main_loop() and no step of the NIC breaks the invariant. *)
THEOREM Inductive == IInv /\ [Next]_vars => IInv'
<1> SUFFICES ASSUME IInv, [Next]_vars PROVE IInv'
  OBVIOUS
<1>1. ASSUME NEW i \in Procs, Step(i) PROVE IInv'
  BY <1>1, AllocRxKeeps, RecvKeeps, DispatchOutKeeps, DispatchInKeeps, ProcessKeeps,
     ReclaimTxKeeps, DispatchReclaimKeeps, ReclaimZoneKeeps, SendKeeps, DispatchFlushKeeps
     DEF Step
<1>2. ASSUME NEW i \in Procs, FrameArrives(i) \/ FrameSent(i) PROVE IInv'
  BY <1>2, NicKeeps
<1>3. CASE UNCHANGED vars
  <2>1. /\ UNCHANGED <<pc, free, rxRing, rxFull, recvd, dispd, toFree, toReclaim, tx, sent, done,
                       state>>
        /\ UNCHANGED queues
    BY <1>3 DEF vars, rxVars, lists, txVars
  <2>2. ListsOK /\ RxOK /\ TxOK /\ QueuesOK /\ OwnersInv /\ QueuedInv /\ OnePlace
    BY DEF IInv
  <2>3. ListsOK' /\ RxOK' /\ TxOK' /\ OwnersInv'
    BY <2>1, <2>2 DEF ListsOK, RxOK, TxOK, OwnersInv
  <2>4. /\ QueuesOK'
        /\ \A j \in Procs : \A k \in Others(j) : Queue(j, k)' = Queue(j, k)
    BY <2>1, <2>2, SameQueues
  <2>5. QueuedInv'
    BY <2>1, <2>2, <2>4, SameStates
  <2>6. OnePlace'
    BY <2>1, <2>2, <2>4, NoMove
  <2> QED BY <2>3, <2>4, <2>5, <2>6 DEF IInv
<1> QED BY <1>1, <1>2, <1>3 DEF Next

(* The invariant holds whatever the processes and the NICs do. *)
THEOREM Invariance == Spec => []IInv
BY Initial, Inductive, PTL DEF Spec

(* The rings and queues never hold more than they have descriptors for. *)
THEOREM TypeCorrect == Spec => []TypeOK
<1>1. IInv => TypeOK
  BY DEF IInv, ListsOK, RxOK, TxOK, QueuesOK, TypeOK
<1> QED BY <1>1, Invariance, PTL

(* A process gives the NIC buffers of its own zone only; a foreign buffer  *)
(* never ends in its free pool.                                            *)
THEOREM OwnersKept == Spec => []OwnBuffersOnly
<1>1. IInv => OwnBuffersOnly
  BY DEF IInv, OwnersInv, OwnBuffersOnly
<1> QED BY <1>1, Invariance, PTL

(* dispatch_packet() never receives a packet in a state for which it would *)
(* exit, and never processes one that its owner should free.               *)
THEOREM QueuedOnTheWay == Spec => []QueuedStates
<1>1. IInv => QueuedStates
  <2> SUFFICES ASSUME IInv, NEW i \in Procs, NEW j \in Others(i),
                      NEW p \in Elements(pending[i][j]) \cup Elements(chan[i][j])
               PROVE  \/ Owner[p] = i /\ state[p] = "DISPATCH"
                      \/ Owner[p] = j /\ state[p] = "RECLAIM"
    BY DEF QueuedStates
  <2>1. p \in Elements(Queue(i, j))
    BY QueueElements DEF IInv
  <2> QED BY <2>1 DEF IInv, QueuedInv
<1> QED BY <1>1, Invariance, PTL

(* A buffer with one place is counted once. *)
LEMMA ConservedWhere == IInv => Conservation
<1> SUFFICES ASSUME IInv, NEW p \in Packets
             PROVE  Cardinality(InLists(p)) + Cardinality(InTx(p)) + Cardinality(InQueues(p)) = 1
  BY DEF Conservation
<1>1. PICK kind, at, dest : Located(kind, at, dest)
  BY DEF IInv, OnePlace
<1>2. /\ kind[p] \in Kinds /\ at[p] \in Procs /\ dest[p] \in Procs
      /\ Listed(kind, at) /\ OnTheWay(kind, at, dest) /\ TxOK /\ QueuesOK
  BY <1>1 DEF Located, IInv
<1>3. InLists(p) = IF kind[p] \in ListNames THEN {<<at[p], kind[p]>>} ELSE {}
  <2>1. ASSUME NEW i \in Procs, NEW l \in ListNames
        PROVE  p \in Lists(i)[l] <=> kind[p] = l /\ at[p] = i
    BY <1>2, <2>1 DEF Listed, Lists, ListNames
  <2>2. \A x : x \in InLists(p) <=> x \in Procs \X ListNames /\ kind[p] = x[2] /\ at[p] = x[1]
    BY <2>1 DEF InLists
  <2> QED BY <1>2, <2>2
<1>4. \/ kind[p] # "tx" /\ InTx(p) = {}
      \/ kind[p] = "tx" /\ \E x : InTx(p) = {x}
  <2>1. \A x : x \in InTx(p) <=> \E i \in Procs : \E k \in DOMAIN tx[i] : x = <<i, k>> /\ tx[i][k] = p
    BY DEF InTx
  <2>2. \A i \in Procs : (\E k \in DOMAIN tx[i] : tx[i][k] = p) <=> kind[p] = "tx" /\ at[p] = i
    BY <1>2 DEF Listed, Elements
  <2>3. \A i \in Procs : \A k, l \in DOMAIN tx[i] : tx[i][k] = tx[i][l] => k = l
    BY <1>2 DEF TxOK, OneToOne
  <2>4. CASE kind[p] # "tx"
    BY <2>1, <2>2, <2>4
  <2>5. CASE kind[p] = "tx"
    <3>1. PICK k \in DOMAIN tx[at[p]] : tx[at[p]][k] = p
      BY <1>2, <2>2, <2>5
    <3>2. \A x : x \in InTx(p) <=> x = <<at[p], k>>
      BY <1>2, <2>1, <2>2, <2>3, <2>5, <3>1
    <3>3. InTx(p) = {<<at[p], k>>}
      BY <3>2
    <3> QED BY <2>5, <3>3
  <2> QED BY <2>4, <2>5
<1>5. \/ kind[p] # "queue" /\ InQueues(p) = {}
      \/ kind[p] = "queue" /\ \E x : InQueues(p) = {x}
  <2>1. \A x : x \in InQueues(p) <=>
          \E i \in Procs : \E j \in Others(i) : \E k \in DOMAIN Queue(i, j) :
            x = <<<<i, j>>, k>> /\ Queue(i, j)[k] = p
    BY DEF InQueues, Others
  <2>2. \A i \in Procs : \A j \in Others(i) :
          (\E k \in DOMAIN Queue(i, j) : Queue(i, j)[k] = p)
            <=> kind[p] = "queue" /\ at[p] = i /\ dest[p] = j
    BY <1>2 DEF OnTheWay, Elements
  <2>3. \A i \in Procs : \A j \in Others(i) : \A k, l \in DOMAIN Queue(i, j) :
          Queue(i, j)[k] = Queue(i, j)[l] => k = l
    <3> SUFFICES ASSUME NEW i \in Procs, NEW j \in Others(i)
                 PROVE  \A k, l \in DOMAIN Queue(i, j) : Queue(i, j)[k] = Queue(i, j)[l] => k = l
      OBVIOUS
    <3>1. Queue(i, j) \in Seq(Packets) /\ OneToOne(Queue(i, j))
      BY <1>2, QueueElements DEF QueuesOK
    <3> QED BY <3>1 DEF OneToOne
  <2>4. CASE kind[p] # "queue"
    BY <2>1, <2>2, <2>4
  <2>5. CASE kind[p] = "queue"
    <3>0. dest[p] \in Others(at[p])
      BY <1>2, <2>5 DEF OnTheWay, Others
    <3>1. PICK k \in DOMAIN Queue(at[p], dest[p]) : Queue(at[p], dest[p])[k] = p
      BY <1>2, <2>2, <2>5, <3>0
    <3>2. \A x : x \in InQueues(p) <=> x = <<<<at[p], dest[p]>>, k>>
      BY <1>2, <2>1, <2>2, <2>3, <2>5, <3>0, <3>1
    <3>3. InQueues(p) = {<<<<at[p], dest[p]>>, k>>}
      BY <3>2
    <3> QED BY <2>5, <3>3
  <2> QED BY <2>4, <2>5
<1>6. Cardinality({}) = 0 /\ \A x : Cardinality({x}) = 1
  BY FS_EmptySet, FS_Singleton
<1>7. /\ kind[p] \in ListNames => kind[p] # "tx" /\ kind[p] # "queue"
      /\ kind[p] \in ListNames \/ kind[p] = "tx" \/ kind[p] = "queue"
  BY <1>2 DEF Kinds, ListNames
<1>8. CASE kind[p] \in ListNames
  <2>1. Cardinality(InLists(p)) = 1 /\ Cardinality(InTx(p)) = 0 /\ Cardinality(InQueues(p)) = 0
    BY <1>3, <1>4, <1>5, <1>6, <1>7, <1>8, Zenon
  <2> QED BY <2>1
<1>9. CASE kind[p] = "tx"
  <2>1. Cardinality(InLists(p)) = 0 /\ Cardinality(InTx(p)) = 1 /\ Cardinality(InQueues(p)) = 0
    BY <1>3, <1>4, <1>5, <1>6, <1>7, <1>9
  <2> QED BY <2>1
<1>10. CASE kind[p] = "queue"
  <2>1. Cardinality(InLists(p)) = 0 /\ Cardinality(InTx(p)) = 0 /\ Cardinality(InQueues(p)) = 1
    BY <1>3, <1>4, <1>5, <1>6, <1>7, <1>10
  <2> QED BY <2>1
<1> QED BY <1>7, <1>8, <1>9, <1>10

(* No buffer is ever lost, and none is used for two things at once. *)
THEOREM NothingLost == Spec => []Conservation
BY ConservedWhere, Invariance, PTL
=============================================================================
