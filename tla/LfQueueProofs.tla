--------------------------- MODULE LfQueueProofs ---------------------------
(***************************************************************************)
(* Proofs about LfQueue, and about its start in LfQueueBoot, for every     *)
(* ring size and every set of packets.                                     *)
(*                                                                         *)
(* The argument is one about cyclic order.  The sender works from a copy   *)
(* sndHead of <head> that may be old, the receiver from a copy rcvTail of  *)
(* <tail> that may be old.  Walking around the ring from the old head one  *)
(* meets                                                                   *)
(*    sndHead  head  rcvI  rcvTail  tail  sndI                             *)
(* in this order before meeting sndHead again, so neither process can run  *)
(* over the other however stale its copy is.                               *)
(***************************************************************************)
EXTENDS LfQueueBoot, SequenceTheorems, TLAPS

(* The sender's copy of <tail> is exact; its copy of <head> is behind.     *)
SenderInv ==
  /\ sndPc \in {"tail", "put"} => Dist(sndHead, head) <= Dist(sndHead, tail)
  /\ sndPc = "put" => /\ sndTail = tail
                      /\ Dist(sndHead, tail) <= Dist(sndHead, sndI)

(* The receiver's copy of <head> is exact; its copy of <tail> is behind.   *)
ReceiverInv ==
  /\ rcvPc \in {"tail", "get"} => rcvHead = head
  /\ rcvPc = "tail" => rcvI = head
  /\ rcvPc = "get" => /\ Dist(head, rcvI) <= Dist(head, rcvTail)
                      /\ Dist(head, rcvTail) <= Dist(head, tail)

(* Every descriptor between <head> and the sender's position was written. *)
WrittenInv ==
  \A s \in Slot : Dist(head, s) < Dist(head, WriteEnd) => desc[s] \in Packets

(* The inductive invariant. *)
IInv ==
  /\ TypeOK
  /\ NoExit
  /\ SenderInv
  /\ ReceiverInv
  /\ WrittenInv

-----------------------------------------------------------------------------
(* The sender's position is between <tail> and the slot before <head>. *)
LEMMA CyclicOrder ==
  ASSUME TypeOK, SenderInv
  PROVE  Dist(head, tail) + Dist(tail, WriteEnd) <= Size - 1
<1>1. CASE sndPc = "put"
  BY <1>1, SizeAssumption DEF TypeOK, SenderInv, Dist, WriteEnd, Slot
<1>2. CASE sndPc # "put"
  BY <1>2, SizeAssumption DEF TypeOK, SenderInv, Dist, WriteEnd, Slot
<1> QED BY <1>1, <1>2

THEOREM Initial == Init => IInv
<1> SUFFICES ASSUME Init PROVE IInv
  OBVIOUS
<1>1. TypeOK
  BY SizeAssumption DEF Init, TypeOK, Slot
<1>2. NoExit /\ SenderInv /\ ReceiverInv
  BY DEF Init, NoExit, SenderInv, ReceiverInv
<1>3. WrittenInv
  BY SizeAssumption DEF Init, WrittenInv, WriteEnd, Dist, Slot
<1> QED BY <1>1, <1>2, <1>3 DEF IInv

THEOREM Inductive == IInv /\ [Next]_vars => IInv'
<1> SUFFICES ASSUME IInv, [Next]_vars PROVE IInv'
  OBVIOUS
<1> USE SizeAssumption
<1>1. ASSUME NEW p \in Packets, Send(p) PROVE IInv'
  <2>1. TypeOK' /\ NoExit'
    BY <1>1 DEF IInv, Send, TypeOK, NoExit, sndVars, rcvVars
  <2>2. SenderInv' /\ ReceiverInv'
    BY <1>1 DEF IInv, Send, SenderInv, ReceiverInv, sndVars, rcvVars, Dist
  <2>3. WrittenInv'
    BY <1>1 DEF IInv, Send, WrittenInv, WriteEnd, sndVars, Dist
  <2> QED BY <2>1, <2>2, <2>3 DEF IInv
<1>2. CASE PutReadHead
  <2>1. TypeOK' /\ NoExit'
    BY <1>2 DEF IInv, PutReadHead, TypeOK, NoExit, rcvVars
  <2>2. SenderInv'
    BY <1>2 DEF IInv, PutReadHead, TypeOK, SenderInv, Dist, Slot
  <2>3. ReceiverInv'
    BY <1>2 DEF IInv, PutReadHead, ReceiverInv, rcvVars, Dist
  <2>4. WrittenInv'
    BY <1>2 DEF IInv, PutReadHead, WrittenInv, WriteEnd, Dist
  <2> QED BY <2>1, <2>2, <2>3, <2>4 DEF IInv
<1>3. CASE PutReadTail
  <2>1. TypeOK' /\ NoExit'
    BY <1>3 DEF IInv, PutReadTail, TypeOK, NoExit, rcvVars
  <2>2. SenderInv'
    BY <1>3 DEF IInv, PutReadTail, TypeOK, SenderInv, Dist, Slot
  <2>3. ReceiverInv'
    BY <1>3 DEF IInv, PutReadTail, ReceiverInv, rcvVars, Dist
  <2>4. WrittenInv'
    BY <1>3 DEF IInv, PutReadTail, WrittenInv, WriteEnd, Dist
  <2> QED BY <2>1, <2>2, <2>3, <2>4 DEF IInv
<1>4. CASE PutPacket
  <2>0. sndI \in Slot /\ NextSlot(sndI) \in Slot
    BY DEF IInv, TypeOK, Slot, NextSlot
  <2>1. Head(staged) \in Packets /\ Tail(staged) \in Seq(Packets)
    BY <1>4 DEF IInv, TypeOK, PutPacket
  <2>2. TypeOK'
    BY <1>4, <2>0, <2>1 DEF IInv, PutPacket, TypeOK, rcvVars
  <2>3. NoExit'
    BY <1>4 DEF IInv, PutPacket, NoExit, rcvVars
  <2>4. SenderInv'
    BY <1>4, <2>0 DEF IInv, PutPacket, TypeOK, SenderInv, Dist, Slot, NextSlot
  <2>5. ReceiverInv'
    BY <1>4 DEF IInv, PutPacket, ReceiverInv, rcvVars, Dist
  <2>6. WrittenInv'
    <3> SUFFICES ASSUME NEW s \in Slot, Dist(head, s) < Dist(head, NextSlot(sndI))
                 PROVE  desc'[s] \in Packets
      BY <1>4 DEF PutPacket, WrittenInv, WriteEnd, Dist
    <3>1. CASE s = sndI
      BY <1>4, <2>0, <2>1, <3>1 DEF PutPacket, IInv, TypeOK
    <3>2. CASE s # sndI
      <4>1. Dist(head, s) < Dist(head, sndI)
        BY <1>4, <2>0, <3>2
        DEF IInv, PutPacket, TypeOK, SenderInv, Dist, Slot, NextSlot
      <4>2. desc[s] \in Packets
        BY <1>4, <4>1 DEF IInv, PutPacket, WrittenInv, WriteEnd
      <4> QED BY <1>4, <3>2, <4>2 DEF PutPacket, IInv, TypeOK
    <3> QED BY <3>1, <3>2
  <2> QED BY <2>2, <2>3, <2>4, <2>5, <2>6 DEF IInv
<1>5. CASE PutCommit
  <2>1. sndPc = "put" /\ sndTail = tail /\ tail' = sndI /\ sndPc' = "idle"
    BY <1>5 DEF IInv, PutCommit, SenderInv
  <2>2. UNCHANGED <<home, staged, desc, head, sndHead, sndTail, sndI, rcvPc,
                    rcvHead, rcvTail, rcvI, recv>>
    BY <1>5 DEF PutCommit, rcvVars
  <2>3. TypeOK' /\ NoExit'
    BY <2>1, <2>2 DEF IInv, TypeOK, NoExit
  <2>4. SenderInv'
    BY <2>1 DEF SenderInv
  <2>5. Dist(head, tail) <= Dist(head, sndI)
    BY <2>1 DEF IInv, TypeOK, SenderInv, Dist, Slot
  <2>6. ReceiverInv'
    BY <2>1, <2>2, <2>5 DEF IInv, TypeOK, ReceiverInv, Dist, Slot
  <2>7. WrittenInv'
    BY <2>1, <2>2 DEF IInv, WrittenInv, WriteEnd, Dist
  <2> QED BY <2>3, <2>4, <2>6, <2>7 DEF IInv
<1>6. CASE GetReadHead
  <2>1. TypeOK' /\ NoExit'
    BY <1>6 DEF IInv, GetReadHead, TypeOK, NoExit, sndVars
  <2>2. SenderInv' /\ ReceiverInv'
    BY <1>6 DEF IInv, GetReadHead, SenderInv, ReceiverInv, sndVars, Dist
  <2>3. WrittenInv'
    BY <1>6 DEF IInv, GetReadHead, WrittenInv, WriteEnd, sndVars, Dist
  <2> QED BY <2>1, <2>2, <2>3 DEF IInv
<1>7. CASE GetReadTail
  <2>1. TypeOK' /\ NoExit'
    BY <1>7 DEF IInv, GetReadTail, TypeOK, NoExit, sndVars
  <2>2. SenderInv'
    BY <1>7 DEF IInv, GetReadTail, SenderInv, sndVars, Dist
  <2>3. ReceiverInv'
    BY <1>7 DEF IInv, GetReadTail, TypeOK, ReceiverInv, Dist, Slot
  <2>4. WrittenInv'
    BY <1>7 DEF IInv, GetReadTail, WrittenInv, WriteEnd, sndVars, Dist
  <2> QED BY <2>1, <2>2, <2>3, <2>4 DEF IInv
<1>8. CASE GetPacket
  <2>0. NextSlot(rcvI) \in Slot
    BY DEF IInv, TypeOK, Slot, NextSlot
  <2>1. Dist(head, tail) <= Dist(head, WriteEnd)
    BY CyclicOrder DEF IInv, TypeOK, WriteEnd, Dist, Slot
  <2>2. Dist(head, rcvI) < Dist(head, WriteEnd)
    BY <1>8, <2>1 DEF IInv, TypeOK, GetPacket, ReceiverInv, Dist, Slot, WriteEnd
  <2>3. desc[rcvI] \in Packets
    BY <2>2 DEF IInv, TypeOK, WrittenInv
  <2>4. TypeOK'
    BY <1>8, <2>0, <2>3 DEF IInv, GetPacket, TypeOK, sndVars
  <2>5. NoExit' /\ SenderInv'
    BY <1>8 DEF IInv, GetPacket, NoExit, SenderInv, sndVars, Dist
  <2>6. ReceiverInv'
    BY <1>8 DEF IInv, GetPacket, TypeOK, ReceiverInv, Dist, Slot, NextSlot
  <2>7. WrittenInv'
    BY <1>8 DEF IInv, GetPacket, WrittenInv, WriteEnd, sndVars, Dist
  <2> QED BY <2>4, <2>5, <2>6, <2>7 DEF IInv
<1>9. CASE GetCommit
  <2>1. rcvPc = "get" /\ rcvI = rcvTail /\ rcvHead = head /\ head' = rcvI
        /\ rcvPc' = "process"
    BY <1>9 DEF IInv, GetCommit, ReceiverInv
  <2>2. UNCHANGED <<home, staged, desc, tail, sndPc, sndHead, sndTail, sndI,
                    rcvHead, rcvTail, rcvI, recv>>
    BY <1>9 DEF GetCommit, sndVars
  <2>3. TypeOK' /\ NoExit'
    BY <2>1, <2>2 DEF IInv, TypeOK, NoExit
  <2>4. ReceiverInv'
    BY <2>1 DEF ReceiverInv
  <2>5. SenderInv'
    BY <2>1, <2>2 DEF IInv, TypeOK, SenderInv, ReceiverInv, Dist, Slot
  <2>6. WrittenInv'
    <3> SUFFICES ASSUME NEW s \in Slot, Dist(rcvI, s) < Dist(rcvI, WriteEnd)
                 PROVE  desc[s] \in Packets
      BY <2>1, <2>2 DEF WrittenInv, WriteEnd, Dist
    <3>1. Dist(head, tail) + Dist(tail, WriteEnd) <= Size - 1
      BY CyclicOrder DEF IInv
    <3>2. Dist(head, rcvI) <= Dist(head, tail)
      BY <2>1 DEF IInv, ReceiverInv
    <3>3. WriteEnd \in Slot
      BY DEF IInv, TypeOK, WriteEnd
    <3>4. Dist(head, s) < Dist(head, WriteEnd)
      BY <3>1, <3>2, <3>3 DEF IInv, TypeOK, Dist, Slot
    <3> QED BY <3>4 DEF IInv, WrittenInv
  <2> QED BY <2>3, <2>4, <2>5, <2>6 DEF IInv
<1>10. CASE ProcessReceived
  <2>1. \A k \in 1..Len(recv) : recv[k] \in Packets
    BY DEF IInv, TypeOK
  <2>2. TypeOK'
    BY <1>10, <2>1 DEF IInv, ProcessReceived, TypeOK, sndVars
  <2>3. NoExit' /\ SenderInv' /\ ReceiverInv'
    BY <1>10 DEF IInv, ProcessReceived, NoExit, SenderInv, ReceiverInv, sndVars, Dist
  <2>4. WrittenInv'
    BY <1>10 DEF IInv, ProcessReceived, WrittenInv, WriteEnd, sndVars, Dist
  <2> QED BY <2>2, <2>3, <2>4 DEF IInv
<1>11. CASE UNCHANGED vars
  BY <1>11 DEF IInv, vars, sndVars, rcvVars, TypeOK, NoExit, SenderInv,
               ReceiverInv, WrittenInv, WriteEnd, Dist
<1> QED
  BY <1>1, <1>2, <1>3, <1>4, <1>5, <1>6, <1>7, <1>8, <1>9, <1>10, <1>11
  DEF Next, Put, Get

THEOREM Invariance == Spec => []IInv
<1> QED BY Initial, Inductive, PTL DEF Spec

(* Whatever the interleaving, indexes stay on the ring and the receiver's  *)
(* list holds packets only, never the contents of an unwritten descriptor. *)
THEOREM TypeCorrect == Spec => []TypeOK
<1>1. IInv => TypeOK
  BY DEF IInv
<1> QED BY Invariance, <1>1, PTL

(* The exit(-1) after a failed compare-and-swap is unreachable for two     *)
(* processes that start after lfq_module_init().                           *)
THEOREM NeverExits == Spec => []NoExit
<1>1. IInv => NoExit
  BY DEF IInv
<1> QED BY Invariance, <1>1, PTL

(* __put_packet_to_queue never writes a descriptor between <head> and      *)
(* <tail>, and always leaves one descriptor free.                          *)
THEOREM NeverOverruns == Spec => []NoOverrun
<1>1. IInv => NoOverrun
  BY CyclicOrder DEF IInv, NoOverrun
<1> QED BY Invariance, <1>1, PTL

(* __get_packet_from_queue never reads a descriptor that the sender has    *)
(* not yet published.                                                      *)
THEOREM NeverUnderruns == Spec => []NoUnderrun
<1>1. IInv => NoUnderrun
  BY SizeAssumption DEF IInv, TypeOK, ReceiverInv, NoUnderrun, Dist, Slot
<1> QED BY Invariance, <1>1, PTL

-----------------------------------------------------------------------------
(* The refinement.  A stretch of the ring d from slot i up to j is a       *)
(* sequence; the lemmas say what it is when it is joined to the next one,  *)
(* when a slot elsewhere is written, and when it grows or shrinks by one.  *)
RingIn(d, i, j) == [k \in 1..Dist(i, j) |-> d[At(i, k - 1)]]

Descs == Packets \cup {NoPacket}
Rings == [Slot -> Descs]

LEMMA SlotArith ==
  ASSUME NEW i \in Slot, NEW j \in Slot
  PROVE  /\ Size \in Nat \ {0} /\ i \in Nat /\ j \in Nat /\ i < Size /\ j < Size
         /\ Dist(i, j) \in 0..(Size - 1)
         /\ Dist(i, j) = 0 <=> i = j
         /\ \A k \in 0..(Size - 1) : At(i, k) \in Slot /\ Dist(i, At(i, k)) = k
         /\ At(i, Dist(i, j)) = j
BY SizeAssumption DEF Slot, Dist, At

LEMMA RingSeq ==
  ASSUME NEW d \in Rings, NEW i \in Slot, NEW j \in Slot
  PROVE  /\ RingIn(d, i, j) \in Seq(Descs)
         /\ Len(RingIn(d, i, j)) = Dist(i, j) /\ Dist(i, j) \in Nat
         /\ \A k \in 1..Dist(i, j) : RingIn(d, i, j)[k] = d[At(i, k - 1)]
<1>1. Dist(i, j) \in Nat /\ Dist(i, j) <= Size - 1 /\ Size \in Nat
  BY SlotArith
<1>2. \A k \in 1..Dist(i, j) : k - 1 \in 0..(Size - 1)
  BY <1>1
<1>3. \A k \in 1..Dist(i, j) : d[At(i, k - 1)] \in Descs
  BY <1>2, SlotArith DEF Rings
<1> DEFINE n == Dist(i, j)
<1> HIDE DEF n
<1>4. [k \in 1..n |-> d[At(i, k - 1)]] \in Seq(Descs)
  BY <1>1, <1>3, IsASeq DEF n
<1>5. Len([k \in 1..n |-> d[At(i, k - 1)]]) = n
  BY <1>1 DEF n
<1> QED BY <1>1, <1>4, <1>5 DEF n, RingIn

LEMMA RingJoined ==
  ASSUME NEW d \in Rings, NEW i \in Slot, NEW j \in Slot, NEW m \in Slot,
         Dist(i, j) + Dist(j, m) <= Size - 1
  PROVE  RingIn(d, i, m) = RingIn(d, i, j) \o RingIn(d, j, m)
<1>1. Dist(i, m) = Dist(i, j) + Dist(j, m)
  BY SizeAssumption DEF Dist, Slot
<1>2. /\ Dist(i, j) \in Nat /\ Dist(j, m) \in Nat /\ Size \in Nat
      /\ \A k \in 1..Dist(j, m) : At(i, Dist(i, j) + k - 1) = At(j, k - 1)
  BY SizeAssumption DEF Dist, Slot, At
<1> DEFINE s == RingIn(d, i, j)
           t == RingIn(d, j, m)
           u == RingIn(d, i, m)
           v == s \o t
           a == Dist(i, j)
           b == Dist(j, m)
<1>3. s \in Seq(Descs) /\ Len(s) = a /\ \A k \in 1..a : s[k] = d[At(i, k - 1)]
  BY RingSeq
<1>4. t \in Seq(Descs) /\ Len(t) = b /\ \A k \in 1..b : t[k] = d[At(j, k - 1)]
  BY RingSeq
<1>5. u \in Seq(Descs) /\ Len(u) = a + b /\ \A k \in 1..(a + b) : u[k] = d[At(i, k - 1)]
  BY <1>1, RingSeq
<1>6. a \in Nat /\ b \in Nat /\ \A k \in 1..b : At(i, a + k - 1) = At(j, k - 1)
  BY <1>2
<1> HIDE DEF s, t, u, a, b
<1>7. /\ v \in Seq(Descs) /\ Len(v) = a + b
      /\ \A k \in 1..(a + b) : v[k] = IF k <= a THEN s[k] ELSE t[k - a]
  BY <1>3, <1>4, ConcatProperties
<1> HIDE DEF v
<1>8. ASSUME NEW k \in 1..(a + b) PROVE u[k] = v[k]
  <2>1. CASE k <= a
    <3>1. k \in 1..a
      BY <1>6, <2>1
    <3>2. v[k] = s[k]
      BY <1>7, <2>1
    <3> QED BY <1>3, <1>5, <3>1, <3>2
  <2>2. CASE k > a
    <3>1. k - a \in 1..b
      BY <1>6, <2>2
    <3>2. At(i, a + (k - a) - 1) = At(j, (k - a) - 1)
      BY <1>6, <3>1
    <3>3. a + (k - a) - 1 = k - 1
      BY <1>6
    <3>4. v[k] = t[k - a]
      BY <1>6, <1>7, <2>2
    <3>5. t[k - a] = d[At(j, (k - a) - 1)]
      BY <1>4, <3>1
    <3>6. u[k] = d[At(i, k - 1)]
      BY <1>5
    <3> QED BY <3>2, <3>3, <3>4, <3>5, <3>6
  <2> QED BY <1>6, <2>1, <2>2
<1>9. u = v
  BY <1>5, <1>7, <1>8, SeqEqual
<1> QED BY <1>9 DEF s, t, u, v

LEMMA RingUntouched ==
  ASSUME NEW d \in Rings, NEW e \in Rings, NEW i \in Slot, NEW j \in Slot,
         \A s \in Slot : Dist(i, s) < Dist(i, j) => e[s] = d[s]
  PROVE  RingIn(e, i, j) = RingIn(d, i, j)
<1>1. ASSUME NEW k \in 1..Dist(i, j) PROVE e[At(i, k - 1)] = d[At(i, k - 1)]
  <2>1. Dist(i, j) \in 0..(Size - 1) /\ Size \in Nat
    BY SlotArith
  <2>2. k - 1 \in 0..(Size - 1) /\ k - 1 < Dist(i, j)
    BY <2>1
  <2>3. At(i, k - 1) \in Slot /\ Dist(i, At(i, k - 1)) = k - 1
    BY <2>2, SlotArith
  <2> QED BY <2>2, <2>3
<1> QED BY <1>1 DEF RingIn

LEMMA RingPushed ==
  ASSUME NEW d \in Rings, NEW i \in Slot, NEW j \in Slot, NEW x \in Descs,
         NextSlot(j) # i
  PROVE  /\ NextSlot(j) \in Slot
         /\ [d EXCEPT ![j] = x] \in Rings
         /\ RingIn([d EXCEPT ![j] = x], i, NextSlot(j)) = Append(RingIn(d, i, j), x)
<1> DEFINE e == [d EXCEPT ![j] = x]
<1>1. e \in Rings /\ e[j] = x /\ \A s \in Slot : s # j => e[s] = d[s]
  BY DEF Rings
<1> HIDE DEF e
<1>2. /\ NextSlot(j) \in Slot /\ Dist(i, NextSlot(j)) = Dist(i, j) + 1 /\ Dist(i, j) \in Nat
      /\ At(i, Dist(i, j)) = j
  BY SizeAssumption DEF NextSlot, Slot, Dist, At
<1>3. RingIn(e, i, j) = RingIn(d, i, j)
  <2>1. \A s \in Slot : Dist(i, s) < Dist(i, j) => s # j
    BY <1>2
  <2>2. \A s \in Slot : Dist(i, s) < Dist(i, j) => e[s] = d[s]
    BY <1>1, <2>1
  <2> QED BY <1>1, <2>2, RingUntouched
<1> DEFINE s == RingIn(e, i, j)
           u == RingIn(e, i, NextSlot(j))
           v == Append(s, x)
           a == Dist(i, j)
<1>4. s \in Seq(Descs) /\ Len(s) = a /\ \A k \in 1..a : s[k] = e[At(i, k - 1)]
  BY <1>1, RingSeq
<1>5. u \in Seq(Descs) /\ Len(u) = a + 1 /\ \A k \in 1..(a + 1) : u[k] = e[At(i, k - 1)]
  BY <1>1, <1>2, RingSeq
<1>6. a \in Nat /\ At(i, a) = j
  BY <1>2
<1> HIDE DEF s, u, a
<1>7. v \in Seq(Descs) /\ Len(v) = a + 1 /\ v[a + 1] = x /\ \A k \in 1..a : v[k] = s[k]
  BY <1>4, AppendProperties
<1> HIDE DEF v
<1>8. ASSUME NEW k \in 1..(a + 1) PROVE u[k] = v[k]
  <2>1. CASE k = a + 1
    <3>1. k - 1 = a
      BY <1>6, <2>1
    <3>2. u[k] = e[At(i, k - 1)]
      BY <1>5
    <3> QED BY <1>1, <1>6, <1>7, <2>1, <3>1, <3>2
  <2>2. CASE k \in 1..a
    BY <1>4, <1>5, <1>7, <2>2
  <2>3. k = a + 1 \/ k \in 1..a
    BY <1>6
  <2> QED BY <2>1, <2>2, <2>3
<1>9. u = v
  BY <1>5, <1>7, <1>8, SeqEqual
<1> QED BY <1>1, <1>2, <1>3, <1>9 DEF s, u, v, e

LEMMA RingPopped ==
  ASSUME NEW d \in Rings, NEW i \in Slot, NEW j \in Slot, i # j
  PROVE  /\ RingIn(d, i, j) # <<>> /\ Head(RingIn(d, i, j)) = d[i]
         /\ Tail(RingIn(d, i, j)) = RingIn(d, NextSlot(i), j)
<1>1. /\ NextSlot(i) \in Slot /\ Dist(NextSlot(i), j) = Dist(i, j) - 1
      /\ Dist(i, j) \in Nat /\ Dist(i, j) > 0 /\ At(i, 0) = i
      /\ \A k \in 1..(Dist(i, j) - 1) : At(NextSlot(i), k - 1) = At(i, k + 1 - 1)
  BY SizeAssumption DEF NextSlot, Slot, Dist, At
<1> DEFINE s == RingIn(d, i, j)
           u == RingIn(d, NextSlot(i), j)
<1>2. /\ s \in Seq(Descs) /\ Len(s) = Dist(i, j)
      /\ \A k \in 1..Dist(i, j) : s[k] = d[At(i, k - 1)]
  BY RingSeq
<1>3. /\ u \in Seq(Descs) /\ Len(u) = Dist(i, j) - 1
      /\ \A k \in 1..(Dist(i, j) - 1) : u[k] = d[At(NextSlot(i), k - 1)]
  BY <1>1, RingSeq
<1> HIDE DEF s, u
<1>4. s # <<>> /\ Head(s) = s[1]
  BY <1>1, <1>2
<1>5. s[1] = d[i]
  BY <1>1, <1>2
<1>6. /\ Tail(s) \in Seq(Descs) /\ Len(Tail(s)) = Dist(i, j) - 1
      /\ \A k \in 1..(Dist(i, j) - 1) : Tail(s)[k] = s[k + 1]
  BY <1>2, <1>4, HeadTailProperties
<1>7. ASSUME NEW k \in 1..(Dist(i, j) - 1) PROVE u[k] = Tail(s)[k]
  <2>1. k + 1 \in 1..Dist(i, j)
    BY <1>1
  <2> QED BY <1>1, <1>2, <1>3, <1>6, <2>1
<1>8. u = Tail(s)
  BY <1>3, <1>6, <1>7, SeqEqual
<1> QED BY <1>4, <1>5, <1>8 DEF s, u

LEMMA CutAfter ==
  ASSUME NEW S, NEW s \in Seq(S), NEW t \in Seq(S)
  PROVE  /\ s \o t \in Seq(S) /\ Len(s \o t) = Len(s) + Len(t)
         /\ SubSeq(s \o t, 1, Len(s)) = s
         /\ SubSeq(s \o t, Len(s) + 1, Len(s \o t)) = t
<1> DEFINE u == s \o t
           a == Len(s)
           b == Len(t)
           x == SubSeq(u, 1, a)
           y == SubSeq(u, a + 1, a + b)
<1>1. a \in Nat /\ b \in Nat
  OBVIOUS
<1>2. /\ u \in Seq(S) /\ Len(u) = a + b
      /\ \A k \in 1..(a + b) : u[k] = IF k <= a THEN s[k] ELSE t[k - a]
  BY ConcatProperties
<1> HIDE DEF u, a, b
<1>3. \A k \in 1..(a + b) : u[k] \in S
  BY <1>1, <1>2, ElementOfSeq
<1>4. x \in Seq(S) /\ Len(x) = a /\ \A k \in 1..a : x[k] = u[k]
  <2>1. \A k \in 1..a : u[k] \in S
    BY <1>1, <1>3
  <2>2. /\ x \in Seq(S) /\ Len(x) = IF 1 <= a THEN a - 1 + 1 ELSE 0
        /\ \A k \in 1..(a - 1 + 1) : x[k] = u[1 + k - 1]
    BY <1>1, <2>1, SubSeqProperties
  <2> QED BY <1>1, <2>2
<1>5. y \in Seq(S) /\ Len(y) = b /\ \A k \in 1..b : y[k] = u[a + k]
  <2>1. \A k \in (a + 1)..(a + b) : u[k] \in S
    BY <1>1, <1>3
  <2>2. /\ y \in Seq(S) /\ Len(y) = IF a + 1 <= a + b THEN a + b - (a + 1) + 1 ELSE 0
        /\ \A k \in 1..(a + b - (a + 1) + 1) : y[k] = u[(a + 1) + k - 1]
    BY <1>1, <2>1, SubSeqProperties
  <2>3. a + b - (a + 1) + 1 = b /\ \A k \in 1..b : (a + 1) + k - 1 = a + k
    BY <1>1
  <2>4. Len(y) = b
    BY <1>1, <2>2
  <2> QED BY <2>2, <2>3, <2>4
<1>6. Len(s) = a /\ Len(t) = b
  BY DEF a, b
<1> HIDE DEF x, y
<1>7. \A k \in 1..a : x[k] = s[k]
  BY <1>1, <1>2, <1>4
<1>8. \A k \in 1..b : y[k] = t[k]
  <2> TAKE k \in 1..b
  <2>1. a + k \in 1..(a + b) /\ ~(a + k <= a) /\ (a + k) - a = k
    BY <1>1
  <2>2. u[a + k] = t[(a + k) - a]
    BY <1>2, <2>1
  <2> QED BY <1>5, <2>1, <2>2
<1>9. x = s
  BY <1>4, <1>6, <1>7, SeqEqual
<1>10. y = t
  BY <1>5, <1>6, <1>8, SeqEqual
<1> QED BY <1>2, <1>9, <1>10 DEF u, a, b, x, y

(* Appending to what comes second, and moving its first element over. *)
LEMMA AppendToSecond ==
  ASSUME NEW S, NEW s \in Seq(S), NEW t \in Seq(S), NEW x \in S
  PROVE  Append(s \o t, x) = s \o Append(t, x)
<1>1. s \o t \in Seq(S) /\ <<x>> \in Seq(S)
  BY ConcatProperties
<1>2. Append(s \o t, x) = (s \o t) \o <<x>>
  BY <1>1, AppendIsConcat
<1>3. Append(t, x) = t \o <<x>>
  BY AppendIsConcat
<1>4. (s \o t) \o <<x>> = s \o (t \o <<x>>)
  BY <1>1, ConcatAssociative
<1> QED BY <1>2, <1>3, <1>4

LEMMA MoveOver ==
  ASSUME NEW S, NEW s \in Seq(S), NEW t \in Seq(S), t # <<>>
  PROVE  Append(s, Head(t)) \o Tail(t) = s \o t
<1> DEFINE h == Head(t)
           r == Tail(t)
           one == <<h>>
<1>1. h \in S /\ r \in Seq(S) /\ Len(r) = Len(t) - 1 /\ \A k \in 1..Len(r) : r[k] = t[k + 1]
  BY HeadTailProperties
<1>2. one \in Seq(S) /\ Len(one) = 1 /\ one[1] = h
  BY <1>1
<1>3. h = t[1] /\ Len(t) \in Nat /\ Len(t) > 0
  OBVIOUS
<1> HIDE DEF h, r, one
<1>4. /\ one \o r \in Seq(S) /\ Len(one \o r) = 1 + Len(r)
      /\ \A k \in 1..(1 + Len(r)) : (one \o r)[k] = IF k <= 1 THEN one[k] ELSE r[k - 1]
  <2>1. /\ one \o r \in Seq(S) /\ Len(one \o r) = Len(one) + Len(r)
        /\ \A k \in 1..(Len(one) + Len(r)) :
             (one \o r)[k] = IF k <= Len(one) THEN one[k] ELSE r[k - Len(one)]
    <3>1. one \in Seq(S) /\ r \in Seq(S)
      BY <1>1, <1>2
    <3> QED BY <3>1, ConcatProperties, Zenon
  <2> QED BY <1>2, <2>1
<1> DEFINE v == one \o r
<1>5. v \in Seq(S) /\ Len(v) = Len(t)
  BY <1>1, <1>3, <1>4
<1>6. \A k \in 1..Len(t) : v[k] = t[k]
  <2> TAKE k \in 1..Len(t)
  <2>1. k \in 1..(1 + Len(r)) /\ (k # 1 => k - 1 \in 1..Len(r) /\ (k - 1) + 1 = k)
    BY <1>1, <1>3
  <2>2. CASE k = 1
    BY <1>2, <1>3, <1>4, <2>1, <2>2
  <2>3. CASE k # 1
    <3>1. v[k] = r[k - 1]
      BY <1>4, <2>1, <2>3
    <3>2. r[k - 1] = t[(k - 1) + 1]
      BY <1>1, <2>1, <2>3
    <3> QED BY <2>1, <2>3, <3>1, <3>2
  <2> QED BY <2>2, <2>3
<1> HIDE DEF v
<1>7. v = t
  BY <1>5, <1>6, SeqEqual
<1>8. Append(s, h) = s \o one
  BY <1>1, AppendIsConcat DEF one
<1>9. (s \o one) \o r = s \o (one \o r)
  BY <1>1, <1>2, ConcatAssociative
<1> QED BY <1>7, <1>8, <1>9 DEF v, h, r

-----------------------------------------------------------------------------
(* Where the two stretches of the ring are that the channel is made of.    *)
LEMMA Stretches ==
  ASSUME IInv
  PROVE  /\ desc \in Rings /\ staged \in Seq(Packets) /\ staged \in Seq(Descs)
         /\ head \in Slot /\ tail \in Slot /\ Cursor \in Slot /\ WriteEnd \in Slot
         /\ Dist(Cursor, tail) + Dist(tail, WriteEnd) <= Size - 1
         /\ Pending = RingIn(desc, tail, WriteEnd) \o staged
         /\ Published = RingIn(desc, Cursor, tail)
<1> USE DEF IInv
<1>1. desc \in Rings /\ staged \in Seq(Packets) /\ head \in Slot /\ tail \in Slot
  BY DEF TypeOK, Rings, Descs
<1>2. Cursor \in Slot /\ WriteEnd \in Slot
  BY DEF TypeOK, Cursor, WriteEnd
<1>3. staged \in Seq(Descs)
  BY <1>1, SeqMonotonic DEF Descs
<1>4. Dist(head, tail) + Dist(tail, WriteEnd) <= Size - 1
  BY CyclicOrder
<1>5. Dist(Cursor, tail) <= Dist(head, tail)
  BY <1>1, SizeAssumption DEF TypeOK, ReceiverInv, Cursor, Dist, Slot
<1>6. Dist(Cursor, tail) + Dist(tail, WriteEnd) <= Size - 1
  <2>1. /\ Dist(Cursor, tail) \in Nat /\ Dist(tail, WriteEnd) \in Nat
        /\ Dist(head, tail) \in Nat /\ Size \in Nat
    BY <1>1, <1>2, SizeAssumption DEF Slot, Dist
  <2> QED BY <1>4, <1>5, <2>1
<1>7. Pending = RingIn(desc, tail, WriteEnd) \o staged /\ Published = RingIn(desc, Cursor, tail)
  BY DEF Pending, Published, Ring, RingIn
<1> QED BY <1>1, <1>2, <1>3, <1>6, <1>7

(* lfq_send() appends to the buffer. *)
LEMMA SendSimulated ==
  ASSUME IInv, NEW p \in Packets, Send(p)
  PROVE  Channel!Send(p)
<1> DEFINE r == RingIn(desc, tail, WriteEnd)
<1>1. /\ p \in home /\ home' = home \ {p} /\ staged' = Append(staged, p) /\ recv' = recv
      /\ Published' = Published
  BY DEF Send, sndVars, rcvVars, Published, Ring, Cursor
<1>2. Pending = r \o staged /\ Pending' = r \o staged'
  BY Stretches DEF Pending, Ring, RingIn, Send, sndVars, WriteEnd
<1>3. r \in Seq(Descs) /\ staged \in Seq(Descs) /\ p \in Descs
  BY Stretches, RingSeq DEF Descs
<1> HIDE DEF r
<1>4. Pending' = Append(Pending, p)
  BY <1>1, <1>2, <1>3, AppendToSecond
<1> QED BY <1>1, <1>4 DEF Channel!Send

(* A turn of the loop of __put_packet_to_queue() moves a packet from the   *)
(* buffer to the ring: it stays where it is among the pending packets, and *)
(* the slot that is written is none of the published ones.                 *)
LEMMA PutPacketNotSeen ==
  ASSUME IInv, PutPacket
  PROVE  UNCHANGED Channel!vars
<1>1. /\ sndPc = "put" /\ sndPc' = "put" /\ staged # <<>> /\ NextSlot(sndI) # sndHead
      /\ desc' = [desc EXCEPT ![sndI] = Head(staged)] /\ staged' = Tail(staged)
      /\ sndI' = NextSlot(sndI)
      /\ UNCHANGED <<home, head, tail, rcvPc, rcvI, recv>>
  BY DEF PutPacket, rcvVars
<1>2. /\ desc \in Rings /\ staged \in Seq(Packets) /\ staged \in Seq(Descs)
      /\ head \in Slot /\ tail \in Slot /\ Cursor \in Slot
      /\ Dist(Cursor, tail) + Dist(tail, WriteEnd) <= Size - 1
      /\ Pending = RingIn(desc, tail, WriteEnd) \o staged
      /\ Published = RingIn(desc, Cursor, tail)
  BY Stretches
<1>3. /\ WriteEnd = sndI /\ WriteEnd' = NextSlot(sndI) /\ Cursor' = Cursor
      /\ sndI \in Slot /\ sndHead \in Slot
  BY <1>1 DEF WriteEnd, Cursor, IInv, TypeOK
<1>4. NextSlot(sndI) # tail
  BY <1>1, <1>2, <1>3, SizeAssumption DEF IInv, SenderInv, Slot, Dist, NextSlot
<1> DEFINE h == Head(staged)
           r == RingIn(desc, tail, sndI)
<1>5. h \in Descs
  BY <1>1, <1>2, HeadTailProperties
<1> HIDE DEF h
<1>6. desc' \in Rings /\ RingIn(desc', tail, NextSlot(sndI)) = Append(r, h)
  BY <1>1, <1>2, <1>3, <1>4, <1>5, RingPushed DEF h
<1>7. r \in Seq(Descs)
  BY <1>2, <1>3, RingSeq
<1> HIDE DEF r
<1>8. Pending' = Append(r, h) \o Tail(staged)
  <2>1. Pending' = RingIn(desc', tail', WriteEnd') \o staged'
    BY DEF Pending, Ring, RingIn
  <2> QED BY <1>1, <1>3, <1>6, <2>1
<1>9. Pending' = Pending
  BY <1>1, <1>2, <1>3, <1>7, <1>8, MoveOver DEF h, r
<1>10. Published' = Published
  <2>1. \A s \in Slot : Dist(Cursor, s) < Dist(Cursor, tail) => s # sndI
    BY <1>2, <1>3, SizeAssumption DEF Slot, Dist
  <2>2. \A s \in Slot : s # sndI => desc'[s] = desc[s]
    BY <1>1, <1>2, <1>3 DEF Rings
  <2>3. \A s \in Slot : Dist(Cursor, s) < Dist(Cursor, tail) => desc'[s] = desc[s]
    BY <2>1, <2>2
  <2>4. RingIn(desc', Cursor, tail) = RingIn(desc, Cursor, tail)
    BY <1>2, <1>6, <2>3, RingUntouched
  <2>5. Published' = RingIn(desc', Cursor', tail')
    BY DEF Published, Ring, RingIn
  <2> QED BY <1>1, <1>2, <1>3, <2>4, <2>5
<1> QED BY <1>1, <1>9, <1>10 DEF Channel!vars

(* The compare-and-swap of <tail> publishes what was written since. *)
LEMMA PutCommitSimulated ==
  ASSUME IInv, PutCommit
  PROVE  (\E n \in 1..Len(Pending) : Channel!Publish(n)) \/ UNCHANGED Channel!vars
<1>1. /\ sndPc = "put" /\ sndPc' = "idle" /\ tail' = sndI
      /\ UNCHANGED <<home, staged, desc, head, rcvPc, rcvI, recv>>
  BY DEF IInv, PutCommit, SenderInv, rcvVars
<1>2. /\ desc \in Rings /\ staged \in Seq(Descs)
      /\ tail \in Slot /\ Cursor \in Slot /\ WriteEnd \in Slot
      /\ Dist(Cursor, tail) + Dist(tail, WriteEnd) <= Size - 1
      /\ Pending = RingIn(desc, tail, WriteEnd) \o staged
      /\ Published = RingIn(desc, Cursor, tail)
  BY Stretches
<1>3. WriteEnd = sndI /\ WriteEnd' = sndI /\ Cursor' = Cursor
  BY <1>1 DEF WriteEnd, Cursor
<1> DEFINE n == Dist(tail, sndI)
           r == RingIn(desc, tail, sndI)
           c == RingIn(desc, Cursor, tail)
<1>4. /\ r \in Seq(Descs) /\ Len(r) = n /\ n \in Nat
      /\ c \in Seq(Descs) /\ Len(c) = Dist(Cursor, tail)
  BY <1>2, <1>3, RingSeq
<1>5. Published' = c \o r
  <2>1. Published' = RingIn(desc', Cursor', tail')
    BY DEF Published, Ring, RingIn
  <2>2. RingIn(desc, Cursor, sndI) = c \o r
    BY <1>2, <1>3, RingJoined
  <2> QED BY <1>1, <1>3, <2>1, <2>2
<1>6. Pending' = staged
  <2>1. Pending' = RingIn(desc', tail', WriteEnd') \o staged'
    BY DEF Pending, Ring, RingIn
  <2>2. RingIn(desc, sndI, sndI) \in Seq(Descs) /\ Len(RingIn(desc, sndI, sndI)) = 0
    BY <1>2, <1>3, RingSeq, SlotArith
  <2>3. RingIn(desc, sndI, sndI) = <<>>
    BY <2>2, EmptySeq
  <2>4. <<>> \o staged = staged
    BY <1>2, ConcatEmptySeq
  <2> QED BY <1>1, <1>3, <2>1, <2>3, <2>4
<1> HIDE DEF r, c, n
<1>7. Pending = r \o staged /\ Published = c
  BY <1>2, <1>3 DEF r, c
<1>8. /\ Len(Pending) = n + Len(staged)
      /\ SubSeq(Pending, 1, n) = r /\ SubSeq(Pending, n + 1, Len(Pending)) = staged
  <2>1. r \in Seq(Descs) /\ staged \in Seq(Descs)
    BY <1>2, <1>4
  <2>2. /\ r \o staged \in Seq(Descs) /\ Len(r \o staged) = Len(r) + Len(staged)
        /\ SubSeq(r \o staged, 1, Len(r)) = r
        /\ SubSeq(r \o staged, Len(r) + 1, Len(r \o staged)) = staged
    BY <2>1, CutAfter
  <2> QED BY <1>4, <1>7, <2>2, Zenon
<1>9. CASE n = 0
  <2>1. r = <<>>
    BY <1>4, <1>9, EmptySeq
  <2>2. c \o <<>> = c /\ <<>> \o staged = staged
    BY <1>2, <1>4, ConcatEmptySeq
  <2>3. Pending' = Pending /\ Published' = Published
    BY <1>5, <1>6, <1>7, <2>1, <2>2
  <2> QED BY <1>1, <2>3 DEF Channel!vars
<1>10. CASE n # 0
  <2>1. n \in 1..Len(Pending)
    <3>1. Len(staged) \in Nat
      BY <1>2
    <3> QED BY <1>4, <1>8, <1>10, <3>1
  <2>2. Len(Published) + n <= Size - 1
    BY <1>2, <1>3, <1>4, <1>7 DEF n
  <2>3. Channel!Publish(n)
    BY <1>1, <1>5, <1>6, <1>7, <1>8, <2>2 DEF Channel!Publish
  <2> QED BY <2>1, <2>3
<1> QED BY <1>9, <1>10

(* A turn of the loop of __get_packet_from_queue() takes the oldest        *)
(* published packet.                                                       *)
LEMMA GetPacketSimulated ==
  ASSUME IInv, GetPacket
  PROVE  Channel!Take
<1>1. /\ rcvPc = "get" /\ rcvPc' = "get" /\ rcvI # rcvTail
      /\ recv' = Append(recv, desc[rcvI]) /\ rcvI' = NextSlot(rcvI)
      /\ UNCHANGED <<home, staged, desc, head, tail, sndPc, sndI>>
  BY DEF GetPacket, sndVars
<1>2. /\ desc \in Rings /\ tail \in Slot /\ head \in Slot /\ rcvI \in Slot /\ rcvTail \in Slot
      /\ Published = RingIn(desc, rcvI, tail)
  BY <1>1, Stretches DEF Cursor, IInv, TypeOK
<1>3. rcvI # tail
  BY <1>1, <1>2, SizeAssumption DEF IInv, ReceiverInv, Dist, Slot
<1>4. /\ Published # <<>> /\ Head(Published) = desc[rcvI]
      /\ Tail(Published) = RingIn(desc, NextSlot(rcvI), tail)
  BY <1>2, <1>3, RingPopped
<1>5. Published' = RingIn(desc, NextSlot(rcvI), tail)
  <2>1. Published' = RingIn(desc', Cursor', tail')
    BY DEF Published, Ring, RingIn
  <2>2. Cursor' = NextSlot(rcvI)
    BY <1>1 DEF Cursor
  <2> QED BY <1>1, <2>1, <2>2
<1>6. Pending' = Pending
  BY <1>1 DEF Pending, Ring, WriteEnd
<1> QED BY <1>1, <1>4, <1>5, <1>6 DEF Channel!Take

(* Every step of the ring is a step of the channel, or is not seen there. *)
LEMMA StepSimulation == IInv /\ [Next]_vars => [Channel!Next]_(Channel!vars)
<1> SUFFICES ASSUME IInv, [Next]_vars PROVE [Channel!Next]_(Channel!vars)
  OBVIOUS
<1>1. ASSUME NEW p \in Packets, Send(p) PROVE Channel!Next
  BY <1>1, SendSimulated DEF Channel!Next
<1>2. CASE PutReadHead
  <2>1. UNCHANGED <<home, staged, desc, head, tail, rcvPc, rcvI, recv>>
        /\ WriteEnd' = WriteEnd
    BY <1>2 DEF PutReadHead, rcvVars, WriteEnd
  <2> QED BY <2>1 DEF Channel!vars, Pending, Published, Ring, Cursor
<1>3. CASE PutReadTail
  <2>1. UNCHANGED <<home, staged, desc, head, tail, rcvPc, rcvI, recv>>
        /\ WriteEnd' = WriteEnd
    BY <1>3 DEF PutReadTail, rcvVars, WriteEnd
  <2> QED BY <2>1 DEF Channel!vars, Pending, Published, Ring, Cursor
<1>4. CASE PutPacket
  BY <1>4, PutPacketNotSeen
<1>5. CASE PutCommit
  BY <1>5, PutCommitSimulated DEF Channel!Next
<1>6. CASE GetReadHead
  <2>1. UNCHANGED <<home, staged, desc, head, tail, sndPc, sndI, recv>> /\ Cursor' = Cursor
    BY <1>6 DEF GetReadHead, sndVars, Cursor
  <2> QED BY <2>1 DEF Channel!vars, Pending, Published, Ring, WriteEnd
<1>7. CASE GetReadTail
  <2>1. UNCHANGED <<home, staged, desc, head, tail, sndPc, sndI, recv>> /\ Cursor' = Cursor
    BY <1>7 DEF GetReadTail, sndVars, Cursor, IInv, ReceiverInv
  <2> QED BY <2>1 DEF Channel!vars, Pending, Published, Ring, WriteEnd
<1>8. CASE GetPacket
  BY <1>8, GetPacketSimulated DEF Channel!Next
<1>9. CASE GetCommit
  <2>1. UNCHANGED <<home, staged, desc, tail, sndPc, sndI, recv>> /\ Cursor' = Cursor
    BY <1>9 DEF GetCommit, sndVars, Cursor, IInv, ReceiverInv
  <2> QED BY <2>1 DEF Channel!vars, Pending, Published, Ring, WriteEnd
<1>10. CASE ProcessReceived
  <2>1. /\ home' = home \cup {recv[k] : k \in 1..Len(recv)} /\ recv' = <<>>
        /\ UNCHANGED <<staged, desc, head, tail, sndPc, sndI>> /\ Cursor' = Cursor
    BY <1>10 DEF ProcessReceived, sndVars, Cursor
  <2>2. Pending' = Pending /\ Published' = Published
    BY <2>1 DEF Pending, Published, Ring, WriteEnd
  <2>3. Channel!Process
    BY <2>1, <2>2 DEF Channel!Process
  <2> QED BY <2>3 DEF Channel!Next
<1>11. CASE UNCHANGED vars
  BY <1>11 DEF vars, sndVars, rcvVars, Channel!vars, Pending, Published, Ring, WriteEnd, Cursor
<1> QED
  BY <1>1, <1>2, <1>3, <1>4, <1>5, <1>6, <1>7, <1>8, <1>9, <1>10, <1>11
  DEF Next, Put, Get

(* The ring with its two processes, each working from old copies of the    *)
(* other's index, is a bounded FIFO channel: no packet is lost, doubled or *)
(* overtaken between lfq_send() and lfq_recv(), for every size of the ring *)
(* and every number of packets.                                            *)
THEOREM Implementation == Spec => ImplementsChannel
<1>1. Init => Channel!Init
  <2> SUFFICES ASSUME Init PROVE Channel!Init
    OBVIOUS
  <2>1. Dist(0, 0) = 0
    BY DEF Dist
  <2>2. Ring(0, 0) = <<>>
    BY <2>1 DEF Ring
  <2>3. Pending = <<>> \o <<>> /\ Published = <<>>
    BY <2>2 DEF Init, Pending, Published, WriteEnd, Cursor
  <2> QED BY <2>3 DEF Init, Channel!Init
<1> QED
  BY <1>1, Invariance, StepSimulation, PTL DEF Spec, ImplementsChannel, Channel!Spec

-----------------------------------------------------------------------------
(* The start (LfQueueBoot).  A late initialisation can lose packets and    *)
(* can make the sender exit, but it cannot make the receiver read a        *)
(* descriptor that nobody wrote or that it has already read.  <head> moves *)
(* only after <tail> has moved, <tail> moves only when the sender has      *)
(* initialised the queue, and the receiver moves <head> only when it has   *)
(* initialised it too.  So a late store of 0 to <head> finds 0 there, and  *)
(* a late store of 0 to <tail> empties the ring before the receiver has    *)
(* looked at it.                                                           *)
SndBoots == sndPc \in BootPc
RcvBoots == rcvPc \in BootPc

BootTypeOK ==
  /\ home \subseteq Packets
  /\ staged \in Seq(Packets)
  /\ desc \in [Slot -> Packets \cup {NoPacket}]
  /\ head \in Slot /\ tail \in Slot
  /\ sndPc \in {"idle", "tail", "put", "exited"} \cup BootPc
  /\ sndHead \in Slot /\ sndTail \in Slot /\ sndI \in Slot
  /\ rcvPc \in {"idle", "tail", "get", "process", "exited"} \cup BootPc
  /\ rcvHead \in Slot /\ rcvTail \in Slot /\ rcvI \in Slot
  /\ recv \in Seq(Packets)

(* What the stores of one process find when the other one is ahead. *)
StartInv ==
  /\ SndBoots => home = Packets /\ staged = <<>> /\ recv = <<>>
  /\ RcvBoots => recv = <<>>
  /\ SndBoots \/ RcvBoots =>
       \/ sndPc = "boot head" /\ rcvPc = "boot head"
       \/ head = 0
  /\ SndBoots =>
       \/ sndPc \in {"boot head", "boot tail"} /\ rcvPc \in {"boot head", "boot tail"}
       \/ tail = 0

(* The sender's copy of <tail> is exact, unless the receiver reset <tail>  *)
(* behind its back: then the ring is empty and stays so.                   *)
PutInv ==
  /\ sndPc \in {"tail", "put"} => Dist(sndHead, head) <= Dist(sndHead, tail)
  /\ sndPc = "put" /\ sndTail = tail => Dist(sndHead, tail) <= Dist(sndHead, sndI)
  /\ sndPc = "put" /\ sndTail # tail =>
       head = tail /\ rcvPc \notin {"boot head", "boot tail"}

(* The receiver's copy of <head> is exact, its copy of <tail> is behind. *)
GetInv ==
  /\ rcvPc \in {"tail", "get"} => rcvHead = head
  /\ rcvPc = "tail" => rcvI = head
  /\ rcvPc = "get" => /\ Dist(head, rcvI) <= Dist(head, rcvTail)
                      /\ Dist(head, rcvTail) <= Dist(head, tail)

(* The control part of the invariant. *)
Ctl == BootTypeOK /\ StartInv /\ PutInv /\ GetInv

(* The descriptors that hold packets on their way: those that the receiver *)
(* has yet to read, up to where the sender writes.                         *)
End == IF sndPc = "put" /\ sndTail = tail THEN sndI ELSE tail
InUse(s) == Dist(Cursor, s) < Dist(Cursor, End)

(* No packet is in two places. *)
DataInv ==
  /\ ~SndBoots =>
       /\ \A s \in Slot : InUse(s) =>
            /\ desc[s] \in Packets \ home
            /\ \A k \in 1..Len(staged) : staged[k] # desc[s]
            /\ \A k \in 1..Len(recv) : recv[k] # desc[s]
       /\ \A s, t \in Slot : InUse(s) /\ InUse(t) /\ desc[s] = desc[t] => s = t
  /\ \A k \in 1..Len(staged) :
       /\ staged[k] \in Packets \ home
       /\ \A l \in 1..Len(recv) : staged[k] # recv[l]
       /\ \A l \in 1..Len(staged) : staged[k] = staged[l] => k = l
  /\ NothingInvented

BootIInv == Ctl /\ DataInv

-----------------------------------------------------------------------------
(* Facts about slots that the provers need in the presence of more. *)
LEMMA ZeroSlot == 0 \in Slot
BY SizeAssumption DEF Slot

LEMMA DistSlot == \A i, j \in Slot : Dist(i, j) \in Nat
BY SizeAssumption DEF Slot, Dist

(* The invariant holds before any store. *)
LEMMA BootInitial == BootInit => BootIInv
<1> SUFFICES ASSUME BootInit PROVE BootIInv
  OBVIOUS
<1> USE SizeAssumption
<1>1. BootTypeOK
  <2>1. desc \in [Slot -> Packets \cup {NoPacket}]
    BY DEF BootInit
  <2>2. staged \in Seq(Packets) /\ recv \in Seq(Packets)
    BY EmptySeq, Zenon DEF BootInit
  <2>3. 0 \in Slot
    BY ZeroSlot
  <2>4. sndPc \in BootPc /\ rcvPc \in BootPc
    BY DEF BootInit, BootPc
  <2> QED BY <2>1, <2>2, <2>3, <2>4 DEF BootInit, BootTypeOK
<1>2. StartInv /\ PutInv /\ GetInv
  BY DEF BootInit, StartInv, PutInv, GetInv, SndBoots, RcvBoots, BootPc
<1>3. DataInv
  <2>1. SndBoots /\ Len(staged) = 0 /\ Len(recv) = 0
    BY DEF BootInit, SndBoots, BootPc
  <2> QED BY <2>1 DEF DataInv, NothingInvented
<1> QED BY <1>1, <1>2, <1>3 DEF BootIInv, Ctl

(* What a reader can know of the ring in any state: the receiver's place,  *)
(* the sender's place, and that the slot at the receiver's place is in use *)
(* whenever there is something to read.                                    *)
LEMMA Places ==
  ASSUME Ctl
  PROVE  /\ Cursor \in Slot /\ End \in Slot
         /\ NextSlot(sndI) \in Slot /\ NextSlot(rcvI) \in Slot
<1> QED
  BY SizeAssumption DEF Ctl, BootTypeOK, Cursor, End, NextSlot, Slot

(* A store of lfq_queue_create_init() keeps the control part. *)
LEMMA BootCtl ==
  ASSUME Ctl,
         \/ Boot(sndPc) /\ UNCHANGED <<sndHead, sndTail, sndI, rcvVars>>
         \/ Boot(rcvPc) /\ UNCHANGED <<rcvHead, rcvTail, rcvI, sndVars>>
  PROVE  Ctl'
<1> USE SizeAssumption DEF Boot, ResetHead, ResetTail, ResetList
<1>1. BootTypeOK'
  <2>1. 0 \in Slot
    BY ZeroSlot
  <2>2. UNCHANGED <<home, desc, recv, sndHead, sndTail, sndI, rcvHead, rcvTail, rcvI>>
    BY DEF sndVars, rcvVars
  <2>3. head' \in Slot /\ tail' \in Slot
    BY <2>1 DEF Ctl, BootTypeOK
  <2>6. staged' = staged \/ staged' = <<>>
    OBVIOUS
  <2>7. staged' \in Seq(Packets)
    BY <2>6, EmptySeq DEF Ctl, BootTypeOK
  <2>4. sndPc' \in {"idle", "tail", "put", "exited"} \cup BootPc
    BY DEF Ctl, BootTypeOK, BootPc, sndVars
  <2>5. rcvPc' \in {"idle", "tail", "get", "process", "exited"} \cup BootPc
    BY DEF Ctl, BootTypeOK, BootPc, rcvVars
  <2> QED BY <2>2, <2>3, <2>4, <2>5, <2>7 DEF Ctl, BootTypeOK
<1>2. StartInv'
  BY DEF Ctl, BootTypeOK, StartInv, SndBoots, RcvBoots, BootPc, sndVars, rcvVars
<1>3. CASE Boot(sndPc) /\ UNCHANGED <<sndHead, sndTail, sndI, rcvVars>>
  <2>1. PutInv'
    BY <1>3 DEF PutInv
  <2>2. GetInv'
    BY <1>3 DEF Ctl, BootTypeOK, StartInv, GetInv, SndBoots, BootPc, rcvVars, Slot, Dist
  <2> QED BY <1>1, <1>2, <2>1, <2>2 DEF Ctl
<1>4. CASE Boot(rcvPc) /\ UNCHANGED <<rcvHead, rcvTail, rcvI, sndVars>>
  <2>1. PutInv'
    <3>1. UNCHANGED <<sndPc, sndHead, sndTail, sndI>>
      BY <1>4 DEF sndVars
    <3>2. CASE SndBoots
      BY <3>1, <3>2 DEF PutInv, SndBoots, BootPc
    <3>3. CASE ~SndBoots /\ ResetTail(rcvPc)
      <4>1. head' = 0 /\ tail' = 0 /\ rcvPc' = "boot list"
        BY <3>3 DEF Ctl, StartInv, SndBoots, RcvBoots, BootPc
      <4>2. sndHead \in Slot /\ (sndPc = "put" => sndTail = tail)
        BY <3>3 DEF Ctl, BootTypeOK, PutInv
      <4>3. sndPc = "put" /\ sndTail = 0 => Dist(sndHead, 0) <= Dist(sndHead, sndI)
        BY <4>2, Zenon DEF Ctl, PutInv
      <4>4. Dist(sndHead, 0) <= Dist(sndHead, 0)
        <5>1. Dist(sndHead, 0) \in Nat
          BY <4>2, ZeroSlot, DistSlot
        <5> HIDE DEF Boot, ResetHead, ResetTail, ResetList
        <5> QED BY <5>1
      <4> QED BY <3>1, <4>1, <4>3, <4>4 DEF PutInv, Dist
    <3>4. CASE ~SndBoots /\ (ResetHead(rcvPc) \/ ResetList(rcvPc))
      <4>1. head' = head /\ tail' = tail
        BY <3>4 DEF Ctl, StartInv, SndBoots, RcvBoots, BootPc
      <4>2. sndPc = "put" /\ sndTail # tail => rcvPc' \notin {"boot head", "boot tail"}
        BY <3>4 DEF Ctl, PutInv
      <4> QED BY <3>1, <4>1, <4>2 DEF Ctl, PutInv, Dist
    <3> QED BY <1>4, <3>2, <3>3, <3>4
  <2>2. GetInv'
    BY <1>4 DEF GetInv
  <2> QED BY <1>1, <1>2, <2>1, <2>2 DEF Ctl
<1> QED BY <1>3, <1>4

(* The state while a process still initialises the queue: nothing to read. *)
LEMMA QuietStart ==
  ASSUME Ctl, SndBoots \/ RcvBoots, rcvPc = "get"
  PROVE  rcvI = rcvTail
<1>1. SndBoots /\ head = 0 /\ tail = 0
  BY DEF Ctl, StartInv, SndBoots, RcvBoots, BootPc
<1> QED
  BY <1>1, SizeAssumption DEF Ctl, BootTypeOK, GetInv, Dist, Slot

(* The sender's steps keep the control part. *)
LEMMA PutCtl ==
  ASSUME Ctl, (\E p \in Packets : Send(p)) \/ Put
  PROVE  Ctl'
<1> USE SizeAssumption
<1>0. sndI \in Slot /\ NextSlot(sndI) \in Slot
  BY Places DEF Ctl, BootTypeOK
<1>1. ASSUME NEW p \in Packets, Send(p) PROVE Ctl'
  <2>1. BootTypeOK'
    BY <1>1 DEF Ctl, Send, BootTypeOK, sndVars, rcvVars
  <2>2. StartInv' /\ PutInv' /\ GetInv'
    BY <1>1 DEF Ctl, Send, StartInv, PutInv, GetInv, SndBoots, RcvBoots, BootPc,
                sndVars, rcvVars, Dist
  <2> QED BY <2>1, <2>2 DEF Ctl
<1>2. CASE PutReadHead
  <2>1. BootTypeOK'
    BY <1>2 DEF Ctl, PutReadHead, BootTypeOK, rcvVars
  <2>2. StartInv' /\ GetInv'
    BY <1>2 DEF Ctl, PutReadHead, StartInv, GetInv, SndBoots, RcvBoots, BootPc, rcvVars, Dist
  <2>3. PutInv'
    BY <1>2 DEF Ctl, BootTypeOK, PutReadHead, PutInv, Dist, Slot
  <2> QED BY <2>1, <2>2, <2>3 DEF Ctl
<1>3. CASE PutReadTail
  <2>1. BootTypeOK'
    BY <1>3 DEF Ctl, PutReadTail, BootTypeOK, rcvVars
  <2>2. StartInv' /\ GetInv'
    BY <1>3 DEF Ctl, PutReadTail, StartInv, GetInv, SndBoots, RcvBoots, BootPc, rcvVars, Dist
  <2>3. PutInv'
    BY <1>3 DEF Ctl, BootTypeOK, PutReadTail, PutInv, Dist, Slot
  <2> QED BY <2>1, <2>2, <2>3 DEF Ctl
<1>4. CASE PutPacket
  <2>0. Head(staged) \in Packets /\ Tail(staged) \in Seq(Packets)
    BY <1>4 DEF Ctl, BootTypeOK, PutPacket
  <2>1. BootTypeOK'
    BY <1>4, <1>0, <2>0 DEF Ctl, PutPacket, BootTypeOK, rcvVars
  <2>2. StartInv' /\ GetInv'
    BY <1>4 DEF Ctl, PutPacket, StartInv, GetInv, SndBoots, RcvBoots, BootPc, rcvVars, Dist
  <2>3. PutInv'
    <3>1. UNCHANGED <<head, tail, sndPc, sndHead, sndTail, rcvPc>> /\ sndPc = "put"
          /\ sndI' = NextSlot(sndI) /\ NextSlot(sndI) # sndHead
      BY <1>4 DEF PutPacket, rcvVars
    <3>2. sndHead \in Slot /\ tail \in Slot /\ sndI \in Slot
      BY DEF Ctl, BootTypeOK
    <3>3. Dist(sndHead, tail) <= Dist(sndHead, sndI)
             => Dist(sndHead, tail) <= Dist(sndHead, NextSlot(sndI))
      BY <3>1, <3>2 DEF Dist, Slot, NextSlot
    <3> QED BY <3>1, <3>3 DEF Ctl, PutInv, Dist
  <2> QED BY <2>1, <2>2, <2>3 DEF Ctl
<1>5. CASE PutCommit
  <2>1. sndPc = "put" /\ sndPc' \in {"idle", "exited"}
        /\ (tail' = tail \/ (sndTail = tail /\ tail' = sndI))
        /\ UNCHANGED <<home, staged, desc, head, sndHead, sndTail, sndI,
                       rcvPc, rcvHead, rcvTail, rcvI, recv>>
    BY <1>5 DEF PutCommit, rcvVars
  <2>2. BootTypeOK'
    BY <2>1, <1>0 DEF Ctl, BootTypeOK
  <2>3. PutInv'
    BY <2>1 DEF PutInv
  <2>4. StartInv'
    BY <2>1 DEF Ctl, StartInv, SndBoots, RcvBoots, BootPc
  <2>5. ASSUME sndTail = tail PROVE Dist(head, tail) <= Dist(head, sndI)
    <3>1. Dist(sndHead, head) <= Dist(sndHead, tail) /\ Dist(sndHead, tail) <= Dist(sndHead, sndI)
      BY <2>1, <2>5 DEF Ctl, PutInv
    <3>2. sndHead \in Slot /\ head \in Slot /\ tail \in Slot /\ sndI \in Slot
      BY DEF Ctl, BootTypeOK
    <3> QED BY <3>1, <3>2 DEF Dist, Slot
  <2>6. GetInv'
    BY <2>1, <2>5 DEF Ctl, BootTypeOK, GetInv, Dist, Slot
  <2> QED BY <2>2, <2>3, <2>4, <2>6 DEF Ctl
<1> QED BY <1>1, <1>2, <1>3, <1>4, <1>5 DEF Put

(* The receiver's steps keep the control part, if the packet that it takes *)
(* from the ring is one.                                                   *)
LEMMA GetCtl ==
  ASSUME Ctl, Get \/ ProcessReceived, GetPacket => desc[rcvI] \in Packets
  PROVE  Ctl'
<1> USE SizeAssumption
<1>0. rcvI \in Slot /\ NextSlot(rcvI) \in Slot
  BY Places DEF Ctl, BootTypeOK
<1>1. CASE GetReadHead
  <2>1. BootTypeOK'
    BY <1>1 DEF Ctl, GetReadHead, BootTypeOK, sndVars
  <2>2. StartInv' /\ PutInv' /\ GetInv'
    BY <1>1 DEF Ctl, GetReadHead, StartInv, PutInv, GetInv, SndBoots, RcvBoots, BootPc,
                sndVars, Dist
  <2> QED BY <2>1, <2>2 DEF Ctl
<1>2. CASE GetReadTail
  <2>1. BootTypeOK'
    BY <1>2 DEF Ctl, GetReadTail, BootTypeOK, sndVars
  <2>2. StartInv' /\ PutInv'
    BY <1>2 DEF Ctl, GetReadTail, StartInv, PutInv, SndBoots, RcvBoots, BootPc, sndVars, Dist
  <2>3. GetInv'
    BY <1>2 DEF Ctl, BootTypeOK, GetReadTail, GetInv, Dist, Slot
  <2> QED BY <2>1, <2>2, <2>3 DEF Ctl
<1>3. CASE GetPacket
  <2>1. BootTypeOK'
    BY <1>3, <1>0 DEF Ctl, GetPacket, BootTypeOK, sndVars
  <2>2. ~SndBoots /\ ~RcvBoots
    BY <1>3, QuietStart DEF GetPacket
  <2>3. StartInv'
    BY <1>3, <2>2 DEF GetPacket, StartInv, SndBoots, RcvBoots, sndVars
  <2>4. PutInv'
    BY <1>3 DEF Ctl, GetPacket, PutInv, sndVars, Dist
  <2>5. GetInv'
    BY <1>3 DEF Ctl, BootTypeOK, GetPacket, GetInv, Dist, Slot, NextSlot
  <2> QED BY <2>1, <2>3, <2>4, <2>5 DEF Ctl
<1>4. CASE GetCommit
  <2>1. rcvPc = "get" /\ rcvI = rcvTail /\ rcvHead = head /\ head' = rcvI
        /\ rcvPc' = "process"
        /\ UNCHANGED <<home, staged, desc, tail, sndPc, sndHead, sndTail, sndI,
                       rcvHead, rcvTail, rcvI, recv>>
    BY <1>4 DEF Ctl, GetCommit, GetInv, sndVars
  <2>2. BootTypeOK'
    BY <2>1 DEF Ctl, BootTypeOK
  <2>3. GetInv'
    BY <2>1 DEF GetInv
  <2>4. StartInv'
    <3>1. CASE SndBoots
      <4>1. head = 0 /\ tail = 0
        BY <2>1, <3>1 DEF Ctl, StartInv, SndBoots, RcvBoots, BootPc
      <4>2. rcvI = 0
        BY <2>1, <4>1 DEF Ctl, BootTypeOK, GetInv, Dist, Slot
      <4> QED BY <2>1, <4>1, <4>2 DEF Ctl, StartInv, SndBoots, RcvBoots, BootPc
    <3>2. CASE ~SndBoots
      BY <2>1, <3>2 DEF StartInv, SndBoots, RcvBoots, BootPc
    <3> QED BY <3>1, <3>2
  <2>5. PutInv'
    BY <2>1 DEF Ctl, BootTypeOK, PutInv, GetInv, Dist, Slot
  <2> QED BY <2>2, <2>3, <2>4, <2>5 DEF Ctl
<1>5. CASE ProcessReceived
  <2>1. UNCHANGED <<staged, desc, head, tail, sndPc, sndHead, sndTail, sndI,
                    rcvHead, rcvTail, rcvI>>
        /\ rcvPc = "process" /\ rcvPc' = "idle" /\ recv' = <<>>
        /\ home' = home \cup {recv[k] : k \in 1..Len(recv)}
    BY <1>5 DEF ProcessReceived, sndVars
  <2>2. \A k \in 1..Len(recv) : recv[k] \in Packets
    BY DEF Ctl, BootTypeOK
  <2>3. home' \subseteq Packets
    BY <2>1, <2>2 DEF Ctl, BootTypeOK
  <2>4. recv' \in Seq(Packets)
    BY <2>1, EmptySeq, Zenon
  <2>5. BootTypeOK'
    BY <2>1, <2>3, <2>4 DEF Ctl, BootTypeOK
  <2>6. SndBoots => home' = home
    BY <2>1 DEF Ctl, StartInv
  <2>7. StartInv' /\ PutInv' /\ GetInv'
    BY <2>1, <2>6 DEF Ctl, StartInv, PutInv, GetInv, SndBoots, RcvBoots, BootPc, Dist
  <2> QED BY <2>5, <2>7 DEF Ctl
<1> QED BY <1>1, <1>2, <1>3, <1>4, <1>5 DEF Get

-----------------------------------------------------------------------------
(* A step that moves no packet keeps the data part, if it brings no        *)
(* descriptor into use.                                                    *)
LEMMA DataKept ==
  ASSUME DataInv, UNCHANGED <<home, desc, recv>>, staged' = staged \/ staged' = <<>>,
         ~SndBoots' => \A s \in Slot : InUse(s)' => ~SndBoots /\ InUse(s)
  PROVE  DataInv'
<1>1. NothingInvented'
  BY DEF DataInv, NothingInvented
<1>2. \A k \in 1..Len(staged)' :
        /\ staged'[k] \in Packets \ home'
        /\ \A l \in 1..Len(recv') : staged'[k] # recv'[l]
        /\ \A l \in 1..Len(staged') : staged'[k] = staged'[l] => k = l
  BY DEF DataInv
<1>3. ASSUME ~SndBoots', NEW s \in Slot, InUse(s)'
      PROVE  /\ ~SndBoots /\ InUse(s)
             /\ desc'[s] \in Packets \ home'
             /\ \A k \in 1..Len(staged)' : staged'[k] # desc'[s]
             /\ \A k \in 1..Len(recv') : recv'[k] # desc'[s]
  <2>1. ~SndBoots /\ InUse(s)
    BY <1>3
  <2>2. /\ desc[s] \in Packets \ home
        /\ \A k \in 1..Len(staged) : staged[k] # desc[s]
        /\ \A k \in 1..Len(recv) : recv[k] # desc[s]
    BY <2>1 DEF DataInv
  <2> QED BY <2>1, <2>2
<1>4. ASSUME ~SndBoots', NEW s \in Slot, NEW t \in Slot, InUse(s)', InUse(t)',
             desc'[s] = desc'[t]
      PROVE  s = t
  <2>1. ~SndBoots /\ InUse(s) /\ InUse(t) /\ desc[s] = desc[t]
    BY <1>4
  <2> QED BY <2>1, Zenon DEF DataInv
<1>5. ~SndBoots' =>
        /\ \A s \in Slot : InUse(s)' =>
             /\ desc'[s] \in Packets \ home'
             /\ \A k \in 1..Len(staged)' : staged'[k] # desc'[s]
             /\ \A k \in 1..Len(recv') : recv'[k] # desc'[s]
        /\ \A s, t \in Slot : InUse(s)' /\ InUse(t)' /\ desc'[s] = desc'[t] => s = t
  BY <1>3, <1>4, Zenon
<1> QED BY <1>1, <1>2, <1>5, Zenon DEF DataInv

(* A store of lfq_queue_create_init() keeps the data part. *)
LEMMA BootData ==
  ASSUME BootIInv,
         \/ Boot(sndPc) /\ UNCHANGED <<sndHead, sndTail, sndI, rcvVars>>
         \/ Boot(rcvPc) /\ UNCHANGED <<rcvHead, rcvTail, rcvI, sndVars>>
  PROVE  DataInv'
<1> USE SizeAssumption
<1>1. UNCHANGED <<home, desc, recv>> /\ (staged' = staged \/ staged' = <<>>)
  BY DEF Boot, ResetHead, ResetTail, ResetList
<1>2. Ctl'
  BY BootCtl DEF BootIInv
<1>3. ASSUME ~SndBoots', NEW s \in Slot, InUse(s)' PROVE ~SndBoots /\ InUse(s)
  <2>1. CASE Boot(sndPc) /\ UNCHANGED <<sndHead, sndTail, sndI, rcvVars>>
    <3>1. sndPc = "boot list" /\ sndPc' = "idle" /\ head' = head /\ tail' = tail
          /\ UNCHANGED <<rcvPc, rcvI, rcvTail>>
      BY <1>3, <2>1 DEF Boot, ResetHead, ResetTail, ResetList, SndBoots, BootPc, rcvVars
    <3>2. head = 0 /\ tail = 0
      BY <3>1 DEF BootIInv, Ctl, StartInv, SndBoots, BootPc
    <3>3. rcvPc = "get" => rcvI = 0
      <4>1. rcvI \in Slot /\ rcvTail \in Slot
        BY DEF BootIInv, Ctl, BootTypeOK
      <4>2. rcvPc = "get" => Dist(0, rcvI) <= Dist(0, rcvTail) /\ Dist(0, rcvTail) <= Dist(0, 0)
        BY <3>2 DEF BootIInv, Ctl, GetInv
      <4> QED BY <4>1, <4>2 DEF Dist, Slot
    <3>4. Cursor' = 0 /\ End' = 0
      BY <3>1, <3>2, <3>3 DEF Cursor, End
    <3> QED BY <1>3, <3>4 DEF InUse, Dist, Slot
  <2>2. CASE Boot(rcvPc) /\ UNCHANGED <<rcvHead, rcvTail, rcvI, sndVars>>
    <3>1. UNCHANGED <<sndPc, sndTail, sndI>> /\ ~SndBoots
      BY <1>3, <2>2 DEF sndVars, SndBoots
    <3>2. RcvBoots /\ rcvPc \notin {"get"} /\ rcvPc' \notin {"get"}
      BY <2>2 DEF Boot, ResetHead, ResetTail, ResetList, RcvBoots, BootPc
    <3>3. head = 0 /\ head' = 0
      BY <2>2, <3>1, <3>2 DEF BootIInv, Ctl, StartInv, SndBoots, RcvBoots, BootPc,
                              Boot, ResetHead, ResetTail, ResetList
    <3>4. Cursor = 0 /\ Cursor' = 0
      BY <3>2, <3>3 DEF Cursor
    <3>5. tail' = tail \/ (tail' = 0 /\ rcvPc = "boot tail")
      BY <2>2 DEF Boot, ResetHead, ResetTail, ResetList
    <3>6. CASE tail' = tail
      <4>1. End' = End
        BY <3>1, <3>6 DEF End
      <4> QED BY <1>3, <3>1, <3>4, <4>1 DEF InUse, Dist
    <3>7. CASE tail' = 0 /\ tail # 0
      <4>1. sndPc = "put" => sndTail = tail
        BY <3>5, <3>7 DEF BootIInv, Ctl, PutInv
      <4>2. End' = 0
        BY <3>1, <3>7, <4>1 DEF End
      <4> QED BY <1>3, <3>4, <4>2 DEF InUse, Dist, Slot
    <3> QED BY <3>5, <3>6, <3>7
  <2> QED BY <2>1, <2>2
<1> QED BY <1>1, <1>3, DataKept DEF BootIInv

(* The ring from the receiver's place to the sender's. *)
LEMMA PutRoom ==
  ASSUME Ctl
  PROVE  Dist(head, tail) + Dist(tail, End) <= Size - 1
<1>1. CASE sndPc = "put" /\ sndTail = tail
  BY <1>1, SizeAssumption DEF Ctl, BootTypeOK, PutInv, Dist, End, Slot
<1>2. CASE ~(sndPc = "put" /\ sndTail = tail)
  BY <1>2, SizeAssumption DEF Ctl, BootTypeOK, Dist, End, Slot
<1> QED BY <1>1, <1>2

(* What the receiver reads is in use, and is so no longer. *)
LEMMA Readable ==
  ASSUME Ctl, GetPacket
  PROVE  /\ ~SndBoots
         /\ rcvI \in Slot /\ InUse(rcvI)
         /\ \A s \in Slot : InUse(s)' => InUse(s) /\ s # rcvI
<1> USE SizeAssumption
<1>1. ~SndBoots
  BY QuietStart DEF GetPacket
<1>2. /\ rcvPc = "get" /\ rcvI # rcvTail /\ rcvI' = NextSlot(rcvI)
      /\ UNCHANGED <<rcvPc, sndPc, sndTail, sndI, tail, head>>
  BY DEF GetPacket, sndVars
<1>3. /\ rcvI \in Slot /\ rcvTail \in Slot /\ head \in Slot /\ tail \in Slot
      /\ End \in Slot /\ NextSlot(rcvI) \in Slot
  BY Places DEF Ctl, BootTypeOK
<1>4. /\ Dist(head, rcvI) <= Dist(head, rcvTail)
      /\ Dist(head, rcvTail) <= Dist(head, tail)
  BY <1>2 DEF Ctl, GetInv
<1>5. rcvI # End
  BY <1>2, <1>3, <1>4, PutRoom DEF Dist, Slot
<1>6. Cursor = rcvI /\ Cursor' = NextSlot(rcvI) /\ End' = End
  BY <1>2 DEF Cursor, End
<1>7. InUse(rcvI)
  BY <1>3, <1>5, <1>6 DEF InUse, Dist, Slot
<1>8. ASSUME NEW s \in Slot, InUse(s)' PROVE InUse(s) /\ s # rcvI
  <2>1. Dist(NextSlot(rcvI), s) < Dist(NextSlot(rcvI), End)
    BY <1>6, <1>8 DEF InUse, Dist
  <2> QED BY <1>3, <1>5, <1>6, <2>1 DEF InUse, Dist, Slot, NextSlot
<1> QED BY <1>1, <1>3, <1>7, <1>8

(* The sender's steps keep the data part. *)
LEMMA PutData ==
  ASSUME BootIInv, (\E p \in Packets : Send(p)) \/ Put
  PROVE  DataInv'
<1> USE SizeAssumption
<1>0. ~SndBoots /\ ~SndBoots' /\ Ctl /\ Ctl' /\ DataInv /\ staged \in Seq(Packets)
  BY PutCtl DEF BootIInv, Ctl, BootTypeOK, SndBoots, BootPc, Put, Send, PutReadHead, PutReadTail, PutPacket,
                PutCommit, sndVars
<1>1. ASSUME NEW p \in Packets, Send(p) PROVE DataInv'
  <2>1. /\ UNCHANGED <<desc, recv>> /\ p \in home /\ home' = home \ {p}
        /\ staged' = Append(staged, p)
        /\ Cursor' = Cursor /\ End' = End
    BY <1>1 DEF Send, Cursor, End, sndVars, rcvVars
  <2>2. /\ Len(staged') = Len(staged) + 1 /\ Len(staged) \in Nat
        /\ \A k \in 1..Len(staged) : staged'[k] = staged[k]
        /\ staged'[Len(staged) + 1] = p
    BY <1>0, <2>1
  <2>3. \A k \in 1..Len(staged') :
          \/ staged'[k] = p /\ k = Len(staged) + 1
          \/ k \in 1..Len(staged) /\ staged'[k] = staged[k]
    <3> SUFFICES ASSUME NEW k \in 1..Len(staged')
                 PROVE  \/ staged'[k] = p /\ k = Len(staged) + 1
                        \/ k \in 1..Len(staged) /\ staged'[k] = staged[k]
      OBVIOUS
    <3>1. k = Len(staged) + 1 \/ k \in 1..Len(staged)
      BY <2>2
    <3> QED BY <2>2, <3>1
  <2>4. NothingInvented'
    BY <1>0, <2>1 DEF DataInv, NothingInvented
  <2>5. ASSUME NEW k \in 1..Len(staged')
        PROVE  /\ staged'[k] \in Packets \ home'
               /\ \A l \in 1..Len(recv') : staged'[k] # recv'[l]
               /\ \A l \in 1..Len(staged') : staged'[k] = staged'[l] => k = l
    <3>1. \A l \in 1..Len(recv) : recv[l] # p
      BY <1>0, <2>1 DEF DataInv, NothingInvented
    <3>2. \A l \in 1..Len(staged) : staged[l] # p
      BY <1>0, <2>1 DEF DataInv
    <3>3. \A l \in 1..Len(staged') : staged'[k] = staged'[l] => k = l
      BY <1>0, <2>2, <2>3, <3>2 DEF DataInv
    <3>4. /\ staged'[k] \in Packets \ home'
          /\ \A l \in 1..Len(recv') : staged'[k] # recv'[l]
      BY <1>0, <2>1, <2>3, <3>1 DEF DataInv
    <3> QED BY <3>3, <3>4
  <2>6. ASSUME NEW s \in Slot, InUse(s)'
        PROVE  /\ InUse(s)
               /\ desc'[s] \in Packets \ home'
               /\ \A k \in 1..Len(staged') : staged'[k] # desc'[s]
               /\ \A k \in 1..Len(recv') : recv'[k] # desc'[s]
    <3>1. InUse(s)
      BY <2>1, <2>6 DEF InUse, Dist
    <3>2. /\ desc[s] \in Packets \ home
          /\ \A k \in 1..Len(staged) : staged[k] # desc[s]
          /\ \A k \in 1..Len(recv) : recv[k] # desc[s]
      BY <1>0, <3>1 DEF DataInv
    <3> QED BY <2>1, <2>3, <3>1, <3>2
  <2>7. \A s, t \in Slot : InUse(s)' /\ InUse(t)' /\ desc'[s] = desc'[t] => s = t
    <3>1. \A s \in Slot : InUse(s)' => InUse(s)
      BY <2>6
    <3>2. desc' = desc
      BY <2>1
    <3>3. \A s, t \in Slot : InUse(s) /\ InUse(t) /\ desc[s] = desc[t] => s = t
      BY <1>0, Zenon DEF DataInv
    <3> QED BY <3>1, <3>2, <3>3, Zenon
  <2>8. \A s \in Slot : InUse(s)' =>
             /\ desc'[s] \in Packets \ home'
             /\ \A k \in 1..Len(staged') : staged'[k] # desc'[s]
             /\ \A k \in 1..Len(recv') : recv'[k] # desc'[s]
    BY <2>6, Zenon
  <2>9. \A k \in 1..Len(staged') :
               /\ staged'[k] \in Packets \ home'
               /\ \A l \in 1..Len(recv') : staged'[k] # recv'[l]
               /\ \A l \in 1..Len(staged') : staged'[k] = staged'[l] => k = l
    BY <2>5, Zenon
  <2> QED BY <2>4, <2>7, <2>8, <2>9, Zenon DEF DataInv
<1>2. CASE PutReadHead
  <2>1. UNCHANGED <<home, desc, recv, staged>> /\ Cursor' = Cursor /\ End' = End
    BY <1>2 DEF PutReadHead, Cursor, End, rcvVars
  <2>2. \A s \in Slot : InUse(s)' => InUse(s)
    BY <2>1 DEF InUse, Dist
  <2> QED BY <1>0, <2>1, <2>2, DataKept
<1>3. CASE PutReadTail
  <2>1. UNCHANGED <<home, desc, recv, staged>> /\ Cursor' = Cursor /\ End' = End
    BY <1>3 DEF PutReadTail, Cursor, End, rcvVars
  <2>2. \A s \in Slot : InUse(s)' => InUse(s)
    BY <2>1 DEF InUse, Dist
  <2> QED BY <1>0, <2>1, <2>2, DataKept
<1>5. CASE PutCommit
  <2>1. UNCHANGED <<home, desc, recv, staged>> /\ Cursor' = Cursor /\ End' = End
    BY <1>5 DEF PutCommit, Cursor, End, rcvVars
  <2>2. \A s \in Slot : InUse(s)' => InUse(s)
    BY <2>1 DEF InUse, Dist
  <2> QED BY <1>0, <2>1, <2>2, DataKept
<1>4. CASE PutPacket
  <2>1. /\ UNCHANGED <<home, head, tail, recv, sndPc, sndTail, rcvPc>>
        /\ sndPc = "put" /\ staged # <<>> /\ NextSlot(sndI) # sndHead
        /\ desc' = [desc EXCEPT ![sndI] = Head(staged)]
        /\ staged' = Tail(staged) /\ sndI' = NextSlot(sndI)
        /\ Cursor' = Cursor
    BY <1>4 DEF PutPacket, Cursor, rcvVars
  <2>2. /\ Head(staged) = staged[1] /\ Len(staged) \in Nat \ {0}
        /\ Len(staged') = Len(staged) - 1
        /\ \A k \in 1..Len(staged') : staged'[k] = staged[k + 1]
    BY <1>0, <2>1
  <2>3. /\ Cursor \in Slot /\ End \in Slot /\ sndI \in Slot /\ NextSlot(sndI) \in Slot
        /\ head \in Slot /\ tail \in Slot /\ sndHead \in Slot
        /\ desc \in [Slot -> Packets \cup {NoPacket}]
    BY <1>0, Places DEF Ctl, BootTypeOK
  <2>4. ASSUME NEW s \in Slot, InUse(s)'
        PROVE  s = sndI \/ (s # sndI /\ InUse(s))
    <3>1. CASE sndTail = tail
      <4>1. End = sndI /\ End' = NextSlot(sndI)
        BY <2>1, <3>1 DEF End
      <4> QED BY <2>1, <2>3, <2>4, <4>1 DEF InUse, Dist, Slot, NextSlot
    <3>2. CASE sndTail # tail
      <4>1. head = tail /\ End' = tail
        BY <1>0, <2>1, <3>2 DEF Ctl, PutInv, End
      <4>2. rcvPc = "get" => Dist(head, rcvI) <= Dist(head, rcvTail)
                             /\ Dist(head, rcvTail) <= Dist(head, tail)
        BY <1>0 DEF Ctl, GetInv
      <4>3. rcvI \in Slot /\ rcvTail \in Slot
        BY <1>0 DEF Ctl, BootTypeOK
      <4>4. rcvPc = "get" => rcvI = head
        BY <2>3, <4>1, <4>2, <4>3 DEF Dist, Slot
      <4>5. Cursor' = tail
        BY <2>1, <4>1, <4>4 DEF Cursor
      <4> QED BY <2>3, <2>4, <4>1, <4>5 DEF InUse, Dist, Slot
    <3> QED BY <3>1, <3>2
  <2>5. /\ \A s \in Slot : s # sndI => desc'[s] = desc[s]
        /\ desc'[sndI] = staged[1]
    BY <2>1, <2>2, <2>3
  <2>6. ASSUME NEW k \in 1..Len(staged)
        PROVE  /\ staged[k] \in Packets \ home
               /\ \A l \in 1..Len(recv) : staged[k] # recv[l]
               /\ \A l \in 1..Len(staged) : staged[k] = staged[l] => k = l
    BY <1>0, <2>6 DEF DataInv
  <2>7. 1 \in 1..Len(staged) /\ \A k \in 1..Len(staged') : k + 1 \in 1..Len(staged) /\ k + 1 # 1
    BY <2>2
  <2>8. \A s \in Slot : InUse(s) =>
             /\ desc[s] \in Packets \ home
             /\ \A k \in 1..Len(staged) : staged[k] # desc[s]
             /\ \A k \in 1..Len(recv) : recv[k] # desc[s]
    BY <1>0, Zenon DEF DataInv
  <2>9. ASSUME NEW s \in Slot, InUse(s)'
        PROVE  /\ desc'[s] \in Packets \ home'
               /\ \A k \in 1..Len(staged') : staged'[k] # desc'[s]
               /\ \A k \in 1..Len(recv') : recv'[k] # desc'[s]
    <3>1. CASE s = sndI
      BY <2>1, <2>2, <2>5, <2>6, <2>7, <3>1
    <3>2. CASE s # sndI
      BY <2>1, <2>2, <2>4, <2>5, <2>7, <2>8, <2>9, <3>2
    <3> QED BY <3>1, <3>2
  <2>10. ASSUME NEW s \in Slot, NEW t \in Slot, InUse(s)', InUse(t)', desc'[s] = desc'[t]
         PROVE  s = t
    <3>1. CASE s = sndI /\ t # sndI
      BY <2>4, <2>5, <2>7, <2>8, <2>10, <3>1
    <3>2. CASE s # sndI /\ t = sndI
      BY <2>4, <2>5, <2>7, <2>8, <2>10, <3>2
    <3>3. CASE s # sndI /\ t # sndI
      <4>1. InUse(s) /\ InUse(t) /\ desc[s] = desc[t]
        BY <2>4, <2>5, <2>10, <3>3
      <4> QED BY <1>0, <4>1, Zenon DEF DataInv
    <3> QED BY <3>1, <3>2, <3>3
  <2>11. ASSUME NEW k \in 1..Len(staged')
         PROVE  /\ staged'[k] \in Packets \ home'
                /\ \A l \in 1..Len(recv') : staged'[k] # recv'[l]
                /\ \A l \in 1..Len(staged') : staged'[k] = staged'[l] => k = l
    <3>1. k + 1 \in 1..Len(staged) /\ staged'[k] = staged[k + 1]
      BY <2>2, <2>7
    <3>2. ASSUME NEW l \in 1..Len(staged'), staged'[k] = staged'[l] PROVE k = l
      <4>1. l + 1 \in 1..Len(staged) /\ staged[k + 1] = staged[l + 1]
        BY <2>2, <2>7, <3>1, <3>2
      <4>2. k + 1 = l + 1
        BY <2>6, <3>1, <4>1
      <4> QED BY <2>2, <4>2
    <3> QED BY <2>1, <2>6, <3>1, <3>2
  <2>12. NothingInvented'
    BY <1>0, <2>1 DEF DataInv, NothingInvented
  <2>13. /\ \A s \in Slot : InUse(s)' =>
              /\ desc'[s] \in Packets \ home'
              /\ \A k \in 1..Len(staged') : staged'[k] # desc'[s]
              /\ \A k \in 1..Len(recv') : recv'[k] # desc'[s]
         /\ \A s, t \in Slot : InUse(s)' /\ InUse(t)' /\ desc'[s] = desc'[t] => s = t
         /\ \A k \in 1..Len(staged') :
              /\ staged'[k] \in Packets \ home'
              /\ \A l \in 1..Len(recv') : staged'[k] # recv'[l]
              /\ \A l \in 1..Len(staged') : staged'[k] = staged'[l] => k = l
    BY <2>9, <2>10, <2>11, Zenon
  <2> QED BY <2>12, <2>13, Zenon DEF DataInv
<1> QED BY <1>1, <1>2, <1>3, <1>4, <1>5 DEF Put

(* The receiver's steps keep the data part. *)
LEMMA GetData ==
  ASSUME BootIInv, Ctl', Get \/ ProcessReceived
  PROVE  DataInv'
<1> USE SizeAssumption
<1>0. Ctl /\ DataInv /\ recv \in Seq(Packets)
  BY DEF BootIInv, Ctl, BootTypeOK
<1>1. CASE GetReadHead \/ GetReadTail \/ GetCommit
  <2>1. UNCHANGED <<home, desc, recv, staged, sndPc, sndTail, sndI, tail>> /\ Cursor' = Cursor
    <3>1. CASE GetReadHead
      BY <3>1 DEF GetReadHead, Cursor, sndVars
    <3>2. CASE GetReadTail
      BY <1>0, <3>2 DEF GetReadTail, Cursor, sndVars, Ctl, GetInv
    <3>3. CASE GetCommit
      BY <1>0, <3>3 DEF GetCommit, Cursor, sndVars, Ctl, GetInv
    <3> QED BY <1>1, <3>1, <3>2, <3>3
  <2>2. End' = End /\ (SndBoots' <=> SndBoots)
    BY <2>1 DEF End, SndBoots
  <2>3. \A s \in Slot : InUse(s)' => InUse(s)
    BY <2>1, <2>2 DEF InUse, Dist
  <2> QED BY <1>0, <2>1, <2>2, <2>3, DataKept
<1>2. CASE GetPacket
  <2>1. /\ UNCHANGED <<home, desc, staged>> /\ recv' = Append(recv, desc[rcvI])
    BY <1>2 DEF GetPacket, sndVars
  <2>2. /\ ~SndBoots /\ rcvI \in Slot /\ InUse(rcvI)
        /\ \A s \in Slot : InUse(s)' => InUse(s) /\ s # rcvI
    BY <1>0, <1>2, Readable
  <2>3. /\ \A s \in Slot : InUse(s) =>
             /\ desc[s] \in Packets \ home
             /\ \A k \in 1..Len(staged) : staged[k] # desc[s]
             /\ \A k \in 1..Len(recv) : recv[k] # desc[s]
        /\ \A s, t \in Slot : InUse(s) /\ InUse(t) /\ desc[s] = desc[t] => s = t
    BY <1>0, <2>2, Zenon DEF DataInv
  <2>4. /\ desc[rcvI] \in Packets \ home
        /\ \A k \in 1..Len(staged) : staged[k] # desc[rcvI]
        /\ \A k \in 1..Len(recv) : recv[k] # desc[rcvI]
    BY <2>2, <2>3
  <2>5. \A k \in 1..Len(recv') :
          \/ recv'[k] = desc[rcvI] /\ k = Len(recv) + 1
          \/ k \in 1..Len(recv) /\ recv'[k] = recv[k]
    <3> DEFINE d == desc[rcvI]
    <3>1. d \in Packets /\ recv' = Append(recv, d)
      BY <2>1, <2>4
    <3> HIDE DEF d
    <3>2. /\ Len(recv') = Len(recv) + 1 /\ Len(recv) \in Nat
          /\ \A k \in 1..Len(recv) : recv'[k] = recv[k]
          /\ recv'[Len(recv) + 1] = d
      BY <1>0, <3>1
    <3>3. ASSUME NEW k \in 1..Len(recv')
          PROVE  \/ recv'[k] = d /\ k = Len(recv) + 1
                 \/ k \in 1..Len(recv) /\ recv'[k] = recv[k]
      <4>1. k = Len(recv) + 1 \/ k \in 1..Len(recv)
        BY <3>2
      <4> QED BY <3>2, <4>1
    <3> QED BY <3>3 DEF d
  <2>6. \A k \in 1..Len(recv) :
          /\ recv[k] \in Packets \ home
          /\ \A l \in 1..Len(recv) : recv[k] = recv[l] => k = l
    BY <1>0 DEF DataInv, NothingInvented
  <2>7. NothingInvented'
    BY <2>1, <2>4, <2>5, <2>6 DEF NothingInvented
  <2>8. \A s \in Slot : InUse(s)' =>
             /\ desc'[s] \in Packets \ home'
             /\ \A k \in 1..Len(staged') : staged'[k] # desc'[s]
             /\ \A k \in 1..Len(recv') : recv'[k] # desc'[s]
    <3> SUFFICES ASSUME NEW s \in Slot, InUse(s)'
                 PROVE  /\ desc[s] \in Packets \ home
                        /\ \A k \in 1..Len(staged) : staged[k] # desc[s]
                        /\ \A k \in 1..Len(recv') : recv'[k] # desc[s]
      BY <2>1
    <3>1. InUse(s) /\ s # rcvI
      BY <2>2
    <3>2. desc[s] # desc[rcvI]
      BY <2>2, <2>3, <3>1
    <3> QED BY <2>3, <2>5, <3>1, <3>2
  <2>9. \A s, t \in Slot : InUse(s)' /\ InUse(t)' /\ desc'[s] = desc'[t] => s = t
    <3>1. desc' = desc
      BY <2>1
    <3> QED BY <2>2, <2>3, <3>1, Zenon
  <2>10. \A k \in 1..Len(staged') :
              /\ staged'[k] \in Packets \ home'
              /\ \A l \in 1..Len(recv') : staged'[k] # recv'[l]
              /\ \A l \in 1..Len(staged') : staged'[k] = staged'[l] => k = l
    <3>1. \A k \in 1..Len(staged) :
              /\ staged[k] \in Packets \ home
              /\ \A l \in 1..Len(recv) : staged[k] # recv[l]
              /\ \A l \in 1..Len(staged) : staged[k] = staged[l] => k = l
      BY <1>0, Zenon DEF DataInv
    <3> QED BY <2>1, <2>4, <2>5, <3>1
  <2> QED BY <2>7, <2>8, <2>9, <2>10, Zenon DEF DataInv
<1>3. CASE ProcessReceived
  <2>1. /\ UNCHANGED <<desc, staged>> /\ recv' = <<>> /\ Len(recv') = 0
        /\ home' = home \cup {recv[k] : k \in 1..Len(recv)}
        /\ Cursor' = Cursor /\ End' = End /\ (SndBoots' <=> SndBoots)
    BY <1>3 DEF ProcessReceived, sndVars, Cursor, End, SndBoots
  <2>2. NothingInvented'
    BY <2>1 DEF NothingInvented
  <2>3. \A k \in 1..Len(staged) :
              /\ staged[k] \in Packets \ home
              /\ \A l \in 1..Len(recv) : staged[k] # recv[l]
              /\ \A l \in 1..Len(staged) : staged[k] = staged[l] => k = l
    BY <1>0, Zenon DEF DataInv
  <2>4. \A k \in 1..Len(staged') :
              /\ staged'[k] \in Packets \ home'
              /\ \A l \in 1..Len(recv') : staged'[k] # recv'[l]
              /\ \A l \in 1..Len(staged') : staged'[k] = staged'[l] => k = l
    BY <2>1, <2>3
  <2>5. ASSUME ~SndBoots, NEW s \in Slot, InUse(s)'
        PROVE  /\ InUse(s)
               /\ desc'[s] \in Packets \ home'
               /\ \A k \in 1..Len(staged') : staged'[k] # desc'[s]
               /\ \A k \in 1..Len(recv') : recv'[k] # desc'[s]
    <3>1. InUse(s)
      BY <2>1, <2>5 DEF InUse, Dist
    <3>2. /\ desc[s] \in Packets \ home
          /\ \A k \in 1..Len(staged) : staged[k] # desc[s]
          /\ \A k \in 1..Len(recv) : recv[k] # desc[s]
      BY <1>0, <2>5, <3>1, Zenon DEF DataInv
    <3> QED BY <2>1, <3>1, <3>2
  <2>6. ASSUME ~SndBoots
        PROVE  \A s, t \in Slot : InUse(s)' /\ InUse(t)' /\ desc'[s] = desc'[t] => s = t
    <3>1. desc' = desc /\ \A s \in Slot : InUse(s)' => InUse(s)
      BY <2>1, <2>5, <2>6
    <3>2. \A s, t \in Slot : InUse(s) /\ InUse(t) /\ desc[s] = desc[t] => s = t
      BY <1>0, <2>6, Zenon DEF DataInv
    <3> QED BY <3>1, <3>2, Zenon
  <2>7. ~SndBoots' =>
          /\ \A s \in Slot : InUse(s)' =>
               /\ desc'[s] \in Packets \ home'
               /\ \A k \in 1..Len(staged') : staged'[k] # desc'[s]
               /\ \A k \in 1..Len(recv') : recv'[k] # desc'[s]
          /\ \A s, t \in Slot : InUse(s)' /\ InUse(t)' /\ desc'[s] = desc'[t] => s = t
    BY <2>1, <2>5, <2>6, Zenon
  <2> QED BY <2>2, <2>4, <2>7, Zenon DEF DataInv
<1> QED BY <1>1, <1>2, <1>3 DEF Get

-----------------------------------------------------------------------------
(* Every step keeps the invariant. *)
LEMMA BootInductive == BootIInv /\ [BootNext]_vars => BootIInv'
<1> SUFFICES ASSUME BootIInv, [BootNext]_vars PROVE BootIInv'
  OBVIOUS
<1>1. CASE \/ Boot(sndPc) /\ UNCHANGED <<sndHead, sndTail, sndI, rcvVars>>
           \/ Boot(rcvPc) /\ UNCHANGED <<rcvHead, rcvTail, rcvI, sndVars>>
  BY <1>1, BootCtl, BootData DEF BootIInv
<1>2. CASE (\E p \in Packets : Send(p)) \/ Put
  BY <1>2, PutCtl, PutData DEF BootIInv
<1>3. CASE Get \/ ProcessReceived
  <2>1. GetPacket => desc[rcvI] \in Packets
    BY Readable DEF BootIInv, DataInv
  <2>2. Ctl'
    BY <1>3, <2>1, GetCtl DEF BootIInv
  <2> QED BY <1>3, <2>2, GetData DEF BootIInv
<1>4. CASE UNCHANGED vars
  <2>1. UNCHANGED <<home, staged, desc, head, tail, sndPc, sndHead, sndTail, sndI,
                    rcvPc, rcvHead, rcvTail, rcvI, recv>>
    BY <1>4 DEF vars, sndVars, rcvVars
  <2>2. Ctl'
    BY <2>1 DEF BootIInv, Ctl, BootTypeOK, StartInv, PutInv, GetInv, SndBoots, RcvBoots, Dist
  <2>3. Cursor' = Cursor /\ End' = End /\ (SndBoots' <=> SndBoots)
    BY <2>1 DEF Cursor, End, SndBoots
  <2>4. \A s \in Slot : InUse(s)' => InUse(s)
    BY <2>3 DEF InUse, Dist
  <2> QED BY <2>1, <2>2, <2>3, <2>4, DataKept DEF BootIInv
<1> QED BY <1>1, <1>2, <1>3, <1>4 DEF BootNext, Next

(* Whatever the shared memory held and whichever process initialises a     *)
(* queue last, lfq_recv() returns only packets that were sent, each once:  *)
(* the late stores of lfq_queue_create_init() can only lose packets.       *)
THEOREM StartInventsNothing == BootSpec => []NothingInvented
<1>1. BootIInv => NothingInvented
  BY DEF BootIInv, DataInv
<1> QED BY <1>1, BootInitial, BootInductive, PTL DEF BootSpec
=============================================================================
