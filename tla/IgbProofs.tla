------------------------------ MODULE IgbProofs ------------------------------
(***************************************************************************)
(* Proofs about parts of the igb driver: the interrupts of a NIC, for      *)
(* every model of it, any number of queues and VFs that the module is      *)
(* loaded with, and any failure (IgbVectors); the intervals that are asked *)
(* for and written (IgbItr); what is known of a cable (IgbPhy); waking the *)
(* system, for any ports (IgbWake); time stamps (IgbStamp); and the life   *)
(* of a NIC from probe to removal (IgbDevice).                             *)
(*                                                                         *)
(* The last is the longest.  DeviceInv has two layers.  TodoInv is the     *)
(* grammar of the calls: which steps may be left after which, so that what *)
(* a thread has before it tells what it has done.  On it rest the parts    *)
(* that relate what is left of the calls of all threads to the flags of    *)
(* the device: who holds the NAPI instance, who will enable it again, who  *)
(* will register and free the handlers and the rings, what a removal has   *)
(* already put an end to.  A lemma for every kind of step shows that it    *)
(* keeps both (QuietSteps, NapiDisableKeeps ... MsixRingKeeps).            *)
(***************************************************************************)
EXTENDS IgbVectors, IgbItr, IgbPhy, IgbWake, IgbStamp, IgbDevice, SequenceTheorems, TLAPS

(* What is known of the NIC before anything is set up. *)
Given == Mac \in Macs /\ QueueNum \in Nat \ {0} /\ MaxVfs \in Nat

(* The numbers of queues and vectors. *)
CountInv ==
  /\ vfs \in Nat /\ rss \in 1..8 /\ pairs \in BOOLEAN
  /\ num \in 0..8 /\ nqv \in 0..MAX_Q_VECTORS
  /\ Mac = "82575" => rss <= 4 /\ num <= 4
  /\ Mac # "82576" => vfs = 0
  /\ vfs > 0 => rss <= 2
  /\ rss > 4 => pairs
  /\ nqv > 0 <=> num > 0

(* The registers are those of RingRegister for some number of VFs. *)
RegInv ==
  /\ reg = [i \in Rings |-> RingRegister(reg[0], i)]
  /\ num > 0 =>
       /\ reg[0] \in Nat
       /\ Mac # "82576" => reg[0] = 0
       /\ reg[0] > 0 => num <= 2

(* The q_vectors have the rings that igb_map_ring_to_vector() gives them,  *)
(* or, after falling back, none.                                           *)
QvInv ==
  num > 0 =>
    \/ /\ num = rss /\ nqv \in {num, 2 * num} /\ qv = MapRingToVector(num, nqv)
       /\ irq # "msix" => num = 1 /\ nqv = 1
    \/ /\ num = 1 /\ nqv = 1 /\ irq # "msix"
       /\ qv = [v \in 0..0 |-> [rx |-> None, tx |-> None]]

(* The inductive invariant. *)
VectorsInv == Given /\ CountInv /\ RegInv /\ QvInv /\ EveryRingHeard

-----------------------------------------------------------------------------
(* The first ring's register is the number of VFs it was computed with. *)
LEMMA FirstRegister ==
  \A v \in Nat : RingRegister(v, 0) = v
BY DEF RingRegister, QIdx

(* No two rings of a kind share a register, and registers are the NIC's. *)
LEMMA RegistersApart ==
  ASSUME Given, CountInv, RegInv, Numbered
  PROVE  /\ \A i \in Rings : reg[i] \in 0..(IF Mac = "82576" THEN 15
                                            ELSE IF Mac = "82575" THEN 3 ELSE 7)
         /\ \A i, j \in Rings : reg[i] = reg[j] => i = j
<1> DEFINE b == reg[0]
<1>1. b \in 0..7 /\ num \in 1..8 /\ (b > 0 => Mac = "82576" /\ num <= 2)
      /\ (Mac = "82575" => num <= 4)
  BY DEF CountInv, RegInv, Numbered
<1>2. \A i \in Rings : reg[i] = RingRegister(b, i)
  BY DEF RegInv
<1> HIDE DEF b
<1>3. CASE b = 0
  <2>1. \A i \in Rings : reg[i] = i
    BY <1>1, <1>2, <1>3 DEF RingRegister, Rings
  <2> QED BY <1>1, <2>1 DEF Rings, Given, Macs
<1>4. CASE b > 0
  <2>1. \A i \in Rings : i = 0 \/ i = 1
    BY <1>1, <1>4 DEF Rings
  <2>2. \A i \in Rings : reg[i] = b + (8 * i)
    BY <1>1, <1>2, <1>4, <2>1 DEF RingRegister, QIdx
  <2> QED BY <1>1, <1>4, <2>1, <2>2
<1> QED BY <1>1, <1>3, <1>4

(* Registers that differ have cells that differ, rx and tx cells differ    *)
(* always, and all are in the table.                                       *)
LEMMA CellsApart ==
  ASSUME Given, NEW q \in 0..15, NEW r \in 0..15,
         NEW k \in {"rx", "tx"}, NEW l \in {"rx", "tx"},
         Mac # "82576" => q <= 7 /\ r <= 7
  PROVE  /\ Cell(k, q) \in Cells
         /\ Cell(k, q) = Cell(l, r) => k = l /\ q = r
<1>1. CASE Mac = "82575"
  BY <1>1 DEF Cell, Cells
<1>2. CASE Mac = "82576"
  BY <1>2 DEF Cell, Cells
<1>3. CASE Mac \in {"82580", "i350"}
  BY <1>3 DEF Cell, Cells
<1> QED BY <1>1, <1>2, <1>3 DEF Given, Macs


(* Every ring is in one q_vector, and of each kind in no other. *)
LEMMA MappedOnce ==
  ASSUME CountInv, QvInv, Mapped
  PROVE  /\ \A i \in Rings : /\ \E v \in QVectors : qv[v].rx = i
                             /\ \E v \in QVectors : qv[v].tx = i
         /\ \A v \in QVectors : /\ qv[v].rx \in Rings \cup {None}
                                /\ qv[v].tx \in Rings \cup {None}
         /\ \A v, w \in QVectors :
              /\ qv[v].rx # None /\ qv[v].rx = qv[w].rx => v = w
              /\ qv[v].tx # None /\ qv[v].tx = qv[w].tx => v = w
<1>1. /\ num \in Nat \ {0} /\ nqv \in {num, 2 * num}
      /\ qv = MapRingToVector(num, nqv)
  BY DEF CountInv, QvInv, Mapped, MAX_Q_VECTORS
<1>2. CASE nqv = num
  <2>1. \A v \in QVectors : v < num /\ nqv < 2 * num
    BY <1>1, <1>2 DEF QVectors
  <2>2. QVectors = Rings /\ None \notin Rings
    BY <1>2 DEF QVectors, Rings, None
  <2>3. \A v \in QVectors : qv[v].rx = v /\ qv[v].tx = v
    BY <1>1, <2>1 DEF MapRingToVector, QVectors
  <2> QED BY <2>2, <2>3
<1>3. CASE nqv = 2 * num
  <2>1. ~(nqv < 2 * num)
    BY <1>1, <1>3
  <2>2. \A v \in QVectors : /\ qv[v].rx = IF v < num THEN v ELSE None
                            /\ qv[v].tx = IF v < num THEN None ELSE v - num
    BY <1>1, <2>1 DEF MapRingToVector, QVectors
  <2>3. \A i \in Rings : i \in QVectors /\ i < num /\ num + i \in QVectors
    BY <1>1, <1>3 DEF QVectors, Rings
  <2>4. \A i \in Rings : qv[i].rx = i /\ qv[num + i].tx = i
    BY <1>1, <2>2, <2>3 DEF Rings
  <2>5. \A v \in QVectors : qv[v].rx \in Rings \cup {None} /\ qv[v].tx \in Rings \cup {None}
    BY <1>1, <1>3, <2>2 DEF QVectors, Rings
  <2>6. \A v, w \in QVectors :
              /\ qv[v].rx # None /\ qv[v].rx = qv[w].rx => v = w
              /\ qv[v].tx # None /\ qv[v].tx = qv[w].tx => v = w
    BY <1>1, <1>3, <2>2 DEF QVectors, None
  <2> QED BY <2>3, <2>4, <2>5, <2>6
<1> QED BY <1>1, <1>2, <1>3

(* What igb_assign_vector() writes for each ring is still there after it   *)
(* has been called for all of them.                                        *)
LEMMA Assigned ==
  ASSUME Given, CountInv, RegInv, QvInv, Mapped, Numbered, NEW i \in Rings
  PROVE  /\ \E v \in QVectors : qv[v].rx = i
                                /\ AssignVectors[Cell("rx", reg[i])] = FirstVector + v
         /\ \E v \in QVectors : qv[v].tx = i
                                /\ AssignVectors[Cell("tx", reg[i])] = FirstVector + v
<1>1. \A j \in Rings : reg[j] \in 0..15 /\ (Mac # "82576" => reg[j] <= 7)
  BY RegistersApart DEF Given, Macs
<1>2. \A j, k \in Rings : reg[j] = reg[k] => j = k
  BY RegistersApart
<1>3. \A j, k \in Rings : /\ Cell("rx", reg[j]) \in Cells /\ Cell("tx", reg[j]) \in Cells
                          /\ Cell("rx", reg[j]) # Cell("tx", reg[k])
                          /\ Cell("rx", reg[j]) = Cell("rx", reg[k]) => j = k
                          /\ Cell("tx", reg[j]) = Cell("tx", reg[k]) => j = k
  BY <1>1, <1>2, CellsApart
<1>4. \A v \in QVectors : v \in Int
  BY DEF QVectors
<1>5. PICK v \in QVectors : qv[v].rx = i
  BY MappedOnce
<1>6. PICK w \in QVectors : qv[w].tx = i
  BY MappedOnce
<1>7. i # None
  BY DEF Rings, None, CountInv
<1> DEFINE wr(c) == {u \in QVectors : c \in CellsOf(u)}
<1>8. wr(Cell("rx", reg[i])) = {v}
  <2>1. v \in wr(Cell("rx", reg[i]))
    BY <1>5, <1>7 DEF CellsOf
  <2>2. ASSUME NEW u \in QVectors, Cell("rx", reg[i]) \in CellsOf(u) PROVE u = v
    <3>1. qv[u].rx \in Rings \cup {None} /\ qv[u].tx \in Rings \cup {None}
      BY MappedOnce
    <3>2. qv[u].rx # None /\ qv[u].rx = i
      BY <1>3, <2>2, <3>1 DEF CellsOf
    <3> QED BY <1>5, <3>2, MappedOnce
  <2> QED BY <2>1, <2>2
<1>9. wr(Cell("tx", reg[i])) = {w}
  <2>1. w \in wr(Cell("tx", reg[i]))
    BY <1>6, <1>7 DEF CellsOf
  <2>2. ASSUME NEW u \in QVectors, Cell("tx", reg[i]) \in CellsOf(u) PROVE u = w
    <3>1. qv[u].rx \in Rings \cup {None} /\ qv[u].tx \in Rings \cup {None}
      BY MappedOnce
    <3>2. qv[u].tx # None /\ qv[u].tx = i
      BY <1>3, <2>2, <3>1 DEF CellsOf
    <3> QED BY <1>6, <3>2, MappedOnce
  <2> QED BY <2>1, <2>2
<1>10. \A c \in Cells : wr(c) # {} =>
         AssignVectors[c] = FirstVector + (CHOOSE u \in wr(c) : \A x \in wr(c) : x <= u)
  BY DEF AssignVectors
<1>11. \A u \in QVectors : (CHOOSE y \in {u} : \A x \in {u} : x <= y) = u
  BY <1>4
<1>12. AssignVectors[Cell("rx", reg[i])] = FirstVector + v
  <2> HIDE DEF wr
  <2> QED BY <1>3, <1>8, <1>10, <1>11
<1>13. AssignVectors[Cell("tx", reg[i])] = FirstVector + w
  <2> HIDE DEF wr
  <2> QED BY <1>3, <1>9, <1>10, <1>11
<1> QED BY <1>5, <1>6, <1>12, <1>13

-----------------------------------------------------------------------------
LEMMA InitInv == VectorsInit => VectorsInv
<1> SUFFICES ASSUME VectorsInit PROVE VectorsInv
  OBVIOUS
<1>1. Given
  BY DEF VectorsInit, Given
<1>2. CountInv
  <2>1. vfs = 0 /\ rss = 1 /\ num = 0 /\ nqv = 0
    BY DEF VectorsInit
  <2>2. pairs \in BOOLEAN
    BY Zenon DEF VectorsInit
  <2> QED BY <2>1, <2>2 DEF CountInv, MAX_Q_VECTORS
<1>3. RegInv
  <2>1. Rings = 0..(-1)
    BY DEF VectorsInit, Rings
  <2> QED BY <2>1 DEF VectorsInit, RegInv
<1>4. QvInv /\ EveryRingHeard
  BY DEF VectorsInit, QvInv, EveryRingHeard
<1> QED BY <1>1, <1>2, <1>3, <1>4 DEF VectorsInv

(* What igb_init_interrupt_scheme() sets up, at probe and at resume. *)
LEMMA SchemeInv ==
  ASSUME VectorsInv, NEW v \in Nat, NEW r \in 1..8, NEW p \in BOOLEAN, NEW next,
         InitInterruptScheme(v, r, p, next), next # "up",
         Mac = "82575" => r <= 4, Mac # "82576" => v = 0,
         v > 0 => r <= 2, r > 4 => p
  PROVE  VectorsInv'
<1> USE DEF InitInterruptScheme
<1>1. Given'
  BY DEF VectorsInv, Given
<1>2. /\ vfs' \in Nat /\ rss' \in 1..8 /\ pairs' \in BOOLEAN
      /\ num' = rss' /\ nqv' \in {num', 2 * num'} /\ nqv' \in 1..8
      /\ (Mac = "82575" => rss' <= 4) /\ (Mac # "82576" => vfs' = 0)
      /\ (vfs' > 0 => rss' <= 2) /\ (rss' > 4 => pairs')
      /\ (irq' # "msix" => num' = 1 /\ nqv' = 1)
  <2>1. CASE WithMsix(v, r, p)
    <3>1. NumVecs(r, p) \in {r, 2 * r} /\ NumVecs(r, p) \in 1..8
      BY DEF NumVecs
    <3> QED BY <2>1, <3>1 DEF WithMsix
  <2>2. CASE WithoutMsix
    BY <2>2 DEF WithoutMsix
  <2> QED BY <2>1, <2>2
<1>3. CountInv'
  BY <1>2 DEF CountInv, VectorsInv, MAX_Q_VECTORS
<1>4. RegInv'
  <2>1. reg' = [i \in Rings' |-> RingRegister(vfs', i)] /\ 0 \in Rings'
    <3>1. Rings' = 0..(num' - 1)
      BY DEF Rings
    <3>2. 0 \in Rings'
      <4>1. num' \in 1..8
        BY <1>2
      <4>2. \A k \in 1..8 : 0 \in 0..(k - 1)
        OBVIOUS
      <4> QED BY <3>1, <4>1, <4>2, Zenon
    <3>3. reg' = [i \in 0..(num' - 1) |-> RingRegister(vfs', i)]
      OBVIOUS
    <3> QED BY <3>1, <3>2, <3>3
  <2>2. reg'[0] = vfs'
    BY <1>2, <2>1, FirstRegister
  <2> QED BY <1>2, <2>1, <2>2 DEF RegInv
<1>5. QvInv'
  BY <1>2 DEF QvInv
<1>6. EveryRingHeard'
  BY DEF EveryRingHeard
<1> QED BY <1>1, <1>3, <1>4, <1>5, <1>6 DEF VectorsInv

(* Every step preserves the invariant. *)
LEMMA StepInv == VectorsInv /\ [VectorsNext]_vectorVars => VectorsInv'
<1> SUFFICES ASSUME VectorsInv, [VectorsNext]_vectorVars PROVE VectorsInv'
  OBVIOUS
<1> USE DEF counts
<1>1. CASE SwInit
  <2> DEFINE v == IF Mac = "82576" THEN MaxVfs ELSE 0
             r == Lesser(MaxRxQueues(v), QueueNum)
  <2>1. /\ v \in Nat /\ r \in 1..8 /\ (Mac = "82575" => r <= 4)
        /\ (Mac # "82576" => v = 0) /\ (v > 0 => r <= 2)
    BY DEF VectorsInv, Given, Lesser, MaxRxQueues
  <2>2. InitInterruptScheme(v, r, r > 4 \/ (r > 1 /\ v > 6), "probe")
    BY <1>1 DEF SwInit
  <2> HIDE DEF v, r
  <2> QED BY <2>1, <2>2, SchemeInv
<1>2. CASE ProbeVfs
  <2>1. vfs' \in Nat /\ vfs' <= vfs
    BY <1>2 DEF ProbeVfs, VectorsInv, CountInv, Lesser
  <2>2. CountInv'
    BY <1>2, <2>1 DEF ProbeVfs, VectorsInv, CountInv
  <2> QED BY <1>2, <2>2 DEF ProbeVfs, VectorsInv, RegInv, QvInv, Rings, EveryRingHeard, Given
<1>3. CASE IgbRequestIrq
  <2>1. CountInv'
    BY <1>3 DEF IgbRequestIrq, VectorsInv, CountInv
  <2>2. RegInv' /\ QvInv' /\ Given'
    BY <1>3 DEF IgbRequestIrq, VectorsInv, RegInv, QvInv, Rings, Given
  <2>3. EveryRingHeard'
    <3>1. SUFFICES ASSUME Mapped, Numbered
                   PROVE \A i \in Rings :
                     /\ \E v \in QVectors : qv[v].rx = i /\ AssignVectors[Cell("rx", reg[i])] = FirstVector + v
                     /\ \E v \in QVectors : qv[v].tx = i /\ AssignVectors[Cell("tx", reg[i])] = FirstVector + v
      BY <1>3 DEF IgbRequestIrq, EveryRingHeard, Mapped, Numbered, Rings, QVectors, FirstVector
    <3> QED BY <3>1, Assigned DEF VectorsInv
  <2> QED BY <2>1, <2>2, <2>3 DEF VectorsInv
<1>4. CASE FallBack
  <2>1. CountInv'
    BY <1>4 DEF FallBack, VectorsInv, CountInv, MAX_Q_VECTORS
  <2>2. RegInv'
    <3>1. reg' = [i \in Rings' |-> RingRegister(vfs, i)] /\ 0 \in Rings' /\ vfs \in Nat
      BY <1>4 DEF Rings, FallBack, VectorsInv, CountInv
    <3>2. reg'[0] = vfs
      BY <3>1, FirstRegister
    <3> QED BY <1>4, <3>1, <3>2 DEF RegInv, FallBack, VectorsInv, CountInv
  <2>3. QvInv' /\ Given'
    BY <1>4 DEF FallBack, QvInv, VectorsInv, Given
  <2>4. EveryRingHeard'
    <3>1. qv'[0].rx = None
      BY <1>4 DEF FallBack
    <3> QED BY <3>1 DEF EveryRingHeard, Mapped
  <2> QED BY <2>1, <2>2, <2>3, <2>4 DEF VectorsInv
<1>5. CASE IgbClose
  <2>1. CountInv'
    BY <1>5 DEF IgbClose, VectorsInv, CountInv
  <2> QED BY <1>5, <2>1 DEF IgbClose, VectorsInv, RegInv, QvInv, Rings, EveryRingHeard, Given
<1>6. CASE IgbSuspend
  <2>1. CountInv'
    BY <1>6 DEF IgbSuspend, VectorsInv, CountInv, MAX_Q_VECTORS
  <2>2. RegInv'
    <3>1. Rings' = 0..(-1)
      BY <1>6 DEF IgbSuspend, Rings
    <3> QED BY <1>6, <3>1 DEF IgbSuspend, RegInv
  <2> QED BY <1>6, <2>1, <2>2 DEF IgbSuspend, VectorsInv, QvInv, EveryRingHeard, Given
<1>7. CASE IgbResume
  <2>1. InitInterruptScheme(vfs, rss, pairs, "down")
    BY <1>7 DEF IgbResume
  <2>2. /\ vfs \in Nat /\ rss \in 1..8 /\ pairs \in BOOLEAN /\ (Mac = "82575" => rss <= 4)
        /\ (Mac # "82576" => vfs = 0) /\ (vfs > 0 => rss <= 2) /\ (rss > 4 => pairs)
    BY DEF VectorsInv, CountInv
  <2> QED BY <2>1, <2>2, SchemeInv
<1>8. CASE UNCHANGED vectorVars
  BY <1>8 DEF vectorVars, VectorsInv, Given, CountInv, RegInv, QvInv, EveryRingHeard, Rings,
     QVectors, Mapped, Numbered, FirstVector
<1> QED BY <1>1, <1>2, <1>3, <1>4, <1>5, <1>6, <1>7, <1>8 DEF VectorsNext

LEMMA AlwaysInv == VectorsSpec => []VectorsInv
BY InitInv, StepInv, PTL DEF VectorsSpec

(* The driver never has more q_vectors than adapter->q_vector holds, nor   *)
(* gives a ring a register that the NIC does not have.                     *)
THEOREM VectorsAlwaysFit == VectorsSpec => []VectorsFit
<1>1. VectorsInv => VectorsFit
  <2> SUFFICES ASSUME VectorsInv PROVE VectorsFit
    OBVIOUS
  <2>1. nqv <= MAX_Q_VECTORS
    BY DEF VectorsInv, CountInv, MAX_Q_VECTORS
  <2>2. Numbered => \A i \in Rings : reg[i] \in 0..(IF Mac = "82576" THEN 15
                                            ELSE IF Mac = "82575" THEN 3 ELSE 7)
    BY RegistersApart DEF VectorsInv
  <2> QED BY <2>1, <2>2 DEF VectorsFit
<1> QED BY <1>1, AlwaysInv, PTL

(* Whatever igb_request_irq() has found when the NIC was opened, each ring *)
(* of it raises the vector of the q_vector that polls it, unless there     *)
(* were more than seven VFs when the rings got their registers.            *)
THEOREM RingsAlwaysHeard == VectorsSpec => []EveryRingHeard
<1>1. VectorsInv => EveryRingHeard
  BY DEF VectorsInv
<1> QED BY <1>1, AlwaysInv, PTL

(* "In order to avoid collision we start at the first free queue": the     *)
(* queues of the driver are not those of a VF.                             *)
THEOREM PfAlwaysApart == VectorsSpec => []PfApart
<1>1. VectorsInv => PfApart
  <2> SUFFICES ASSUME VectorsInv, Numbered, reg[0] = vfs, NEW i \in Rings
               PROVE reg[i] \notin VfQueues
    BY DEF PfApart
  <2>1. CASE vfs = 0
    BY <2>1 DEF VfQueues
  <2>2. CASE vfs > 0
    <3>1. Mac = "82576" /\ num <= 2 /\ vfs \in 1..7 /\ reg[i] = RingRegister(vfs, i)
      BY <2>2 DEF VectorsInv, CountInv, RegInv, Numbered
    <3>2. i = 0 \/ i = 1
      BY <3>1 DEF Rings, VectorsInv, CountInv
    <3>3. reg[i] = vfs \/ reg[i] = vfs + 8
      BY <2>2, <3>1, <3>2 DEF RingRegister, QIdx
    <3> QED BY <3>1, <3>3 DEF VfQueues
  <2> QED BY <2>1, <2>2 DEF VectorsInv, CountInv
<1> QED BY <1>1, AlwaysInv, PTL

(* No packet is lost because igb_setup_mrqc() sends its hash to a queue    *)
(* that the driver has no ring for, unless the VFs could not be had.       *)
THEOREM RssAlwaysLands == VectorsSpec => []RssLands
<1>1. VectorsInv => RssLands
  <2> SUFFICES ASSUME VectorsInv, Mapped, Numbered, reg[0] = vfs, NEW j \in 0..127
               PROVE \E i \in Rings : RssQueue(j) = reg[i]
    BY DEF RssLands
  <2>1. /\ num = rss /\ rss \in 1..8 /\ vfs \in Nat /\ (vfs > 0 => rss <= 2 /\ Mac = "82576")
        /\ \A i \in Rings : reg[i] = RingRegister(vfs, i)
    BY DEF VectorsInv, CountInv, RegInv, QvInv, Mapped
  <2>2. CASE vfs = 0
    <3>1. j % rss \in Rings
      BY <2>1 DEF Rings
    <3>2. reg[j % rss] = j % rss
      BY <2>1, <2>2, <3>1 DEF RingRegister, Rings
    <3>3. RssQueue(j) = j % rss
      <4> DEFINE m == j % rss
      <4>1. m \in 0..7
        BY <2>1
      <4>2. RssNum = rss
        BY <2>2 DEF RssNum
      <4>3. Reta(j) = m * (IF Mac = "82575" THEN 64 ELSE 1)
        BY <2>1, <2>2, <4>2 DEF Reta, Shift
      <4>4. \A k \in 0..7 : (k * 64) \div 64 = k
        OBVIOUS
      <4>5. RssQueue(j) = m
        <5> HIDE DEF m
        <5> QED BY <2>2, <4>1, <4>3, <4>4 DEF RssQueue
      <4> QED BY <4>5
    <3> QED BY <3>1, <3>2, <3>3
  <2>3. CASE vfs > 0 /\ rss = 1
    <3>1. 0 \in Rings /\ reg[0] = vfs
      BY <2>1, <2>3 DEF Rings
    <3> QED BY <2>1, <2>3, <3>1 DEF RssQueue
  <2>4. CASE vfs > 0 /\ rss = 2
    <3>1. RssQueue(j) = vfs + ((j % 2) * 8)
      BY <2>1, <2>4 DEF RssQueue, Reta, RssNum, Shift
    <3>2. j % 2 = 0 \/ j % 2 = 1
      OBVIOUS
    <3>3. 0 \in Rings /\ 1 \in Rings
      BY <2>1, <2>4 DEF Rings
    <3>4. RingRegister(vfs, 0) = vfs /\ RingRegister(vfs, 1) = vfs + 8
      BY <2>1, <2>4 DEF RingRegister, QIdx
    <3> QED BY <2>1, <3>1, <3>2, <3>3, <3>4
  <2> QED BY <2>1, <2>2, <2>3, <2>4
<1> QED BY <1>1, AlwaysInv, PTL

(* igb_set_itr(), which is called without MSI-X only, finds both rings of  *)
(* q_vector 0, unless igb_request_irq() has fallen back.                   *)
THEOREM MsiAlwaysPaired == VectorsSpec => []MsiPaired
<1>1. VectorsInv => MsiPaired
  <2> SUFFICES ASSUME VectorsInv, Mapped, irq # "msix"
               PROVE nqv = 1 /\ qv[0] = [rx |-> 0, tx |-> 0]
    BY DEF MsiPaired
  <2>1. num = 1 /\ nqv = 1 /\ qv = MapRingToVector(1, 1)
    BY DEF VectorsInv, CountInv, QvInv, Mapped
  <2> QED BY <2>1 DEF MapRingToVector
<1> QED BY <1>1, AlwaysInv, PTL

-----------------------------------------------------------------------------
(* Of any setting that igb_set_coalesce() takes, igb_get_coalesce() returns *)
(* what the user set, and igb_ring_irq_enable() finds it to be a dynamic   *)
(* one just when the user set it to 1 or 3.                                *)
THEOREM CoalesceKept ==
  \A usecs \in Nat : Accepted(usecs) =>
    /\ UsecsOf(SettingOf(usecs)) = usecs
    /\ Dynamic(SettingOf(usecs)) <=> usecs \in {1, 3}
BY DEF Accepted, UsecsOf, SettingOf, Dynamic, IGB_MIN_ITR_USECS, IGB_MAX_ITR_USECS

(* The interval that the user asks for is written to the NIC as it is, if  *)
(* it is less than 8192 microseconds; igb_set_coalesce() allows more, and  *)
(* of 8192 the NIC gets the shortest interval there is.                    *)
THEOREM IntervalWritten ==
  /\ \A usecs \in IGB_MIN_ITR_USECS..8191 : WriteItr(SettingOf(usecs)) = SettingOf(usecs)
  /\ Accepted(8192) /\ WriteItr(SettingOf(8192)) = 4
BY DEF WriteItr, SettingOf, Accepted, IGB_MIN_ITR_USECS, IGB_MAX_ITR_USECS

(* Whatever the rings have counted, igb_update_ring_itr() keeps the        *)
(* interval or sets one of 12 to 1500: never 0, and no jumbo frames make   *)
(* it wait for longer.  With setting 3 it "does not exceed 20K ints/sec".  *)
THEOREM RingIntervalBounded ==
  ASSUME NEW interval \in Nat, NEW gigabit \in BOOLEAN, NEW setting \in {1, 3},
         NEW rx \in [packets : Nat, bytes : Nat], NEW tx \in [packets : Nat, bytes : Nat]
  PROVE  LET next == UpdateRingItr(interval, gigabit, setting, rx, tx)
         IN next = interval \/ next \in (IF setting = 3 THEN 196 ELSE 12)..1500
<1>1. \A r \in [packets : Nat, bytes : Nat] : AverageSize(r) \in Nat
  <2> SUFFICES ASSUME NEW p \in Nat, NEW b \in Nat, p # 0 PROVE b \div p \in Nat
    BY DEF AverageSize
  <2> QED OBVIOUS
<1> DEFINE a == Larger(AverageSize(rx), AverageSize(tx))
<1>2. a \in Nat
  BY <1>1 DEF Larger
<1>3. UpdateRingItr(interval, gigabit, setting, rx, tx)
        = LET size == Less(a + 24, 3000)
              next == IF 300 < size /\ size < 1200 THEN size \div 3 ELSE size \div 2
          IN IF ~gigabit THEN 976
             ELSE IF a = 0 THEN interval
             ELSE IF setting = 3 THEN Larger(next, 196) ELSE next
  BY DEF UpdateRingItr
<1> HIDE DEF a
<1> QED BY <1>2, <1>3 DEF Less, Larger

(* The level of igb_update_itr() stays one of three, and never goes from   *)
(* bulk to lowest latency at once.                                         *)
THEOREM LevelStepwise ==
  ASSUME NEW level \in Levels, NEW packets \in Nat, NEW bytes \in Nat
  PROVE  /\ UpdateItr(level, packets, bytes) \in Levels
         /\ level = bulk_latency => UpdateItr(level, packets, bytes) # lowest_latency
BY DEF UpdateItr, Levels, lowest_latency, low_latency, bulk_latency

(* No intermediate step is ever taken: what igb_set_itr() computes for one *)
(* is always less than the interval it wants, and the larger of both is    *)
(* taken.  The rate goes to what is wanted at once.                        *)
THEOREM NoIntermediateStep ==
  ASSUME NEW interval \in Nat, NEW wanted \in Nat \ {0}
  PROVE  Biased(interval, wanted) = wanted
<1>1. CASE ~(wanted > interval)
  BY <1>1 DEF Biased
<1>2. CASE wanted > interval
  <2> DEFINE d == wanted + (interval \div 4)
             q == (wanted * interval) \div d
  <2>1. interval \div 4 \in Nat
    OBVIOUS
  <2>2. d \in Nat /\ d > 0 /\ d >= wanted
    BY <2>1
  <2>3. wanted * interval \in Nat
    OBVIOUS
  <2>4. wanted * interval <= d * interval
    BY <2>2
  <2>5. q \in Nat /\ d * q <= wanted * interval
    BY <2>2, <2>3
  <2>6. d * q <= d * interval
    BY <2>2, <2>3, <2>4, <2>5
  <2>7. q <= interval
    <3> HIDE DEF q, d
    <3>1. SUFFICES ASSUME q >= interval + 1 PROVE FALSE
      BY <2>5
    <3>2. d * q >= d * (interval + 1)
      BY <2>2, <2>5, <3>1
    <3>3. d * (interval + 1) = d * interval + d
      BY <2>2
    <3> QED BY <2>2, <2>5, <2>6, <3>2, <3>3
  <2> HIDE DEF q
  <2>8. Larger(q, wanted) = wanted
    BY <1>2, <2>5, <2>7 DEF Larger
  <2> QED BY <1>2, <2>8 DEF Biased, q
<1> QED BY <1>1, <1>2

-----------------------------------------------------------------------------
(* igb_get_cable_length_igp_2() has "the error range of +/- 10 meters": of *)
(* what the channels say it takes a mean that none of them exceeds by more *)
(* than the others allow, and stores a length at most 10 meters off, in a  *)
(* range that it is in.                                                    *)
THEOREM CableInRange ==
  ASSUME NEW length \in [1..4 -> 0..124], NEW phy \in PhyInfo
  PROVE  LET next == GetCableLength("igp", phy, length) IN
         /\ Agc(length) \in 0..124
         /\ next.min_cable_length <= next.cable_length
         /\ next.cable_length <= next.max_cable_length
         /\ next.cable_length \in (Agc(length) - 10)..(Agc(length) + 10)
         /\ Agc(length) >= 10 => next.cable_length = Agc(length)
<1>1. \A i \in 1..4 : length[i] \in 0..124 /\ length[i] # Failed
  BY DEF Failed
<1>2. Agc(length) \in 0..124
  <2>1. /\ length[1] \in 0..124 /\ length[2] \in 0..124
        /\ length[3] \in 0..124 /\ length[4] \in 0..124
    BY <1>1
  <2>2. \A b, c, d, e \in 0..124 :
          ((b + c + d + e) - (Least(Least(b, c), Least(d, e)) + Most(Most(b, c), Most(d, e))))
            \in 0..248
    <3> SUFFICES ASSUME NEW b \in 0..124, NEW c \in 0..124, NEW d \in 0..124, NEW e \in 0..124
                 PROVE ((b + c + d + e) - (Least(Least(b, c), Least(d, e))
                                           + Most(Most(b, c), Most(d, e)))) \in 0..248
      OBVIOUS
    <3> DEFINE l == Least(b, c)  m == Least(d, e)  u == Most(b, c)  w == Most(d, e)
    <3>1. l \in 0..124 /\ u \in 0..124 /\ l <= u /\ l + u = b + c
      BY DEF Least, Most
    <3>2. m \in 0..124 /\ w \in 0..124 /\ m <= w /\ m + w = d + e
      BY DEF Least, Most
    <3> HIDE DEF l, m, u, w
    <3>3. b + c + d + e = (l + u) + (m + w)
      BY <3>1, <3>2
    <3>4. ((l + u) + (m + w)) - (Least(l, m) + Most(u, w)) \in 0..248
      BY <3>1, <3>2 DEF Least, Most
    <3>5. ((b + c + d + e) - (Least(l, m) + Most(u, w))) \in 0..248
      BY <3>3, <3>4
    <3> QED BY <3>5 DEF l, m, u, w
  <2>3. \A k \in 0..248 : k \div 2 \in 0..124
    OBVIOUS
  <2> QED BY <2>1, <2>2, <2>3 DEF Agc
<1>3. CableRead("igp", length)
  BY <1>1 DEF CableRead
<1> DEFINE a == Agc(length)  n == Most(a - 10, 0)  x == a + 10
<1>4. GetCableLength("igp", phy, length) =
        [phy EXCEPT !.min_cable_length = n, !.max_cable_length = x, !.cable_length = (n + x) \div 2]
  BY <1>3 DEF GetCableLength, MinLength, MaxLength
<1>5. a \in 0..124 /\ n \in 0..114 /\ x \in 10..134
  BY <1>2 DEF Most
<1>6. n <= (n + x) \div 2 /\ (n + x) \div 2 <= x /\ (n + x) \div 2 \in (a - 10)..(a + 10)
      /\ (a >= 10 => (n + x) \div 2 = a)
  BY <1>5 DEF Most
<1> HIDE DEF a, n, x
<1>7. LET next == GetCableLength("igp", phy, length) IN
        next.min_cable_length = n /\ next.max_cable_length = x /\ next.cable_length = (n + x) \div 2
  BY <1>4 DEF PhyInfo
<1> QED BY <1>5, <1>6, <1>7 DEF a

(* When igb_get_phy_info() succeeds, with any kind of PHY, what it leaves  *)
(* belongs together: the length of the cable and both receivers are        *)
(* undefined when the link was not at 1000 Mbit/s, and only then.          *)
THEOREM InfoBelongsTogether ==
  ASSUME NEW kind \in Kinds, NEW phy \in PhyInfo, NEW r \in Registers(kind), InfoRead(kind, r)
  PROVE  LET next == GetPhyInfo(kind, phy, r) IN
         /\ next.cable_length = Undefined <=> r.status2.speed # 1000
         /\ next.local_rx = "undefined" <=> r.status2.speed # 1000
         /\ next.remote_rx = "undefined" <=> r.status2.speed # 1000
<1>1. SpeedRead(kind, r)
  BY DEF InfoRead, Gigabit
<1> DEFINE next == GetPhyInfo(kind, phy, r)
           cable == IF Gigabit(kind, r) THEN GetCableLength(kind, phy, r.length)
                    ELSE [phy EXCEPT !.cable_length = Undefined]
<1> DEFINE Info == [polarity_correction : BOOLEAN, cable_polarity : {"normal", "reversed"},
                    is_mdix : BOOLEAN, min_cable_length : Int, max_cable_length : Int,
                    cable_length : Int, local_rx : {"ok", "not_ok", "undefined"},
                    remote_rx : {"ok", "not_ok", "undefined"}]
           Stored(x, y, z) == [phy EXCEPT !.min_cable_length = x, !.max_cable_length = y,
                                          !.cable_length = z]
<1>2. \A x, y, z \in Int : Stored(x, y, z) \in Info /\ Stored(x, y, z).cable_length = z
  BY DEF PhyInfo
<1>3. \A z \in Int : LET c == [phy EXCEPT !.cable_length = z] IN c \in Info /\ c.cable_length = z
  BY DEF PhyInfo
<1>4. cable \in Info /\ (cable.cable_length = Undefined <=> r.status2.speed # 1000)
  <2>1. CASE ~Gigabit(kind, r)
    <3>1. cable = [phy EXCEPT !.cable_length = Undefined] /\ Undefined \in Int
      BY <2>1 DEF Undefined
    <3>2. r.status2.speed # 1000
      BY <1>1, <2>1 DEF Gigabit
    <3> HIDE DEF cable, Info
    <3> QED BY <1>3, <3>1, <3>2
  <2>2. CASE Gigabit(kind, r) /\ kind = "igp"
    <3> DEFINE g == Agc(r.length)  n == Most(g - 10, 0)  x == g + 10
    <3>1. CableRead("igp", r.length)
      BY <2>2 DEF InfoRead, Received
    <3>2. r.length \in [1..4 -> {Failed} \cup 0..124] /\ \A k \in 1..4 : r.length[k] # Failed
      BY <2>2, <3>1 DEF Registers, CableRead
    <3>3. r.length \in [1..4 -> 0..124]
      BY <3>2 DEF Failed
    <3>4. g \in 0..124
      BY <3>3, CableInRange
    <3>5. n \in Int /\ x \in Int /\ (n + x) \div 2 \in 0..134
      <4> HIDE DEF g
      <4> QED BY <3>4 DEF Most
    <3>6. cable = Stored(n, x, (n + x) \div 2)
      BY <2>2, <3>1 DEF GetCableLength, MinLength, MaxLength
    <3> HIDE DEF cable, Info, Stored, n, x
    <3>7. r.status2.speed = 1000
      BY <2>2 DEF Gigabit
    <3> QED BY <1>2, <3>5, <3>6, <3>7 DEF Undefined
  <2>3. CASE Gigabit(kind, r) /\ kind = "m88"
    <3> DEFINE n == TableM88[r.length + 1]  x == TableM88[r.length + 2]
    <3>1. CableRead("m88", r.length) /\ r.length \in 0..5
      BY <2>3 DEF InfoRead, Received, CableRead
    <3>2. n \in Int /\ x \in Int /\ (n + x) \div 2 \in 0..197
      BY <3>1 DEF TableM88, Undefined
    <3>3. cable = Stored(n, x, (n + x) \div 2)
      BY <2>3, <3>1 DEF GetCableLength, MinLength, MaxLength
    <3>4. r.status2.speed = 1000
      BY <2>3 DEF Gigabit
    <3> DEFINE z == (n + x) \div 2
    <3>5. z \in Int /\ z # Undefined
      BY <3>2 DEF Undefined
    <3>6. cable = Stored(n, x, z)
      BY <3>3
    <3> HIDE DEF cable, Info, Stored, n, x, z
    <3>7. cable \in Info /\ cable.cable_length = z
      BY <1>2, <3>2, <3>5, <3>6
    <3> QED BY <3>4, <3>5, <3>7
  <2>4. CASE Gigabit(kind, r) /\ kind = "82580"
    <3>1. r.length \in 0..254 /\ r.length # Failed
      BY <2>4 DEF InfoRead, Received, CableRead, Registers, Failed, Undefined
    <3>2. cable = [phy EXCEPT !.cable_length = r.length]
      BY <2>4, <3>1 DEF GetCableLength
    <3>3. r.status2.speed = 1000
      BY <2>4 DEF Gigabit
    <3> HIDE DEF cable, Info
    <3> QED BY <1>3, <3>1, <3>2, <3>3 DEF Undefined
  <2> QED BY <2>1, <2>2, <2>3, <2>4 DEF Kinds
<1>5. /\ next.cable_length = cable.cable_length
      /\ next.local_rx = IF Received(kind, r) THEN r.gigabit.local
                         ELSE IF SpeedRead(kind, r) /\ ~Gigabit(kind, r) THEN "undefined"
                         ELSE cable.local_rx
      /\ next.remote_rx = IF Received(kind, r) THEN r.gigabit.remote
                          ELSE IF SpeedRead(kind, r) /\ ~Gigabit(kind, r) THEN "undefined"
                          ELSE cable.remote_rx
  <2>1. cable = IF Gigabit(kind, r) THEN GetCableLength(kind, phy, r.length)
                ELSE IF SpeedRead(kind, r) THEN [phy EXCEPT !.cable_length = Undefined]
                ELSE phy
    BY <1>1
  <2> HIDE DEF cable
  <2> QED BY <1>4, <2>1 DEF GetPhyInfo
<1>6. r.gigabit.local \in {"ok", "not_ok"} /\ r.gigabit.remote \in {"ok", "not_ok"}
  BY DEF Registers
<1> HIDE DEF next, cable
<1>7. CASE Gigabit(kind, r)
  BY <1>4, <1>5, <1>6, <1>7 DEF InfoRead, Gigabit, next
<1>8. CASE ~Gigabit(kind, r)
  BY <1>1, <1>4, <1>5, <1>8 DEF Received, Gigabit, next
<1> QED BY <1>7, <1>8

(* "LPLU and SmartSpeed are mutually exclusive": when                      *)
(* igb_set_d3_lplu_state() returns 0 they are, if they were before.        *)
THEOREM D3Exclusive ==
  ASSUME NEW p \in Port, NEW active \in BOOLEAN, NEW advertised \in BOOLEAN,
         NEW smartSpeed \in SmartSpeeds, NEW a \in Accesses,
         ~(p.lplu /\ p.smart), SetD3Returns0(active, advertised, smartSpeed, a)
  PROVE  LET next == SetD3(p, active, advertised, smartSpeed, a) IN ~(next.lplu /\ next.smart)
BY DEF Port, Accesses, SetD3, SetD3Returns0, SetSmart, RestoreSmart, SmartSpeeds

(* igb_set_d0_lplu_state_82575() does not keep to it: a write of the power *)
(* management that fails is forgotten, and 0 returned with both enabled.   *)
(* And a failed read is forgotten, and 0 returned with the rest of the     *)
(* port configuration lost.                                                *)
THEOREM D0PassesOver ==
  /\ \E p \in Port, a \in Accesses :
       LET next == SetD0(p, FALSE, "on", a) IN
       ~(p.lplu /\ p.smart) /\ SetD0Returns0(FALSE, "on", a) /\ next.lplu /\ next.smart
  /\ \E p \in Port, a \in Accesses :
       p.kept /\ SetD0Returns0(TRUE, "on", a) /\ ~SetD0(p, TRUE, "on", a).kept
<1> DEFINE p == [lplu |-> TRUE, smart |-> FALSE, kept |-> TRUE]
           a == [read1 |-> TRUE, write1 |-> FALSE, read2 |-> TRUE, write2 |-> TRUE]
           b == [read1 |-> TRUE, write1 |-> TRUE, read2 |-> FALSE, write2 |-> TRUE]
<1>1. p \in Port /\ a \in Accesses /\ b \in Accesses
  BY DEF Port, Accesses
<1>2. LET next == SetD0(p, FALSE, "on", a) IN
       ~(p.lplu /\ p.smart) /\ SetD0Returns0(FALSE, "on", a) /\ next.lplu /\ next.smart
  BY DEF SetD0, SetD0Returns0, RestoreSmart, SetSmart
<1>3. p.kept /\ SetD0Returns0(TRUE, "on", b) /\ ~SetD0(p, TRUE, "on", b).kept
  BY DEF SetD0, SetD0Returns0
<1> QED BY <1>1, <1>2, <1>3

(***************************************************************************)
(* Wake on LAN                                                             *)
(***************************************************************************)
WakeInv ==
  /\ eepromWol \in [Nic -> SUBSET Events] /\ wol \in [Nic -> SUBSET Events]
  /\ bound \subseteq Nic /\ portA \subseteq bound /\ ExcludedNeverWakes

LEMMA WakeStep == ASSUME WakeInv, [WakeNext]_wake PROVE WakeInv'
<1>1. /\ eepromWol \in [Nic -> SUBSET Events] /\ wol \in [Nic -> SUBSET Events]
      /\ bound \subseteq Nic /\ portA \subseteq bound
      /\ \A n \in bound : Excluded(n) => wol[n] = {}
  BY DEF WakeInv, ExcludedNeverWakes
<1>2. ASSUME eepromWol' \in [Nic -> SUBSET Events], wol' \in [Nic -> SUBSET Events],
             bound' \subseteq Nic, portA' \subseteq bound',
             \A n \in bound' : Excluded(n)' => wol'[n] = {}
      PROVE WakeInv'
  BY <1>2 DEF WakeInv, ExcludedNeverWakes, GetWol
<1>3. ASSUME NEW n \in Nic, NEW apme \in BOOLEAN, ProbeWake(n, apme) PROVE WakeInv'
  <2>1. /\ n \notin bound /\ bound' = bound \cup {n}
        /\ portA' = IF Device[n] = "quad_82576" /\ counter = 0 THEN portA \cup {n} ELSE portA
        /\ eepromWol' = [eepromWol EXCEPT ![n] = EepromWol(n, apme)]
        /\ wol' = [wol EXCEPT ![n] = EepromWol(n, apme)]
    BY <1>3 DEF ProbeWake
  <2>2. EepromWol(n, apme) \in SUBSET Events
    BY DEF EepromWol, Events
  <2>3. Excluded(n)' => EepromWol(n, apme) = {}
    BY <1>1, <2>1, <2>2 DEF Excluded, EepromWol
  <2>4. ASSUME NEW m \in bound PROVE Excluded(m)' = Excluded(m) /\ wol'[m] = wol[m]
    BY <1>1, <2>1 DEF Excluded
  <2> QED BY <1>1, <1>2, <2>1, <2>2, <2>3, <2>4
<1>4. ASSUME NEW n \in Nic, RemoveWake(n) PROVE WakeInv'
  <2>1. /\ bound' = bound \ {n} /\ portA' = portA \ {n}
        /\ eepromWol' = [eepromWol EXCEPT ![n] = {}] /\ wol' = [wol EXCEPT ![n] = {}]
    BY <1>4 DEF RemoveWake
  <2>2. ASSUME NEW m \in bound' PROVE Excluded(m)' = Excluded(m) /\ wol'[m] = wol[m]
    BY <1>1, <2>1 DEF Excluded
  <2> QED BY <1>1, <1>2, <2>1, <2>2
<1>5. ASSUME NEW n \in Nic, NEW opts \in SUBSET Options, NEW capable \in BOOLEAN,
             SetWol(n, opts, capable)
      PROVE WakeInv'
  <2>1. /\ bound' = bound /\ portA' = portA /\ eepromWol' = eepromWol /\ opts \subseteq Events
        /\ wol' = wol \/ (~Excluded(n) /\ wol' = [wol EXCEPT ![n] = opts])
    BY <1>5 DEF SetWol
  <2>2. \A m \in bound : Excluded(m)' = Excluded(m)
    BY <2>1 DEF Excluded
  <2> QED BY <1>1, <1>2, <2>1, <2>2
<1>6. ASSUME UNCHANGED <<bound, portA, eepromWol, wol>> PROVE WakeInv'
  <2>1. \A m \in bound : Excluded(m)' = Excluded(m)
    BY <1>6 DEF Excluded
  <2> QED BY <1>1, <1>2, <1>6, <2>1
<1> QED BY <1>3, <1>4, <1>5, <1>6 DEF WakeNext, wake, RegisterFails, ShutdownWake

(* A port that igb_wol_exclusion() excludes is never set to wake the       *)
(* system: neither by its EEPROM nor by igb_set_wol(), whatever NICs are   *)
(* probed, fail and are removed in whatever order; and igb_get_wol() tells *)
(* of every port what it has been set to.                                  *)
THEOREM ExcludedAlwaysSilent == WakeSpec => []ExcludedNeverWakes
<1>1. WakeInit => WakeInv
  BY DEF WakeInit, WakeInv, ExcludedNeverWakes
<1>2. WakeInv /\ [WakeNext]_wake => WakeInv'
  BY WakeStep
<1>3. WakeInv => ExcludedNeverWakes
  BY DEF WakeInv
<1> QED BY <1>1, <1>2, <1>3, PTL DEF WakeSpec

(* As long as the ports of NICs with four ports are probed in their order, *)
(* and none of them fails, the one that is taken to be port A is port A.   *)
(* The counter of igb_probe() knows neither a port that is removed and     *)
(* probed again nor one that fails.                                        *)
THEOREM PortAByCounting ==
  ASSUME Func \in [Nic -> 0..3]
  PROVE  WakeSpec /\ [][ProbedInOrder]_wake => []OnlyPortA
<1> DEFINE Inv == counter \in 0..3 /\ OnlyPortA
<1>1. WakeInit => Inv
  BY DEF WakeInit, OnlyPortA
<1>2. Inv /\ [WakeNext]_wake /\ [ProbedInOrder]_wake => Inv'
  <2> SUFFICES ASSUME Inv, [WakeNext]_wake, [ProbedInOrder]_wake PROVE Inv'
    OBVIOUS
  <2>1. ASSUME NEW n \in Nic, NEW apme \in BOOLEAN, ProbeWake(n, apme) PROVE Inv'
    <3>1. /\ n \notin bound /\ bound' = bound \cup {n}
          /\ counter' = IF Device[n] = "quad_82576" THEN (counter + 1) % 4 ELSE counter
          /\ portA' = IF Device[n] = "quad_82576" /\ counter = 0 THEN portA \cup {n} ELSE portA
      BY <2>1 DEF ProbeWake, Counted
    <3>2. counter' \in 0..3 /\ (Device[n] = "quad_82576" => counter' # counter)
      BY <3>1
    <3>3. Device[n] = "quad_82576" => Func[n] = counter
      BY <3>1, <3>2 DEF ProbedInOrder, wake
    <3> QED BY <3>1, <3>2, <3>3 DEF OnlyPortA
  <2>2. ASSUME NEW n \in Nic, RegisterFails(n) PROVE Inv'
    BY <2>2 DEF RegisterFails, Counted, OnlyPortA
  <2>3. ASSUME NEW n \in Nic, RemoveWake(n) PROVE Inv'
    BY <2>3 DEF RemoveWake, OnlyPortA
  <2>4. ASSUME NEW n \in Nic, NEW opts \in SUBSET Options, NEW capable \in BOOLEAN,
               SetWol(n, opts, capable)
        PROVE Inv'
    BY <2>4 DEF SetWol, OnlyPortA
  <2>5. ASSUME NEW n \in Nic, NEW up \in BOOLEAN, ShutdownWake(n, up) PROVE Inv'
    BY <2>5 DEF ShutdownWake, OnlyPortA
  <2>6. CASE UNCHANGED wake
    BY <2>6 DEF wake, OnlyPortA
  <2> QED BY <2>1, <2>2, <2>3, <2>4, <2>5, <2>6 DEF WakeNext
<1> QED BY <1>1, <1>2, PTL DEF WakeSpec

(***************************************************************************)
(* Time stamps                                                             *)
(***************************************************************************)
(* Every packet of the kind that igb_hwtstamp_ioctl() was asked for gets a *)
(* time stamp, and so does every one of the kind that it answers with, but *)
(* for the filters for all events of version 2.                            *)
THEOREM StampsWhatIsAsked ==
  \A mac \in StampMacs, filter \in Known \ V2Both :
    /\ Asked(filter) \subseteq Stamped(Rx(mac, filter))
    /\ Answer(filter) # "some" => Asked(Answer(filter)) \subseteq Stamped(Rx(mac, filter))
<1> SUFFICES ASSUME NEW mac \in StampMacs, NEW filter \in Known \ V2Both
             PROVE  /\ Asked(filter) \subseteq Stamped(Rx(mac, filter))
                    /\ Answer(filter) # "some" =>
                         Asked(Answer(filter)) \subseteq Stamped(Rx(mac, filter))
  OBVIOUS
<1> DEFINE rx == Rx(mac, filter)
<1>1. CASE rx.type = "all"
  <2>1. \A f \in Filters : Asked(f) \subseteq Ptp
    BY DEF Asked
  <2>2. filter \in Filters /\ Answer(filter) \in Filters
    BY DEF Answer, Filters, Known, Upscaled, V2Single, V2Both
  <2> QED BY <1>1, <2>1, <2>2 DEF Stamped
<1>2. CASE filter = "none"
  BY <1>2 DEF Asked, Answer, Upscaled, V2Single, V2Both
<1>3. CASE rx.type # "all" /\ filter \in V1Filters
  BY <1>3 DEF Rx, Asked, Answer, Stamped, Ptp, Upscaled, V1Filters, V2Single, V2Both, SyncFilters,
              DelayFilters
<1>4. CASE rx.type # "all" /\ filter \in V2Single
  BY <1>4 DEF Rx, Asked, Answer, Stamped, Ptp, Upscaled, V1Filters, V2Single, V2Both, SyncFilters,
              DelayFilters
<1>5. rx.type = "all" \/ filter = "none" \/ filter \in V1Filters \/ filter \in V2Single
  BY DEF Known, Rx
<1> QED BY <1>1, <1>2, <1>3, <1>4, <1>5

(* These it accepts, and answers with all events of version 2, "regardless *)
(* of level 2 or 4", but leaves the filter for the UDP port off: what is   *)
(* sent by UDP gets no time stamp, except from an 82580.                   *)
THEOREM V2EventsMissUdp ==
  \A mac \in StampMacs \ {"82580"}, filter \in V2Both :
    /\ Answer(filter) = "v2_event"
    /\ \A p \in Stamped(Rx(mac, filter)) : p.layer = "l2"
    /\ \E p \in Asked("v2_event") : p.layer = "l4"
<1> SUFFICES ASSUME NEW mac \in StampMacs \ {"82580"}, NEW filter \in V2Both
             PROVE  /\ Answer(filter) = "v2_event"
                    /\ \A p \in Stamped(Rx(mac, filter)) : p.layer = "l2"
                    /\ \E p \in Asked("v2_event") : p.layer = "l4"
  OBVIOUS
<1>1. Answer(filter) = "v2_event"
  BY DEF Answer, Upscaled, V2Single, V2Both
<1>2. Rx(mac, filter).type = "event_v2" /\ ~Rx(mac, filter).l4
  <2>1. /\ mac # "82580" /\ filter # "none"
        /\ filter \notin Upscaled /\ filter \notin V1Filters /\ filter \notin V2Single
    BY DEF Upscaled, V1Filters, V2Single, V2Both
  <2>2. ~Rx(mac, filter).l4
    BY <2>1 DEF Rx
  <2>3. Rx(mac, filter).type = IF filter = "none" THEN "off"
                               ELSE IF mac = "82580" \/ filter \in Upscaled THEN "all"
                               ELSE IF filter \in V1Filters THEN "l4_v1"
                               ELSE IF filter \in V2Single THEN "l2_l4_v2"
                               ELSE "event_v2"
    BY DEF Rx
  <2> QED BY <2>1, <2>2, <2>3
<1>3. \A p \in Stamped(Rx(mac, filter)) : p.layer = "l2"
  BY <1>2 DEF Stamped, Ptp
<1>4. [version |-> 2, layer |-> "l4", type |-> "sync"] \in Asked("v2_event")
  BY DEF Asked, Ptp, V1Filters, SyncFilters, DelayFilters
<1> QED BY <1>1, <1>3, <1>4

(* What it answers it accepts when it is asked for it, except that it has  *)
(* answered with more than one kind of packet at a time.                   *)
THEOREM AnswerAcceptedAgain ==
  \A mac \in StampMacs, on \in BOOLEAN, filter \in Known :
    Ret(mac, on, Answer(filter)) = "ok" <=> filter \notin V2Single
BY DEF Ret, Answer, StampMacs, Known, Upscaled, V1Filters, V2Single, V2Both

(***************************************************************************)
(* The life of the device                                                  *)
(***************************************************************************)
(* What is left of a sequence of steps after the first k, and of a call. *)
Rest(s, k) == {s[i] : i \in (k + 1)..Len(s)}
Left(t) == Rest(todo[t], 0)

(* What may be left of a call once igb_close(), igb_up() or igb_open() has *)
(* been gone through in it, and once igb_down() has.                       *)
AfterClose(t) ==
  CASE t = "user" -> {{}, {"reset", "dev_open"}}
    [] t = "task" -> {}
    [] t = "device" -> {{"clear_scheme"}, {"free_netdev"}}
AfterUp(t) == IF t = "device" THEN {"attach"} ELSE {"give"}
AfterOpen(t) == IF t = "device" THEN {"attach", "thaw"} ELSE {}
UpLeft(t) == {"configure", "clear_down", "napi_enable", "start"} \union AfterUp(t)
OpenLeft(t) == {"request_irq", "clear_down", "napi_enable", "start_masked"} \union AfterOpen(t)
AfterDown(t) ==
  {{"free_irq", "free_rings"} \union left : left \in AfterClose(t)}
    \union (IF t = "device" THEN {{"slot_reset", "io_resume"}} ELSE {UpLeft(t)})
    \union (IF t = "user" THEN {{"resize"} \union UpLeft(t)} ELSE {})

(* The steps that are left after step x of thread t. *)
Follows(t, x, left) ==
  /\ x \in Steps
  /\ x = "stop" => left \in {{"napi_disable", "quiesce", "reset"} \union l : l \in AfterDown(t)}
  /\ x = "napi_disable" => left \in {{"quiesce", "reset"} \union l : l \in AfterDown(t)}
  /\ x = "quiesce" => left \in {{"reset"} \union l : l \in AfterDown(t)}
  /\ x = "reset" =>
       \/ left \in AfterDown(t)
       \/ t = "user" /\ left \in {{}, {"give"}, {"not_open"}, {"dev_open"}}
       \/ t = "device" /\ left \in {{"attach", "thaw"}, {"thaw"}, {"io_resume"},
                                    {"setup_rings", "configure"} \union OpenLeft(t)}
  /\ x = "setup_rings" => t # "task" /\ left = {"configure"} \union OpenLeft(t)
  /\ x = "resize" => t = "user" /\ left = UpLeft(t)
  /\ x = "configure" => left = UpLeft(t) \ {x} \/ (t # "task" /\ left = OpenLeft(t))
  /\ x = "request_irq" => t # "task" /\ left = OpenLeft(t) \ {x}
  /\ x = "clear_down" =>
       \/ left = {"napi_enable", "start"} \union AfterUp(t)
       \/ t # "task" /\ left = {"napi_enable", "start_masked"} \union AfterOpen(t)
  /\ x = "napi_enable" =>
       \/ left = {"start"} \union AfterUp(t)
       \/ t # "task" /\ left = {"start_masked"} \union AfterOpen(t)
  /\ x = "start" => left = AfterUp(t)
  /\ x = "start_masked" => t # "task" /\ left = AfterOpen(t)
  /\ x = "free_irq" => left \in {{"free_rings"} \union l : l \in AfterClose(t)}
  /\ x = "free_rings" => left \in AfterClose(t)
  /\ x = "dev_open" => t = "user" /\ left = {}
  /\ x = "not_open" =>
       /\ t = "user"
       /\ left \in {{}} \union {{"stop", "napi_disable", "quiesce", "reset", "free_irq", "free_rings"}
                                  \union l : l \in AfterClose(t)}
  /\ x = "take" =>
       /\ t # "device"
       /\ \/ t = "user" /\ left \in {{"give"}, {"reset", "give"}}
          \/ left \in {{"stop", "napi_disable", "quiesce", "reset"} \union l :
                         l \in {UpLeft(t)} \union (IF t = "user" THEN {{"resize"} \union UpLeft(t)} ELSE {})}
  /\ x = "give" => t # "device" /\ left = {}
  /\ x = "vlan_mask" => t = "user" /\ left = {"vlan_unmask"}
  /\ x = "vlan_unmask" => t = "user" /\ left = {}
  /\ x \in {"detach", "clear_scheme", "init_scheme", "attach", "thaw", "set_down", "del_timer", "flush",
            "unregister", "free_netdev", "error_down", "slot_reset", "io_resume"} => t = "device"
  /\ x = "detach" =>
       left \in {{"clear_scheme"}, {"stop", "napi_disable", "quiesce", "reset", "free_irq", "free_rings",
                                    "clear_scheme"}}
  /\ x = "init_scheme" => left = {"attach", "thaw"}
  /\ x = "attach" => left \in {{}, {"thaw"}}
  /\ x = "set_down" => left = {"del_timer", "flush", "unregister"}
  /\ x = "del_timer" => left = {"flush", "unregister"}
  /\ x = "flush" => left = {"unregister"}
  /\ x \in {"clear_scheme", "thaw", "unregister", "free_netdev", "io_resume"} => left = {}
  /\ x = "error_down" => left = {"slot_reset", "io_resume"}
  /\ x = "slot_reset" => left = {"io_resume"}

(* The steps of thread t in s, with what is left after it. *)
Shaped(t, s, left) ==
  s \in Seq(Steps) /\ \A k \in 1..Len(s) : Follows(t, s[k], Rest(s, k) \union left)

(* The rings are exchanged, and freed with the interrupts, after a reset.   *)
Touching == {"resize", "free_irq", "free_rings"}
Begins(s) == Len(s) > 0 => s[1] \notin Touching
Prepared(s) ==
  \A k \in 2..Len(s) :
    /\ s[k] \in {"resize", "free_irq"} => s[k - 1] = "reset"
    /\ s[k] = "free_rings" => s[k - 1] = "free_irq"

TodoInv ==
  /\ todo \in [Threads -> Seq(Steps)]
  /\ \A t \in Threads : Shaped(t, todo[t], {}) /\ Prepared(todo[t])

(* Between its napi_disable() and its napi_enable() a thread holds the NAPI *)
(* instance: nobody else gets past napi_disable().                          *)
Holds(t) == "napi_enable" \in Left(t) /\ "napi_disable" \notin Left(t)
Held == \E t \in Threads : Holds(t)
Resting == ints.napi \in {"none", "off"} /\ (ints.napi = "off" => ~Held)

(* What is left of a call of the driver core. *)
InDevice(step) == step \in Left("device")

(* igb_open() failed, and dev_open() has not taken back its state yet. *)
OpenFailed == "not_open" \in Left("user") /\ "free_irq" \notin Left("user")

(* The recovery has stopped the device, and has yet to reset it; it is going *)
(* to start it again if it still runs.                                       *)
Stopped ==
  /\ InDevice("io_resume") /\ InDevice("slot_reset") /\ InDevice("reset")
  /\ ~InDevice("napi_disable") /\ ~InDevice("error_down")
Recovering ==
  Stopped \/ (InDevice("io_resume") /\ ~InDevice("napi_disable") /\ ~InDevice("error_down") /\ net.running)

(* The device is attached, or on its way to be without having to be opened. *)
Whole == net.attached \/ (InDevice("attach") /\ ~InDevice("init_scheme"))

(* Where the threads are, and what of the device they have changed by then. *)
PlaceInv ==
  /\ net.asleep \/ InDevice("clear_scheme") \/ ~net.present => Idle("user")
  /\ InDevice("thaw") => net.asleep
  /\ \/ InDevice("io_resume") \/ InDevice("attach")
     \/ InDevice("clear_scheme") /\ ~InDevice("detach")
     => ~net.attached
  /\ InDevice("free_netdev") => ~net.present
  /\ ~net.present => ~net.running /\ (Idle("device") \/ InDevice("free_netdev"))
  /\ "not_open" \in Left("user") \/ "napi_enable" \in Left("user") => net.running
  /\ {"dev_open", "free_irq", "free_rings"} \cap Left("user") # {} /\ "not_open" \notin Left("user")
       => ~net.running

(* The vectors are gone only while the device sleeps, after it could not be *)
(* woken, or when it was removed.                                           *)
VectorInv ==
  /\ ints.napi = "none" =>
       /\ ~ints.irq /\ "napi_enable" \notin Left("user") \union Left("device")
       /\ ~InDevice("io_resume")
       /\ InDevice("attach") => InDevice("init_scheme")
       /\ ~net.present \/ ~net.attached
  /\ InDevice("init_scheme") => ints.napi = "none" /\ Idle("task") /\ "reset" \notin jobs.work
  /\ net.asleep => ints.napi = "none" \/ InDevice("thaw")

(* One holder at most; and nobody but the one who closed the device, failed *)
(* to open it or stopped it for the recovery.                               *)
HoldInv ==
  /\ Held => ints.napi \in {"none", "off"}
  /\ \A t, v \in Threads : Holds(t) /\ Holds(v) => t = v
  /\ net.present /\ ~net.running /\ "napi_disable" \notin Left("user")
       => Resting /\ ~Stopped
  /\ InDevice("free_rings") /\ ~InDevice("napi_disable") => Resting
  /\ OpenFailed => ints.napi = "off" /\ ~Held
  /\ Recovering => ints.napi = "off" /\ ~Held

(* Whoever stops a device that runs starts it again. *)
AgainInv ==
  net.present /\ net.running /\ Whole /\ ~OpenFailed =>
    /\ ints.napi = "off" => Held
    /\ net.down /\ ~InDevice("unregister") => \E t \in Threads : "clear_down" \in Left(t)

(* The handlers are registered whenever the instances are enabled or held *)
(* to be enabled again.                                                   *)
IrqInv ==
  /\ ints.irq => net.running \/ "free_irq" \in Left("user") \union Left("device")
  /\ "request_irq" \in Left("user") \/ OpenFailed => ~ints.irq
  /\ InDevice("clear_scheme") /\ ~InDevice("free_irq") => ~ints.irq
  /\ ints.isr # "idle" => ints.irq
  /\ ints.napi \in {"on", "busy"} \/ Recovering => ints.irq
  /\ \A t \in Threads : ints.napi = "off" /\ Holds(t) /\ "request_irq" \notin Left(t) => ints.irq

(* The same for the rings, and the NIC does not use them after the reset that *)
(* comes before they go.                                                      *)
RingInv ==
  /\ ints.dma => net.rings
  /\ ints.napi \in {"on", "busy"} \/ Recovering => net.rings
  /\ \A t \in Threads : ints.napi = "off" /\ Holds(t) /\ "setup_rings" \notin Left(t) => net.rings
  /\ \A t \in Threads : At(t, "resize") \/ At(t, "free_irq") \/ At(t, "free_rings") => ~ints.dma

(* What igb_remove() has put an end to stays ended. *)
Leaving(step) == (InDevice("unregister") \/ ~net.present) /\ ~InDevice(step)
EndInv ==
  /\ Leaving("set_down") => net.down
  /\ Leaving("del_timer") => ~jobs.armed
  /\ Leaving("flush") => jobs.work = {} /\ jobs.wd = "idle" /\ Idle("task")
  /\ ints.napi = "none" => Idle("task") /\ "reset" \notin jobs.work

DeviceInv ==
  /\ TypeOK /\ TodoInv
  /\ PlaceInv /\ VectorInv /\ HoldInv /\ AgainInv /\ IrqInv
  /\ ~raced => RingInv /\ EndInv

(***************************************************************************)
(* The grammar of the calls                                                *)
(***************************************************************************)
LEMMA RestTail ==
  ASSUME NEW s \in Seq(Steps), s # <<>>
  PROVE  /\ Tail(s) \in Seq(Steps) /\ Len(Tail(s)) = Len(s) - 1
         /\ \A k \in 1..Len(Tail(s)) : Tail(s)[k] = s[k + 1]
         /\ \A k \in 0..Len(Tail(s)) : Rest(Tail(s), k) = Rest(s, k + 1)
         /\ Rest(s, 0) = {Head(s)} \union Rest(Tail(s), 0)
         /\ Head(s) = s[1] /\ Len(s) \in Nat \ {0}
<1> DEFINE r == Tail(s)
<1>1. /\ r \in Seq(Steps) /\ Len(r) = Len(s) - 1 /\ Len(s) \in Nat /\ Len(s) > 0
      /\ \A k \in 1..Len(r) : r[k] = s[k + 1]
      /\ Head(s) = s[1]
  BY HeadTailProperties
<1> HIDE DEF r
<1>2. \A k \in 0..Len(r) : Rest(r, k) = Rest(s, k + 1)
  <2> SUFFICES ASSUME NEW k \in 0..Len(r) PROVE Rest(r, k) = Rest(s, k + 1)
    OBVIOUS
  <2>1. ASSUME NEW x \in Rest(r, k) PROVE x \in Rest(s, k + 1)
    <3>1. PICK i \in (k + 1)..Len(r) : x = r[i]
      BY <2>1 DEF Rest
    <3>2. i + 1 \in (k + 1 + 1)..Len(s) /\ x = s[i + 1]
      BY <1>1, <3>1
    <3> QED BY <3>2 DEF Rest
  <2>2. ASSUME NEW x \in Rest(s, k + 1) PROVE x \in Rest(r, k)
    <3>1. PICK i \in (k + 1 + 1)..Len(s) : x = s[i]
      BY <2>2 DEF Rest
    <3>2. i - 1 \in (k + 1)..Len(r) /\ x = r[i - 1]
      BY <1>1, <3>1
    <3> QED BY <3>2 DEF Rest
  <2> QED BY <2>1, <2>2
<1>3. Rest(s, 0) = {s[1]} \union Rest(s, 1)
  <2>1. 1..Len(s) = {1} \union (2..Len(s))
    BY <1>1
  <2>2. {s[i] : i \in {1} \union (2..Len(s))} = {s[1]} \union {s[i] : i \in 2..Len(s)}
    OBVIOUS
  <2> QED BY <2>1, <2>2 DEF Rest
<1>4. Rest(s, 1) = Rest(r, 0)
  BY <1>1, <1>2
<1> QED BY <1>1, <1>2, <1>3, <1>4 DEF r

LEMMA RestConcat ==
  ASSUME NEW a \in Seq(Steps), NEW b \in Seq(Steps)
  PROVE  /\ a \o b \in Seq(Steps) /\ Len(a \o b) = Len(a) + Len(b)
         /\ \A k \in 1..Len(a) : (a \o b)[k] = a[k]
         /\ \A k \in 1..Len(b) : (a \o b)[Len(a) + k] = b[k]
         /\ \A k \in 0..Len(a) : Rest(a \o b, k) = Rest(a, k) \union Rest(b, 0)
         /\ \A k \in 0..Len(b) : Rest(a \o b, Len(a) + k) = Rest(b, k)
<1> DEFINE c == a \o b
<1>1. /\ c \in Seq(Steps) /\ Len(c) = Len(a) + Len(b) /\ Len(a) \in Nat /\ Len(b) \in Nat
      /\ \A k \in 1..(Len(a) + Len(b)) : c[k] = IF k <= Len(a) THEN a[k] ELSE b[k - Len(a)]
  BY ConcatProperties
<1> HIDE DEF c
<1>2. \A k \in 1..Len(a) : c[k] = a[k]
  BY <1>1
<1>3. \A k \in 1..Len(b) : c[Len(a) + k] = b[k]
  <2> SUFFICES ASSUME NEW k \in 1..Len(b) PROVE c[Len(a) + k] = b[k]
    OBVIOUS
  <2>1. Len(a) + k \in 1..(Len(a) + Len(b)) /\ ~(Len(a) + k <= Len(a)) /\ Len(a) + k - Len(a) = k
    BY <1>1
  <2> QED BY <1>1, <2>1
<1>4. \A k \in 0..Len(b) : Rest(c, Len(a) + k) = Rest(b, k)
  <2> SUFFICES ASSUME NEW k \in 0..Len(b) PROVE Rest(c, Len(a) + k) = Rest(b, k)
    OBVIOUS
  <2>1. ASSUME NEW x \in Rest(c, Len(a) + k) PROVE x \in Rest(b, k)
    <3>1. PICK i \in (Len(a) + k + 1)..Len(c) : x = c[i]
      BY <2>1 DEF Rest
    <3>2. i - Len(a) \in (k + 1)..Len(b) /\ i - Len(a) \in 1..Len(b) /\ Len(a) + (i - Len(a)) = i
      BY <1>1, <3>1
    <3>3. x = b[i - Len(a)]
      BY <1>3, <3>1, <3>2
    <3> QED BY <3>2, <3>3 DEF Rest
  <2>2. ASSUME NEW x \in Rest(b, k) PROVE x \in Rest(c, Len(a) + k)
    <3>1. PICK i \in (k + 1)..Len(b) : x = b[i]
      BY <2>2 DEF Rest
    <3>2. Len(a) + i \in (Len(a) + k + 1)..Len(c) /\ i \in 1..Len(b)
      BY <1>1, <3>1
    <3>3. x = c[Len(a) + i]
      BY <1>3, <3>1, <3>2
    <3> QED BY <3>2, <3>3 DEF Rest
  <2> QED BY <2>1, <2>2
<1>5. \A k \in 0..Len(a) : Rest(c, k) = Rest(a, k) \union Rest(b, 0)
  <2> SUFFICES ASSUME NEW k \in 0..Len(a) PROVE Rest(c, k) = Rest(a, k) \union Rest(b, 0)
    OBVIOUS
  <2>1. Rest(c, Len(a)) = Rest(b, 0)
    BY <1>1, <1>4
  <2>2. ASSUME NEW x \in Rest(c, k) PROVE x \in Rest(a, k) \union Rest(c, Len(a))
    <3>1. PICK i \in (k + 1)..Len(c) : x = c[i]
      BY <2>2 DEF Rest
    <3>2. CASE i <= Len(a)
      BY <1>1, <1>2, <3>1, <3>2 DEF Rest
    <3>3. CASE ~(i <= Len(a))
      BY <1>1, <3>1, <3>3 DEF Rest
    <3> QED BY <3>2, <3>3
  <2>3. ASSUME NEW x \in Rest(a, k) PROVE x \in Rest(c, k)
    <3>1. PICK i \in (k + 1)..Len(a) : x = a[i]
      BY <2>3 DEF Rest
    <3>2. i \in (k + 1)..Len(c) /\ x = c[i]
      BY <1>1, <1>2, <3>1
    <3> QED BY <3>2 DEF Rest
  <2>4. ASSUME NEW x \in Rest(c, Len(a)) PROVE x \in Rest(c, k)
    <3>1. PICK i \in (Len(a) + 1)..Len(c) : x = c[i]
      BY <2>4 DEF Rest
    <3>2. i \in (k + 1)..Len(c)
      BY <1>1, <3>1
    <3> QED BY <3>1, <3>2 DEF Rest
  <2> QED BY <2>1, <2>2, <2>3, <2>4
<1> QED BY <1>1, <1>2, <1>3, <1>4, <1>5 DEF c

(* What is left of a call keeps its shape, *)
LEMMA ShapedTail ==
  ASSUME NEW t \in Threads, NEW s, s # <<>>, Shaped(t, s, {})
  PROVE  /\ Shaped(t, Tail(s), {})
         /\ Follows(t, Head(s), Rest(Tail(s), 0))
         /\ Rest(s, 0) = {Head(s)} \union Rest(Tail(s), 0)
<1> DEFINE r == Tail(s)
<1>1. s \in Seq(Steps) /\ \A k \in 1..Len(s) : Follows(t, s[k], Rest(s, k) \union {})
  BY DEF Shaped
<1>2. /\ r \in Seq(Steps) /\ Len(r) = Len(s) - 1
      /\ \A k \in 1..Len(r) : r[k] = s[k + 1]
      /\ \A k \in 0..Len(r) : Rest(r, k) = Rest(s, k + 1)
      /\ Rest(s, 0) = {Head(s)} \union Rest(r, 0)
      /\ Head(s) = s[1] /\ Len(s) \in Nat \ {0}
  BY <1>1, RestTail
<1> HIDE DEF r
<1>3. \A k \in 1..Len(r) : Follows(t, r[k], Rest(r, k) \union {})
  <2> SUFFICES ASSUME NEW k \in 1..Len(r) PROVE Follows(t, r[k], Rest(r, k) \union {})
    OBVIOUS
  <2>1. k + 1 \in 1..Len(s) /\ k \in 0..Len(r)
    BY <1>2
  <2>2. r[k] = s[k + 1] /\ Rest(r, k) = Rest(s, k + 1)
    BY <1>2, <2>1
  <2> QED BY <1>1, <2>1, <2>2
<1>4. Follows(t, s[1], Rest(s, 1) \union {})
  BY <1>1, <1>2
<1>5. Rest(s, 1) = Rest(r, 0) /\ Rest(s, 1) \union {} = Rest(s, 1)
  BY <1>2
<1>6. Shaped(t, r, {})
  BY <1>2, <1>3 DEF Shaped
<1>7. Follows(t, Head(s), Rest(r, 0))
  BY <1>2, <1>4, <1>5
<1> QED BY <1>2, <1>6, <1>7 DEF r

(* and calls are put together from parts. *)
Joins(t, a, b, left) ==
  Shaped(t, b, left) /\ Shaped(t, a, Rest(b, 0) \union left)
    => Shaped(t, a \o b, left) /\ Rest(a \o b, 0) = Rest(a, 0) \union Rest(b, 0)

LEMMA Joining == \A t \in Threads : \A a, b, left : Joins(t, a, b, left)
<1> SUFFICES ASSUME NEW t \in Threads, NEW a, NEW b, NEW left,
                    Shaped(t, b, left), Shaped(t, a, Rest(b, 0) \union left)
             PROVE  Shaped(t, a \o b, left) /\ Rest(a \o b, 0) = Rest(a, 0) \union Rest(b, 0)
  BY DEF Joins
<1> DEFINE c == a \o b
<1>1. /\ a \in Seq(Steps) /\ b \in Seq(Steps)
      /\ \A k \in 1..Len(a) : Follows(t, a[k], Rest(a, k) \union (Rest(b, 0) \union left))
      /\ \A k \in 1..Len(b) : Follows(t, b[k], Rest(b, k) \union left)
  BY DEF Shaped
<1>2. /\ c \in Seq(Steps) /\ Len(c) = Len(a) + Len(b) /\ Len(a) \in Nat /\ Len(b) \in Nat
      /\ \A k \in 1..Len(a) : c[k] = a[k]
      /\ \A k \in 1..Len(b) : c[Len(a) + k] = b[k]
      /\ \A k \in 0..Len(a) : Rest(c, k) = Rest(a, k) \union Rest(b, 0)
      /\ \A k \in 0..Len(b) : Rest(c, Len(a) + k) = Rest(b, k)
  BY <1>1, RestConcat
<1> HIDE DEF c
<1>3. ASSUME NEW k \in 1..Len(c) PROVE Follows(t, c[k], Rest(c, k) \union left)
  <2>1. CASE k <= Len(a)
    <3>1. k \in 1..Len(a) /\ k \in 0..Len(a)
      BY <1>2, <2>1
    <3>2. Rest(c, k) \union left = Rest(a, k) \union (Rest(b, 0) \union left)
      BY <1>2, <3>1
    <3> QED BY <1>1, <1>2, <3>1, <3>2
  <2>2. CASE ~(k <= Len(a))
    <3> DEFINE j == k - Len(a)
    <3>1. j \in 1..Len(b) /\ j \in 0..Len(b) /\ Len(a) + j = k
      BY <1>2, <2>2
    <3> HIDE DEF j
    <3>2. c[k] = b[j] /\ Rest(c, k) = Rest(b, j)
      BY <1>2, <3>1
    <3> QED BY <1>1, <3>1, <3>2
  <2> QED BY <2>1, <2>2
<1>4. Shaped(t, c, left)
  BY <1>2, <1>3 DEF Shaped
<1>5. Rest(c, 0) = Rest(a, 0) \union Rest(b, 0)
  BY <1>2
<1> QED BY <1>4, <1>5 DEF c

LEMMA ShapedConcat ==
  ASSUME NEW t \in Threads, NEW a, NEW b, NEW left,
         Shaped(t, b, left), Shaped(t, a, Rest(b, 0) \union left)
  PROVE  Shaped(t, a \o b, left) /\ Rest(a \o b, 0) = Rest(a, 0) \union Rest(b, 0)
<1>1. Joins(t, a, b, left)
  BY Joining, Zenon
<1> QED BY <1>1 DEF Joins

LEMMA ConcatHead ==
  ASSUME NEW a \in Seq(Steps), NEW b \in Seq(Steps), Len(a) > 0
  PROVE  a \o b \in Seq(Steps) /\ Len(a \o b) = Len(a) + Len(b) /\ (a \o b)[1] = a[1]
<1>1. 1 \in 1..Len(a)
  OBVIOUS
<1> QED BY <1>1, RestConcat

LEMMA ShapedOne ==
  ASSUME NEW t \in Threads, NEW left, NEW a \in Steps, Follows(t, a, left)
  PROVE  Shaped(t, <<a>>, left) /\ Rest(<<a>>, 0) = {a}
<1> DEFINE s == <<a>>
<1>1. s \in Seq(Steps) /\ Len(s) = 1 /\ s[1] = a
  OBVIOUS
<1> HIDE DEF s
<1>2. Rest(s, 1) = {} /\ Rest(s, 0) = {a}
  BY <1>1 DEF Rest
<1>3. Rest(s, 1) \union left = left
  BY <1>2
<1> QED BY <1>1, <1>2, <1>3 DEF Shaped, s

LEMMA ShapedTwo ==
  ASSUME NEW t \in Threads, NEW left, NEW a \in Steps, NEW b \in Steps,
         Follows(t, a, {b} \union left), Follows(t, b, left)
  PROVE  Shaped(t, <<a, b>>, left) /\ Rest(<<a, b>>, 0) = {a, b}
<1> DEFINE s == <<a, b>>
<1>1. s \in Seq(Steps) /\ Len(s) = 2 /\ s[1] = a /\ s[2] = b
  OBVIOUS
<1> HIDE DEF s
<1>2. Rest(s, 2) = {} /\ Rest(s, 1) = {b} /\ Rest(s, 0) = {a, b}
  BY <1>1 DEF Rest
<1>3. Rest(s, 2) \union left = left
  BY <1>2
<1> QED BY <1>1, <1>2, <1>3 DEF Shaped, s

LEMMA ShapedFour ==
  ASSUME NEW t \in Threads, NEW left, NEW a \in Steps, NEW b \in Steps, NEW c \in Steps, NEW d \in Steps,
         Follows(t, a, {b, c, d} \union left), Follows(t, b, {c, d} \union left),
         Follows(t, c, {d} \union left), Follows(t, d, left)
  PROVE  Shaped(t, <<a, b, c, d>>, left) /\ Rest(<<a, b, c, d>>, 0) = {a, b, c, d}
<1> DEFINE s == <<a, b, c, d>>
<1>1. s \in Seq(Steps) /\ Len(s) = 4 /\ s[1] = a /\ s[2] = b /\ s[3] = c /\ s[4] = d
  OBVIOUS
<1> HIDE DEF s
<1>2. Rest(s, 4) = {} /\ Rest(s, 3) = {d} /\ Rest(s, 2) = {c, d} /\ Rest(s, 1) = {b, c, d}
      /\ Rest(s, 0) = {a, b, c, d}
  BY <1>1 DEF Rest
<1>3. Rest(s, 4) \union left = left
  BY <1>2
<1>4. \A k \in 1..4 : Follows(t, s[k], Rest(s, k) \union left)
  <2> SUFFICES ASSUME NEW k \in 1..4 PROVE Follows(t, s[k], Rest(s, k) \union left)
    OBVIOUS
  <2>1. k = 1 \/ k = 2 \/ k = 3 \/ k = 4
    OBVIOUS
  <2> QED BY <1>1, <1>2, <1>3, <2>1
<1> QED BY <1>1, <1>2, <1>4 DEF Shaped, s

LEMMA ShapedNone == \A t \in Threads : \A left : Shaped(t, <<>>, left) /\ Rest(<<>>, 0) = {}
BY DEF Shaped, Rest

(* What there is of igb_down(), igb_up(), igb_close() and igb_open(). *)
DownSteps == {"stop", "napi_disable", "quiesce", "reset"}
CloseSteps == DownSteps \union {"free_irq", "free_rings"}

LEMMA DownShape ==
  ASSUME NEW t \in Threads, NEW left \in AfterDown(t)
  PROVE  Shaped(t, Down, left) /\ Rest(Down, 0) = DownSteps
<1>1. "stop" \in Steps /\ "napi_disable" \in Steps /\ "quiesce" \in Steps /\ "reset" \in Steps
  BY DEF Steps
<1>2. Follows(t, "stop", {"napi_disable", "quiesce", "reset"} \union left)
  BY <1>1 DEF Follows
<1>3. Follows(t, "napi_disable", {"quiesce", "reset"} \union left)
  BY <1>1 DEF Follows
<1>4. Follows(t, "quiesce", {"reset"} \union left)
  BY <1>1 DEF Follows
<1>5. Follows(t, "reset", left)
  BY <1>1 DEF Follows
<1> QED BY <1>1, <1>2, <1>3, <1>4, <1>5, ShapedFour DEF Down, DownSteps

LEMMA UpShape ==
  ASSUME NEW t \in Threads
  PROVE  Shaped(t, Up, AfterUp(t)) /\ Rest(Up, 0) = {"configure", "clear_down", "napi_enable", "start"}
<1>1. "configure" \in Steps /\ "clear_down" \in Steps /\ "napi_enable" \in Steps /\ "start" \in Steps
  BY DEF Steps
<1>2. Follows(t, "configure", {"clear_down", "napi_enable", "start"} \union AfterUp(t))
  <2>1. {"clear_down", "napi_enable", "start"} \union AfterUp(t) = UpLeft(t) \ {"configure"}
    BY DEF UpLeft, AfterUp
  <2> QED BY <1>1, <2>1 DEF Follows
<1>3. Follows(t, "clear_down", {"napi_enable", "start"} \union AfterUp(t))
  BY <1>1 DEF Follows
<1>4. Follows(t, "napi_enable", {"start"} \union AfterUp(t))
  BY <1>1 DEF Follows
<1>5. Follows(t, "start", AfterUp(t))
  BY <1>1 DEF Follows
<1> DEFINE left == AfterUp(t)
<1> HIDE DEF left
<1>6. /\ Shaped(t, <<"configure", "clear_down", "napi_enable", "start">>, left)
      /\ Rest(<<"configure", "clear_down", "napi_enable", "start">>, 0)
           = {"configure", "clear_down", "napi_enable", "start"}
  <2>1. /\ Follows(t, "configure", {"clear_down", "napi_enable", "start"} \union left)
        /\ Follows(t, "clear_down", {"napi_enable", "start"} \union left)
        /\ Follows(t, "napi_enable", {"start"} \union left) /\ Follows(t, "start", left)
    BY <1>2, <1>3, <1>4, <1>5 DEF left
  <2> QED BY <1>1, <2>1, ShapedFour
<1> QED BY <1>6 DEF Up, left

LEMMA CloseShape ==
  ASSUME NEW t \in Threads, NEW left \in AfterClose(t)
  PROVE  Shaped(t, Close, left) /\ Rest(Close, 0) = CloseSteps
<1> DEFINE frees == <<"free_irq", "free_rings">>
<1>1. "free_irq" \in Steps /\ "free_rings" \in Steps
  BY DEF Steps
<1>2. Follows(t, "free_irq", {"free_rings"} \union left) /\ Follows(t, "free_rings", left)
  BY <1>1 DEF Follows
<1>3. Shaped(t, frees, left) /\ Rest(frees, 0) = {"free_irq", "free_rings"}
  BY <1>1, <1>2, ShapedTwo
<1> HIDE DEF frees
<1>4. {"free_irq", "free_rings"} \union left \in AfterDown(t)
  BY DEF AfterDown
<1>5. Shaped(t, Down, Rest(frees, 0) \union left) /\ Rest(Down, 0) = DownSteps
  BY <1>3, <1>4, DownShape
<1>6. Shaped(t, Down \o frees, left) /\ Rest(Down \o frees, 0) = Rest(Down, 0) \union Rest(frees, 0)
  BY <1>3, <1>5, ShapedConcat
<1> QED BY <1>3, <1>5, <1>6 DEF Close, CloseSteps, frees

LEMMA OpenShape ==
  ASSUME NEW t \in {"user", "device"}
  PROVE  /\ Shaped(t, Open, AfterOpen(t))
         /\ Rest(Open, 0) = {"setup_rings", "configure", "request_irq", "clear_down", "napi_enable",
                             "start_masked"}
<1> DEFINE s == Open
<1>1. /\ s \in Seq(Steps) /\ Len(s) = 6
      /\ s[1] = "setup_rings" /\ s[2] = "configure" /\ s[3] = "request_irq"
      /\ s[4] = "clear_down" /\ s[5] = "napi_enable" /\ s[6] = "start_masked"
  BY DEF Open, Steps
<1> HIDE DEF s
<1>2. /\ Rest(s, 6) = {} /\ Rest(s, 5) = {"start_masked"} /\ Rest(s, 4) = {"napi_enable", "start_masked"}
      /\ Rest(s, 3) = {"clear_down", "napi_enable", "start_masked"}
      /\ Rest(s, 2) = {"request_irq", "clear_down", "napi_enable", "start_masked"}
      /\ Rest(s, 1) = {"configure", "request_irq", "clear_down", "napi_enable", "start_masked"}
      /\ Rest(s, 0) = {"setup_rings", "configure", "request_irq", "clear_down", "napi_enable",
                       "start_masked"}
  BY <1>1 DEF Rest
<1> DEFINE left(k) == Rest(s, k) \union AfterOpen(t)
<1>3. /\ left(6) = AfterOpen(t) /\ left(5) = {"start_masked"} \union AfterOpen(t)
      /\ left(4) = {"napi_enable", "start_masked"} \union AfterOpen(t)
      /\ left(3) = OpenLeft(t) \ {"request_irq"}
      /\ left(2) = OpenLeft(t)
      /\ left(1) = {"configure"} \union OpenLeft(t)
  BY <1>2 DEF OpenLeft, AfterOpen
<1> HIDE DEF left
<1>4. /\ Follows(t, "setup_rings", left(1)) /\ Follows(t, "configure", left(2))
      /\ Follows(t, "request_irq", left(3)) /\ Follows(t, "clear_down", left(4))
      /\ Follows(t, "napi_enable", left(5)) /\ Follows(t, "start_masked", left(6))
  BY <1>3 DEF Follows, Steps
<1>5. \A k \in 1..6 : Follows(t, s[k], left(k))
  <2> SUFFICES ASSUME NEW k \in 1..6 PROVE Follows(t, s[k], left(k))
    OBVIOUS
  <2>1. k = 1 \/ k = 2 \/ k = 3 \/ k = 4 \/ k = 5 \/ k = 6
    OBVIOUS
  <2> QED BY <1>1, <1>4, <2>1
<1> QED BY <1>1, <1>2, <1>5 DEF Shaped, left, s

LEMMA PreparedTail ==
  ASSUME NEW s \in Seq(Steps), s # <<>>, Prepared(s)
  PROVE  /\ Prepared(Tail(s))
         /\ Tail(s) # <<>> =>
              /\ Head(Tail(s)) \in {"resize", "free_irq"} => Head(s) = "reset"
              /\ Head(Tail(s)) = "free_rings" => Head(s) = "free_irq"
<1> DEFINE r == Tail(s)
<1>1. /\ r \in Seq(Steps) /\ Len(r) = Len(s) - 1 /\ Len(s) \in Nat
      /\ \A k \in 1..Len(r) : r[k] = s[k + 1]
      /\ Head(s) = s[1]
  BY RestTail
<1>2. r # <<>> => Len(r) > 0 /\ Head(r) = r[1]
  BY <1>1
<1> HIDE DEF r
<1>3. Prepared(r)
  <2> SUFFICES ASSUME NEW k \in 2..Len(r)
               PROVE  /\ r[k] \in {"resize", "free_irq"} => r[k - 1] = "reset"
                      /\ r[k] = "free_rings" => r[k - 1] = "free_irq"
    BY DEF Prepared
  <2>1. k \in 1..Len(r) /\ k - 1 \in 1..Len(r) /\ k + 1 \in 2..Len(s) /\ (k + 1) - 1 = (k - 1) + 1
    BY <1>1
  <2>2. r[k] = s[k + 1] /\ r[k - 1] = s[(k + 1) - 1]
    BY <1>1, <2>1
  <2> QED BY <2>1, <2>2 DEF Prepared
<1>4. ASSUME r # <<>>
      PROVE  /\ Head(r) \in {"resize", "free_irq"} => Head(s) = "reset"
             /\ Head(r) = "free_rings" => Head(s) = "free_irq"
  <2>1. 2 \in 2..Len(s) /\ 1 \in 1..Len(r)
    BY <1>1, <1>2, <1>4
  <2>2. Head(r) = s[2]
    BY <1>1, <1>2, <1>4, <2>1
  <2>3. /\ s[2] \in {"resize", "free_irq"} => s[2 - 1] = "reset"
        /\ s[2] = "free_rings" => s[2 - 1] = "free_irq"
    BY <2>1 DEF Prepared
  <2> QED BY <1>1, <2>2, <2>3
<1> QED BY <1>3, <1>4 DEF r

LEMMA PreparedConcat ==
  ASSUME NEW a \in Seq(Steps), NEW b \in Seq(Steps), Prepared(a), Prepared(b),
         Begins(b) \/ (Len(a) > 0 /\ a[Len(a)] = "reset" /\ b[1] # "free_rings")
  PROVE  Prepared(a \o b)
<1> DEFINE c == a \o b
<1>1. /\ c \in Seq(Steps) /\ Len(c) = Len(a) + Len(b) /\ Len(a) \in Nat /\ Len(b) \in Nat
      /\ \A k \in 1..Len(a) : c[k] = a[k]
      /\ \A k \in 1..Len(b) : c[Len(a) + k] = b[k]
  BY RestConcat
<1> HIDE DEF c
<1> SUFFICES ASSUME NEW k \in 2..Len(c)
             PROVE  /\ c[k] \in {"resize", "free_irq"} => c[k - 1] = "reset"
                    /\ c[k] = "free_rings" => c[k - 1] = "free_irq"
  BY DEF Prepared, c
<1>2. CASE k <= Len(a)
  <2>1. k \in 2..Len(a) /\ k \in 1..Len(a) /\ k - 1 \in 1..Len(a)
    BY <1>1, <1>2
  <2> QED BY <1>1, <2>1 DEF Prepared
<1>3. CASE k >= Len(a) + 2
  <2> DEFINE j == k - Len(a)
  <2>1. /\ j \in 2..Len(b) /\ j \in 1..Len(b) /\ j - 1 \in 1..Len(b)
        /\ Len(a) + j = k /\ Len(a) + (j - 1) = k - 1
    BY <1>1, <1>3
  <2> HIDE DEF j
  <2>2. c[k] = b[j] /\ c[k - 1] = b[j - 1]
    BY <1>1, <2>1
  <2> QED BY <2>1, <2>2 DEF Prepared
<1>4. CASE k = Len(a) + 1
  <2>1. 1 \in 1..Len(b) /\ k - 1 = Len(a) /\ Len(a) \in 1..Len(a) /\ 1 \in (0 + 1)..Len(b)
    BY <1>1, <1>4
  <2>2. c[k] = b[1] /\ c[k - 1] = a[Len(a)]
    BY <1>1, <1>4, <2>1
  <2>3. Len(b) > 0
    BY <1>1, <2>1
  <2> QED BY <1>1, <1>4, <2>2, <2>3 DEF Begins, Touching
<1> QED BY <1>1, <1>2, <1>3, <1>4

LEMMA PreparedParts ==
  /\ Down \in Seq(Steps) /\ Prepared(Down) /\ Begins(Down) /\ Len(Down) = 4 /\ Down[4] = "reset"
  /\ Up \in Seq(Steps) /\ Prepared(Up) /\ Begins(Up) /\ Len(Up) > 0
  /\ Open \in Seq(Steps) /\ Prepared(Open) /\ Begins(Open) /\ Len(Open) > 0
  /\ Close \in Seq(Steps) /\ Prepared(Close) /\ Begins(Close) /\ Len(Close) > 0
  /\ \A x \in Steps : <<x>> \in Seq(Steps) /\ Prepared(<<x>>)
  /\ \A x \in Steps, y \in Steps \ Touching : <<x, y>> \in Seq(Steps) /\ Prepared(<<x, y>>)
  /\ \A x \in Steps, y \in Steps \ Touching, z \in Steps \ Touching :
       <<x, y, z>> \in Seq(Steps) /\ Prepared(<<x, y, z>>)
  /\ Prepared(<<>>)
<1>1. /\ Down \in Seq(Steps) /\ Prepared(Down) /\ Begins(Down) /\ Len(Down) = 4 /\ Down[4] = "reset"
  BY DEF Down, Prepared, Begins, Touching, Steps
<1>2. Up \in Seq(Steps) /\ Prepared(Up) /\ Begins(Up) /\ Len(Up) > 0
  BY DEF Up, Prepared, Begins, Touching, Steps
<1>3. Open \in Seq(Steps) /\ Prepared(Open) /\ Begins(Open) /\ Len(Open) > 0
  BY DEF Open, Prepared, Begins, Touching, Steps
<1>4. Close \in Seq(Steps) /\ Prepared(Close) /\ Begins(Close) /\ Len(Close) > 0
  <2> DEFINE frees == <<"free_irq", "free_rings">>
  <2>1. frees \in Seq(Steps) /\ Prepared(frees) /\ "free_rings" # frees[1]
    BY DEF Prepared, Steps
  <2> HIDE DEF frees
  <2>2. /\ Down \o frees \in Seq(Steps) /\ Prepared(Down \o frees)
        /\ Len(Down \o frees) > 0 /\ (Down \o frees)[1] = Down[1]
    <3>1. Len(Down) > 0 /\ Down[Len(Down)] = "reset"
      BY <1>1
    <3>2. Prepared(Down \o frees)
      BY <1>1, <2>1, <3>1, PreparedConcat
    <3>3. 1 \in 1..Len(Down) /\ Len(frees) \in Nat
      BY <1>1, <2>1
    <3> QED BY <1>1, <2>1, <3>2, <3>3, RestConcat
  <2> DEFINE all == Down \o frees
  <2>3. Begins(all)
    BY <1>1, <2>2 DEF Begins
  <2>4. all = Close
    BY DEF Close, frees
  <2> HIDE DEF all
  <2> QED BY <2>2, <2>3, <2>4 DEF all
<1>5. \A x \in Steps : <<x>> \in Seq(Steps) /\ Prepared(<<x>>)
  BY DEF Prepared
<1>6. \A x \in Steps, y \in Steps \ Touching : <<x, y>> \in Seq(Steps) /\ Prepared(<<x, y>>)
  BY DEF Prepared, Touching
<1>7. \A x \in Steps, y \in Steps \ Touching, z \in Steps \ Touching :
       <<x, y, z>> \in Seq(Steps) /\ Prepared(<<x, y, z>>)
  BY DEF Prepared, Touching
<1>8. Prepared(<<>>)
  BY DEF Prepared
<1> QED BY <1>1, <1>2, <1>3, <1>4, <1>5, <1>6, <1>7, <1>8

(* A whole call, or what is left of one, of thread t. *)
IsCall(t, s) == s \in Seq(Steps) /\ Shaped(t, s, {}) /\ Prepared(s) /\ Begins(s)

LEMMA CallConcat ==
  ASSUME NEW t \in Threads, NEW a \in Seq(Steps), NEW b,
         Shaped(t, a, Rest(b, 0)), Prepared(a), Begins(a), Len(a) > 0,
         IsCall(t, b) \/ (Shaped(t, b, {}) /\ Prepared(b) /\ a[Len(a)] = "reset" /\ b[1] # "free_rings")
  PROVE  IsCall(t, a \o b) /\ Rest(a \o b, 0) = Rest(a, 0) \union Rest(b, 0)
<1>1. b \in Seq(Steps) /\ Shaped(t, b, {}) /\ Prepared(b)
  BY DEF IsCall, Shaped
<1>2. Shaped(t, a, Rest(b, 0) \union {})
  <2>1. Rest(b, 0) \union {} = Rest(b, 0)
    OBVIOUS
  <2> QED BY <2>1
<1>3. Shaped(t, a \o b, {}) /\ Rest(a \o b, 0) = Rest(a, 0) \union Rest(b, 0)
  <2>1. Joins(t, a, b, {})
    BY Joining, Zenon
  <2> QED BY <1>1, <1>2, <2>1, Zenon DEF Joins
<1>4. Prepared(a \o b)
  <2>1. Begins(b) \/ (Len(a) > 0 /\ a[Len(a)] = "reset" /\ b[1] # "free_rings")
    BY DEF IsCall
  <2> QED BY <1>1, <2>1, PreparedConcat
<1>5. a \o b \in Seq(Steps) /\ Begins(a \o b)
  <2>1. a \o b \in Seq(Steps) /\ \A k \in 1..Len(a) : (a \o b)[k] = a[k]
    BY <1>1, RestConcat
  <2>2. 1 \in 1..Len(a)
    OBVIOUS
  <2> QED BY <2>1, <2>2 DEF Begins
<1> QED BY <1>3, <1>4, <1>5 DEF IsCall

(* The calls under __IGB_RESETTING. *)
LEMMA LockedShape ==
  ASSUME NEW t \in {"user", "task"}, NEW steps \in Seq(Steps),
         Shaped(t, steps, {"give"}), Prepared(steps), Begins(steps),
         Follows(t, "take", Rest(steps, 0) \union {"give"})
  PROVE  IsCall(t, Locked(steps)) /\ Rest(Locked(steps), 0) = {"take", "give"} \union Rest(steps, 0)
<1> DEFINE a == <<"take">>
           b == a \o steps
           c == <<"give">>
<1>1. t \in Threads /\ "take" \in Steps /\ "give" \in Steps
  BY DEF Threads, Steps
<1>2. /\ a \in Seq(Steps) /\ Prepared(a) /\ Begins(a) /\ Len(a) = 1
      /\ Rest(a, 0) = {"take"} /\ Shaped(t, a, Rest(steps, 0) \union {"give"})
  <2>1. a \in Seq(Steps) /\ Prepared(a) /\ Len(a) = 1 /\ a[1] = "take"
    BY <1>1, PreparedParts
  <2> QED BY <1>1, <2>1, ShapedOne DEF Begins, Touching
<1>3. /\ c \in Seq(Steps) /\ Prepared(c) /\ Begins(c)
      /\ Rest(c, 0) = {"give"} /\ Shaped(t, c, {})
  <2>1. c \in Seq(Steps) /\ Prepared(c) /\ Len(c) = 1 /\ c[1] = "give"
    BY <1>1, PreparedParts
  <2>2. Follows(t, "give", {})
    BY <1>1 DEF Follows
  <2> QED BY <1>1, <2>1, <2>2, ShapedOne DEF Begins, Touching
<1> HIDE DEF a, c
<1>4. Shaped(t, b, {"give"}) /\ Rest(b, 0) = {"take"} \union Rest(steps, 0)
  <2>1. Joins(t, a, steps, {"give"})
    BY <1>1, Joining, Zenon
  <2> QED BY <1>2, <2>1, Zenon DEF Joins
<1>5. Prepared(b)
  BY <1>2, PreparedConcat
<1>6. b \in Seq(Steps) /\ Len(b) > 0 /\ Begins(b)
  <2>1. /\ b \in Seq(Steps) /\ Len(b) = Len(a) + Len(steps) /\ \A k \in 1..Len(a) : b[k] = a[k]
    BY <1>2, RestConcat
  <2>2. 1 \in 1..Len(a) /\ Len(steps) \in Nat
    BY <1>2
  <2> QED BY <1>2, <2>1, <2>2 DEF Begins
<1> HIDE DEF b
<1>7. IsCall(t, c)
  BY <1>3 DEF IsCall
<1>8. IsCall(t, b \o c) /\ Rest(b \o c, 0) = Rest(b, 0) \union Rest(c, 0)
  <2>1. Shaped(t, b, Rest(c, 0))
    BY <1>3, <1>4
  <2> QED BY <1>1, <1>5, <1>6, <1>7, <2>1, CallConcat
<1>9. Locked(steps) = b \o c
  BY DEF Locked, a, b, c
<1> QED BY <1>3, <1>4, <1>8, <1>9

UpSteps == {"configure", "clear_down", "napi_enable", "start"}

LEMMA ReinitShape ==
  ASSUME NEW t \in {"user", "task"}
  PROVE  /\ IsCall(t, Locked(Down \o Up))
         /\ Rest(Locked(Down \o Up), 0) = {"take", "give"} \union DownSteps \union UpSteps
<1> DEFINE s == Down \o Up
<1>1. t \in Threads /\ AfterUp(t) = {"give"}
  BY DEF Threads, AfterUp
<1>2. Shaped(t, Up, {"give"}) /\ Rest(Up, 0) = UpSteps
  BY <1>1, UpShape DEF UpSteps
<1>3. UpSteps \union {"give"} = UpLeft(t) /\ UpSteps \union {"give"} \in AfterDown(t)
  BY <1>1 DEF UpSteps, UpLeft, AfterDown
<1>4. Shaped(t, Down, UpSteps \union {"give"}) /\ Rest(Down, 0) = DownSteps
  BY <1>1, <1>3, DownShape
<1>5. Shaped(t, s, {"give"}) /\ Rest(s, 0) = DownSteps \union UpSteps
  <2>1. Joins(t, Down, Up, {"give"})
    BY <1>1, Joining, Zenon
  <2> QED BY <1>2, <1>4, <2>1, Zenon DEF Joins
<1>6. s \in Seq(Steps) /\ Len(s) > 0 /\ s[1] = Down[1]
  <2>1. Down \in Seq(Steps) /\ Up \in Seq(Steps) /\ Len(Down) = 4 /\ Len(Down) > 0 /\ Len(Up) \in Nat
    BY PreparedParts
  <2>2. s \in Seq(Steps) /\ Len(s) = Len(Down) + Len(Up) /\ s[1] = Down[1]
    BY <2>1, ConcatHead
  <2> QED BY <2>1, <2>2
<1>7. Prepared(s)
  BY PreparedParts, PreparedConcat
<1> HIDE DEF s
<1>8. Begins(s)
  BY <1>6, PreparedParts DEF Begins
<1>9. Follows(t, "take", Rest(s, 0) \union {"give"})
  <2>1. Rest(s, 0) \union {"give"} = {"stop", "napi_disable", "quiesce", "reset"} \union UpLeft(t)
    BY <1>3, <1>5 DEF DownSteps
  <2>2. "take" \in Steps /\ t # "device"
    BY DEF Steps
  <2> QED BY <2>1, <2>2 DEF Follows
<1>10. IsCall(t, Locked(s)) /\ Rest(Locked(s), 0) = {"take", "give"} \union Rest(s, 0)
  BY <1>5, <1>6, <1>7, <1>8, <1>9, LockedShape
<1>11. Rest(Locked(s), 0) = {"take", "give"} \union DownSteps \union UpSteps
  BY <1>5, <1>10
<1> QED BY <1>10, <1>11 DEF s

LEMMA ResizeShape ==
  /\ IsCall("user", Locked(Down \o <<"resize">> \o Up))
  /\ Rest(Locked(Down \o <<"resize">> \o Up), 0)
       = {"take", "give", "resize"} \union DownSteps \union UpSteps
<1> DEFINE r == <<"resize">>
           d == Down \o r
           s == d \o Up
           t == "user"
<1>1. t \in Threads /\ AfterUp(t) = {"give"} /\ "resize" \in Steps
  BY DEF Threads, AfterUp, Steps
<1>2. Shaped(t, Up, {"give"}) /\ Rest(Up, 0) = UpSteps
  BY <1>1, UpShape DEF UpSteps
<1>3. UpSteps \union {"give"} = UpLeft(t) /\ {"resize"} \union (UpSteps \union {"give"}) \in AfterDown(t)
  BY <1>1 DEF UpSteps, UpLeft, AfterDown
<1>4. /\ r \in Seq(Steps) /\ Prepared(r) /\ Rest(r, 0) = {"resize"} /\ Len(r) = 1
      /\ r[1] # "free_rings" /\ Shaped(t, r, UpSteps \union {"give"})
  <2>1. Follows(t, "resize", UpSteps \union {"give"})
    BY <1>1, <1>3 DEF Follows
  <2> QED BY <1>1, <2>1, ShapedOne, PreparedParts
<1>5. Shaped(t, Down, Rest(r, 0) \union (UpSteps \union {"give"})) /\ Rest(Down, 0) = DownSteps
  BY <1>1, <1>3, <1>4, DownShape
<1> HIDE DEF r
<1>6. Shaped(t, d, UpSteps \union {"give"}) /\ Rest(d, 0) = DownSteps \union {"resize"}
  <2>1. Joins(t, Down, r, UpSteps \union {"give"})
    BY <1>1, Joining, Zenon
  <2> QED BY <1>4, <1>5, <2>1, Zenon DEF Joins
<1>7. /\ d \in Seq(Steps) /\ Len(d) = 5 /\ d[1] = Down[1]
  <2>1. Down \in Seq(Steps) /\ Len(Down) = 4 /\ Len(Down) > 0
    BY PreparedParts
  <2>2. d \in Seq(Steps) /\ Len(d) = Len(Down) + Len(r) /\ d[1] = Down[1]
    BY <1>4, <2>1, ConcatHead
  <2> QED BY <1>4, <2>1, <2>2
<1>8. Prepared(d)
  <2>1. Len(Down) > 0 /\ Down[Len(Down)] = "reset"
    BY PreparedParts
  <2> QED BY <1>4, <2>1, PreparedParts, PreparedConcat
<1> HIDE DEF d
<1>9. Shaped(t, s, {"give"}) /\ Rest(s, 0) = {"resize"} \union DownSteps \union UpSteps
  <2>1. Joins(t, d, Up, {"give"})
    BY <1>1, Joining, Zenon
  <2>2. Shaped(t, s, {"give"}) /\ Rest(s, 0) = Rest(d, 0) \union Rest(Up, 0)
    BY <1>2, <1>6, <2>1, Zenon DEF Joins
  <2> QED BY <1>2, <1>6, <2>2
<1>10. s \in Seq(Steps) /\ Len(s) > 0 /\ s[1] = Down[1]
  <2>1. Up \in Seq(Steps) /\ Len(Up) \in Nat /\ Len(d) > 0
    BY <1>7, PreparedParts
  <2>2. s \in Seq(Steps) /\ Len(s) = Len(d) + Len(Up) /\ s[1] = d[1]
    BY <1>7, <2>1, ConcatHead
  <2> QED BY <1>7, <2>1, <2>2
<1>11. Prepared(s)
  BY <1>7, <1>8, PreparedParts, PreparedConcat
<1>12. s = Down \o <<"resize">> \o Up
  BY DEF s, d, r
<1> HIDE DEF s
<1>13. Begins(s)
  BY <1>10, PreparedParts DEF Begins
<1>14. Follows(t, "take", Rest(s, 0) \union {"give"})
  <2>1. Rest(s, 0) \union {"give"} = {"stop", "napi_disable", "quiesce", "reset"} \union ({"resize"} \union UpLeft(t))
    BY <1>3, <1>9 DEF DownSteps
  <2>2. "take" \in Steps
    BY DEF Steps
  <2> QED BY <2>1, <2>2 DEF Follows
<1>15. IsCall(t, Locked(s)) /\ Rest(Locked(s), 0) = {"take", "give"} \union Rest(s, 0)
  BY <1>9, <1>10, <1>11, <1>13, <1>14, LockedShape
<1>16. Rest(Locked(s), 0) = {"take", "give", "resize"} \union DownSteps \union UpSteps
  BY <1>9, <1>15
<1> QED BY <1>12, <1>15, <1>16

(* A call of the user is one that fits the state of the device. *)
Fits(left) ==
  /\ "not_open" \in left \/ "napi_enable" \in left => net.running
  /\ {"dev_open", "free_irq", "free_rings"} \cap left # {} /\ "not_open" \notin left => ~net.running
  /\ "napi_enable" \in left => net.attached /\ "napi_disable" \in left
  /\ "not_open" \in left => "free_irq" \in left
  /\ "request_irq" \notin left

LEMMA OneStep ==
  ASSUME NEW t \in Threads, NEW x \in Steps \ Touching, Follows(t, x, {})
  PROVE  IsCall(t, <<x>>) /\ Rest(<<x>>, 0) = {x}
<1>1. <<x>> \in Seq(Steps) /\ Prepared(<<x>>)
  BY PreparedParts
<1>2. Begins(<<x>>)
  BY DEF Begins
<1>3. Shaped(t, <<x>>, {}) /\ Rest(<<x>>, 0) = {x}
  BY ShapedOne
<1> QED BY <1>1, <1>2, <1>3 DEF IsCall

LEMMA OpenCloses ==
  ASSUME NEW left \in AfterClose("user")
  PROVE  /\ Shaped("user", <<"not_open">> \o Close, left)
         /\ Prepared(<<"not_open">> \o Close) /\ Begins(<<"not_open">> \o Close)
         /\ <<"not_open">> \o Close \in Seq(Steps) /\ Len(<<"not_open">> \o Close) > 0
         /\ Rest(<<"not_open">> \o Close, 0) = {"not_open"} \union CloseSteps
<1> DEFINE a == <<"not_open">>
           t == "user"
<1>1. t \in Threads /\ "not_open" \in Steps
  BY DEF Threads, Steps
<1>2. Shaped(t, Close, left) /\ Rest(Close, 0) = CloseSteps
  BY <1>1, CloseShape
<1>3. Follows(t, "not_open", CloseSteps \union left)
  BY <1>1 DEF Follows, CloseSteps, DownSteps
<1>4. Shaped(t, a, CloseSteps \union left) /\ Rest(a, 0) = {"not_open"}
  BY <1>1, <1>3, ShapedOne
<1>5. a \in Seq(Steps) /\ Prepared(a) /\ Len(a) = 1 /\ Len(a) > 0 /\ a[1] = "not_open"
  BY <1>1, PreparedParts
<1>6. Close \in Seq(Steps) /\ Prepared(Close) /\ Begins(Close) /\ Len(Close) \in Nat
  BY PreparedParts
<1> HIDE DEF a
<1>7. Shaped(t, a \o Close, left) /\ Rest(a \o Close, 0) = {"not_open"} \union CloseSteps
  <2>1. Joins(t, a, Close, left)
    BY <1>1, Joining, Zenon
  <2> QED BY <1>2, <1>4, <2>1, Zenon DEF Joins
<1>8. Prepared(a \o Close)
  BY <1>5, <1>6, PreparedConcat
<1>9. a \o Close \in Seq(Steps) /\ Len(a \o Close) > 0 /\ Begins(a \o Close)
  <2>1. a \o Close \in Seq(Steps) /\ Len(a \o Close) = Len(a) + Len(Close) /\ (a \o Close)[1] = a[1]
    BY <1>5, <1>6, ConcatHead
  <2> QED BY <1>5, <1>6, <2>1 DEF Begins, Touching
<1> QED BY <1>7, <1>8, <1>9 DEF a

LEMMA TestShape ==
  LET test == <<"not_open">> \o Close \o <<"reset">> \o <<"dev_open">> IN
  IsCall("user", test) /\ Rest(test, 0) = {"not_open", "dev_open"} \union CloseSteps
<1> DEFINE a == <<"not_open">> \o Close
           b == <<"reset">>
           c == <<"dev_open">>
           d == a \o b
           t == "user"
<1>1. t \in Threads /\ "reset" \in Steps /\ "dev_open" \in Steps \ Touching /\ {"reset", "dev_open"} \in AfterClose(t)
  BY DEF Threads, Steps, AfterClose, Touching
<1>2. /\ Shaped(t, a, {"reset", "dev_open"}) /\ Prepared(a) /\ Begins(a)
      /\ a \in Seq(Steps) /\ Len(a) > 0 /\ Rest(a, 0) = {"not_open"} \union CloseSteps
  BY <1>1, OpenCloses
<1>3. Follows(t, "reset", {"dev_open"}) /\ Follows(t, "dev_open", {})
  BY <1>1 DEF Follows
<1>4. IsCall(t, c) /\ Rest(c, 0) = {"dev_open"}
  BY <1>1, <1>3, OneStep
<1>5. Shaped(t, b, {"dev_open"}) /\ Rest(b, 0) = {"reset"}
  BY <1>1, <1>3, ShapedOne
<1>6. b \in Seq(Steps) /\ Prepared(b) /\ Begins(b) /\ Len(b) \in Nat
  <2>1. b \in Seq(Steps) /\ Prepared(b) /\ Len(b) = 1 /\ b[1] = "reset"
    BY <1>1, PreparedParts
  <2> QED BY <2>1 DEF Begins, Touching
<1> HIDE DEF a, b, c
<1>7. Shaped(t, d, {"dev_open"}) /\ Rest(d, 0) = ({"not_open"} \union CloseSteps) \union {"reset"}
  <2>1. Shaped(t, a, Rest(b, 0) \union {"dev_open"})
    <3>1. Rest(b, 0) \union {"dev_open"} = {"reset", "dev_open"}
      BY <1>5
    <3> QED BY <1>2, <3>1
  <2>2. Shaped(t, d, {"dev_open"}) /\ Rest(d, 0) = Rest(a, 0) \union Rest(b, 0)
    BY <1>1, <1>5, <2>1, ShapedConcat
  <2> QED BY <1>2, <1>5, <2>2
<1>8. Prepared(d)
  BY <1>2, <1>6, PreparedConcat
<1>9. d \in Seq(Steps) /\ Len(d) > 0 /\ Begins(d)
  <2>1. d \in Seq(Steps) /\ Len(d) = Len(a) + Len(b) /\ d[1] = a[1]
    BY <1>2, <1>6, ConcatHead
  <2>2. Len(a) \in Nat
    BY <1>2
  <2> QED BY <1>2, <1>6, <2>1, <2>2 DEF Begins
<1> HIDE DEF d
<1>10. IsCall(t, d \o c) /\ Rest(d \o c, 0) = Rest(d, 0) \union Rest(c, 0)
  <2>1. Shaped(t, d, Rest(c, 0))
    BY <1>4, <1>7
  <2> QED BY <1>1, <1>4, <1>8, <1>9, <2>1, CallConcat
<1>11. Rest(d \o c, 0) = {"not_open", "dev_open"} \union CloseSteps
  <2>1. Rest(d \o c, 0) = (({"not_open"} \union CloseSteps) \union {"reset"}) \union {"dev_open"}
    BY <1>4, <1>7, <1>10
  <2> QED BY <2>1 DEF CloseSteps, DownSteps
<1> QED BY <1>10, <1>11 DEF a, b, c, d

LEMMA UserCalls ==
  ASSUME NEW call \in Calls
  PROVE  IsCall("user", call) /\ Fits(Rest(call, 0))
<1>0. "user" \in Threads /\ "user" \in {"user", "task"} /\ {} \in AfterClose("user")
  BY DEF Threads, AfterClose
<1>1. ASSUME call = <<"not_open">> \o Close, net.running
      PROVE  IsCall("user", call) /\ Fits(Rest(call, 0))
  <2>1. IsCall("user", call) /\ Rest(call, 0) = {"not_open"} \union CloseSteps
    <3>1. /\ Shaped("user", call, {}) /\ Prepared(call) /\ Begins(call) /\ call \in Seq(Steps)
          /\ Rest(call, 0) = {"not_open"} \union CloseSteps
      BY <1>0, <1>1, OpenCloses
    <3> QED BY <3>1 DEF IsCall
  <2> QED BY <1>1, <2>1 DEF Fits, CloseSteps, DownSteps
<1>2. ASSUME call = <<"dev_open">>, ~net.running
      PROVE  IsCall("user", call) /\ Fits(Rest(call, 0))
  <2>1. "dev_open" \in Steps \ Touching /\ Follows("user", "dev_open", {})
    BY DEF Steps, Touching, Follows
  <2>2. IsCall("user", call) /\ Rest(call, 0) = {"dev_open"}
    BY <1>0, <1>2, <2>1, OneStep
  <2> QED BY <1>2, <2>2 DEF Fits
<1>3. ASSUME call = Locked(Down \o Up), net.running, net.attached
      PROVE  IsCall("user", call) /\ Fits(Rest(call, 0))
  <2>1. IsCall("user", call) /\ Rest(call, 0) = {"take", "give"} \union DownSteps \union UpSteps
    BY <1>0, <1>3, ReinitShape
  <2> QED BY <1>3, <2>1 DEF Fits, UpSteps, DownSteps
<1>4. ASSUME call = Locked(<<"reset">>)
      PROVE  IsCall("user", call) /\ Fits(Rest(call, 0))
  <2> DEFINE s == <<"reset">>
  <2>1. "reset" \in Steps /\ Follows("user", "reset", {"give"})
    BY DEF Steps, Follows
  <2>2. s \in Seq(Steps) /\ Prepared(s) /\ Shaped("user", s, {"give"}) /\ Rest(s, 0) = {"reset"}
    BY <1>0, <2>1, PreparedParts, ShapedOne
  <2>3. Begins(s)
    BY DEF Begins, Touching
  <2> HIDE DEF s
  <2>4. Follows("user", "take", Rest(s, 0) \union {"give"})
    <3>1. Rest(s, 0) \union {"give"} = {"reset", "give"}
      BY <2>2
    <3> QED BY <3>1 DEF Follows, Steps
  <2>5. IsCall("user", Locked(s)) /\ Rest(Locked(s), 0) = {"take", "give"} \union Rest(s, 0)
    BY <1>0, <2>2, <2>3, <2>4, LockedShape
  <2>6. call = Locked(s)
    BY <1>4 DEF s
  <2>7. Rest(call, 0) = {"take", "give", "reset"}
    BY <2>2, <2>5, <2>6
  <2> QED BY <2>5, <2>6, <2>7 DEF Fits
<1>5. ASSUME call = Locked(<<>>)
      PROVE  IsCall("user", call) /\ Fits(Rest(call, 0))
  <2> DEFINE s == <<>>
  <2>1. s \in Seq(Steps) /\ Prepared(s) /\ Shaped("user", s, {"give"}) /\ Rest(s, 0) = {} /\ Begins(s)
    <3>1. s \in Seq(Steps) /\ Len(s) = 0
      OBVIOUS
    <3>2. Shaped("user", s, {"give"}) /\ Rest(s, 0) = {}
      BY <1>0, ShapedNone, Zenon
    <3>3. Prepared(s) /\ Begins(s)
      BY <3>1 DEF Prepared, Begins
    <3> QED BY <3>1, <3>2, <3>3
  <2> HIDE DEF s
  <2>2. Follows("user", "take", Rest(s, 0) \union {"give"})
    <3>1. Rest(s, 0) \union {"give"} = {"give"}
      BY <2>1
    <3> QED BY <3>1 DEF Follows, Steps
  <2>3. IsCall("user", Locked(s)) /\ Rest(Locked(s), 0) = {"take", "give"} \union Rest(s, 0)
    BY <1>0, <2>1, <2>2, LockedShape
  <2>4. call = Locked(s)
    BY <1>5 DEF s
  <2>5. Rest(call, 0) = {"take", "give"}
    BY <2>1, <2>3, <2>4
  <2> QED BY <2>3, <2>4, <2>5 DEF Fits
<1>6. ASSUME call = Locked(Down \o <<"resize">> \o Up), net.running, net.attached
      PROVE  IsCall("user", call) /\ Fits(Rest(call, 0))
  <2>1. /\ IsCall("user", call)
        /\ Rest(call, 0) = {"take", "give", "resize"} \union DownSteps \union UpSteps
    BY <1>6, ResizeShape
  <2> QED BY <1>6, <2>1 DEF Fits, UpSteps, DownSteps
<1>7. ASSUME call = DiagTest
      PROVE  IsCall("user", call) /\ Fits(Rest(call, 0))
  <2>1. CASE net.running
    <3>1. call = <<"not_open">> \o Close \o <<"reset">> \o <<"dev_open">>
      BY <1>7, <2>1 DEF DiagTest
    <3>2. IsCall("user", call) /\ Rest(call, 0) = {"not_open", "dev_open"} \union CloseSteps
      BY <3>1, TestShape
    <3> QED BY <2>1, <3>2 DEF Fits, CloseSteps, DownSteps
  <2>2. CASE ~net.running
    <3>1. call = <<"reset">>
      <4>1. call = <<>> \o <<"reset">> \o <<>>
        BY <1>7, <2>2 DEF DiagTest
      <4> QED BY <4>1
    <3>2. "reset" \in Steps \ Touching /\ Follows("user", "reset", {})
      BY DEF Steps, Touching, Follows
    <3>3. IsCall("user", call) /\ Rest(call, 0) = {"reset"}
      BY <1>0, <3>1, <3>2, OneStep
    <3> QED BY <3>3 DEF Fits
  <2> QED BY <2>1, <2>2
<1>8. ASSUME call = <<"vlan_mask", "vlan_unmask">>
      PROVE  IsCall("user", call) /\ Fits(Rest(call, 0))
  <2>1. "vlan_mask" \in Steps /\ "vlan_unmask" \in Steps \ Touching
    BY DEF Steps, Touching
  <2>2. Follows("user", "vlan_mask", {"vlan_unmask"} \union {}) /\ Follows("user", "vlan_unmask", {})
    BY <2>1 DEF Follows
  <2>3. Shaped("user", call, {}) /\ Rest(call, 0) = {"vlan_mask", "vlan_unmask"}
    BY <1>0, <1>8, <2>1, <2>2, ShapedTwo
  <2>4. call \in Seq(Steps) /\ Prepared(call) /\ Begins(call)
    BY <1>8, <2>1, PreparedParts DEF Begins, Touching
  <2> QED BY <2>3, <2>4 DEF IsCall, Fits
<1>9. ChangeMtu = IF net.running THEN Locked(Down \o Up) ELSE Locked(<<"reset">>)
  BY DEF ChangeMtu
<1>10. \/ call = <<"not_open">> \o Close /\ net.running
       \/ call = <<"dev_open">> /\ ~net.running
       \/ call = <<"vlan_mask", "vlan_unmask">>
       \/ net.attached /\ call \in {ChangeMtu, DiagTest} \union SetSettings \union SetPauseparam
                                     \union SetRingparam \union NwayReset
  <2> DEFINE Requests == {ChangeMtu, DiagTest} \union SetSettings \union SetPauseparam
                        \union SetRingparam \union NwayReset
  <2>1. call \in (IF net.running THEN {<<"not_open">> \o Close} ELSE {<<"dev_open">>})
          \union (IF net.attached THEN Requests ELSE {}) \union {<<"vlan_mask", "vlan_unmask">>}
    BY DEF Calls
  <2> HIDE DEF Requests
  <2>2. \/ call = <<"not_open">> \o Close /\ net.running
        \/ call = <<"dev_open">> /\ ~net.running
        \/ call = <<"vlan_mask", "vlan_unmask">>
        \/ net.attached /\ call \in Requests
    BY <2>1, Zenon
  <2> QED BY <2>2 DEF Requests
<1>11. ASSUME net.attached, call \in {ChangeMtu, DiagTest} \union SetSettings \union SetPauseparam
                                     \union SetRingparam \union NwayReset
       PROVE  \/ call = ChangeMtu \/ call = DiagTest \/ call = Locked(<<>>)
              \/ call = Locked(Down \o <<"resize">> \o Up) /\ net.running
              \/ call = Locked(Down \o Up) /\ net.running
  BY <1>11 DEF SetSettings, SetPauseparam, SetRingparam, NwayReset, ReinitLocked
<1>12. ASSUME net.attached, call = ChangeMtu
       PROVE  \/ call = Locked(Down \o Up) /\ net.running
              \/ call = Locked(<<"reset">>)
  BY <1>9, <1>12
<1> QED BY <1>1, <1>2, <1>3, <1>4, <1>5, <1>6, <1>7, <1>8, <1>10, <1>11, <1>12, Zenon

(* The other threads do not move. *)
Others(t) ==
  \A v \in Threads \ {t} :
    /\ (Left(v))' = Left(v) /\ (Idle(v) <=> (Idle(v))')
    /\ \A y \in Steps : At(v, y) <=> (At(v, y))'

LEMMA OthersStay ==
  ASSUME NEW t, \A v \in Threads \ {t} : todo'[v] = todo[v]
  PROVE  Others(t)
BY DEF Others, Left, Idle, At

LEMMA IdleLeft ==
  ASSUME TodoInv, NEW t \in Threads
  PROVE  /\ Idle(t) <=> Left(t) = {}
         /\ \A y \in Steps : At(t, y) => y \in Left(t)
<1>1. todo[t] \in Seq(Steps)
  BY DEF TodoInv
<1>2. CASE todo[t] = <<>>
  BY <1>2, ShapedNone DEF Idle, Left, At
<1>3. CASE todo[t] # <<>>
  <2>1. Left(t) = {Head(todo[t])} \union Rest(Tail(todo[t]), 0)
    BY <1>1, <1>3, RestTail DEF Left
  <2> QED BY <1>3, <2>1 DEF Idle, At
<1> QED BY <1>2, <1>3

(* A thread goes on with the next step, *)
LEMMA DoneGoes ==
  ASSUME TodoInv, NEW t \in Threads, NEW x \in Steps, At(t, x), Done(t)
  PROVE  /\ TodoInv' /\ Others(t)
         /\ Left(t) = {x} \union (Left(t))' /\ Follows(t, x, (Left(t))')
         /\ (At(t, "resize"))' \/ (At(t, "free_irq"))' => x = "reset"
         /\ (At(t, "free_rings"))' => x = "free_irq"
<1> DEFINE s == todo[t]
           r == Tail(s)
<1>1. /\ todo \in [Threads -> Seq(Steps)]
      /\ \A v \in Threads : Shaped(v, todo[v], {}) /\ Prepared(todo[v])
  BY DEF TodoInv
<1>2. s # <<>> /\ Head(s) = x /\ s \in Seq(Steps) /\ Shaped(t, s, {}) /\ Prepared(s)
  BY <1>1 DEF At, Idle
<1>3. /\ todo' \in [Threads -> Seq(Steps)] /\ todo'[t] = r
      /\ \A v \in Threads \ {t} : todo'[v] = todo[v]
  <2>1. r \in Seq(Steps)
    BY <1>2
  <2>2. todo' = [todo EXCEPT ![t] = r]
    BY DEF Done
  <2> HIDE DEF r
  <2> QED BY <1>1, <2>1, <2>2
<1>4. Shaped(t, r, {}) /\ Follows(t, x, Rest(r, 0)) /\ Rest(s, 0) = {x} \union Rest(r, 0)
  BY <1>2, ShapedTail
<1>5. /\ Prepared(r)
      /\ r # <<>> =>
           /\ Head(r) \in {"resize", "free_irq"} => x = "reset"
           /\ Head(r) = "free_rings" => x = "free_irq"
  BY <1>2, PreparedTail
<1> HIDE DEF r, s
<1>6. TodoInv'
  <2>1. \A v \in Threads : Shaped(v, todo'[v], {}) /\ Prepared(todo'[v])
    BY <1>1, <1>3, <1>4, <1>5
  <2> QED BY <1>3, <2>1 DEF TodoInv
<1>7. (Left(t))' = Rest(r, 0) /\ Left(t) = Rest(s, 0)
  BY <1>3 DEF Left, s
<1>8. Others(t)
  BY <1>3, OthersStay
<1>9. \A y : (At(t, y))' => r # <<>> /\ Head(r) = y
  BY <1>3 DEF At, Idle
<1> QED BY <1>4, <1>5, <1>6, <1>7, <1>8, <1>9

(* with something new, *)
LEMMA BecomeGoes ==
  ASSUME TodoInv, NEW t \in Threads, NEW s, IsCall(t, s), Become(t, s)
  PROVE  /\ TodoInv' /\ Others(t)
         /\ (Left(t))' = Rest(s, 0)
         /\ \A y \in Touching : ~(At(t, y))'
<1>1. /\ todo \in [Threads -> Seq(Steps)]
      /\ \A v \in Threads : Shaped(v, todo[v], {}) /\ Prepared(todo[v])
  BY DEF TodoInv
<1>2. s \in Seq(Steps) /\ Shaped(t, s, {}) /\ Prepared(s) /\ Begins(s)
  BY DEF IsCall
<1>3. /\ todo' \in [Threads -> Seq(Steps)] /\ todo'[t] = s
      /\ \A v \in Threads \ {t} : todo'[v] = todo[v]
  BY <1>1, <1>2 DEF Become
<1>4. TodoInv'
  <2>1. \A v \in Threads : Shaped(v, todo'[v], {}) /\ Prepared(todo'[v])
    BY <1>1, <1>2, <1>3
  <2> QED BY <1>3, <2>1 DEF TodoInv
<1>5. (Left(t))' = Rest(s, 0)
  BY <1>3 DEF Left
<1>6. Others(t)
  BY <1>3, OthersStay
<1>7. \A y \in Touching : ~(At(t, y))'
  <2> SUFFICES ASSUME NEW y \in Touching, todo'[t] # <<>>, Head(todo'[t]) = y PROVE FALSE
    BY DEF At, Idle
  <2>1. Len(s) > 0 /\ Head(s) = s[1]
    BY <1>2, <1>3
  <2> QED BY <1>3, <2>1, <1>2 DEF Begins
<1> QED BY <1>4, <1>5, <1>6, <1>7

(* or with something new before what is left. *)
LEMMA TailCall ==
  ASSUME TodoInv, NEW t \in Threads, NEW x \in Steps \ {"reset", "free_irq"}, At(t, x)
  PROVE  \E left : /\ IsCall(t, Tail(todo[t])) /\ Rest(Tail(todo[t]), 0) = left
                   /\ Left(t) = {x} \union left /\ Follows(t, x, left)
<1> DEFINE s == todo[t]
           r == Tail(s)
<1>1. s # <<>> /\ Head(s) = x /\ s \in Seq(Steps) /\ Shaped(t, s, {}) /\ Prepared(s)
  BY DEF At, Idle, TodoInv
<1>2. Shaped(t, r, {}) /\ Follows(t, x, Rest(r, 0)) /\ Rest(s, 0) = {x} \union Rest(r, 0)
  BY <1>1, ShapedTail
<1>3. /\ Prepared(r)
      /\ r # <<>> =>
           /\ Head(r) \in {"resize", "free_irq"} => x = "reset"
           /\ Head(r) = "free_rings" => x = "free_irq"
  BY <1>1, PreparedTail
<1>4. r \in Seq(Steps)
  BY <1>1
<1> HIDE DEF r
<1>5. Begins(r)
  <2> SUFFICES ASSUME Len(r) > 0 PROVE r[1] \notin Touching
    BY DEF Begins
  <2>1. r # <<>> /\ Head(r) = r[1]
    BY <1>4
  <2> QED BY <1>3, <2>1 DEF Touching
<1>6. IsCall(t, r)
  BY <1>2, <1>3, <1>4, <1>5 DEF IsCall
<1>7. Left(t) = Rest(s, 0)
  BY DEF Left
<1> QED BY <1>2, <1>6, <1>7 DEF r

LEMMA ExpandGoes ==
  ASSUME TodoInv, NEW t \in Threads, NEW x \in Steps \ {"reset", "free_irq"}, At(t, x),
         NEW s \in Seq(Steps), Expand(t, s), Prepared(s), Begins(s),
         \A left : Follows(t, x, left) => s = <<>> \/ (Len(s) > 0 /\ Shaped(t, s, left))
  PROVE  /\ TodoInv' /\ Others(t)
         /\ \E left : /\ Left(t) = {x} \union left /\ Follows(t, x, left)
                      /\ (Left(t))' = Rest(s, 0) \union left
         /\ \A y \in Touching : ~(At(t, y))'
<1> DEFINE r == Tail(todo[t])
<1>1. PICK left : /\ IsCall(t, r) /\ Rest(r, 0) = left
                  /\ Left(t) = {x} \union left /\ Follows(t, x, left)
  BY TailCall
<1>2. Become(t, s \o r)
  BY DEF Expand
<1>3. r \in Seq(Steps)
  BY <1>1 DEF IsCall
<1> HIDE DEF r
<1>4. IsCall(t, s \o r) /\ Rest(s \o r, 0) = Rest(s, 0) \union left
  <2>1. CASE s = <<>>
    <3>1. s \o r = r /\ Rest(s, 0) = {}
      BY <1>3, <2>1, ShapedNone
    <3> QED BY <1>1, <3>1
  <2>2. CASE Len(s) > 0 /\ Shaped(t, s, left)
    <3>1. Shaped(t, s, Rest(r, 0))
      BY <1>1, <2>2
    <3> QED BY <1>1, <2>2, <3>1, CallConcat
  <2> QED BY <1>1, <2>1, <2>2
<1> DEFINE c == s \o r
<1>5. Become(t, c) /\ IsCall(t, c) /\ Rest(c, 0) = Rest(s, 0) \union left
  BY <1>2, <1>4
<1> HIDE DEF c
<1> QED BY <1>1, <1>5, BecomeGoes

(* The calls of the driver core. *)
LEMMA ShapedThree ==
  ASSUME NEW t \in Threads, NEW a \in Steps, NEW b \in Steps \ Touching, NEW c \in Steps \ Touching,
         a \notin Touching, Follows(t, a, {b, c}), Follows(t, b, {c}), Follows(t, c, {})
  PROVE  IsCall(t, <<a, b, c>>) /\ Rest(<<a, b, c>>, 0) = {a, b, c}
<1> DEFINE s == <<a, b, c>>
<1>1. s \in Seq(Steps) /\ Len(s) = 3 /\ s[1] = a /\ s[2] = b /\ s[3] = c
  OBVIOUS
<1>2. Prepared(s) /\ Begins(s)
  BY PreparedParts DEF Begins
<1> HIDE DEF s
<1>3. Rest(s, 3) = {} /\ Rest(s, 2) = {c} /\ Rest(s, 1) = {b, c} /\ Rest(s, 0) = {a, b, c}
  BY <1>1 DEF Rest
<1>4. \A k \in 1..3 : Follows(t, s[k], Rest(s, k) \union {})
  <2> SUFFICES ASSUME NEW k \in 1..3 PROVE Follows(t, s[k], Rest(s, k) \union {})
    OBVIOUS
  <2>1. k = 1 \/ k = 2 \/ k = 3
    OBVIOUS
  <2>2. Rest(s, k) \union {} = Rest(s, k)
    OBVIOUS
  <2> QED BY <1>1, <1>3, <2>1, <2>2
<1>5. Shaped(t, s, {})
  BY <1>1, <1>4 DEF Shaped
<1> QED BY <1>1, <1>2, <1>3, <1>5 DEF IsCall, s

LEMMA CoreCalls ==
  /\ IsCall("device", Suspend)
  /\ Rest(Suspend, 0) = {"detach", "clear_scheme"} \union (IF net.running THEN CloseSteps ELSE {})
  /\ IsCall("device", Resume) /\ Rest(Resume, 0) = {"init_scheme", "attach", "thaw"}
  /\ IsCall("device", Remove) /\ Rest(Remove, 0) = {"set_down", "del_timer", "flush", "unregister"}
  /\ IsCall("device", PciRecovery)
  /\ Rest(PciRecovery, 0) = {"error_down", "slot_reset", "io_resume"}
  /\ IsCall("task", ReinitLocked)
  /\ Rest(ReinitLocked, 0) = {"take", "give"} \union DownSteps \union UpSteps
<1> DEFINE t == "device"
<1>0. t \in Threads /\ {"clear_scheme"} \in AfterClose(t)
  BY DEF Threads, AfterClose
<1>1. IsCall(t, Resume) /\ Rest(Resume, 0) = {"init_scheme", "attach", "thaw"}
  <2>1. /\ "init_scheme" \in Steps \ Touching /\ "attach" \in Steps \ Touching
        /\ "thaw" \in Steps \ Touching
    BY DEF Steps, Touching
  <2>2. /\ Follows(t, "init_scheme", {"attach", "thaw"}) /\ Follows(t, "attach", {"thaw"})
        /\ Follows(t, "thaw", {})
    BY <2>1 DEF Follows
  <2> QED BY <1>0, <2>1, <2>2, ShapedThree DEF Resume
<1>2. IsCall(t, PciRecovery) /\ Rest(PciRecovery, 0) = {"error_down", "slot_reset", "io_resume"}
  <2>1. /\ "error_down" \in Steps \ Touching /\ "slot_reset" \in Steps \ Touching
        /\ "io_resume" \in Steps \ Touching
    BY DEF Steps, Touching
  <2>2. /\ Follows(t, "error_down", {"slot_reset", "io_resume"})
        /\ Follows(t, "slot_reset", {"io_resume"}) /\ Follows(t, "io_resume", {})
    BY <2>1 DEF Follows
  <2> QED BY <1>0, <2>1, <2>2, ShapedThree DEF PciRecovery
<1>3. IsCall(t, Remove) /\ Rest(Remove, 0) = {"set_down", "del_timer", "flush", "unregister"}
  <2>1. /\ "set_down" \in Steps /\ "del_timer" \in Steps /\ "flush" \in Steps /\ "unregister" \in Steps
    BY DEF Steps
  <2>2. /\ Follows(t, "set_down", {"del_timer", "flush", "unregister"} \union {})
        /\ Follows(t, "del_timer", {"flush", "unregister"} \union {})
        /\ Follows(t, "flush", {"unregister"} \union {}) /\ Follows(t, "unregister", {})
    BY <2>1 DEF Follows
  <2>3. Shaped(t, Remove, {}) /\ Rest(Remove, 0) = {"set_down", "del_timer", "flush", "unregister"}
    BY <1>0, <2>1, <2>2, ShapedFour DEF Remove
  <2>4. Remove \in Seq(Steps) /\ Prepared(Remove) /\ Begins(Remove)
    BY DEF Remove, Prepared, Begins, Touching, Steps
  <2> QED BY <2>3, <2>4 DEF IsCall
<1>4. IsCall("task", ReinitLocked)
      /\ Rest(ReinitLocked, 0) = {"take", "give"} \union DownSteps \union UpSteps
  <2>1. "task" \in {"user", "task"}
    OBVIOUS
  <2> QED BY <2>1, ReinitShape DEF ReinitLocked
<1>5. /\ IsCall(t, Suspend)
      /\ Rest(Suspend, 0) = {"detach", "clear_scheme"} \union (IF net.running THEN CloseSteps ELSE {})
  <2> DEFINE a == <<"detach">>
             c == <<"clear_scheme">>
             d == a \o Close
  <2>1. "detach" \in Steps \ Touching /\ "clear_scheme" \in Steps \ Touching
    BY DEF Steps, Touching
  <2>2. /\ Follows(t, "clear_scheme", {}) /\ Follows(t, "detach", {"clear_scheme"})
        /\ Follows(t, "detach", CloseSteps \union {"clear_scheme"})
    BY <2>1 DEF Follows, CloseSteps, DownSteps
  <2>3. CASE net.running
    <3>1. Suspend = d \o c
      BY <2>3 DEF Suspend
    <3>2. IsCall(t, c) /\ Rest(c, 0) = {"clear_scheme"}
      BY <1>0, <2>1, <2>2, OneStep
    <3>3. Shaped(t, Close, {"clear_scheme"}) /\ Rest(Close, 0) = CloseSteps
      BY <1>0, CloseShape
    <3>4. Shaped(t, a, CloseSteps \union {"clear_scheme"}) /\ Rest(a, 0) = {"detach"}
      BY <1>0, <2>1, <2>2, ShapedOne
    <3>5. a \in Seq(Steps) /\ Prepared(a) /\ Len(a) = 1 /\ Len(a) > 0 /\ a[1] = "detach"
      BY <2>1, PreparedParts
    <3>6. Close \in Seq(Steps) /\ Prepared(Close) /\ Begins(Close) /\ Len(Close) \in Nat
      BY PreparedParts
    <3> HIDE DEF a, c
    <3>7. Shaped(t, d, {"clear_scheme"}) /\ Rest(d, 0) = {"detach"} \union CloseSteps
      BY <1>0, <3>3, <3>4, ShapedConcat
    <3>8. Prepared(d)
      BY <3>5, <3>6, PreparedConcat
    <3>9. d \in Seq(Steps) /\ Len(d) > 0 /\ Begins(d)
      <4>1. d \in Seq(Steps) /\ Len(d) = Len(a) + Len(Close) /\ d[1] = a[1]
        BY <3>5, <3>6, ConcatHead
      <4> QED BY <3>5, <3>6, <4>1 DEF Begins, Touching
    <3> HIDE DEF d
    <3>10. IsCall(t, d \o c) /\ Rest(d \o c, 0) = Rest(d, 0) \union Rest(c, 0)
      <4>1. Shaped(t, d, Rest(c, 0))
        BY <3>2, <3>7
      <4> QED BY <1>0, <3>2, <3>8, <3>9, <4>1, CallConcat
    <3> QED BY <2>3, <3>1, <3>2, <3>7, <3>10
  <2>4. CASE ~net.running
    <3>1. Suspend = a \o c
      <4>1. Suspend = (a \o <<>>) \o c
        BY <2>4 DEF Suspend
      <4>2. a \o <<>> = a
        OBVIOUS
      <4> QED BY <4>1, <4>2
    <3>2. IsCall(t, c) /\ Rest(c, 0) = {"clear_scheme"}
      BY <1>0, <2>1, <2>2, OneStep
    <3>3. Shaped(t, a, Rest(c, 0)) /\ Rest(a, 0) = {"detach"}
      BY <1>0, <2>1, <2>2, <3>2, ShapedOne
    <3>4. a \in Seq(Steps) /\ Prepared(a) /\ Len(a) = 1 /\ Len(a) > 0 /\ a[1] = "detach"
      BY <2>1, PreparedParts
    <3> HIDE DEF a, c
    <3>5. Begins(a)
      BY <3>4 DEF Begins, Touching
    <3>6. IsCall(t, a \o c) /\ Rest(a \o c, 0) = Rest(a, 0) \union Rest(c, 0)
      BY <1>0, <3>2, <3>3, <3>4, <3>5, CallConcat
    <3> QED BY <2>4, <3>1, <3>2, <3>3, <3>6
  <2> QED BY <2>3, <2>4
<1> QED BY <1>1, <1>2, <1>3, <1>4, <1>5

LEMMA ShortCalls ==
  /\ IsCall("device", <<"reset", "thaw">>) /\ Rest(<<"reset", "thaw">>, 0) = {"reset", "thaw"}
  /\ IsCall("user", <<"reset", "not_open">>) /\ Rest(<<"reset", "not_open">>, 0) = {"reset", "not_open"}
  /\ IsCall("device", <<"thaw">>) /\ Rest(<<"thaw">>, 0) = {"thaw"}
  /\ \A t \in Threads : IsCall(t, <<>>)
  /\ IsCall("device", Close \o <<"free_netdev">>)
  /\ Rest(Close \o <<"free_netdev">>, 0) = CloseSteps \union {"free_netdev"}
  /\ IsCall("device", <<"free_netdev">>) /\ Rest(<<"free_netdev">>, 0) = {"free_netdev"}
<1>0. "device" \in Threads /\ "user" \in Threads
  BY DEF Threads
<1>1. /\ "reset" \in Steps \ Touching /\ "thaw" \in Steps \ Touching /\ "not_open" \in Steps \ Touching
      /\ "free_netdev" \in Steps \ Touching
  BY DEF Steps, Touching
<1>2. /\ Follows("device", "reset", {"thaw"} \union {}) /\ Follows("device", "thaw", {})
      /\ Follows("user", "reset", {"not_open"} \union {}) /\ Follows("user", "not_open", {})
      /\ Follows("device", "free_netdev", {})
  BY <1>1 DEF Follows
<1>3. IsCall("device", <<"reset", "thaw">>) /\ Rest(<<"reset", "thaw">>, 0) = {"reset", "thaw"}
  <2> DEFINE s == <<"reset", "thaw">>
  <2>1. Shaped("device", s, {}) /\ Rest(s, 0) = {"reset", "thaw"}
    BY <1>0, <1>1, <1>2, ShapedTwo
  <2>2. s \in Seq(Steps) /\ Prepared(s) /\ Begins(s)
    BY <1>1, PreparedParts DEF Begins
  <2> QED BY <2>1, <2>2 DEF IsCall
<1>4. IsCall("user", <<"reset", "not_open">>) /\ Rest(<<"reset", "not_open">>, 0) = {"reset", "not_open"}
  <2> DEFINE s == <<"reset", "not_open">>
  <2>1. Shaped("user", s, {}) /\ Rest(s, 0) = {"reset", "not_open"}
    BY <1>0, <1>1, <1>2, ShapedTwo
  <2>2. s \in Seq(Steps) /\ Prepared(s) /\ Begins(s)
    BY <1>1, PreparedParts DEF Begins
  <2> QED BY <2>1, <2>2 DEF IsCall
<1>5. IsCall("device", <<"thaw">>) /\ Rest(<<"thaw">>, 0) = {"thaw"}
  BY <1>0, <1>1, <1>2, OneStep
<1>6. \A t \in Threads : IsCall(t, <<>>)
  BY ShapedNone, PreparedParts DEF IsCall, Begins
<1>7. /\ IsCall("device", Close \o <<"free_netdev">>)
      /\ Rest(Close \o <<"free_netdev">>, 0) = CloseSteps \union {"free_netdev"}
  <2> DEFINE c == <<"free_netdev">>
  <2>1. IsCall("device", c) /\ Rest(c, 0) = {"free_netdev"}
    BY <1>0, <1>1, <1>2, OneStep
  <2> HIDE DEF c
  <2>2. {"free_netdev"} \in AfterClose("device")
    BY DEF AfterClose
  <2>3. Shaped("device", Close, Rest(c, 0)) /\ Rest(Close, 0) = CloseSteps
    BY <1>0, <2>1, <2>2, CloseShape
  <2>4. Close \in Seq(Steps) /\ Prepared(Close) /\ Begins(Close) /\ Len(Close) > 0
    BY PreparedParts
  <2>5. IsCall("device", Close \o c) /\ Rest(Close \o c, 0) = Rest(Close, 0) \union Rest(c, 0)
    BY <1>0, <2>1, <2>3, <2>4, CallConcat
  <2>6. Rest(Close \o c, 0) = CloseSteps \union {"free_netdev"}
    BY <2>1, <2>3, <2>5
  <2> QED BY <2>5, <2>6 DEF c
<1>8. IsCall("device", <<"free_netdev">>) /\ Rest(<<"free_netdev">>, 0) = {"free_netdev"}
  BY <1>0, <1>1, <1>2, OneStep
<1> QED BY <1>3, <1>4, <1>5, <1>6, <1>7, <1>8

(* The steps that end a call are its last ones. *)
LEMMA LastIs ==
  ASSUME TodoInv, NEW t \in Threads,
         NEW y \in {"clear_scheme", "thaw", "unregister", "free_netdev", "io_resume"}
  PROVE  y \in Left(t) <=> ~Idle(t) /\ Last(t) = y
<1> DEFINE s == todo[t]
           n == Len(s)
<1>1. s \in Seq(Steps) /\ \A k \in 1..n : Follows(t, s[k], Rest(s, k) \union {})
  BY DEF TodoInv, Shaped
<1>2. n \in Nat /\ (s # <<>> <=> n > 0)
  BY <1>1
<1>3. (Idle(t) <=> s = <<>>) /\ Last(t) = s[n] /\ Left(t) = {s[i] : i \in (0 + 1)..n}
  BY DEF Idle, Last, Left, Rest
<1>4. ASSUME NEW k \in 1..n, s[k] = y
      PROVE  k = n
  <2>1. Rest(s, k) \union {} = {}
    BY <1>1, <1>4 DEF Follows
  <2>2. CASE k < n
    <3>1. n \in (k + 1)..n
      BY <1>2, <2>2
    <3>2. s[n] \in Rest(s, k)
      BY <3>1 DEF Rest
    <3> QED BY <2>1, <3>2
  <2> QED BY <1>2, <2>2
<1> HIDE DEF s, n
<1>5. ASSUME y \in Left(t) PROVE ~Idle(t) /\ Last(t) = y
  <2>1. PICK k \in 1..n : s[k] = y
    BY <1>3, <1>5
  <2>2. k = n /\ n > 0
    BY <1>2, <1>4, <2>1
  <2> QED BY <1>2, <1>3, <2>1, <2>2
<1>6. ASSUME ~Idle(t), Last(t) = y PROVE y \in Left(t)
  <2>1. n \in (0 + 1)..n
    BY <1>2, <1>3, <1>6
  <2> QED BY <1>3, <1>6, <2>1
<1> QED BY <1>5, <1>6

LEMMA LastFacts ==
  ASSUME TodoInv
  PROVE  /\ Removing <=> InDevice("unregister") \/ InDevice("free_netdev")
         /\ Frozen <=> net.asleep \/ InDevice("clear_scheme")
         /\ \A t \in Threads : "thaw" \in Left(t) <=> ~Idle(t) /\ Last(t) = "thaw"
<1>1. "device" \in Threads
  BY DEF Threads
<1>2. /\ "unregister" \in Left("device") <=> ~Idle("device") /\ Last("device") = "unregister"
      /\ "free_netdev" \in Left("device") <=> ~Idle("device") /\ Last("device") = "free_netdev"
      /\ "clear_scheme" \in Left("device") <=> ~Idle("device") /\ Last("device") = "clear_scheme"
      /\ \A t \in Threads : "thaw" \in Left(t) <=> ~Idle(t) /\ Last(t) = "thaw"
  BY <1>1, LastIs
<1> QED BY <1>2 DEF Removing, Frozen, InDevice

(* What is at the head of a call is in the grammar of its thread. *)
LEMMA HeadFollows ==
  ASSUME TodoInv, NEW t \in Threads, NEW x \in Steps, At(t, x)
  PROVE  \E left : Left(t) = {x} \union left /\ Follows(t, x, left)
<1> DEFINE s == todo[t]
<1>1. s # <<>> /\ Head(s) = x /\ s \in Seq(Steps) /\ Shaped(t, s, {})
  BY DEF At, Idle, TodoInv
<1>2. Follows(t, x, Rest(Tail(s), 0)) /\ Rest(s, 0) = {x} \union Rest(Tail(s), 0)
  BY <1>1, ShapedTail
<1> QED BY <1>2 DEF Left

(* igb_open() gives up. *)
LEMMA FailGoes ==
  ASSUME TodoInv, NEW t \in Threads, At(t, "setup_rings") \/ At(t, "request_irq"), Fail(t)
  PROVE  /\ TodoInv' /\ Others(t) /\ t \in {"user", "device"}
         /\ \A y \in Touching : ~(At(t, y))'
         /\ t = "user" =>
              /\ (Left("user"))' = {"reset", "not_open"}
              /\ \/ Left("user") = {"setup_rings", "configure", "request_irq", "clear_down", "napi_enable",
                                    "start_masked"}
                 \/ Left("user") = {"request_irq", "clear_down", "napi_enable", "start_masked"}
         /\ t = "device" =>
              /\ (Left("device"))' = {"reset", "thaw"}
              /\ \/ Left("device") = {"setup_rings", "configure", "request_irq", "clear_down", "napi_enable",
                                      "start_masked", "attach", "thaw"}
                 \/ Left("device") = {"request_irq", "clear_down", "napi_enable", "start_masked", "attach",
                                      "thaw"}
<1>1. PICK x \in {"setup_rings", "request_irq"} : At(t, x)
  OBVIOUS
<1>2. PICK left : Left(t) = {x} \union left /\ Follows(t, x, left)
  <2>1. x \in Steps
    BY DEF Steps
  <2> QED BY <1>1, <2>1, HeadFollows
<1>3. t \in {"user", "device"}
  BY <1>2 DEF Follows, Threads
<1>4. \/ x = "setup_rings" /\ left = {"configure", "request_irq", "clear_down", "napi_enable", "start_masked"}
                                       \union AfterOpen(t)
      \/ x = "request_irq" /\ left = {"clear_down", "napi_enable", "start_masked"} \union AfterOpen(t)
  <2>1. OpenLeft(t) \ {"request_irq"} = {"clear_down", "napi_enable", "start_masked"} \union AfterOpen(t)
    BY DEF OpenLeft, AfterOpen
  <2>2. {"configure"} \union OpenLeft(t) = {"configure", "request_irq", "clear_down", "napi_enable",
                                            "start_masked"} \union AfterOpen(t)
    BY DEF OpenLeft
  <2> QED BY <1>2, <2>1, <2>2 DEF Follows
<1>5. Left(t) = {"setup_rings", "configure", "request_irq", "clear_down", "napi_enable", "start_masked"}
                  \union AfterOpen(t)
      \/ Left(t) = {"request_irq", "clear_down", "napi_enable", "start_masked"} \union AfterOpen(t)
  BY <1>2, <1>4
<1>6. ASSUME t = "user"
      PROVE  /\ TodoInv' /\ Others(t) /\ (Left(t))' = {"reset", "not_open"}
             /\ \A y \in Touching : ~(At(t, y))'
             /\ AfterOpen(t) = {}
  <2>1. AfterOpen(t) = {}
    BY <1>6 DEF AfterOpen
  <2>2. Last(t) # "thaw" \/ Idle(t)
    <3>1. "thaw" \notin Left(t)
      BY <1>5, <2>1
    <3> QED BY <3>1, LastFacts
  <2>3. ~Idle(t)
    BY <1>1 DEF At
  <2>4. Become(t, <<"reset", "not_open">>)
    BY <2>2, <2>3 DEF Fail
  <2>5. /\ IsCall(t, <<"reset", "not_open">>)
        /\ Rest(<<"reset", "not_open">>, 0) = {"reset", "not_open"}
    BY <1>6, ShortCalls
  <2> DEFINE s == <<"reset", "not_open">>
  <2>6. Become(t, s) /\ IsCall(t, s) /\ Rest(s, 0) = {"reset", "not_open"}
    BY <2>4, <2>5
  <2> HIDE DEF s
  <2> QED BY <2>1, <2>6, BecomeGoes
<1>7. ASSUME t = "device"
      PROVE  /\ TodoInv' /\ Others(t) /\ (Left(t))' = {"reset", "thaw"}
             /\ \A y \in Touching : ~(At(t, y))'
             /\ AfterOpen(t) = {"attach", "thaw"}
  <2>1. AfterOpen(t) = {"attach", "thaw"}
    BY <1>7 DEF AfterOpen
  <2>2. Last(t) = "thaw"
    <3>1. "thaw" \in Left(t)
      BY <1>5, <2>1
    <3> QED BY <3>1, LastFacts
  <2>3. Become(t, <<"reset", "thaw">>)
    BY <2>2 DEF Fail
  <2>4. IsCall(t, <<"reset", "thaw">>) /\ Rest(<<"reset", "thaw">>, 0) = {"reset", "thaw"}
    BY <1>7, ShortCalls
  <2> DEFINE s == <<"reset", "thaw">>
  <2>5. Become(t, s) /\ IsCall(t, s) /\ Rest(s, 0) = {"reset", "thaw"}
    BY <2>3, <2>4
  <2> HIDE DEF s
  <2> QED BY <2>1, <2>5, BecomeGoes
<1>8. ASSUME t = "user"
      PROVE  \/ Left("user") = {"setup_rings", "configure", "request_irq", "clear_down", "napi_enable",
                                "start_masked"}
             \/ Left("user") = {"request_irq", "clear_down", "napi_enable", "start_masked"}
  BY <1>5, <1>6, <1>8
<1>9. ASSUME t = "device"
      PROVE  \/ Left("device") = {"setup_rings", "configure", "request_irq", "clear_down", "napi_enable",
                                  "start_masked", "attach", "thaw"}
             \/ Left("device") = {"request_irq", "clear_down", "napi_enable", "start_masked", "attach", "thaw"}
  BY <1>5, <1>7, <1>9
<1> QED BY <1>3, <1>6, <1>7, <1>8, <1>9

(* The steps that turn into several. *)
OpenSteps == {"setup_rings", "configure", "request_irq", "clear_down", "napi_enable", "start_masked"}

LEMMA DevOpenGoes ==
  ASSUME TodoInv, NEW t \in Threads, At(t, "dev_open"), Expand(t, Open)
  PROVE  /\ TodoInv' /\ Others(t) /\ t = "user" /\ Left("user") = {"dev_open"}
         /\ (Left("user"))' = OpenSteps
         /\ \A y \in Touching : ~(At(t, y))'
<1> DEFINE x == "dev_open"
           s == Open
<1>1. x \in Steps \ {"reset", "free_irq"}
  BY DEF Steps
<1>2. s \in Seq(Steps) /\ Prepared(s) /\ Begins(s) /\ Len(s) > 0
  BY PreparedParts
<1>3. \A left : Follows(t, x, left) => t = "user" /\ left = {}
  BY DEF Follows
<1>4. t = "user"
  BY <1>1, <1>3, HeadFollows
<1>5. Shaped("user", s, {}) /\ Rest(s, 0) = OpenSteps
  <2>1. AfterOpen("user") = {}
    BY DEF AfterOpen
  <2> QED BY <2>1, OpenShape DEF OpenSteps
<1>6. \A left : Follows(t, x, left) => s = <<>> \/ (Len(s) > 0 /\ Shaped(t, s, left))
  BY <1>2, <1>3, <1>4, <1>5
<1>7. At(t, x) /\ Expand(t, s)
  OBVIOUS
<1> HIDE DEF s, x
<1>8. /\ TodoInv' /\ Others(t)
      /\ \E left : /\ Left(t) = {x} \union left /\ Follows(t, x, left)
                   /\ (Left(t))' = Rest(s, 0) \union left
      /\ \A y \in Touching : ~(At(t, y))'
  BY <1>1, <1>2, <1>6, <1>7, ExpandGoes
<1> QED BY <1>3, <1>4, <1>5, <1>8 DEF x

LEMMA InitSchemeGoes ==
  ASSUME TodoInv, NEW t \in Threads, At(t, "init_scheme")
  PROVE  /\ t = "device" /\ Left("device") = {"init_scheme", "attach", "thaw"}
         /\ Expand(t, <<"reset">> \o (IF net.running THEN Open ELSE <<>>)) =>
              /\ TodoInv' /\ Others(t)
              /\ \A y \in Touching : ~(At(t, y))'
              /\ net.running => (Left("device"))' = {"reset", "attach", "thaw"} \union OpenSteps
              /\ ~net.running => (Left("device"))' = {"reset", "attach", "thaw"}
         /\ Become(t, <<"thaw">>) =>
              /\ TodoInv' /\ Others(t)
              /\ \A y \in Touching : ~(At(t, y))'
              /\ (Left("device"))' = {"thaw"}
<1> DEFINE x == "init_scheme"
           b == <<"reset">>
           e == <<>>
           after == {"attach", "thaw"}
<1>1. x \in Steps \ {"reset", "free_irq"} /\ "reset" \in Steps \ Touching
  BY DEF Steps, Touching
<1>2. \A left : Follows(t, x, left) => t = "device" /\ left = after
  BY DEF Follows
<1>3. t = "device" /\ Left("device") = {x} \union after
  BY <1>1, <1>2, HeadFollows
<1>4. b \in Seq(Steps) /\ Prepared(b) /\ Len(b) = 1 /\ b[1] = "reset" /\ Begins(b)
  BY <1>1, PreparedParts DEF Begins
<1>5. /\ Follows("device", "reset", OpenSteps \union after) /\ Follows("device", "reset", after)
  <2>1. {"setup_rings", "configure"} \union OpenLeft("device") = OpenSteps \union after
    BY DEF OpenLeft, OpenSteps, AfterOpen
  <2>2. Follows("device", "reset", OpenSteps \union after)
    BY <1>1, <2>1 DEF Follows
  <2>3. Follows("device", "reset", after)
    BY <1>1 DEF Follows
  <2> QED BY <2>2, <2>3
<1>6. /\ Shaped("device", b, OpenSteps \union after) /\ Shaped("device", b, after) /\ Rest(b, 0) = {"reset"}
  BY <1>1, <1>3, <1>5, ShapedOne
<1>7. /\ Open \in Seq(Steps) /\ Prepared(Open) /\ Begins(Open) /\ Len(Open) > 0
      /\ Shaped("device", Open, after) /\ Rest(Open, 0) = OpenSteps
  <2>1. AfterOpen("device") = after
    BY DEF AfterOpen
  <2> QED BY <2>1, PreparedParts, OpenShape DEF OpenSteps
<1>8. /\ b \o Open \in Seq(Steps) /\ Prepared(b \o Open) /\ Begins(b \o Open) /\ Len(b \o Open) > 0
      /\ Shaped("device", b \o Open, after) /\ Rest(b \o Open, 0) = {"reset"} \union OpenSteps
  <2> HIDE DEF b, after
  <2>1. b \o Open \in Seq(Steps) /\ Len(b \o Open) = Len(b) + Len(Open) /\ (b \o Open)[1] = b[1]
    <3>1. Len(b) > 0
      BY <1>4
    <3> QED BY <1>4, <1>7, <3>1, ConcatHead
  <2>2. Prepared(b \o Open)
    BY <1>4, <1>7, PreparedConcat
  <2>3. Begins(b \o Open) /\ Len(b \o Open) > 0
    BY <1>4, <1>7, <2>1 DEF Begins, Touching
  <2>4. Shaped("device", b, Rest(Open, 0) \union after)
    BY <1>6, <1>7
  <2>5. Shaped("device", b \o Open, after) /\ Rest(b \o Open, 0) = Rest(b, 0) \union Rest(Open, 0)
    BY <1>3, <1>7, <2>4, ShapedConcat
  <2>6. Rest(b \o Open, 0) = {"reset"} \union OpenSteps
    BY <1>6, <1>7, <2>5
  <2> QED BY <2>1, <2>2, <2>3, <2>5, <2>6
<1>9. b \o <<>> = b
  OBVIOUS
<1>10. ASSUME NEW s \in Seq(Steps), NEW all, Prepared(s), Begins(s), Len(s) > 0, Shaped("device", s, after),
              Rest(s, 0) \union after = all, Expand(t, s)
       PROVE  /\ TodoInv' /\ Others(t) /\ (Left("device"))' = all
              /\ \A y \in Touching : ~(At(t, y))'
  <2>1. \A left : Follows(t, x, left) => s = <<>> \/ (Len(s) > 0 /\ Shaped(t, s, left))
    BY <1>2, <1>3, <1>10
  <2>2. At(t, x)
    OBVIOUS
  <2> HIDE DEF x, after
  <2>3. /\ TodoInv' /\ Others(t)
        /\ \E left : /\ Left(t) = {x} \union left /\ Follows(t, x, left)
                     /\ (Left(t))' = Rest(s, 0) \union left
        /\ \A y \in Touching : ~(At(t, y))'
    BY <1>1, <1>10, <2>1, <2>2, ExpandGoes
  <2> QED BY <1>2, <1>3, <1>10, <2>3
<1>11. ASSUME Expand(t, <<"reset">> \o (IF net.running THEN Open ELSE <<>>))
       PROVE  /\ TodoInv' /\ Others(t)
              /\ \A y \in Touching : ~(At(t, y))'
              /\ net.running => (Left("device"))' = {"reset", "attach", "thaw"} \union OpenSteps
              /\ ~net.running => (Left("device"))' = {"reset", "attach", "thaw"}
  <2>1. CASE net.running
    <3>1. Expand(t, b \o Open)
      BY <1>11, <2>1
    <3>2. Rest(b \o Open, 0) \union after = {"reset", "attach", "thaw"} \union OpenSteps
      BY <1>8
    <3> DEFINE s == b \o Open
    <3>3. /\ s \in Seq(Steps) /\ Prepared(s) /\ Begins(s) /\ Len(s) > 0 /\ Shaped("device", s, after)
          /\ Rest(s, 0) \union after = {"reset", "attach", "thaw"} \union OpenSteps /\ Expand(t, s)
      BY <1>8, <3>1, <3>2
    <3> HIDE DEF s, after
    <3>4. /\ TodoInv' /\ Others(t) /\ (Left("device"))' = {"reset", "attach", "thaw"} \union OpenSteps
          /\ \A y \in Touching : ~(At(t, y))'
      BY <1>10, <3>3
    <3> QED BY <2>1, <3>4
  <2>2. CASE ~net.running
    <3>1. Expand(t, b)
      <4>1. Expand(t, b \o (IF net.running THEN Open ELSE <<>>))
        BY <1>11
      <4>2. (IF net.running THEN Open ELSE <<>>) = <<>>
        BY <2>2
      <4> HIDE DEF b
      <4> QED BY <1>9, <4>1, <4>2
    <3>2. Rest(b, 0) \union after = {"reset", "attach", "thaw"} /\ Len(b) > 0
      BY <1>4, <1>6
    <3> HIDE DEF b, after
    <3>3. /\ TodoInv' /\ Others(t) /\ (Left("device"))' = {"reset", "attach", "thaw"}
          /\ \A y \in Touching : ~(At(t, y))'
      BY <1>4, <1>6, <1>10, <3>1, <3>2
    <3> QED BY <2>2, <3>3
  <2> QED BY <2>1, <2>2
<1>12. ASSUME Become(t, <<"thaw">>)
       PROVE  /\ TodoInv' /\ Others(t) /\ (Left("device"))' = {"thaw"}
              /\ \A y \in Touching : ~(At(t, y))'
  <2> DEFINE s == <<"thaw">>
  <2>1. Become(t, s) /\ IsCall(t, s) /\ Rest(s, 0) = {"thaw"}
    BY <1>3, <1>12, ShortCalls
  <2> HIDE DEF s
  <2> QED BY <1>3, <2>1, BecomeGoes
<1> QED BY <1>3, <1>11, <1>12

LEMMA ErrorDownGoes ==
  ASSUME TodoInv, NEW t \in Threads, At(t, "error_down"), Expand(t, IF net.running THEN Down ELSE <<>>)
  PROVE  /\ TodoInv' /\ Others(t) /\ t = "device"
         /\ Left("device") = {"error_down", "slot_reset", "io_resume"}
         /\ net.running => (Left("device"))' = {"slot_reset", "io_resume"} \union DownSteps
         /\ ~net.running => (Left("device"))' = {"slot_reset", "io_resume"}
         /\ \A y \in Touching : ~(At(t, y))'
<1> DEFINE x == "error_down"
           s == IF net.running THEN Down ELSE <<>>
           after == {"slot_reset", "io_resume"}
<1>1. x \in Steps \ {"reset", "free_irq"}
  BY DEF Steps
<1>2. \A left : Follows(t, x, left) => t = "device" /\ left = after
  BY DEF Follows
<1>3. t = "device" /\ Left("device") = {x} \union after
  BY <1>1, <1>2, HeadFollows
<1>4. Shaped("device", Down, after) /\ Rest(Down, 0) = DownSteps
  <2>1. after \in AfterDown("device")
    BY DEF AfterDown
  <2> QED BY <1>3, <2>1, DownShape
<1>5. /\ s \in Seq(Steps) /\ Prepared(s) /\ Begins(s)
      /\ s = <<>> \/ (Len(s) > 0 /\ Shaped("device", s, after))
      /\ net.running => Rest(s, 0) = DownSteps
      /\ ~net.running => Rest(s, 0) = {}
  <2>1. CASE net.running
    <3>1. s = Down
      BY <2>1
    <3>2. Down \in Seq(Steps) /\ Prepared(Down) /\ Begins(Down) /\ Len(Down) = 4
      BY PreparedParts
    <3> HIDE DEF s, after
    <3> QED BY <1>4, <2>1, <3>1, <3>2
  <2>2. CASE ~net.running
    <3>1. s = <<>>
      BY <2>2
    <3>2. <<>> \in Seq(Steps) /\ Prepared(<<>>) /\ Rest(<<>>, 0) = {} /\ Begins(<<>>)
      <4>1. Len(<<>>) = 0 /\ <<>> \in Seq(Steps)
        OBVIOUS
      <4>2. Rest(<<>>, 0) = {}
        BY ShapedNone, Zenon DEF Threads
      <4> QED BY <4>1, <4>2 DEF Prepared, Begins
    <3> HIDE DEF s, after
    <3> QED BY <2>2, <3>1, <3>2
  <2> QED BY <2>1, <2>2
<1>6. At(t, x) /\ Expand(t, s)
  OBVIOUS
<1>7. \A left : Follows(t, x, left) => s = <<>> \/ (Len(s) > 0 /\ Shaped(t, s, left))
  BY <1>2, <1>3, <1>5
<1> HIDE DEF s, x, after
<1>8. /\ TodoInv' /\ Others(t)
      /\ \E left : /\ Left(t) = {x} \union left /\ Follows(t, x, left)
                   /\ (Left(t))' = Rest(s, 0) \union left
      /\ \A y \in Touching : ~(At(t, y))'
  BY <1>1, <1>5, <1>6, <1>7, ExpandGoes
<1>9. (Left("device"))' = Rest(s, 0) \union after
  BY <1>2, <1>3, <1>8
<1>10. /\ Left("device") = {"error_down", "slot_reset", "io_resume"}
       /\ net.running => (Left("device"))' = {"slot_reset", "io_resume"} \union DownSteps
       /\ ~net.running => (Left("device"))' = {"slot_reset", "io_resume"}
  BY <1>3, <1>5, <1>9 DEF x, after
<1> QED BY <1>3, <1>8, <1>10

LEMMA SlotResetGoes ==
  ASSUME TodoInv, NEW t \in Threads, At(t, "slot_reset"), Expand(t, <<"reset">>) \/ Become(t, <<>>)
  PROVE  /\ TodoInv' /\ Others(t) /\ t = "device"
         /\ Left("device") = {"slot_reset", "io_resume"}
         /\ (Left("device"))' = {"reset", "io_resume"} \/ (Left("device"))' = {}
         /\ \A y \in Touching : ~(At(t, y))'
<1> DEFINE x == "slot_reset"
           s == <<"reset">>
           e == <<>>
           after == {"io_resume"}
<1>1. x \in Steps \ {"reset", "free_irq"} /\ "reset" \in Steps \ Touching
  BY DEF Steps, Touching
<1>2. \A left : Follows(t, x, left) => t = "device" /\ left = after
  BY DEF Follows
<1>3. t = "device" /\ Left("device") = {x} \union after
  BY <1>1, <1>2, HeadFollows
<1>4. s \in Seq(Steps) /\ Prepared(s) /\ Len(s) > 0 /\ Begins(s)
  BY <1>1, PreparedParts DEF Begins
<1>5. Shaped("device", s, after) /\ Rest(s, 0) = {"reset"}
  <2>1. Follows("device", "reset", after)
    BY <1>1 DEF Follows
  <2> QED BY <1>1, <1>3, <2>1, ShapedOne
<1>6. At(t, x) /\ (Expand(t, s) \/ Become(t, e)) /\ IsCall(t, e) /\ Rest(e, 0) = {}
  BY ShortCalls, ShapedNone
<1>7. \A left : Follows(t, x, left) => s = <<>> \/ (Len(s) > 0 /\ Shaped(t, s, left))
  BY <1>2, <1>3, <1>4, <1>5
<1> HIDE DEF s, x, e, after
<1>8. ASSUME Expand(t, s)
      PROVE  /\ TodoInv' /\ Others(t) /\ (Left("device"))' = {"reset"} \union after
             /\ \A y \in Touching : ~(At(t, y))'
  <2>1. /\ TodoInv' /\ Others(t)
        /\ \E left : /\ Left(t) = {x} \union left /\ Follows(t, x, left)
                     /\ (Left(t))' = Rest(s, 0) \union left
        /\ \A y \in Touching : ~(At(t, y))'
    BY <1>1, <1>4, <1>6, <1>7, <1>8, ExpandGoes
  <2> QED BY <1>2, <1>3, <1>5, <2>1
<1>9. ASSUME Become(t, e)
      PROVE  /\ TodoInv' /\ Others(t) /\ (Left("device"))' = {}
             /\ \A y \in Touching : ~(At(t, y))'
  BY <1>3, <1>6, <1>9, BecomeGoes
<1>10. /\ Left("device") = {"slot_reset", "io_resume"}
       /\ {"reset"} \union after = {"reset", "io_resume"}
  BY <1>3 DEF x, after
<1> QED BY <1>3, <1>6, <1>8, <1>9, <1>10

LEMMA IoResumeGoes ==
  ASSUME TodoInv, NEW t \in Threads, At(t, "io_resume"),
         Expand(t, (IF net.running THEN Up ELSE <<>>) \o <<"attach">>)
  PROVE  /\ TodoInv' /\ Others(t) /\ t = "device" /\ Left("device") = {"io_resume"}
         /\ net.running =>
              (Left("device"))' = {"configure", "clear_down", "napi_enable", "start", "attach"}
         /\ ~net.running => (Left("device"))' = {"attach"}
         /\ \A y \in Touching : ~(At(t, y))'
<1> DEFINE x == "io_resume"
           a == IF net.running THEN Up ELSE <<>>
           b == <<"attach">>
           s == a \o b
<1>1. x \in Steps \ {"reset", "free_irq"} /\ "attach" \in Steps \ Touching
  BY DEF Steps, Touching
<1>2. \A left : Follows(t, x, left) => t = "device" /\ left = {}
  BY DEF Follows
<1>3. t = "device" /\ Left("device") = {x} \union {}
  BY <1>1, <1>2, HeadFollows
<1>4. IsCall("device", b) /\ Rest(b, 0) = {"attach"}
  <2>1. Follows("device", "attach", {})
    BY <1>1 DEF Follows
  <2> QED BY <1>1, <1>3, <2>1, OneStep
<1>5. b \in Seq(Steps) /\ Prepared(b) /\ Begins(b) /\ Shaped("device", b, {}) /\ Len(b) = 1
  BY <1>4 DEF IsCall
<1>6. /\ IsCall("device", s) /\ Len(s) > 0
      /\ net.running => Rest(s, 0) = {"configure", "clear_down", "napi_enable", "start", "attach"}
      /\ ~net.running => Rest(s, 0) = {"attach"}
  <2>1. CASE net.running
    <3>1. a = Up
      BY <2>1
    <3>2. Up \in Seq(Steps) /\ Prepared(Up) /\ Begins(Up) /\ Len(Up) > 0
      BY PreparedParts
    <3>3. /\ Shaped("device", Up, {"attach"}) /\ Rest(Up, 0) = {"configure", "clear_down", "napi_enable", "start"}
      <4>1. AfterUp("device") = {"attach"}
        BY DEF AfterUp
      <4> QED BY <1>3, <4>1, UpShape
    <3> HIDE DEF a, b
    <3>4. IsCall("device", Up \o b) /\ Rest(Up \o b, 0) = Rest(Up, 0) \union Rest(b, 0)
      <4>1. Shaped("device", Up, Rest(b, 0))
        BY <1>4, <3>3
      <4> QED BY <1>3, <1>4, <3>2, <4>1, CallConcat
    <3>5. Len(Up \o b) > 0
      <4>1. Up \in Seq(Steps) /\ Len(Up) > 0
        BY <3>2
      <4>2. b \in Seq(Steps) /\ Len(b) = 1
        BY <1>5
      <4>3. Len(Up \o b) = Len(Up) + Len(b)
        BY <4>1, <4>2, ConcatHead
      <4> QED BY <4>1, <4>2, <4>3
    <3>6. Rest(Up \o b, 0) = {"configure", "clear_down", "napi_enable", "start", "attach"}
      BY <1>4, <3>3, <3>4
    <3> QED BY <2>1, <3>1, <3>4, <3>5, <3>6
  <2>2. CASE ~net.running
    <3>1. s = b
      <4>1. a = <<>>
        BY <2>2
      <4>2. <<>> \o b = b
        BY <1>5
      <4> HIDE DEF a, b
      <4> QED BY <4>1, <4>2
    <3> HIDE DEF a, b
    <3> QED BY <1>4, <1>5, <2>2, <3>1
  <2> QED BY <2>1, <2>2
<1>7. At(t, x) /\ Expand(t, s)
  OBVIOUS
<1> HIDE DEF s, x, a, b
<1>8. s \in Seq(Steps) /\ Prepared(s) /\ Begins(s) /\ Shaped("device", s, {})
  BY <1>6 DEF IsCall
<1>9. \A left : Follows(t, x, left) => s = <<>> \/ (Len(s) > 0 /\ Shaped(t, s, left))
  BY <1>2, <1>3, <1>6, <1>8
<1>10. /\ TodoInv' /\ Others(t)
       /\ \E left : /\ Left(t) = {x} \union left /\ Follows(t, x, left)
                    /\ (Left(t))' = Rest(s, 0) \union left
       /\ \A y \in Touching : ~(At(t, y))'
  BY <1>1, <1>7, <1>8, <1>9, ExpandGoes
<1>11. (Left("device"))' = Rest(s, 0)
  <2>1. (Left("device"))' = Rest(s, 0) \union {}
    BY <1>2, <1>3, <1>10
  <2> QED BY <2>1
<1>12. Left("device") = {"io_resume"}
  BY <1>3 DEF x
<1> QED BY <1>3, <1>6, <1>10, <1>11, <1>12

(* The invariant, without the types. *)
LifeInv == PlaceInv /\ VectorInv /\ HoldInv /\ AgainInv /\ IrqInv /\ (~raced => RingInv /\ EndInv)

(* Steps that change nothing of what the invariant says of the threads. *)
Quiet == {"stop", "quiesce", "reset", "configure", "start", "start_masked", "take", "resize", "give",
          "vlan_mask", "vlan_unmask"}

(* What such a step may change. *)
Calm(x) ==
  /\ net'.present = net.present /\ net'.running = net.running /\ net'.attached = net.attached
  /\ net'.asleep = net.asleep /\ net'.rings = net.rings
  /\ ints'.napi = ints.napi /\ ints'.irq = ints.irq /\ ints'.isr = ints.isr
  /\ jobs'.wd = jobs.wd /\ jobs'.work \subseteq jobs.work \union {"watchdog"}
  /\ net'.down = net.down \/ (x = "stop" /\ net'.down)
  /\ ints'.dma => ints.dma \/ x = "configure"
  /\ x \in {"stop", "reset"} => ~ints'.dma
  /\ jobs'.armed => jobs.armed
  /\ x \in {"start", "start_masked"} => (raced' = (raced \/ Removing))
  /\ x \notin {"start", "start_masked"} => raced' = raced /\ jobs'.work = jobs.work

LEMMA IdleLeftNext ==
  ASSUME TodoInv, TodoInv'
  PROVE  /\ Idle("user") <=> Left("user") = {}
         /\ Idle("task") <=> Left("task") = {}
         /\ Idle("device") <=> Left("device") = {}
         /\ (Idle("user"))' <=> (Left("user"))' = {}
         /\ (Idle("task"))' <=> (Left("task"))' = {}
         /\ (Idle("device"))' <=> (Left("device"))' = {}
<1>1. \A s \in Seq(Steps) : s = <<>> <=> Rest(s, 0) = {}
  <2> SUFFICES ASSUME NEW s \in Seq(Steps) PROVE s = <<>> <=> Rest(s, 0) = {}
    OBVIOUS
  <2>1. CASE s = <<>>
    BY <2>1, ShapedNone DEF Threads
  <2>2. CASE s # <<>>
    <3>1. Rest(s, 0) = {Head(s)} \union Rest(Tail(s), 0)
      BY <2>2, RestTail
    <3> QED BY <2>2, <3>1
  <2> QED BY <2>1, <2>2
<1>2. /\ todo["user"] \in Seq(Steps) /\ todo["task"] \in Seq(Steps) /\ todo["device"] \in Seq(Steps)
      /\ todo'["user"] \in Seq(Steps) /\ todo'["task"] \in Seq(Steps) /\ todo'["device"] \in Seq(Steps)
  BY DEF TodoInv, Threads
<1> QED BY <1>1, <1>2 DEF Idle, Left

LEMMA StopLeft ==
  ASSUME NEW t \in Threads, NEW left, Follows(t, "stop", left)
  PROVE  \/ "clear_down" \in left
         \/ t = "user" /\ "free_irq" \in left /\ "not_open" \notin left
         \/ /\ t = "device" /\ "attach" \notin left /\ "detach" \notin left
            /\ "clear_scheme" \in left \/ "free_netdev" \in left \/ "io_resume" \in left
<1>1. PICK l \in AfterDown(t) : left = {"napi_disable", "quiesce", "reset"} \union l
  BY DEF Follows
<1>2. \/ t = "user" /\ \/ l = {"free_irq", "free_rings"} \union {}
                       \/ l = {"free_irq", "free_rings"} \union {"reset", "dev_open"}
      \/ t = "device" /\ \/ l = {"free_irq", "free_rings"} \union {"clear_scheme"}
                         \/ l = {"free_irq", "free_rings"} \union {"free_netdev"}
                         \/ l = {"slot_reset", "io_resume"}
      \/ l = UpLeft(t) \/ l = {"resize"} \union UpLeft(t)
  <2>1. CASE t = "user"
    BY <1>1, <2>1 DEF AfterDown, AfterClose
  <2>2. CASE t = "task"
    BY <1>1, <2>2 DEF AfterDown, AfterClose
  <2>3. CASE t = "device"
    BY <1>1, <2>3 DEF AfterDown, AfterClose
  <2> QED BY <2>1, <2>2, <2>3 DEF Threads
<1>3. "clear_down" \in UpLeft(t)
  BY DEF UpLeft
<1> QED BY <1>1, <1>2, <1>3

(* Who is about to touch the rings. *)
LEMMA TouchLeft ==
  ASSUME TodoInv, NEW t \in Threads, NEW y \in Touching, At(t, y)
  PROVE  /\ t # "task" \/ y = "resize"
         /\ "napi_disable" \notin Left(t)
         /\ y = "resize" => t = "user" /\ "napi_enable" \in Left(t)
         /\ y # "resize" => "free_rings" \in Left(t) /\ (t = "user" => "not_open" \notin Left(t))
<1>1. y \in Steps /\ (y = "resize" \/ y = "free_irq" \/ y = "free_rings")
  BY DEF Touching, Steps
<1>2. PICK left : Left(t) = {y} \union left /\ Follows(t, y, left)
  BY <1>1, HeadFollows
<1>3. CASE y = "resize"
  <2>1. t = "user" /\ left = UpLeft(t)
    BY <1>2, <1>3 DEF Follows
  <2>2. "napi_enable" \in left /\ "napi_disable" \notin left
    BY <2>1 DEF UpLeft, AfterUp
  <2> QED BY <1>2, <1>3, <2>1, <2>2
<1>4. CASE y # "resize"
  <2>1. PICK l \in AfterClose(t) : left = {"free_rings"} \union l \/ (y = "free_rings" /\ left = l)
    BY <1>1, <1>2, <1>4 DEF Follows
  <2>2. t # "task" /\ "napi_disable" \notin l /\ "not_open" \notin l
    BY <2>1 DEF AfterClose, Threads
  <2> QED BY <1>1, <1>2, <1>4, <2>1, <2>2
<1> QED BY <1>3, <1>4

LEMMA QuietKeeps ==
  ASSUME TypeOK, TodoInv, LifeInv, NEW t \in Threads, NEW x \in Quiet,
         Others(t), Left(t) = {x} \union (Left(t))', Follows(t, x, (Left(t))'),
         (At(t, "resize"))' \/ (At(t, "free_irq"))' => x = "reset", ~(At(t, "free_rings"))',
         TodoInv', Calm(x)
  PROVE  LifeInv'
<1> DEFINE U == Left("user")
           K == Left("task")
           D == Left("device")
<1>1. /\ t # "user" => U' = U
      /\ t # "task" => K' = K
      /\ t # "device" => D' = D
  BY DEF Others, Threads
<1>2. t = "user" \/ t = "task" \/ t = "device"
  BY DEF Threads
<1>3. /\ Idle("user") <=> U = {}
      /\ Idle("task") <=> K = {}
      /\ Idle("device") <=> D = {}
      /\ (Idle("user"))' <=> U' = {}
      /\ (Idle("task"))' <=> K' = {}
      /\ (Idle("device"))' <=> D' = {}
  BY IdleLeftNext
<1>4. /\ net'.present = net.present /\ net'.running = net.running /\ net'.attached = net.attached
      /\ net'.asleep = net.asleep
  BY DEF Calm
<1>5. PlaceInv'
  BY <1>1, <1>2, <1>3, <1>4, SMTT(30) DEF LifeInv, PlaceInv, InDevice, Quiet
<1>6. VectorInv'
  BY <1>1, <1>2, <1>3, SMTT(30) DEF LifeInv, VectorInv, InDevice, Quiet, Calm
<1>7. HoldInv'
  BY <1>1, <1>2, <1>3, SMTT(30) DEF LifeInv, HoldInv, InDevice, Quiet, Calm, Held, Holds, Resting, OpenFailed,
    Recovering, Stopped, Threads
<1>8. AgainInv'
  <2>1. x = "stop" =>
          \/ "clear_down" \in (Left(t))'
          \/ t = "user" /\ "free_irq" \in (Left(t))' /\ "not_open" \notin (Left(t))'
          \/ /\ t = "device" /\ "attach" \notin (Left(t))' /\ "detach" \notin (Left(t))'
             /\ \/ "clear_scheme" \in (Left(t))' \/ "free_netdev" \in (Left(t))'
                \/ "io_resume" \in (Left(t))'
    BY StopLeft
  <2>2. net'.down => net.down \/ x = "stop"
    BY DEF Calm
  <2>3. ints'.napi = ints.napi
    BY DEF Calm
  <2>4. x \notin {"napi_enable", "napi_disable", "clear_down", "unregister", "not_open", "free_irq", "attach",
                  "init_scheme", "clear_scheme", "free_netdev", "io_resume", "detach"}
    BY DEF Quiet
  <2>5. PlaceInv /\ AgainInv
    BY DEF LifeInv
  <2> SUFFICES ASSUME net'.present, net'.running, Whole', ~OpenFailed'
               PROVE  /\ ints'.napi = "off" => Held'
                      /\ net'.down /\ "unregister" \notin D' => \E v \in Threads : "clear_down" \in (Left(v))'
    BY DEF AgainInv, InDevice
  <2>6. net.present /\ net.running /\ Whole /\ ~OpenFailed
    BY <1>1, <1>2, <1>4, <2>4 DEF Whole, OpenFailed, InDevice
  <2>7. ints.napi = "off" => Held
    BY <2>5, <2>6 DEF AgainInv
  <2>8. Held => Held'
    BY <1>1, <1>2, <2>4 DEF Held, Holds, Threads
  <2>9. ASSUME net'.down, "unregister" \notin D' PROVE \E v \in Threads : "clear_down" \in (Left(v))'
    <3>1. CASE net.down
      <4>1. PICK v \in Threads : "clear_down" \in Left(v)
        BY <1>1, <1>2, <2>4, <2>5, <2>6, <2>9, <3>1 DEF AgainInv, InDevice
      <4> QED BY <1>1, <1>2, <2>4, <4>1 DEF Threads
    <3>2. CASE x = "stop"
      <4>1. PlaceInv'
        BY <1>5
      <4>2. CASE t = "user"
        BY <2>1, <3>2, <4>1, <4>2 DEF PlaceInv
      <4>3. CASE t = "device"
        BY <2>1, <2>6, <3>2, <4>1, <4>3 DEF PlaceInv, InDevice, Whole
      <4>4. CASE t = "task"
        BY <2>1, <3>2, <4>4
      <4> QED BY <1>2, <4>2, <4>3, <4>4
    <3> QED BY <2>2, <2>9, <3>1, <3>2
  <2> QED BY <2>3, <2>7, <2>8, <2>9
<1>9. IrqInv'
  BY <1>1, <1>2, <1>3, SMTT(30) DEF LifeInv, IrqInv, InDevice, Quiet, Calm, Held, Holds, OpenFailed, Recovering,
    Stopped, Threads
<1>10. ~raced' => ~raced
  BY DEF Calm, Quiet, TypeOK
<1>11. ASSUME ~raced' PROVE RingInv'
  <2>1. RingInv /\ EndInv /\ HoldInv /\ PlaceInv /\ VectorInv
    BY <1>10, <1>11 DEF LifeInv
  <2>2. x = "configure" => "napi_enable" \in (Left(t))' /\ "napi_disable" \notin (Left(t))' /\ "setup_rings" \notin (Left(t))'
    <3>1. x = "configure" => (Left(t))' = UpLeft(t) \ {x} \/ (Left(t))' = OpenLeft(t)
      BY DEF Follows
    <3> QED BY <3>1 DEF UpLeft, OpenLeft, AfterUp, AfterOpen
  <2>3. ints'.dma => net'.rings
    BY <1>1, <1>2, <1>3, <2>1, <2>2, SMTT(30) DEF RingInv, EndInv, HoldInv, VectorInv, Held, Holds, Calm, Threads,
      InDevice
  <2>4. ints'.napi \in {"on", "busy"} \/ Recovering' => net'.rings
    BY <1>1, <1>2, <2>1, SMTT(30) DEF RingInv, Calm, Quiet, Recovering, Stopped, InDevice
  <2>5. \A v \in Threads : ints'.napi = "off" /\ (Holds(v))' /\ "setup_rings" \notin (Left(v))' => net'.rings
    BY <1>1, <1>2, <2>1, SMTT(30) DEF RingInv, Calm, Quiet, Holds, Threads
  <2>6. \A v \in Threads : (At(v, "resize"))' \/ (At(v, "free_irq"))' \/ (At(v, "free_rings"))' => ~ints'.dma
    <3> SUFFICES ASSUME NEW v \in Threads, NEW y \in Touching, (At(v, y))', ints'.dma PROVE FALSE
      BY DEF Touching
    <3>1. y \in Steps /\ (y = "resize" \/ y = "free_irq" \/ y = "free_rings")
      BY DEF Touching, Steps
    <3>2. v # t
      BY <3>1 DEF Calm
    <3>3. At(v, y)
      BY <3>1, <3>2 DEF Others
    <3>4. ~ints.dma
      BY <2>1, <3>1, <3>3 DEF RingInv
    <3>5. x = "configure"
      BY <3>4 DEF Calm
    <3>6. Holds(t)
      BY <2>2, <3>5 DEF Holds
    <3>7. /\ v # "task" \/ y = "resize"
          /\ "napi_disable" \notin Left(v)
          /\ y = "resize" => v = "user" /\ "napi_enable" \in Left(v)
          /\ y # "resize" => "free_rings" \in Left(v) /\ (v = "user" => "not_open" \notin Left(v))
      BY <3>3, TouchLeft
    <3>8. CASE y = "resize"
      BY <2>1, <3>2, <3>6, <3>7, <3>8 DEF HoldInv, Holds
    <3>9. CASE y # "resize"
      <4>1. Resting
        BY <1>3, <2>1, <3>7, <3>9 DEF HoldInv, PlaceInv, InDevice, Threads
      <4>2. ints.napi = "none"
        BY <3>6, <4>1 DEF Resting, Held
      <4>3. "napi_enable" \in Left(t)
        BY <3>6 DEF Holds
      <4> QED BY <1>2, <1>3, <2>1, <4>2, <4>3 DEF VectorInv, EndInv
    <3> QED BY <3>8, <3>9
  <2> QED BY <2>3, <2>4, <2>5, <2>6 DEF RingInv
<1>12. ASSUME ~raced' PROVE EndInv'
  <2>1. EndInv /\ PlaceInv /\ VectorInv
    BY <1>10, <1>12 DEF LifeInv
  <2>2. Removing <=> "unregister" \in D \/ "free_netdev" \in D
    BY LastFacts DEF InDevice
  <2>3. \A step \in {"set_down", "del_timer", "flush"} : (Leaving(step))' <=> Leaving(step)
    BY <1>1, <1>2, <1>4 DEF Leaving, InDevice, Quiet
  <2>4. Leaving("set_down") => net'.down
    BY <2>1 DEF EndInv, Calm
  <2>5. Leaving("del_timer") => ~jobs'.armed
    BY <2>1 DEF EndInv, Calm
  <2>6. K = {} => K' = {}
    BY <1>1, <1>2
  <2>7. Leaving("flush") => jobs'.work = {} /\ jobs'.wd = "idle" /\ K' = {}
    <3> SUFFICES ASSUME Leaving("flush") PROVE jobs'.work = {} /\ jobs'.wd = "idle" /\ K' = {}
      OBVIOUS
    <3>1. jobs.work = {} /\ jobs.wd = "idle" /\ K = {}
      BY <1>3, <2>1 DEF EndInv
    <3>2. x \in {"start", "start_masked"} => ~Removing
      BY <1>12 DEF Calm
    <3>3. x \notin {"start", "start_masked"}
      BY <1>1, <1>2, <1>3, <2>1, <2>2, <3>1, <3>2 DEF Leaving, InDevice, PlaceInv
    <3> QED BY <2>6, <3>1, <3>3 DEF Calm
  <2>8. ints'.napi = "none" => K' = {} /\ "reset" \notin jobs'.work
    BY <1>3, <2>1, <2>6 DEF EndInv, Calm
  <2> QED BY <1>3, <2>3, <2>4, <2>5, <2>7, <2>8 DEF EndInv
<1> QED BY <1>5, <1>6, <1>7, <1>8, <1>9, <1>11, <1>12 DEF LifeInv

(* A thread takes its next step. *)
Taken(t, x) == At(t, x) /\ Done(t)

LEMMA QuietTaken ==
  ASSUME TypeOK, TodoInv, LifeInv, NEW t \in Threads, NEW x \in Quiet, Taken(t, x), Calm(x)
  PROVE  TodoInv' /\ LifeInv'
<1>1. x \in Steps /\ At(t, x) /\ Done(t) /\ x # "free_irq"
  BY DEF Quiet, Steps, Taken
<1>2. /\ TodoInv' /\ Others(t)
      /\ Left(t) = {x} \union (Left(t))' /\ Follows(t, x, (Left(t))')
      /\ (At(t, "resize"))' \/ (At(t, "free_irq"))' => x = "reset"
      /\ (At(t, "free_rings"))' => x = "free_irq"
  BY <1>1, DoneGoes
<1>3. ~(At(t, "free_rings"))'
  BY <1>1, <1>2
<1> QED BY <1>2, <1>3, QuietKeeps

LEMMA QuietSteps ==
  ASSUME TypeOK, TodoInv, LifeInv, NEW t \in Threads,
         \/ Stop(t) \/ Quiesce(t) \/ Reset(t) \/ Configure(t) \/ Start(t) \/ StartMasked(t)
         \/ Take(t) \/ Resize(t) \/ Give(t) \/ VlanMask(t) \/ VlanUnmask(t)
  PROVE  TodoInv' /\ LifeInv'
<1>1. CASE Stop(t)
  <2>1. Taken(t, "stop") /\ Calm("stop")
    BY <1>1 DEF Stop, Taken, Calm, TypeOK, NetType, IntsType, JobsType
  <2> QED BY <2>1, QuietTaken DEF Quiet
<1>2. CASE Quiesce(t)
  <2>1. Taken(t, "quiesce") /\ Calm("quiesce")
    BY <1>2 DEF Quiesce, Taken, Calm, TypeOK, NetType, IntsType, JobsType
  <2> QED BY <2>1, QuietTaken DEF Quiet
<1>3. CASE Reset(t)
  <2>1. Taken(t, "reset") /\ Calm("reset")
    BY <1>3 DEF Reset, ResetHw, Taken, Calm, TypeOK, NetType, IntsType, JobsType
  <2> QED BY <2>1, QuietTaken DEF Quiet
<1>4. CASE Configure(t)
  <2>1. Taken(t, "configure") /\ Calm("configure")
    BY <1>4 DEF Configure, Taken, Calm, TypeOK, NetType, IntsType, JobsType
  <2> QED BY <2>1, QuietTaken DEF Quiet
<1>5. CASE Start(t)
  <2>1. Taken(t, "start") /\ Calm("start")
    BY <1>5 DEF Start, StartWith, Taken, Calm, TypeOK, NetType, IntsType, JobsType
  <2> QED BY <2>1, QuietTaken DEF Quiet
<1>6. CASE StartMasked(t)
  <2>1. Taken(t, "start_masked") /\ Calm("start_masked")
    BY <1>6 DEF StartMasked, StartWith, Taken, Calm, TypeOK, NetType, IntsType, JobsType
  <2> QED BY <2>1, QuietTaken DEF Quiet
<1>7. CASE Take(t)
  <2>1. Taken(t, "take") /\ Calm("take")
    BY <1>7 DEF Take, Taken, Calm, TypeOK, NetType, IntsType, JobsType
  <2> QED BY <2>1, QuietTaken DEF Quiet
<1>8. CASE Resize(t)
  <2>1. Taken(t, "resize") /\ Calm("resize")
    BY <1>8 DEF Resize, Taken, Calm, TypeOK, NetType, IntsType, JobsType
  <2> QED BY <2>1, QuietTaken DEF Quiet
<1>9. CASE Give(t)
  <2>1. Taken(t, "give") /\ Calm("give")
    BY <1>9 DEF Give, Taken, Calm, TypeOK, NetType, IntsType, JobsType
  <2> QED BY <2>1, QuietTaken DEF Quiet
<1>10. CASE VlanMask(t)
  <2>1. Taken(t, "vlan_mask") /\ Calm("vlan_mask")
    BY <1>10 DEF VlanMask, Taken, Calm, TypeOK, NetType, IntsType, JobsType
  <2> QED BY <2>1, QuietTaken DEF Quiet
<1>11. CASE VlanUnmask(t)
  <2>1. Taken(t, "vlan_unmask") /\ Calm("vlan_unmask")
    BY <1>11 DEF VlanUnmask, Taken, Calm, TypeOK, NetType, IntsType, JobsType
  <2> QED BY <2>1, QuietTaken DEF Quiet
<1> QED BY <1>1, <1>2, <1>3, <1>4, <1>5, <1>6, <1>7, <1>8, <1>9, <1>10, <1>11

(* What is left after the steps that matter, spelt out. *)
LEMMA NapiDisableLeft ==
  ASSUME NEW t \in Threads, NEW left, Follows(t, "napi_disable", left)
  PROVE  /\ t = "user" =>
              \/ left = {"quiesce", "reset", "free_irq", "free_rings"}
              \/ left = {"quiesce", "reset", "free_irq", "free_rings", "dev_open"}
              \/ left = {"quiesce", "reset", "configure", "clear_down", "napi_enable", "start", "give"}
              \/ left = {"quiesce", "reset", "resize", "configure", "clear_down", "napi_enable", "start", "give"}
         /\ t = "task" => left = {"quiesce", "reset", "configure", "clear_down", "napi_enable", "start", "give"}
         /\ t = "device" =>
              \/ left = {"quiesce", "reset", "free_irq", "free_rings", "clear_scheme"}
              \/ left = {"quiesce", "reset", "free_irq", "free_rings", "free_netdev"}
              \/ left = {"quiesce", "reset", "slot_reset", "io_resume"}
<1>1. PICK l \in AfterDown(t) : left = {"quiesce", "reset"} \union l
  BY DEF Follows
<1>2. CASE t = "user"
  <2>1. \/ l = {"free_irq", "free_rings"} \union {}
        \/ l = {"free_irq", "free_rings"} \union {"reset", "dev_open"}
        \/ l = UpLeft("user")
        \/ l = {"resize"} \union UpLeft("user")
    BY <1>1, <1>2 DEF AfterDown, AfterClose
  <2>2. UpLeft("user") = {"configure", "clear_down", "napi_enable", "start", "give"}
    BY DEF UpLeft, AfterUp
  <2> QED BY <1>1, <1>2, <2>1, <2>2
<1>3. CASE t = "task"
  <2>1. l = UpLeft("task")
    BY <1>1, <1>3 DEF AfterDown, AfterClose
  <2>2. UpLeft("task") = {"configure", "clear_down", "napi_enable", "start", "give"}
    BY DEF UpLeft, AfterUp
  <2> QED BY <1>1, <1>3, <2>1, <2>2
<1>4. CASE t = "device"
  <2>1. \/ l = {"free_irq", "free_rings"} \union {"clear_scheme"}
        \/ l = {"free_irq", "free_rings"} \union {"free_netdev"}
        \/ l = {"slot_reset", "io_resume"}
    BY <1>1, <1>4 DEF AfterDown, AfterClose
  <2> QED BY <1>1, <1>4, <2>1
<1> QED BY <1>2, <1>3, <1>4 DEF Threads

LEMMA ClearDownLeft ==
  ASSUME NEW t \in Threads, NEW left, Follows(t, "clear_down", left)
  PROVE  /\ t = "user" =>
              \/ left = {"napi_enable", "start", "give"}
              \/ left = {"napi_enable", "start_masked"}
         /\ t = "task" => left = {"napi_enable", "start", "give"}
         /\ t = "device" =>
              \/ left = {"napi_enable", "start", "attach"}
              \/ left = {"napi_enable", "start_masked", "attach", "thaw"}
<1>1. \/ left = {"napi_enable", "start"} \union AfterUp(t)
      \/ t # "task" /\ left = {"napi_enable", "start_masked"} \union AfterOpen(t)
  BY DEF Follows
<1>2. CASE t = "user"
  BY <1>1, <1>2 DEF AfterUp, AfterOpen
<1>3. CASE t = "task"
  BY <1>1, <1>3 DEF AfterUp, AfterOpen
<1>4. CASE t = "device"
  BY <1>1, <1>4 DEF AfterUp, AfterOpen
<1> QED BY <1>2, <1>3, <1>4 DEF Threads

LEMMA NapiEnableLeft ==
  ASSUME NEW t \in Threads, NEW left, Follows(t, "napi_enable", left)
  PROVE  /\ t = "user" =>
              \/ left = {"start", "give"}
              \/ left = {"start_masked"}
         /\ t = "task" => left = {"start", "give"}
         /\ t = "device" =>
              \/ left = {"start", "attach"}
              \/ left = {"start_masked", "attach", "thaw"}
<1>1. \/ left = {"start"} \union AfterUp(t)
      \/ t # "task" /\ left = {"start_masked"} \union AfterOpen(t)
  BY DEF Follows
<1>2. CASE t = "user"
  BY <1>1, <1>2 DEF AfterUp, AfterOpen
<1>3. CASE t = "task"
  BY <1>1, <1>3 DEF AfterUp, AfterOpen
<1>4. CASE t = "device"
  BY <1>1, <1>4 DEF AfterUp, AfterOpen
<1> QED BY <1>2, <1>3, <1>4 DEF Threads

LEMMA SetupRingsLeft ==
  ASSUME NEW t \in Threads, NEW left, Follows(t, "setup_rings", left)
  PROVE  /\ t = "user" => left = {"configure", "request_irq", "clear_down", "napi_enable", "start_masked"}
         /\ t = "device" => left = {"configure", "request_irq", "clear_down", "napi_enable", "start_masked", "attach", "thaw"}
         /\ t # "task"
<1>1. t # "task" /\ left = {"configure"} \union OpenLeft(t)
  BY DEF Follows
<1>2. CASE t = "user"
  BY <1>1, <1>2 DEF OpenLeft, AfterOpen
<1>3. CASE t = "device"
  BY <1>1, <1>3 DEF OpenLeft, AfterOpen
<1> QED BY <1>1, <1>2, <1>3 DEF Threads

LEMMA RequestIrqLeft ==
  ASSUME NEW t \in Threads, NEW left, Follows(t, "request_irq", left)
  PROVE  /\ t = "user" => left = {"clear_down", "napi_enable", "start_masked"}
         /\ t = "device" => left = {"clear_down", "napi_enable", "start_masked", "attach", "thaw"}
         /\ t # "task"
<1>1. t # "task" /\ left = OpenLeft(t) \ {"request_irq"}
  BY DEF Follows
<1>2. CASE t = "user"
  BY <1>1, <1>2 DEF OpenLeft, AfterOpen
<1>3. CASE t = "device"
  BY <1>1, <1>3 DEF OpenLeft, AfterOpen
<1> QED BY <1>1, <1>2, <1>3 DEF Threads

LEMMA NotOpenLeft ==
  ASSUME NEW t \in Threads, NEW left, Follows(t, "not_open", left)
  PROVE  /\ t = "user" =>
              \/ left = {}
              \/ left = {"stop", "napi_disable", "quiesce", "reset", "free_irq", "free_rings"}
              \/ left = {"stop", "napi_disable", "quiesce", "reset", "free_irq", "free_rings", "dev_open"}
         /\ t # "task"
         /\ t # "device"
<1>1. t = "user"
  BY DEF Follows
<1>2. left \in {{}} \union {{"stop", "napi_disable", "quiesce", "reset", "free_irq", "free_rings"} \union l :
                              l \in AfterClose("user")}
  BY <1>1 DEF Follows
<1>3. \/ left = {}
      \/ left = {"stop", "napi_disable", "quiesce", "reset", "free_irq", "free_rings"} \union {}
      \/ left = {"stop", "napi_disable", "quiesce", "reset", "free_irq", "free_rings"} \union {"reset", "dev_open"}
  BY <1>2 DEF AfterClose
<1> QED BY <1>1, <1>3

LEMMA FreeIrqLeft ==
  ASSUME NEW t \in Threads, NEW left, Follows(t, "free_irq", left)
  PROVE  /\ t = "user" =>
              \/ left = {"free_rings"}
              \/ left = {"free_rings", "reset", "dev_open"}
         /\ t = "device" =>
              \/ left = {"free_rings", "clear_scheme"}
              \/ left = {"free_rings", "free_netdev"}
         /\ t # "task"
<1>1. PICK l \in AfterClose(t) : left = {"free_rings"} \union l
  BY DEF Follows
<1>2. /\ t = "user" => l = {} \/ l = {"reset", "dev_open"}
      /\ t = "device" => l = {"clear_scheme"} \/ l = {"free_netdev"}
      /\ t # "task"
  BY <1>1 DEF AfterClose
<1> QED BY <1>1, <1>2

LEMMA FreeRingsLeft ==
  ASSUME NEW t \in Threads, NEW left, Follows(t, "free_rings", left)
  PROVE  /\ t = "user" =>
              \/ left = {}
              \/ left = {"reset", "dev_open"}
         /\ t = "device" =>
              \/ left = {"clear_scheme"}
              \/ left = {"free_netdev"}
         /\ t # "task"
<1>1. left \in AfterClose(t)
  BY DEF Follows
<1> QED BY <1>1 DEF AfterClose

(* The threads after a step of t. *)
Moves(t) ==
  /\ TodoInv'
  /\ t = "user" \/ t = "task" \/ t = "device"
  /\ t # "user" => (Left("user"))' = Left("user")
  /\ t # "task" => (Left("task"))' = Left("task")
  /\ t # "device" => (Left("device"))' = Left("device")
  /\ Idle("user") <=> Left("user") = {}
  /\ Idle("task") <=> Left("task") = {}
  /\ Idle("device") <=> Left("device") = {}
  /\ (Idle("user"))' <=> (Left("user"))' = {}
  /\ (Idle("task"))' <=> (Left("task"))' = {}
  /\ (Idle("device"))' <=> (Left("device"))' = {}
  /\ \A v \in Threads \ {t}, y \in Touching : (At(v, y))' => At(v, y)

LEMMA MovesOn ==
  ASSUME TodoInv, TodoInv', NEW t \in Threads, Others(t)
  PROVE  Moves(t)
<1>1. /\ t # "user" => (Left("user"))' = Left("user")
      /\ t # "task" => (Left("task"))' = Left("task")
      /\ t # "device" => (Left("device"))' = Left("device")
      /\ t = "user" \/ t = "task" \/ t = "device"
  BY DEF Others, Threads
<1>2. Touching \subseteq Steps
  BY DEF Touching, Steps
<1>3. \A v \in Threads \ {t}, y \in Touching : (At(v, y))' => At(v, y)
  BY <1>2 DEF Others
<1> QED BY <1>1, <1>3, IdleLeftNext DEF Moves

LEMMA TakenMoves ==
  ASSUME TodoInv, NEW t \in Threads, NEW x \in Steps, Taken(t, x)
  PROVE  /\ Moves(t) /\ Left(t) = {x} \union (Left(t))' /\ Follows(t, x, (Left(t))')
         /\ (At(t, "resize"))' \/ (At(t, "free_irq"))' => x = "reset"
         /\ (At(t, "free_rings"))' => x = "free_irq"
<1>1. At(t, x) /\ Done(t)
  BY DEF Taken
<1> QED BY <1>1, DoneGoes, MovesOn

(* The holders one by one. *)
LEMMA HoldersAre ==
  /\ Held <=> Holds("user") \/ Holds("task") \/ Holds("device")
  /\ Held' <=> (Holds("user"))' \/ (Holds("task"))' \/ (Holds("device"))'
BY DEF Held, Threads

LEMMA HoldersOne ==
  ASSUME LifeInv
  PROVE  /\ ~(Holds("user") /\ Holds("task")) /\ ~(Holds("user") /\ Holds("device"))
         /\ ~(Holds("task") /\ Holds("device"))
BY DEF LifeInv, HoldInv, Threads

(***************************************************************************)
(* Step by step: what is left of the call afterwards, what has changed of  *)
(* the device, and each part of the invariant.                             *)
(***************************************************************************)
LEMMA NapiDisableKeeps ==
  ASSUME TypeOK, TodoInv, LifeInv, NEW t \in Threads, NapiDisable(t)
  PROVE  TodoInv' /\ LifeInv'
<1>1. Taken(t, "napi_disable") /\ "napi_disable" \in Steps
  BY DEF NapiDisable, Taken, Steps
<1>2. /\ Moves(t) /\ Left(t) = {"napi_disable"} \union (Left(t))'
      /\ ~(At(t, "resize"))' /\ ~(At(t, "free_irq"))'
      /\ ~(At(t, "free_rings"))'
  BY <1>1, TakenMoves
<1>3. /\ t = "user" =>
              \/ (Left(t))' = {"quiesce", "reset", "free_irq", "free_rings"}
              \/ (Left(t))' = {"quiesce", "reset", "free_irq", "free_rings", "dev_open"}
              \/ (Left(t))' = {"quiesce", "reset", "configure", "clear_down", "napi_enable", "start", "give"}
              \/ (Left(t))' = {"quiesce", "reset", "resize", "configure", "clear_down", "napi_enable", "start", "give"}
      /\ t = "task" =>
              (Left(t))' = {"quiesce", "reset", "configure", "clear_down", "napi_enable", "start", "give"}
      /\ t = "device" =>
              \/ (Left(t))' = {"quiesce", "reset", "free_irq", "free_rings", "clear_scheme"}
              \/ (Left(t))' = {"quiesce", "reset", "free_irq", "free_rings", "free_netdev"}
              \/ (Left(t))' = {"quiesce", "reset", "slot_reset", "io_resume"}
  <2>1. Follows(t, "napi_disable", (Left(t))')
    BY <1>1, TakenMoves
  <2> QED BY <2>1, NapiDisableLeft
<1>4. /\ net'.present = net.present /\ net'.running = net.running /\ net'.attached = net.attached
      /\ net'.asleep = net.asleep /\ net'.rings = net.rings /\ net'.down = net.down
      /\ ints'.irq = ints.irq /\ ints'.dma = ints.dma /\ ints'.isr = ints.isr
      /\ jobs'.armed = jobs.armed /\ jobs'.work = jobs.work /\ jobs'.wd = jobs.wd
      /\ ints.napi \in {"none", "on"} /\ ints'.napi = (IF ints.napi = "on" THEN "off" ELSE ints.napi) /\ raced' = raced
  BY DEF NapiDisable, TypeOK, NetType, IntsType, JobsType
<1>5. PlaceInv /\ VectorInv /\ HoldInv /\ AgainInv /\ IrqInv /\ (~raced => RingInv /\ EndInv)
  BY DEF LifeInv
<1>6. PlaceInv'
  BY <1>2, <1>3, <1>4, <1>5, SMTT(20) DEF Moves, PlaceInv, InDevice
<1>7. VectorInv'
  BY <1>2, <1>3, <1>4, <1>5, SMTT(20) DEF Moves, VectorInv, PlaceInv, IrqInv, InDevice
<1>8. HoldInv'
  BY <1>2, <1>3, <1>4, <1>5, HoldersAre, HoldersOne, SMTT(20) DEF Moves, HoldInv, Holds, VectorInv, PlaceInv,
    IrqInv, Resting, Stopped, Recovering, OpenFailed, InDevice, Threads
<1>9. AgainInv'
  BY <1>2, <1>3, <1>4, <1>5, HoldersAre, SMTT(20) DEF Moves, PlaceInv, VectorInv, HoldInv, AgainInv, Holds, Whole,
    OpenFailed, InDevice, Threads
<1>10. IrqInv'
  BY <1>2, <1>3, <1>4, <1>5, HoldersAre, SMTT(20) DEF Moves, IrqInv, PlaceInv, OpenFailed, InDevice, VectorInv,
    HoldInv, Holds, Resting, Threads, Recovering, Stopped
<1>11. ASSUME ~raced' PROVE RingInv'
  <2>1. RingInv /\ EndInv
    BY <1>4, <1>5, <1>11 DEF TypeOK
  <2> QED BY <1>1, <1>2, <1>3, <1>4, <1>5, <2>1, HoldersAre, SMTT(20) DEF Taken, RingInv, Moves, VectorInv, HoldInv,
      EndInv, PlaceInv, Holds, Resting, Threads, Recovering, Stopped, InDevice, Touching
<1>12. ASSUME ~raced' PROVE EndInv'
  <2>1. RingInv /\ EndInv
    BY <1>4, <1>5, <1>12 DEF TypeOK
  <2> QED BY <1>2, <1>3, <1>4, <1>5, <1>12, <2>1, LastFacts, SMTT(20) DEF Moves, EndInv, Leaving, InDevice, PlaceInv
<1> QED BY <1>2, <1>6, <1>7, <1>8, <1>9, <1>10, <1>11, <1>12 DEF LifeInv, Moves

LEMMA NapiEnableKeeps ==
  ASSUME TypeOK, TodoInv, LifeInv, NEW t \in Threads, NapiEnable(t)
  PROVE  TodoInv' /\ LifeInv'
<1>1. Taken(t, "napi_enable") /\ "napi_enable" \in Steps
  BY DEF NapiEnable, Taken, Steps
<1>2. /\ Moves(t) /\ Left(t) = {"napi_enable"} \union (Left(t))'
      /\ ~(At(t, "resize"))' /\ ~(At(t, "free_irq"))'
      /\ ~(At(t, "free_rings"))'
  BY <1>1, TakenMoves
<1>3. /\ t = "user" =>
              \/ (Left(t))' = {"start", "give"}
              \/ (Left(t))' = {"start_masked"}
      /\ t = "task" =>
              (Left(t))' = {"start", "give"}
      /\ t = "device" =>
              \/ (Left(t))' = {"start", "attach"}
              \/ (Left(t))' = {"start_masked", "attach", "thaw"}
  <2>1. Follows(t, "napi_enable", (Left(t))')
    BY <1>1, TakenMoves
  <2> QED BY <2>1, NapiEnableLeft
<1>4. /\ net'.present = net.present /\ net'.running = net.running /\ net'.attached = net.attached
      /\ net'.asleep = net.asleep /\ net'.rings = net.rings /\ net'.down = net.down
      /\ ints'.irq = ints.irq /\ ints'.dma = ints.dma /\ ints'.isr = ints.isr
      /\ jobs'.armed = jobs.armed /\ jobs'.work = jobs.work /\ jobs'.wd = jobs.wd
      /\ ints'.napi = (IF ints.napi = "none" THEN "none" ELSE "on") /\ raced' = raced
  BY DEF NapiEnable, TypeOK, NetType, IntsType, JobsType
<1>5. PlaceInv /\ VectorInv /\ HoldInv /\ AgainInv /\ IrqInv /\ (~raced => RingInv /\ EndInv)
  BY DEF LifeInv
<1>6. PlaceInv'
  BY <1>2, <1>3, <1>4, <1>5, SMTT(20) DEF Moves, PlaceInv, InDevice
<1>7. VectorInv'
  BY <1>2, <1>3, <1>4, <1>5, SMTT(20) DEF Moves, VectorInv, PlaceInv, IrqInv, InDevice
<1>8. HoldInv'
  BY <1>2, <1>3, <1>4, <1>5, HoldersAre, HoldersOne, SMTT(20) DEF Moves, HoldInv, Holds, VectorInv, PlaceInv,
    IrqInv, Resting, Stopped, Recovering, OpenFailed, InDevice, Threads
<1>9. AgainInv'
  BY <1>2, <1>3, <1>4, <1>5, HoldersAre, SMTT(20) DEF Moves, PlaceInv, VectorInv, HoldInv, AgainInv, Holds, Whole,
    OpenFailed, InDevice, Threads
<1>10. IrqInv'
  BY <1>2, <1>3, <1>4, <1>5, HoldersAre, SMTT(20) DEF Moves, IrqInv, PlaceInv, OpenFailed, InDevice, VectorInv,
    HoldInv, Holds, Resting, Threads, Recovering, Stopped
<1>11. ASSUME ~raced' PROVE RingInv'
  <2>1. RingInv /\ EndInv
    BY <1>4, <1>5, <1>11 DEF TypeOK
  <2> QED BY <1>1, <1>2, <1>3, <1>4, <1>5, <2>1, HoldersAre, SMTT(20) DEF Taken, RingInv, Moves, VectorInv, HoldInv,
      EndInv, PlaceInv, Holds, Resting, Threads, Recovering, Stopped, InDevice, Touching
<1>12. ASSUME ~raced' PROVE EndInv'
  <2>1. RingInv /\ EndInv
    BY <1>4, <1>5, <1>12 DEF TypeOK
  <2> QED BY <1>2, <1>3, <1>4, <1>5, <1>12, <2>1, LastFacts, SMTT(20) DEF Moves, EndInv, Leaving, InDevice, PlaceInv
<1> QED BY <1>2, <1>6, <1>7, <1>8, <1>9, <1>10, <1>11, <1>12 DEF LifeInv, Moves

LEMMA ClearDownKeeps ==
  ASSUME TypeOK, TodoInv, LifeInv, NEW t \in Threads, ClearDown(t)
  PROVE  TodoInv' /\ LifeInv'
<1>1. Taken(t, "clear_down") /\ "clear_down" \in Steps
  BY DEF ClearDown, Taken, Steps
<1>2. /\ Moves(t) /\ Left(t) = {"clear_down"} \union (Left(t))'
      /\ ~(At(t, "resize"))' /\ ~(At(t, "free_irq"))'
      /\ ~(At(t, "free_rings"))'
  BY <1>1, TakenMoves
<1>3. /\ t = "user" =>
              \/ (Left(t))' = {"napi_enable", "start", "give"}
              \/ (Left(t))' = {"napi_enable", "start_masked"}
      /\ t = "task" =>
              (Left(t))' = {"napi_enable", "start", "give"}
      /\ t = "device" =>
              \/ (Left(t))' = {"napi_enable", "start", "attach"}
              \/ (Left(t))' = {"napi_enable", "start_masked", "attach", "thaw"}
  <2>1. Follows(t, "clear_down", (Left(t))')
    BY <1>1, TakenMoves
  <2> QED BY <2>1, ClearDownLeft
<1>4. /\ net'.present = net.present /\ net'.running = net.running /\ net'.attached = net.attached
      /\ net'.asleep = net.asleep /\ net'.rings = net.rings /\ ints'.napi = ints.napi
      /\ ints'.irq = ints.irq /\ ints'.dma = ints.dma /\ ints'.isr = ints.isr
      /\ jobs'.armed = jobs.armed /\ jobs'.work = jobs.work /\ jobs'.wd = jobs.wd
      /\ ~net'.down /\ raced' = (raced \/ Removing)
  BY DEF ClearDown, TypeOK, NetType, IntsType, JobsType
<1>5. PlaceInv /\ VectorInv /\ HoldInv /\ AgainInv /\ IrqInv /\ (~raced => RingInv /\ EndInv)
  BY DEF LifeInv
<1>6. PlaceInv'
  BY <1>2, <1>3, <1>4, <1>5, SMTT(20) DEF Moves, PlaceInv, InDevice
<1>7. VectorInv'
  BY <1>2, <1>3, <1>4, <1>5, SMTT(20) DEF Moves, VectorInv, PlaceInv, IrqInv, InDevice
<1>8. HoldInv'
  BY <1>2, <1>3, <1>4, <1>5, HoldersAre, HoldersOne, SMTT(20) DEF Moves, HoldInv, Holds, VectorInv, PlaceInv,
    IrqInv, Resting, Stopped, Recovering, OpenFailed, InDevice, Threads
<1>9. AgainInv'
  BY <1>2, <1>3, <1>4, <1>5, HoldersAre, SMTT(20) DEF Moves, PlaceInv, VectorInv, HoldInv, AgainInv, Holds, Whole,
    OpenFailed, InDevice, Threads
<1>10. IrqInv'
  BY <1>2, <1>3, <1>4, <1>5, HoldersAre, SMTT(20) DEF Moves, IrqInv, PlaceInv, OpenFailed, InDevice, VectorInv,
    HoldInv, Holds, Resting, Threads, Recovering, Stopped
<1>11. ASSUME ~raced' PROVE RingInv'
  <2>1. RingInv /\ EndInv
    BY <1>4, <1>5, <1>11 DEF TypeOK
  <2> QED BY <1>1, <1>2, <1>3, <1>4, <1>5, <2>1, HoldersAre, SMTT(20) DEF Taken, RingInv, Moves, VectorInv, HoldInv,
      EndInv, PlaceInv, Holds, Resting, Threads, Recovering, Stopped, InDevice, Touching
<1>12. ASSUME ~raced' PROVE EndInv'
  <2>1. RingInv /\ EndInv
    BY <1>4, <1>5, <1>12 DEF TypeOK
  <2>2. (Leaving("set_down"))' => net'.down
    <3>1. ~Removing
      BY <1>4, <1>12
    <3>2. ~InDevice("unregister") /\ ~InDevice("free_netdev")
      BY <3>1, LastFacts
    <3> QED BY <1>2, <1>3, <1>4, <1>5, <2>1, <3>2 DEF Moves, EndInv, Leaving, InDevice, PlaceInv
  <2>3. (Leaving("del_timer"))' => ~jobs'.armed
    BY <1>2, <1>3, <1>4, <1>5, <2>1, SMTT(20) DEF Moves, EndInv, Leaving, InDevice, PlaceInv
  <2>4. (Leaving("flush"))' => jobs'.work = {} /\ jobs'.wd = "idle" /\ (Idle("task"))'
    BY <1>2, <1>3, <1>4, <1>5, <1>12, <2>1, LastFacts, SMTT(20) DEF Moves, EndInv, Leaving, InDevice, PlaceInv
  <2>5. ints'.napi = "none" => (Idle("task"))' /\ "reset" \notin jobs'.work
    BY <1>2, <1>3, <1>4, <1>5, <1>12, <2>1, SMTT(20) DEF Moves, EndInv, Leaving, InDevice, PlaceInv
  <2> QED BY <2>2, <2>3, <2>4, <2>5 DEF EndInv
<1> QED BY <1>2, <1>6, <1>7, <1>8, <1>9, <1>10, <1>11, <1>12 DEF LifeInv, Moves

LEMMA NotOpenKeeps ==
  ASSUME TypeOK, TodoInv, LifeInv, NEW t \in Threads, NotOpen(t)
  PROVE  TodoInv' /\ LifeInv'
<1>1. Taken(t, "not_open") /\ "not_open" \in Steps
  BY DEF NotOpen, Taken, Steps
<1>2. /\ Moves(t) /\ Left(t) = {"not_open"} \union (Left(t))'
      /\ ~(At(t, "resize"))' /\ ~(At(t, "free_irq"))'
      /\ ~(At(t, "free_rings"))'
  BY <1>1, TakenMoves
<1>3. /\ t = "user" =>
              \/ (Left(t))' = {}
              \/ (Left(t))' = {"stop", "napi_disable", "quiesce", "reset", "free_irq", "free_rings"}
              \/ (Left(t))' = {"stop", "napi_disable", "quiesce", "reset", "free_irq", "free_rings", "dev_open"}
      /\ t # "task"
      /\ t # "device"
  <2>1. Follows(t, "not_open", (Left(t))')
    BY <1>1, TakenMoves
  <2> QED BY <2>1, NotOpenLeft
<1>4. /\ net'.present = net.present /\ net'.attached = net.attached /\ net'.asleep = net.asleep
      /\ net'.rings = net.rings /\ net'.down = net.down /\ ints'.napi = ints.napi
      /\ ints'.irq = ints.irq /\ ints'.dma = ints.dma /\ ints'.isr = ints.isr
      /\ jobs'.armed = jobs.armed /\ jobs'.work = jobs.work /\ jobs'.wd = jobs.wd
      /\ ~net'.running /\ raced' = raced
  BY DEF NotOpen, TypeOK, NetType, IntsType, JobsType
<1>5. PlaceInv /\ VectorInv /\ HoldInv /\ AgainInv /\ IrqInv /\ (~raced => RingInv /\ EndInv)
  BY DEF LifeInv
<1>6. PlaceInv'
  BY <1>2, <1>3, <1>4, <1>5, SMTT(20) DEF Moves, PlaceInv, InDevice
<1>7. VectorInv'
  BY <1>2, <1>3, <1>4, <1>5, SMTT(20) DEF Moves, VectorInv, PlaceInv, IrqInv, InDevice
<1>8. HoldInv'
  BY <1>2, <1>3, <1>4, <1>5, HoldersAre, HoldersOne, SMTT(20) DEF Moves, HoldInv, Holds, VectorInv, PlaceInv,
    IrqInv, Resting, Stopped, Recovering, OpenFailed, InDevice, Threads
<1>9. AgainInv'
  BY <1>2, <1>3, <1>4, <1>5, HoldersAre, SMTT(20) DEF Moves, PlaceInv, VectorInv, HoldInv, AgainInv, Holds, Whole,
    OpenFailed, InDevice, Threads
<1>10. IrqInv'
  BY <1>2, <1>3, <1>4, <1>5, HoldersAre, SMTT(20) DEF Moves, IrqInv, PlaceInv, OpenFailed, InDevice, VectorInv,
    HoldInv, Holds, Resting, Threads, Recovering, Stopped
<1>11. ASSUME ~raced' PROVE RingInv'
  <2>1. RingInv /\ EndInv
    BY <1>4, <1>5, <1>11 DEF TypeOK
  <2> QED BY <1>1, <1>2, <1>3, <1>4, <1>5, <2>1, HoldersAre, SMTT(20) DEF Taken, RingInv, Moves, VectorInv, HoldInv,
      EndInv, PlaceInv, Holds, Resting, Threads, Recovering, Stopped, InDevice, Touching
<1>12. ASSUME ~raced' PROVE EndInv'
  <2>1. RingInv /\ EndInv
    BY <1>4, <1>5, <1>12 DEF TypeOK
  <2> QED BY <1>2, <1>3, <1>4, <1>5, <1>12, <2>1, LastFacts, SMTT(20) DEF Moves, EndInv, Leaving, InDevice, PlaceInv
<1> QED BY <1>2, <1>6, <1>7, <1>8, <1>9, <1>10, <1>11, <1>12 DEF LifeInv, Moves

LEMMA FreeIrqKeeps ==
  ASSUME TypeOK, TodoInv, LifeInv, NEW t \in Threads, FreeIrq(t)
  PROVE  TodoInv' /\ LifeInv'
<1>1. Taken(t, "free_irq") /\ "free_irq" \in Steps
  BY DEF FreeIrq, Taken, Steps
<1>2. /\ Moves(t) /\ Left(t) = {"free_irq"} \union (Left(t))'
      /\ ~(At(t, "resize"))' /\ ~(At(t, "free_irq"))'
  BY <1>1, TakenMoves
<1>3. /\ t = "user" =>
              \/ (Left(t))' = {"free_rings"}
              \/ (Left(t))' = {"free_rings", "reset", "dev_open"}
      /\ t # "task"
      /\ t = "device" =>
              \/ (Left(t))' = {"free_rings", "clear_scheme"}
              \/ (Left(t))' = {"free_rings", "free_netdev"}
  <2>1. Follows(t, "free_irq", (Left(t))')
    BY <1>1, TakenMoves
  <2> QED BY <2>1, FreeIrqLeft
<1>4. /\ net'.present = net.present /\ net'.running = net.running /\ net'.attached = net.attached
      /\ net'.asleep = net.asleep /\ net'.rings = net.rings /\ net'.down = net.down
      /\ ints'.napi = ints.napi /\ ints'.dma = ints.dma /\ ints'.isr = ints.isr
      /\ jobs'.armed = jobs.armed /\ jobs'.work = jobs.work /\ jobs'.wd = jobs.wd
      /\ ~ints'.irq /\ ints.isr = "idle" /\ raced' = raced
  BY DEF FreeIrq, TypeOK, NetType, IntsType, JobsType
<1>5. PlaceInv /\ VectorInv /\ HoldInv /\ AgainInv /\ IrqInv /\ (~raced => RingInv /\ EndInv)
  BY DEF LifeInv
<1>6. PlaceInv'
  BY <1>2, <1>3, <1>4, <1>5, SMTT(20) DEF Moves, PlaceInv, InDevice
<1>7. VectorInv'
  BY <1>2, <1>3, <1>4, <1>5, SMTT(20) DEF Moves, VectorInv, PlaceInv, IrqInv, InDevice
<1>8. HoldInv'
  BY <1>2, <1>3, <1>4, <1>5, HoldersAre, HoldersOne, SMTT(20) DEF Moves, HoldInv, Holds, VectorInv, PlaceInv,
    IrqInv, Resting, Stopped, Recovering, OpenFailed, InDevice, Threads
<1>9. AgainInv'
  BY <1>2, <1>3, <1>4, <1>5, HoldersAre, SMTT(20) DEF Moves, PlaceInv, VectorInv, HoldInv, AgainInv, Holds, Whole,
    OpenFailed, InDevice, Threads
<1>10. IrqInv'
  BY <1>2, <1>3, <1>4, <1>5, HoldersAre, SMTT(20) DEF Moves, IrqInv, PlaceInv, OpenFailed, InDevice, VectorInv,
    HoldInv, Holds, Resting, Threads, Recovering, Stopped
<1>11. ASSUME ~raced' PROVE RingInv'
  <2>1. RingInv /\ EndInv
    BY <1>4, <1>5, <1>11 DEF TypeOK
  <2> QED BY <1>1, <1>2, <1>3, <1>4, <1>5, <2>1, HoldersAre, SMTT(20) DEF Taken, RingInv, Moves, VectorInv, HoldInv,
      EndInv, PlaceInv, Holds, Resting, Threads, Recovering, Stopped, InDevice, Touching
<1>12. ASSUME ~raced' PROVE EndInv'
  <2>1. RingInv /\ EndInv
    BY <1>4, <1>5, <1>12 DEF TypeOK
  <2> QED BY <1>2, <1>3, <1>4, <1>5, <1>12, <2>1, LastFacts, SMTT(20) DEF Moves, EndInv, Leaving, InDevice, PlaceInv
<1> QED BY <1>2, <1>6, <1>7, <1>8, <1>9, <1>10, <1>11, <1>12 DEF LifeInv, Moves

LEMMA FreeRingsKeeps ==
  ASSUME TypeOK, TodoInv, LifeInv, NEW t \in Threads, FreeRings(t)
  PROVE  TodoInv' /\ LifeInv'
<1>1. Taken(t, "free_rings") /\ "free_rings" \in Steps
  BY DEF FreeRings, Taken, Steps
<1>2. /\ Moves(t) /\ Left(t) = {"free_rings"} \union (Left(t))'
      /\ ~(At(t, "resize"))' /\ ~(At(t, "free_irq"))'
      /\ ~(At(t, "free_rings"))'
  BY <1>1, TakenMoves
<1>3. /\ t = "user" =>
              \/ (Left(t))' = {}
              \/ (Left(t))' = {"reset", "dev_open"}
      /\ t # "task"
      /\ t = "device" =>
              \/ (Left(t))' = {"clear_scheme"}
              \/ (Left(t))' = {"free_netdev"}
  <2>1. Follows(t, "free_rings", (Left(t))')
    BY <1>1, TakenMoves
  <2> QED BY <2>1, FreeRingsLeft
<1>4. /\ net'.present = net.present /\ net'.running = net.running /\ net'.attached = net.attached
      /\ net'.asleep = net.asleep /\ net'.down = net.down /\ ints'.napi = ints.napi
      /\ ints'.irq = ints.irq /\ ints'.dma = ints.dma /\ ints'.isr = ints.isr
      /\ jobs'.armed = jobs.armed /\ jobs'.work = jobs.work /\ jobs'.wd = jobs.wd
      /\ ~net'.rings /\ raced' = raced
  BY DEF FreeRings, TypeOK, NetType, IntsType, JobsType
<1>5. PlaceInv /\ VectorInv /\ HoldInv /\ AgainInv /\ IrqInv /\ (~raced => RingInv /\ EndInv)
  BY DEF LifeInv
<1>6. PlaceInv'
  BY <1>2, <1>3, <1>4, <1>5, SMTT(20) DEF Moves, PlaceInv, InDevice
<1>7. VectorInv'
  BY <1>2, <1>3, <1>4, <1>5, SMTT(20) DEF Moves, VectorInv, PlaceInv, IrqInv, InDevice
<1>8. HoldInv'
  BY <1>2, <1>3, <1>4, <1>5, HoldersAre, HoldersOne, SMTT(20) DEF Moves, HoldInv, Holds, VectorInv, PlaceInv,
    IrqInv, Resting, Stopped, Recovering, OpenFailed, InDevice, Threads
<1>9. AgainInv'
  BY <1>2, <1>3, <1>4, <1>5, HoldersAre, SMTT(20) DEF Moves, PlaceInv, VectorInv, HoldInv, AgainInv, Holds, Whole,
    OpenFailed, InDevice, Threads
<1>10. IrqInv'
  BY <1>2, <1>3, <1>4, <1>5, HoldersAre, SMTT(20) DEF Moves, IrqInv, PlaceInv, OpenFailed, InDevice, VectorInv,
    HoldInv, Holds, Resting, Threads, Recovering, Stopped
<1>11. ASSUME ~raced' PROVE RingInv'
  <2>1. RingInv /\ EndInv
    BY <1>4, <1>5, <1>11 DEF TypeOK
  <2> QED BY <1>1, <1>2, <1>3, <1>4, <1>5, <2>1, HoldersAre, SMTT(20) DEF Taken, RingInv, Moves, VectorInv, HoldInv,
      EndInv, PlaceInv, Holds, Resting, Threads, Recovering, Stopped, InDevice, Touching
<1>12. ASSUME ~raced' PROVE EndInv'
  <2>1. RingInv /\ EndInv
    BY <1>4, <1>5, <1>12 DEF TypeOK
  <2> QED BY <1>2, <1>3, <1>4, <1>5, <1>12, <2>1, LastFacts, SMTT(20) DEF Moves, EndInv, Leaving, InDevice, PlaceInv
<1> QED BY <1>2, <1>6, <1>7, <1>8, <1>9, <1>10, <1>11, <1>12 DEF LifeInv, Moves

LEMMA DetachKeeps ==
  ASSUME TypeOK, TodoInv, LifeInv, NEW t \in Threads, Detach(t)
  PROVE  TodoInv' /\ LifeInv'
<1>1. Taken(t, "detach") /\ "detach" \in Steps
  BY DEF Detach, Taken, Steps
<1>2. /\ Moves(t) /\ Left(t) = {"detach"} \union (Left(t))'
      /\ ~(At(t, "resize"))' /\ ~(At(t, "free_irq"))'
      /\ ~(At(t, "free_rings"))'
  BY <1>1, TakenMoves
<1>3. /\ t # "user"
      /\ t # "task"
      /\ t = "device" =>
              \/ (Left(t))' = {"clear_scheme"}
              \/ (Left(t))' = {"stop", "napi_disable", "quiesce", "reset", "free_irq", "free_rings", "clear_scheme"}
  <2>1. Follows(t, "detach", (Left(t))')
    BY <1>1, TakenMoves
  <2> QED BY <2>1 DEF Follows, Threads
<1>4. /\ net'.present = net.present /\ net'.running = net.running /\ net'.asleep = net.asleep
      /\ net'.rings = net.rings /\ net'.down = net.down /\ ints'.napi = ints.napi
      /\ ints'.irq = ints.irq /\ ints'.dma = ints.dma /\ ints'.isr = ints.isr
      /\ jobs'.armed = jobs.armed /\ jobs'.work = jobs.work /\ jobs'.wd = jobs.wd
      /\ ~net'.attached /\ raced' = raced
  BY DEF Detach, TypeOK, NetType, IntsType, JobsType
<1>5. PlaceInv /\ VectorInv /\ HoldInv /\ AgainInv /\ IrqInv /\ (~raced => RingInv /\ EndInv)
  BY DEF LifeInv
<1>6. PlaceInv'
  BY <1>2, <1>3, <1>4, <1>5, SMTT(20) DEF Moves, PlaceInv, InDevice
<1>7. VectorInv'
  BY <1>2, <1>3, <1>4, <1>5, SMTT(20) DEF Moves, VectorInv, PlaceInv, IrqInv, InDevice
<1>8. HoldInv'
  BY <1>2, <1>3, <1>4, <1>5, HoldersAre, HoldersOne, SMTT(20) DEF Moves, HoldInv, Holds, VectorInv, PlaceInv,
    IrqInv, Resting, Stopped, Recovering, OpenFailed, InDevice, Threads
<1>9. AgainInv'
  BY <1>2, <1>3, <1>4, <1>5, HoldersAre, SMTT(20) DEF Moves, PlaceInv, VectorInv, HoldInv, AgainInv, Holds, Whole,
    OpenFailed, InDevice, Threads
<1>10. IrqInv'
  BY <1>2, <1>3, <1>4, <1>5, HoldersAre, SMTT(20) DEF Moves, IrqInv, PlaceInv, OpenFailed, InDevice, VectorInv,
    HoldInv, Holds, Resting, Threads, Recovering, Stopped
<1>11. ASSUME ~raced' PROVE RingInv'
  <2>1. RingInv /\ EndInv
    BY <1>4, <1>5, <1>11 DEF TypeOK
  <2> QED BY <1>1, <1>2, <1>3, <1>4, <1>5, <2>1, HoldersAre, SMTT(20) DEF Taken, RingInv, Moves, VectorInv, HoldInv,
      EndInv, PlaceInv, Holds, Resting, Threads, Recovering, Stopped, InDevice, Touching
<1>12. ASSUME ~raced' PROVE EndInv'
  <2>1. RingInv /\ EndInv
    BY <1>4, <1>5, <1>12 DEF TypeOK
  <2> QED BY <1>2, <1>3, <1>4, <1>5, <1>12, <2>1, LastFacts, SMTT(20) DEF Moves, EndInv, Leaving, InDevice, PlaceInv
<1> QED BY <1>2, <1>6, <1>7, <1>8, <1>9, <1>10, <1>11, <1>12 DEF LifeInv, Moves

LEMMA ClearSchemeKeeps ==
  ASSUME TypeOK, TodoInv, LifeInv, NEW t \in Threads, ClearScheme(t)
  PROVE  TodoInv' /\ LifeInv'
<1>1. Taken(t, "clear_scheme") /\ "clear_scheme" \in Steps
  BY DEF ClearScheme, Taken, Steps
<1>2. /\ Moves(t) /\ Left(t) = {"clear_scheme"} \union (Left(t))'
      /\ ~(At(t, "resize"))' /\ ~(At(t, "free_irq"))'
      /\ ~(At(t, "free_rings"))'
  BY <1>1, TakenMoves
<1>3. /\ t # "user"
      /\ t # "task"
      /\ t = "device" =>
              (Left(t))' = {}
  <2>1. Follows(t, "clear_scheme", (Left(t))')
    BY <1>1, TakenMoves
  <2> QED BY <2>1 DEF Follows, Threads
<1>4. /\ net'.present = net.present /\ net'.running = net.running /\ net'.attached = net.attached
      /\ net'.rings = net.rings /\ net'.down = net.down /\ ints'.irq = ints.irq
      /\ ints'.dma = ints.dma /\ ints'.isr = ints.isr /\ jobs'.armed = jobs.armed
      /\ jobs'.work = jobs.work /\ jobs'.wd = jobs.wd /\ net'.asleep
      /\ ints'.napi = "none" /\ raced' = (raced \/ ~Idle("task") \/ "reset" \in jobs.work)
  BY DEF ClearScheme, TypeOK, NetType, IntsType, JobsType
<1>5. PlaceInv /\ VectorInv /\ HoldInv /\ AgainInv /\ IrqInv /\ (~raced => RingInv /\ EndInv)
  BY DEF LifeInv
<1>6. PlaceInv'
  BY <1>2, <1>3, <1>4, <1>5, SMTT(20) DEF Moves, PlaceInv, InDevice
<1>7. VectorInv'
  BY <1>2, <1>3, <1>4, <1>5, SMTT(20) DEF Moves, VectorInv, PlaceInv, IrqInv, InDevice
<1>8. HoldInv'
  BY <1>2, <1>3, <1>4, <1>5, HoldersAre, HoldersOne, SMTT(20) DEF Moves, HoldInv, Holds, VectorInv, PlaceInv,
    IrqInv, Resting, Stopped, Recovering, OpenFailed, InDevice, Threads
<1>9. AgainInv'
  BY <1>2, <1>3, <1>4, <1>5, HoldersAre, SMTT(20) DEF Moves, PlaceInv, VectorInv, HoldInv, AgainInv, Holds, Whole,
    OpenFailed, InDevice, Threads
<1>10. IrqInv'
  BY <1>2, <1>3, <1>4, <1>5, HoldersAre, SMTT(20) DEF Moves, IrqInv, PlaceInv, OpenFailed, InDevice, VectorInv,
    HoldInv, Holds, Resting, Threads, Recovering, Stopped
<1>11. ASSUME ~raced' PROVE RingInv'
  <2>1. RingInv /\ EndInv
    BY <1>4, <1>5, <1>11 DEF TypeOK
  <2> QED BY <1>1, <1>2, <1>3, <1>4, <1>5, <2>1, HoldersAre, SMTT(20) DEF Taken, RingInv, Moves, VectorInv, HoldInv,
      EndInv, PlaceInv, Holds, Resting, Threads, Recovering, Stopped, InDevice, Touching
<1>12. ASSUME ~raced' PROVE EndInv'
  <2>1. RingInv /\ EndInv
    BY <1>4, <1>5, <1>12 DEF TypeOK
  <2>2. (Leaving("set_down"))' => net'.down
    BY <1>2, <1>3, <1>4, <1>5, <1>12, <2>1, LastFacts, SMTT(20) DEF Moves, EndInv, Leaving, InDevice, PlaceInv
  <2>3. (Leaving("del_timer"))' => ~jobs'.armed
    BY <1>2, <1>3, <1>4, <1>5, <2>1, SMTT(20) DEF Moves, EndInv, Leaving, InDevice, PlaceInv
  <2>4. (Leaving("flush"))' => jobs'.work = {} /\ jobs'.wd = "idle" /\ (Idle("task"))'
    BY <1>2, <1>3, <1>4, <1>5, <1>12, <2>1, LastFacts, SMTT(20) DEF Moves, EndInv, Leaving, InDevice, PlaceInv
  <2>5. ints'.napi = "none" => (Idle("task"))' /\ "reset" \notin jobs'.work
    <3>1. Idle("task") /\ "reset" \notin jobs.work
      BY <1>4, <1>12
    <3> QED BY <1>2, <1>4, <3>1 DEF Moves
  <2> QED BY <2>2, <2>3, <2>4, <2>5 DEF EndInv
<1> QED BY <1>2, <1>6, <1>7, <1>8, <1>9, <1>10, <1>11, <1>12 DEF LifeInv, Moves

LEMMA ThawKeeps ==
  ASSUME TypeOK, TodoInv, LifeInv, NEW t \in Threads, Thaw(t)
  PROVE  TodoInv' /\ LifeInv'
<1>1. Taken(t, "thaw") /\ "thaw" \in Steps
  BY DEF Thaw, Taken, Steps
<1>2. /\ Moves(t) /\ Left(t) = {"thaw"} \union (Left(t))'
      /\ ~(At(t, "resize"))' /\ ~(At(t, "free_irq"))'
      /\ ~(At(t, "free_rings"))'
  BY <1>1, TakenMoves
<1>3. /\ t # "user"
      /\ t # "task"
      /\ t = "device" =>
              (Left(t))' = {}
  <2>1. Follows(t, "thaw", (Left(t))')
    BY <1>1, TakenMoves
  <2> QED BY <2>1 DEF Follows, Threads
<1>4. /\ net'.present = net.present /\ net'.running = net.running /\ net'.attached = net.attached
      /\ net'.rings = net.rings /\ net'.down = net.down /\ ints'.napi = ints.napi
      /\ ints'.irq = ints.irq /\ ints'.dma = ints.dma /\ ints'.isr = ints.isr
      /\ jobs'.armed = jobs.armed /\ jobs'.work = jobs.work /\ jobs'.wd = jobs.wd
      /\ ~net'.asleep /\ raced' = raced
  BY DEF Thaw, TypeOK, NetType, IntsType, JobsType
<1>5. PlaceInv /\ VectorInv /\ HoldInv /\ AgainInv /\ IrqInv /\ (~raced => RingInv /\ EndInv)
  BY DEF LifeInv
<1>6. PlaceInv'
  BY <1>2, <1>3, <1>4, <1>5, SMTT(20) DEF Moves, PlaceInv, InDevice
<1>7. VectorInv'
  BY <1>2, <1>3, <1>4, <1>5, SMTT(20) DEF Moves, VectorInv, PlaceInv, IrqInv, InDevice
<1>8. HoldInv'
  BY <1>2, <1>3, <1>4, <1>5, HoldersAre, HoldersOne, SMTT(20) DEF Moves, HoldInv, Holds, VectorInv, PlaceInv,
    IrqInv, Resting, Stopped, Recovering, OpenFailed, InDevice, Threads
<1>9. AgainInv'
  BY <1>2, <1>3, <1>4, <1>5, HoldersAre, SMTT(20) DEF Moves, PlaceInv, VectorInv, HoldInv, AgainInv, Holds, Whole,
    OpenFailed, InDevice, Threads
<1>10. IrqInv'
  BY <1>2, <1>3, <1>4, <1>5, HoldersAre, SMTT(20) DEF Moves, IrqInv, PlaceInv, OpenFailed, InDevice, VectorInv,
    HoldInv, Holds, Resting, Threads, Recovering, Stopped
<1>11. ASSUME ~raced' PROVE RingInv'
  <2>1. RingInv /\ EndInv
    BY <1>4, <1>5, <1>11 DEF TypeOK
  <2> QED BY <1>1, <1>2, <1>3, <1>4, <1>5, <2>1, HoldersAre, SMTT(20) DEF Taken, RingInv, Moves, VectorInv, HoldInv,
      EndInv, PlaceInv, Holds, Resting, Threads, Recovering, Stopped, InDevice, Touching
<1>12. ASSUME ~raced' PROVE EndInv'
  <2>1. RingInv /\ EndInv
    BY <1>4, <1>5, <1>12 DEF TypeOK
  <2> QED BY <1>2, <1>3, <1>4, <1>5, <1>12, <2>1, LastFacts, SMTT(20) DEF Moves, EndInv, Leaving, InDevice, PlaceInv
<1> QED BY <1>2, <1>6, <1>7, <1>8, <1>9, <1>10, <1>11, <1>12 DEF LifeInv, Moves

LEMMA AttachKeeps ==
  ASSUME TypeOK, TodoInv, LifeInv, NEW t \in Threads, Attach(t)
  PROVE  TodoInv' /\ LifeInv'
<1>1. Taken(t, "attach") /\ "attach" \in Steps
  BY DEF Attach, Taken, Steps
<1>2. /\ Moves(t) /\ Left(t) = {"attach"} \union (Left(t))'
      /\ ~(At(t, "resize"))' /\ ~(At(t, "free_irq"))'
      /\ ~(At(t, "free_rings"))'
  BY <1>1, TakenMoves
<1>3. /\ t # "user"
      /\ t # "task"
      /\ t = "device" =>
              \/ (Left(t))' = {}
              \/ (Left(t))' = {"thaw"}
  <2>1. Follows(t, "attach", (Left(t))')
    BY <1>1, TakenMoves
  <2> QED BY <2>1 DEF Follows, Threads
<1>4. /\ net'.present = net.present /\ net'.running = net.running /\ net'.asleep = net.asleep
      /\ net'.rings = net.rings /\ net'.down = net.down /\ ints'.napi = ints.napi
      /\ ints'.irq = ints.irq /\ ints'.dma = ints.dma /\ ints'.isr = ints.isr
      /\ jobs'.armed = jobs.armed /\ jobs'.work = jobs.work /\ jobs'.wd = jobs.wd
      /\ net'.attached /\ raced' = raced
  BY DEF Attach, TypeOK, NetType, IntsType, JobsType
<1>5. PlaceInv /\ VectorInv /\ HoldInv /\ AgainInv /\ IrqInv /\ (~raced => RingInv /\ EndInv)
  BY DEF LifeInv
<1>6. PlaceInv'
  BY <1>2, <1>3, <1>4, <1>5, SMTT(20) DEF Moves, PlaceInv, InDevice
<1>7. VectorInv'
  BY <1>2, <1>3, <1>4, <1>5, SMTT(20) DEF Moves, VectorInv, PlaceInv, IrqInv, InDevice
<1>8. HoldInv'
  BY <1>2, <1>3, <1>4, <1>5, HoldersAre, HoldersOne, SMTT(20) DEF Moves, HoldInv, Holds, VectorInv, PlaceInv,
    IrqInv, Resting, Stopped, Recovering, OpenFailed, InDevice, Threads
<1>9. AgainInv'
  BY <1>2, <1>3, <1>4, <1>5, HoldersAre, SMTT(20) DEF Moves, PlaceInv, VectorInv, HoldInv, AgainInv, Holds, Whole,
    OpenFailed, InDevice, Threads
<1>10. IrqInv'
  BY <1>2, <1>3, <1>4, <1>5, HoldersAre, SMTT(20) DEF Moves, IrqInv, PlaceInv, OpenFailed, InDevice, VectorInv,
    HoldInv, Holds, Resting, Threads, Recovering, Stopped
<1>11. ASSUME ~raced' PROVE RingInv'
  <2>1. RingInv /\ EndInv
    BY <1>4, <1>5, <1>11 DEF TypeOK
  <2> QED BY <1>1, <1>2, <1>3, <1>4, <1>5, <2>1, HoldersAre, SMTT(20) DEF Taken, RingInv, Moves, VectorInv, HoldInv,
      EndInv, PlaceInv, Holds, Resting, Threads, Recovering, Stopped, InDevice, Touching
<1>12. ASSUME ~raced' PROVE EndInv'
  <2>1. RingInv /\ EndInv
    BY <1>4, <1>5, <1>12 DEF TypeOK
  <2> QED BY <1>2, <1>3, <1>4, <1>5, <1>12, <2>1, LastFacts, SMTT(20) DEF Moves, EndInv, Leaving, InDevice, PlaceInv
<1> QED BY <1>2, <1>6, <1>7, <1>8, <1>9, <1>10, <1>11, <1>12 DEF LifeInv, Moves

LEMMA SetDownKeeps ==
  ASSUME TypeOK, TodoInv, LifeInv, NEW t \in Threads, SetDown(t)
  PROVE  TodoInv' /\ LifeInv'
<1>1. Taken(t, "set_down") /\ "set_down" \in Steps
  BY DEF SetDown, Taken, Steps
<1>2. /\ Moves(t) /\ Left(t) = {"set_down"} \union (Left(t))'
      /\ ~(At(t, "resize"))' /\ ~(At(t, "free_irq"))'
      /\ ~(At(t, "free_rings"))'
  BY <1>1, TakenMoves
<1>3. /\ t # "user"
      /\ t # "task"
      /\ t = "device" =>
              (Left(t))' = {"del_timer", "flush", "unregister"}
  <2>1. Follows(t, "set_down", (Left(t))')
    BY <1>1, TakenMoves
  <2> QED BY <2>1 DEF Follows, Threads
<1>4. /\ net'.present = net.present /\ net'.running = net.running /\ net'.attached = net.attached
      /\ net'.asleep = net.asleep /\ net'.rings = net.rings /\ ints'.napi = ints.napi
      /\ ints'.irq = ints.irq /\ ints'.dma = ints.dma /\ ints'.isr = ints.isr
      /\ jobs'.armed = jobs.armed /\ jobs'.work = jobs.work /\ jobs'.wd = jobs.wd
      /\ net'.down /\ raced' = raced
  BY DEF SetDown, TypeOK, NetType, IntsType, JobsType
<1>5. PlaceInv /\ VectorInv /\ HoldInv /\ AgainInv /\ IrqInv /\ (~raced => RingInv /\ EndInv)
  BY DEF LifeInv
<1>6. PlaceInv'
  BY <1>2, <1>3, <1>4, <1>5, SMTT(20) DEF Moves, PlaceInv, InDevice
<1>7. VectorInv'
  BY <1>2, <1>3, <1>4, <1>5, SMTT(20) DEF Moves, VectorInv, PlaceInv, IrqInv, InDevice
<1>8. HoldInv'
  BY <1>2, <1>3, <1>4, <1>5, HoldersAre, HoldersOne, SMTT(20) DEF Moves, HoldInv, Holds, VectorInv, PlaceInv,
    IrqInv, Resting, Stopped, Recovering, OpenFailed, InDevice, Threads
<1>9. AgainInv'
  BY <1>2, <1>3, <1>4, <1>5, HoldersAre, SMTT(20) DEF Moves, PlaceInv, VectorInv, HoldInv, AgainInv, Holds, Whole,
    OpenFailed, InDevice, Threads
<1>10. IrqInv'
  BY <1>2, <1>3, <1>4, <1>5, HoldersAre, SMTT(20) DEF Moves, IrqInv, PlaceInv, OpenFailed, InDevice, VectorInv,
    HoldInv, Holds, Resting, Threads, Recovering, Stopped
<1>11. ASSUME ~raced' PROVE RingInv'
  <2>1. RingInv /\ EndInv
    BY <1>4, <1>5, <1>11 DEF TypeOK
  <2> QED BY <1>1, <1>2, <1>3, <1>4, <1>5, <2>1, HoldersAre, SMTT(20) DEF Taken, RingInv, Moves, VectorInv, HoldInv,
      EndInv, PlaceInv, Holds, Resting, Threads, Recovering, Stopped, InDevice, Touching
<1>12. ASSUME ~raced' PROVE EndInv'
  <2>1. RingInv /\ EndInv
    BY <1>4, <1>5, <1>12 DEF TypeOK
  <2> QED BY <1>2, <1>3, <1>4, <1>5, <1>12, <2>1, LastFacts, SMTT(20) DEF Moves, EndInv, Leaving, InDevice, PlaceInv
<1> QED BY <1>2, <1>6, <1>7, <1>8, <1>9, <1>10, <1>11, <1>12 DEF LifeInv, Moves

LEMMA DelTimerKeeps ==
  ASSUME TypeOK, TodoInv, LifeInv, NEW t \in Threads, DelTimer(t)
  PROVE  TodoInv' /\ LifeInv'
<1>1. Taken(t, "del_timer") /\ "del_timer" \in Steps
  BY DEF DelTimer, Taken, Steps
<1>2. /\ Moves(t) /\ Left(t) = {"del_timer"} \union (Left(t))'
      /\ ~(At(t, "resize"))' /\ ~(At(t, "free_irq"))'
      /\ ~(At(t, "free_rings"))'
  BY <1>1, TakenMoves
<1>3. /\ t # "user"
      /\ t # "task"
      /\ t = "device" =>
              (Left(t))' = {"flush", "unregister"}
  <2>1. Follows(t, "del_timer", (Left(t))')
    BY <1>1, TakenMoves
  <2> QED BY <2>1 DEF Follows, Threads
<1>4. /\ net'.present = net.present /\ net'.running = net.running /\ net'.attached = net.attached
      /\ net'.asleep = net.asleep /\ net'.rings = net.rings /\ net'.down = net.down
      /\ ints'.napi = ints.napi /\ ints'.irq = ints.irq /\ ints'.dma = ints.dma
      /\ ints'.isr = ints.isr /\ jobs'.work = jobs.work /\ jobs'.wd = jobs.wd
      /\ ~jobs'.armed /\ raced' = raced
  BY DEF DelTimer, TypeOK, NetType, IntsType, JobsType
<1>5. PlaceInv /\ VectorInv /\ HoldInv /\ AgainInv /\ IrqInv /\ (~raced => RingInv /\ EndInv)
  BY DEF LifeInv
<1>6. PlaceInv'
  BY <1>2, <1>3, <1>4, <1>5, SMTT(20) DEF Moves, PlaceInv, InDevice
<1>7. VectorInv'
  BY <1>2, <1>3, <1>4, <1>5, SMTT(20) DEF Moves, VectorInv, PlaceInv, IrqInv, InDevice
<1>8. HoldInv'
  BY <1>2, <1>3, <1>4, <1>5, HoldersAre, HoldersOne, SMTT(20) DEF Moves, HoldInv, Holds, VectorInv, PlaceInv,
    IrqInv, Resting, Stopped, Recovering, OpenFailed, InDevice, Threads
<1>9. AgainInv'
  BY <1>2, <1>3, <1>4, <1>5, HoldersAre, SMTT(20) DEF Moves, PlaceInv, VectorInv, HoldInv, AgainInv, Holds, Whole,
    OpenFailed, InDevice, Threads
<1>10. IrqInv'
  BY <1>2, <1>3, <1>4, <1>5, HoldersAre, SMTT(20) DEF Moves, IrqInv, PlaceInv, OpenFailed, InDevice, VectorInv,
    HoldInv, Holds, Resting, Threads, Recovering, Stopped
<1>11. ASSUME ~raced' PROVE RingInv'
  <2>1. RingInv /\ EndInv
    BY <1>4, <1>5, <1>11 DEF TypeOK
  <2> QED BY <1>1, <1>2, <1>3, <1>4, <1>5, <2>1, HoldersAre, SMTT(20) DEF Taken, RingInv, Moves, VectorInv, HoldInv,
      EndInv, PlaceInv, Holds, Resting, Threads, Recovering, Stopped, InDevice, Touching
<1>12. ASSUME ~raced' PROVE EndInv'
  <2>1. RingInv /\ EndInv
    BY <1>4, <1>5, <1>12 DEF TypeOK
  <2> QED BY <1>2, <1>3, <1>4, <1>5, <1>12, <2>1, LastFacts, SMTT(20) DEF Moves, EndInv, Leaving, InDevice, PlaceInv
<1> QED BY <1>2, <1>6, <1>7, <1>8, <1>9, <1>10, <1>11, <1>12 DEF LifeInv, Moves

LEMMA FlushKeeps ==
  ASSUME TypeOK, TodoInv, LifeInv, NEW t \in Threads, Flush(t)
  PROVE  TodoInv' /\ LifeInv'
<1>1. Taken(t, "flush") /\ "flush" \in Steps
  BY DEF Flush, Taken, Steps
<1>2. /\ Moves(t) /\ Left(t) = {"flush"} \union (Left(t))'
      /\ ~(At(t, "resize"))' /\ ~(At(t, "free_irq"))'
      /\ ~(At(t, "free_rings"))'
  BY <1>1, TakenMoves
<1>3. /\ t # "user"
      /\ t # "task"
      /\ t = "device" =>
              (Left(t))' = {"unregister"}
  <2>1. Follows(t, "flush", (Left(t))')
    BY <1>1, TakenMoves
  <2> QED BY <2>1 DEF Follows, Threads
<1>4. /\ net'.present = net.present /\ net'.running = net.running /\ net'.attached = net.attached
      /\ net'.asleep = net.asleep /\ net'.rings = net.rings /\ net'.down = net.down
      /\ ints'.napi = ints.napi /\ ints'.irq = ints.irq /\ ints'.dma = ints.dma
      /\ ints'.isr = ints.isr /\ jobs'.armed = jobs.armed /\ jobs'.work = jobs.work
      /\ jobs'.wd = jobs.wd /\ jobs.work = {} /\ jobs.wd = "idle"
      /\ Idle("task") /\ raced' = raced
  BY DEF Flush, TypeOK, NetType, IntsType, JobsType
<1>5. PlaceInv /\ VectorInv /\ HoldInv /\ AgainInv /\ IrqInv /\ (~raced => RingInv /\ EndInv)
  BY DEF LifeInv
<1>6. PlaceInv'
  BY <1>2, <1>3, <1>4, <1>5, SMTT(20) DEF Moves, PlaceInv, InDevice
<1>7. VectorInv'
  BY <1>2, <1>3, <1>4, <1>5, SMTT(20) DEF Moves, VectorInv, PlaceInv, IrqInv, InDevice
<1>8. HoldInv'
  BY <1>2, <1>3, <1>4, <1>5, HoldersAre, HoldersOne, SMTT(20) DEF Moves, HoldInv, Holds, VectorInv, PlaceInv,
    IrqInv, Resting, Stopped, Recovering, OpenFailed, InDevice, Threads
<1>9. AgainInv'
  BY <1>2, <1>3, <1>4, <1>5, HoldersAre, SMTT(20) DEF Moves, PlaceInv, VectorInv, HoldInv, AgainInv, Holds, Whole,
    OpenFailed, InDevice, Threads
<1>10. IrqInv'
  BY <1>2, <1>3, <1>4, <1>5, HoldersAre, SMTT(20) DEF Moves, IrqInv, PlaceInv, OpenFailed, InDevice, VectorInv,
    HoldInv, Holds, Resting, Threads, Recovering, Stopped
<1>11. ASSUME ~raced' PROVE RingInv'
  <2>1. RingInv /\ EndInv
    BY <1>4, <1>5, <1>11 DEF TypeOK
  <2> QED BY <1>1, <1>2, <1>3, <1>4, <1>5, <2>1, HoldersAre, SMTT(20) DEF Taken, RingInv, Moves, VectorInv, HoldInv,
      EndInv, PlaceInv, Holds, Resting, Threads, Recovering, Stopped, InDevice, Touching
<1>12. ASSUME ~raced' PROVE EndInv'
  <2>1. RingInv /\ EndInv
    BY <1>4, <1>5, <1>12 DEF TypeOK
  <2> QED BY <1>2, <1>3, <1>4, <1>5, <1>12, <2>1, LastFacts, SMTT(20) DEF Moves, EndInv, Leaving, InDevice, PlaceInv
<1> QED BY <1>2, <1>6, <1>7, <1>8, <1>9, <1>10, <1>11, <1>12 DEF LifeInv, Moves

LEMMA FreeNetdevKeeps ==
  ASSUME TypeOK, TodoInv, LifeInv, NEW t \in Threads, FreeNetdev(t)
  PROVE  TodoInv' /\ LifeInv'
<1>1. Taken(t, "free_netdev") /\ "free_netdev" \in Steps
  BY DEF FreeNetdev, Taken, Steps
<1>2. /\ Moves(t) /\ Left(t) = {"free_netdev"} \union (Left(t))'
      /\ ~(At(t, "resize"))' /\ ~(At(t, "free_irq"))'
      /\ ~(At(t, "free_rings"))'
  BY <1>1, TakenMoves
<1>3. /\ t # "user"
      /\ t # "task"
      /\ t = "device" =>
              (Left(t))' = {}
  <2>1. Follows(t, "free_netdev", (Left(t))')
    BY <1>1, TakenMoves
  <2> QED BY <2>1 DEF Follows, Threads
<1>4. /\ net'.present = net.present /\ net'.running = net.running /\ net'.attached = net.attached
      /\ net'.asleep = net.asleep /\ net'.rings = net.rings /\ net'.down = net.down
      /\ ints'.irq = ints.irq /\ ints'.dma = ints.dma /\ ints'.isr = ints.isr
      /\ jobs'.armed = jobs.armed /\ jobs'.work = jobs.work /\ jobs'.wd = jobs.wd
      /\ ints'.napi = "none" /\ raced' = raced
  BY DEF FreeNetdev, TypeOK, NetType, IntsType, JobsType
<1>5. PlaceInv /\ VectorInv /\ HoldInv /\ AgainInv /\ IrqInv /\ (~raced => RingInv /\ EndInv)
  BY DEF LifeInv
<1>6. PlaceInv'
  BY <1>2, <1>3, <1>4, <1>5, SMTT(20) DEF Moves, PlaceInv, InDevice
<1>7. VectorInv'
  BY <1>2, <1>3, <1>4, <1>5, SMTT(20) DEF Moves, VectorInv, PlaceInv, IrqInv, InDevice
<1>8. HoldInv'
  BY <1>2, <1>3, <1>4, <1>5, HoldersAre, HoldersOne, SMTT(20) DEF Moves, HoldInv, Holds, VectorInv, PlaceInv,
    IrqInv, Resting, Stopped, Recovering, OpenFailed, InDevice, Threads
<1>9. AgainInv'
  BY <1>2, <1>3, <1>4, <1>5, HoldersAre, SMTT(20) DEF Moves, PlaceInv, VectorInv, HoldInv, AgainInv, Holds, Whole,
    OpenFailed, InDevice, Threads
<1>10. IrqInv'
  BY <1>2, <1>3, <1>4, <1>5, HoldersAre, SMTT(20) DEF Moves, IrqInv, PlaceInv, OpenFailed, InDevice, VectorInv,
    HoldInv, Holds, Resting, Threads, Recovering, Stopped
<1>11. ASSUME ~raced' PROVE RingInv'
  <2>1. RingInv /\ EndInv
    BY <1>4, <1>5, <1>11 DEF TypeOK
  <2> QED BY <1>1, <1>2, <1>3, <1>4, <1>5, <2>1, HoldersAre, SMTT(20) DEF Taken, RingInv, Moves, VectorInv, HoldInv,
      EndInv, PlaceInv, Holds, Resting, Threads, Recovering, Stopped, InDevice, Touching
<1>12. ASSUME ~raced' PROVE EndInv'
  <2>1. RingInv /\ EndInv
    BY <1>4, <1>5, <1>12 DEF TypeOK
  <2> QED BY <1>2, <1>3, <1>4, <1>5, <1>12, <2>1, LastFacts, SMTT(20) DEF Moves, EndInv, Leaving, InDevice, PlaceInv
<1> QED BY <1>2, <1>6, <1>7, <1>8, <1>9, <1>10, <1>11, <1>12 DEF LifeInv, Moves

(* A step in the middle of a call is in the grammar too. *)
LEMMA InLeft ==
  ASSUME TodoInv, NEW t \in Threads, NEW y \in Left(t)
  PROVE  \E left \in SUBSET Left(t) : Follows(t, y, left)
<1> DEFINE s == todo[t]
<1>1. s \in Seq(Steps) /\ \A k \in 1..Len(s) : Follows(t, s[k], Rest(s, k) \union {})
  BY DEF TodoInv, Shaped
<1>2. Left(t) = {s[i] : i \in (0 + 1)..Len(s)}
  BY DEF Left, Rest
<1>3. PICK k \in 1..Len(s) : s[k] = y
  BY <1>2
<1>4. Len(s) \in Nat
  BY <1>1
<1> HIDE DEF s
<1>5. Rest(s, k) \subseteq Left(t)
  <2>1. (k + 1)..Len(s) \subseteq (0 + 1)..Len(s)
    BY <1>4
  <2> QED BY <1>2, <2>1 DEF Rest
<1>6. Rest(s, k) \union {} = Rest(s, k)
  OBVIOUS
<1> QED BY <1>1, <1>3, <1>5, <1>6

LEMMA InDeviceToo ==
  ASSUME TodoInv
  PROVE  /\ InDevice("free_irq") \/ InDevice("free_rings") => InDevice("clear_scheme") \/ InDevice("free_netdev")
         /\ InDevice("set_down") => InDevice("del_timer")
         /\ InDevice("del_timer") => InDevice("flush")
<1>1. "device" \in Threads
  BY DEF Threads
<1>2. ASSUME InDevice("free_irq") PROVE InDevice("clear_scheme") \/ InDevice("free_netdev")
  <2>1. PICK left \in SUBSET Left("device") : Follows("device", "free_irq", left)
    BY <1>1, <1>2, InLeft DEF InDevice
  <2> QED BY <1>1, <2>1, FreeIrqLeft DEF InDevice
<1>3. ASSUME InDevice("set_down") PROVE InDevice("del_timer")
  <2>1. PICK left \in SUBSET Left("device") : Follows("device", "set_down", left)
    BY <1>1, <1>3, InLeft DEF InDevice
  <2> QED BY <2>1 DEF InDevice, Follows
<1>4. ASSUME InDevice("del_timer") PROVE InDevice("flush")
  <2>1. PICK left \in SUBSET Left("device") : Follows("device", "del_timer", left)
    BY <1>1, <1>4, InLeft DEF InDevice
  <2> QED BY <2>1 DEF InDevice, Follows
<1>5. ASSUME InDevice("free_rings") PROVE InDevice("clear_scheme") \/ InDevice("free_netdev")
  <2>1. PICK left \in SUBSET Left("device") : Follows("device", "free_rings", left)
    BY <1>1, <1>5, InLeft DEF InDevice
  <2> QED BY <1>1, <2>1, FreeRingsLeft DEF InDevice
<1> QED BY <1>2, <1>3, <1>4, <1>5

LEMMA RingsSetupKeeps ==
  ASSUME TypeOK, TodoInv, LifeInv, NEW t \in Threads, Taken(t, "setup_rings"),
         net' = [net EXCEPT !.rings = TRUE], UNCHANGED <<ints, jobs, raced>>
  PROVE  TodoInv' /\ LifeInv'
<1>1. Taken(t, "setup_rings") /\ "setup_rings" \in Steps
  BY DEF Taken, Steps
<1>2. /\ Moves(t) /\ Left(t) = {"setup_rings"} \union (Left(t))'
      /\ ~(At(t, "resize"))' /\ ~(At(t, "free_irq"))'
      /\ ~(At(t, "free_rings"))'
  BY <1>1, TakenMoves
<1>3. /\ t = "user" =>
              (Left(t))' = {"configure", "request_irq", "clear_down", "napi_enable", "start_masked"}
      /\ t # "task"
      /\ t = "device" =>
              (Left(t))' = {"configure", "request_irq", "clear_down", "napi_enable", "start_masked", "attach", "thaw"}
  <2>1. Follows(t, "setup_rings", (Left(t))')
    BY <1>1, TakenMoves
  <2> QED BY <2>1, SetupRingsLeft
<1>4. /\ net'.present = net.present /\ net'.running = net.running /\ net'.attached = net.attached
      /\ net'.asleep = net.asleep /\ net'.down = net.down /\ ints'.napi = ints.napi
      /\ ints'.irq = ints.irq /\ ints'.dma = ints.dma /\ ints'.isr = ints.isr
      /\ jobs'.armed = jobs.armed /\ jobs'.work = jobs.work /\ jobs'.wd = jobs.wd
      /\ net'.rings /\ raced' = raced
  BY DEF TypeOK, NetType, IntsType, JobsType
<1>5. PlaceInv /\ VectorInv /\ HoldInv /\ AgainInv /\ IrqInv /\ (~raced => RingInv /\ EndInv)
  BY DEF LifeInv
<1>6. PlaceInv'
  BY <1>2, <1>3, <1>4, <1>5, SMTT(20) DEF Moves, PlaceInv, InDevice
<1>7. VectorInv'
  BY <1>2, <1>3, <1>4, <1>5, SMTT(20) DEF Moves, VectorInv, PlaceInv, IrqInv, InDevice
<1>8. HoldInv'
  BY <1>2, <1>3, <1>4, <1>5, HoldersAre, HoldersOne, SMTT(20) DEF Moves, HoldInv, Holds, VectorInv, PlaceInv,
    IrqInv, Resting, Stopped, Recovering, OpenFailed, InDevice, Threads
<1>9. AgainInv'
  BY <1>2, <1>3, <1>4, <1>5, HoldersAre, SMTT(20) DEF Moves, PlaceInv, VectorInv, HoldInv, AgainInv, Holds, Whole,
    OpenFailed, InDevice, Threads
<1>10. IrqInv'
  BY <1>2, <1>3, <1>4, <1>5, HoldersAre, SMTT(20) DEF Moves, IrqInv, PlaceInv, OpenFailed, InDevice, VectorInv,
    HoldInv, Holds, Resting, Threads, Recovering, Stopped
<1>11. ASSUME ~raced' PROVE RingInv'
  <2>1. RingInv /\ EndInv
    BY <1>4, <1>5, <1>11 DEF TypeOK
  <2> QED BY <1>1, <1>2, <1>3, <1>4, <1>5, <2>1, HoldersAre, SMTT(20) DEF Taken, RingInv, Moves, VectorInv, HoldInv,
      EndInv, PlaceInv, Holds, Resting, Threads, Recovering, Stopped, InDevice, Touching
<1>12. ASSUME ~raced' PROVE EndInv'
  <2>1. RingInv /\ EndInv
    BY <1>4, <1>5, <1>12 DEF TypeOK
  <2> QED BY <1>2, <1>3, <1>4, <1>5, <1>12, <2>1, LastFacts, SMTT(20) DEF Moves, EndInv, Leaving, InDevice, PlaceInv
<1> QED BY <1>2, <1>6, <1>7, <1>8, <1>9, <1>10, <1>11, <1>12 DEF LifeInv, Moves

LEMMA IrqRequestedKeeps ==
  ASSUME TypeOK, TodoInv, LifeInv, NEW t \in Threads, Taken(t, "request_irq"),
         ints' = [ints EXCEPT !.irq = TRUE], UNCHANGED <<net, jobs, raced>>
  PROVE  TodoInv' /\ LifeInv'
<1>1. Taken(t, "request_irq") /\ "request_irq" \in Steps
  BY DEF Taken, Steps
<1>2. /\ Moves(t) /\ Left(t) = {"request_irq"} \union (Left(t))'
      /\ ~(At(t, "resize"))' /\ ~(At(t, "free_irq"))'
      /\ ~(At(t, "free_rings"))'
  BY <1>1, TakenMoves
<1>3. /\ t = "user" =>
              (Left(t))' = {"clear_down", "napi_enable", "start_masked"}
      /\ t # "task"
      /\ t = "device" =>
              (Left(t))' = {"clear_down", "napi_enable", "start_masked", "attach", "thaw"}
  <2>1. Follows(t, "request_irq", (Left(t))')
    BY <1>1, TakenMoves
  <2> QED BY <2>1, RequestIrqLeft
<1>4. /\ net'.present = net.present /\ net'.running = net.running /\ net'.attached = net.attached
      /\ net'.asleep = net.asleep /\ net'.rings = net.rings /\ net'.down = net.down
      /\ ints'.napi = ints.napi /\ ints'.dma = ints.dma /\ ints'.isr = ints.isr
      /\ jobs'.armed = jobs.armed /\ jobs'.work = jobs.work /\ jobs'.wd = jobs.wd
      /\ ints'.irq /\ raced' = raced
  BY DEF TypeOK, NetType, IntsType, JobsType
<1>5. PlaceInv /\ VectorInv /\ HoldInv /\ AgainInv /\ IrqInv /\ (~raced => RingInv /\ EndInv)
  BY DEF LifeInv
<1>6. PlaceInv'
  BY <1>2, <1>3, <1>4, <1>5, SMTT(20) DEF Moves, PlaceInv, InDevice
<1>7. VectorInv'
  BY <1>2, <1>3, <1>4, <1>5, SMTT(20) DEF Moves, VectorInv, PlaceInv, IrqInv, InDevice
<1>8. HoldInv'
  BY <1>2, <1>3, <1>4, <1>5, HoldersAre, HoldersOne, SMTT(20) DEF Moves, HoldInv, Holds, VectorInv, PlaceInv,
    IrqInv, Resting, Stopped, Recovering, OpenFailed, InDevice, Threads
<1>9. AgainInv'
  BY <1>2, <1>3, <1>4, <1>5, HoldersAre, SMTT(20) DEF Moves, PlaceInv, VectorInv, HoldInv, AgainInv, Holds, Whole,
    OpenFailed, InDevice, Threads
<1>10. IrqInv'
  BY <1>2, <1>3, <1>4, <1>5, HoldersAre, SMTT(20) DEF Moves, IrqInv, PlaceInv, VectorInv, HoldInv, Holds, Resting,
    InDevice, OpenFailed, Threads, Recovering, Stopped
<1>11. ASSUME ~raced' PROVE RingInv'
  <2>1. RingInv /\ EndInv
    BY <1>4, <1>5, <1>11 DEF TypeOK
  <2> QED BY <1>1, <1>2, <1>3, <1>4, <1>5, <2>1, HoldersAre, SMTT(20) DEF Taken, RingInv, Moves, VectorInv, HoldInv,
      EndInv, PlaceInv, Holds, Resting, Threads, Recovering, Stopped, InDevice, Touching
<1>12. ASSUME ~raced' PROVE EndInv'
  <2>1. RingInv /\ EndInv
    BY <1>4, <1>5, <1>12 DEF TypeOK
  <2> QED BY <1>2, <1>3, <1>4, <1>5, <1>12, <2>1, LastFacts, SMTT(20) DEF Moves, EndInv, Leaving, InDevice, PlaceInv
<1> QED BY <1>2, <1>6, <1>7, <1>8, <1>9, <1>10, <1>11, <1>12 DEF LifeInv, Moves

LEMMA NotOpenedKeeps ==
  ASSUME TypeOK, TodoInv, LifeInv, NEW t \in Threads, Taken(t, "dev_open"),
         UNCHANGED <<net, ints, jobs, raced>>
  PROVE  TodoInv' /\ LifeInv'
<1>1. Taken(t, "dev_open") /\ "dev_open" \in Steps
  BY DEF Taken, Steps
<1>2. /\ Moves(t) /\ Left(t) = {"dev_open"} \union (Left(t))'
      /\ ~(At(t, "resize"))' /\ ~(At(t, "free_irq"))'
      /\ ~(At(t, "free_rings"))'
  BY <1>1, TakenMoves
<1>3. /\ t = "user" =>
              (Left(t))' = {}
      /\ t # "task"
      /\ t # "device"
  <2>1. Follows(t, "dev_open", (Left(t))')
    BY <1>1, TakenMoves
  <2> QED BY <2>1 DEF Follows, Threads
<1>4. /\ net'.present = net.present /\ net'.running = net.running /\ net'.attached = net.attached
      /\ net'.asleep = net.asleep /\ net'.rings = net.rings /\ net'.down = net.down
      /\ ints'.napi = ints.napi /\ ints'.irq = ints.irq /\ ints'.dma = ints.dma
      /\ ints'.isr = ints.isr /\ jobs'.armed = jobs.armed /\ jobs'.work = jobs.work
      /\ jobs'.wd = jobs.wd /\ raced' = raced
  BY DEF TypeOK, NetType, IntsType, JobsType
<1>5. PlaceInv /\ VectorInv /\ HoldInv /\ AgainInv /\ IrqInv /\ (~raced => RingInv /\ EndInv)
  BY DEF LifeInv
<1>6. PlaceInv'
  BY <1>2, <1>3, <1>4, <1>5, SMTT(20) DEF Moves, PlaceInv, InDevice
<1>7. VectorInv'
  BY <1>2, <1>3, <1>4, <1>5, SMTT(20) DEF Moves, VectorInv, PlaceInv, IrqInv, InDevice
<1>8. HoldInv'
  BY <1>2, <1>3, <1>4, <1>5, HoldersAre, HoldersOne, SMTT(20) DEF Moves, HoldInv, Holds, VectorInv, PlaceInv,
    IrqInv, Resting, Stopped, Recovering, OpenFailed, InDevice, Threads
<1>9. AgainInv'
  BY <1>2, <1>3, <1>4, <1>5, HoldersAre, SMTT(20) DEF Moves, PlaceInv, VectorInv, HoldInv, AgainInv, Holds, Whole,
    OpenFailed, InDevice, Threads
<1>10. IrqInv'
  BY <1>2, <1>3, <1>4, <1>5, HoldersAre, SMTT(20) DEF Moves, IrqInv, PlaceInv, OpenFailed, InDevice, VectorInv,
    HoldInv, Holds, Resting, Threads, Recovering, Stopped
<1>11. ASSUME ~raced' PROVE RingInv'
  <2>1. RingInv /\ EndInv
    BY <1>4, <1>5, <1>11 DEF TypeOK
  <2> QED BY <1>1, <1>2, <1>3, <1>4, <1>5, <2>1, HoldersAre, SMTT(20) DEF Taken, RingInv, Moves, VectorInv, HoldInv,
      EndInv, PlaceInv, Holds, Resting, Threads, Recovering, Stopped, InDevice, Touching
<1>12. ASSUME ~raced' PROVE EndInv'
  <2>1. RingInv /\ EndInv
    BY <1>4, <1>5, <1>12 DEF TypeOK
  <2> QED BY <1>2, <1>3, <1>4, <1>5, <1>12, <2>1, LastFacts, SMTT(20) DEF Moves, EndInv, Leaving, InDevice, PlaceInv
<1> QED BY <1>2, <1>6, <1>7, <1>8, <1>9, <1>10, <1>11, <1>12 DEF LifeInv, Moves

LEMMA RingsNotSetupKeeps ==
  ASSUME TypeOK, TodoInv, LifeInv, NEW t \in Threads, At(t, "setup_rings"), Fail(t),
         UNCHANGED <<net, ints, jobs, raced>>
  PROVE  TodoInv' /\ LifeInv'
<1>1. \A y \in Touching : ~(At(t, y))'
  BY FailGoes
<1>2. Moves(t)
  <2>1. TodoInv' /\ Others(t)
    BY FailGoes
  <2> QED BY <2>1, MovesOn
<1>3. /\ t = "user" \/ t = "device"
      /\ t = "user" =>
           /\ (Left("user"))' = {"reset", "not_open"}
           /\ {"clear_down", "napi_enable", "request_irq"} \subseteq Left("user")
           /\ "napi_disable" \notin Left("user")
      /\ t = "device" =>
           /\ (Left("device"))' = {"reset", "thaw"}
           /\ {"clear_down", "napi_enable", "request_irq", "attach", "thaw"} \subseteq Left("device")
           /\ Left("device") \cap {"napi_disable", "io_resume", "init_scheme"} = {}
           /\ Left("device") \cap {"clear_scheme", "free_netdev", "free_irq", "free_rings"} = {}
           /\ Left("device") \cap {"unregister", "set_down", "del_timer", "flush"} = {}
  BY FailGoes
<1>4. /\ net'.present = net.present /\ net'.running = net.running /\ net'.attached = net.attached
      /\ net'.asleep = net.asleep /\ net'.rings = net.rings /\ net'.down = net.down
      /\ ints'.napi = ints.napi /\ ints'.irq = ints.irq /\ ints'.dma = ints.dma
      /\ ints'.isr = ints.isr /\ jobs'.armed = jobs.armed /\ jobs'.work = jobs.work
      /\ jobs'.wd = jobs.wd /\ raced' = raced
  BY DEF TypeOK, NetType, IntsType, JobsType
<1>5. PlaceInv /\ VectorInv /\ HoldInv /\ AgainInv /\ IrqInv /\ (~raced => RingInv /\ EndInv)
  BY DEF LifeInv
<1>6. PlaceInv'
  BY <1>2, <1>3, <1>4, <1>5, SMTT(20) DEF Moves, PlaceInv, InDevice
<1>7. VectorInv'
  BY <1>2, <1>3, <1>4, <1>5, SMTT(20) DEF Moves, VectorInv, PlaceInv, IrqInv, InDevice
<1>8. HoldInv'
  BY <1>2, <1>3, <1>4, <1>5, HoldersAre, HoldersOne, SMTT(20) DEF Moves, HoldInv, Holds, VectorInv, PlaceInv,
    IrqInv, Resting, Stopped, Recovering, OpenFailed, InDevice, Threads
<1>9. AgainInv'
  BY <1>2, <1>3, <1>4, <1>5, HoldersAre, SMTT(20) DEF Moves, PlaceInv, VectorInv, HoldInv, AgainInv, Holds, Whole,
    OpenFailed, InDevice, Threads
<1>10. IrqInv'
  BY <1>2, <1>3, <1>4, <1>5, HoldersAre, SMTT(20) DEF Moves, IrqInv, PlaceInv, OpenFailed, InDevice, VectorInv,
    HoldInv, Holds, Resting, Threads, Recovering, Stopped
<1>11. ASSUME ~raced' PROVE RingInv'
  <2>1. RingInv /\ EndInv
    BY <1>4, <1>5, <1>11 DEF TypeOK
  <2> QED BY <1>1, <1>2, <1>3, <1>4, <1>5, <2>1, HoldersAre, SMTT(20) DEF Taken, RingInv, Moves, VectorInv, HoldInv,
      EndInv, PlaceInv, Holds, Resting, Threads, Recovering, Stopped, InDevice, Touching
<1>12. ASSUME ~raced' PROVE EndInv'
  <2>1. RingInv /\ EndInv
    BY <1>4, <1>5, <1>12 DEF TypeOK
  <2> QED BY <1>2, <1>3, <1>4, <1>5, <1>12, <2>1, LastFacts, SMTT(20) DEF Moves, EndInv, Leaving, InDevice, PlaceInv
<1> QED BY <1>2, <1>6, <1>7, <1>8, <1>9, <1>10, <1>11, <1>12 DEF LifeInv, Moves

LEMMA IrqNotRequestedKeeps ==
  ASSUME TypeOK, TodoInv, LifeInv, NEW t \in Threads, At(t, "request_irq"), Fail(t),
         ints' = [ints EXCEPT !.dma = FALSE], net' = [net EXCEPT !.rings = FALSE], UNCHANGED <<jobs, raced>>
  PROVE  TodoInv' /\ LifeInv'
<1>1. \A y \in Touching : ~(At(t, y))'
  BY FailGoes
<1>2. Moves(t)
  <2>1. TodoInv' /\ Others(t)
    BY FailGoes
  <2> QED BY <2>1, MovesOn
<1>3. /\ t = "user" \/ t = "device"
      /\ t = "user" =>
           /\ (Left("user"))' = {"reset", "not_open"}
           /\ {"clear_down", "napi_enable", "request_irq"} \subseteq Left("user")
           /\ "napi_disable" \notin Left("user")
      /\ t = "device" =>
           /\ (Left("device"))' = {"reset", "thaw"}
           /\ {"clear_down", "napi_enable", "request_irq", "attach", "thaw"} \subseteq Left("device")
           /\ Left("device") \cap {"napi_disable", "io_resume", "init_scheme"} = {}
           /\ Left("device") \cap {"clear_scheme", "free_netdev", "free_irq", "free_rings"} = {}
           /\ Left("device") \cap {"unregister", "set_down", "del_timer", "flush"} = {}
  BY FailGoes
<1>4. /\ net'.present = net.present /\ net'.running = net.running /\ net'.attached = net.attached
      /\ net'.asleep = net.asleep /\ net'.down = net.down /\ ints'.napi = ints.napi
      /\ ints'.irq = ints.irq /\ ints'.isr = ints.isr /\ jobs'.armed = jobs.armed
      /\ jobs'.work = jobs.work /\ jobs'.wd = jobs.wd /\ ~net'.rings
      /\ ~ints'.dma /\ raced' = raced
  BY DEF TypeOK, NetType, IntsType, JobsType
<1>5. PlaceInv /\ VectorInv /\ HoldInv /\ AgainInv /\ IrqInv /\ (~raced => RingInv /\ EndInv)
  BY DEF LifeInv
<1>6. PlaceInv'
  BY <1>2, <1>3, <1>4, <1>5, SMTT(20) DEF Moves, PlaceInv, InDevice
<1>7. VectorInv'
  BY <1>2, <1>3, <1>4, <1>5, SMTT(20) DEF Moves, VectorInv, PlaceInv, IrqInv, InDevice
<1>8. HoldInv'
  BY <1>2, <1>3, <1>4, <1>5, HoldersAre, HoldersOne, SMTT(20) DEF Moves, HoldInv, Holds, VectorInv, PlaceInv,
    IrqInv, Resting, Stopped, Recovering, OpenFailed, InDevice, Threads
<1>9. AgainInv'
  BY <1>2, <1>3, <1>4, <1>5, HoldersAre, SMTT(20) DEF Moves, PlaceInv, VectorInv, HoldInv, AgainInv, Holds, Whole,
    OpenFailed, InDevice, Threads
<1>10. IrqInv'
  BY <1>2, <1>3, <1>4, <1>5, HoldersAre, SMTT(20) DEF Moves, IrqInv, PlaceInv, OpenFailed, InDevice, VectorInv,
    HoldInv, Holds, Resting, Threads, Recovering, Stopped
<1>11. ASSUME ~raced' PROVE RingInv'
  <2>1. RingInv /\ EndInv
    BY <1>4, <1>5, <1>11 DEF TypeOK
  <2> QED BY <1>1, <1>2, <1>3, <1>4, <1>5, <2>1, HoldersAre, SMTT(20) DEF Taken, RingInv, Moves, VectorInv, HoldInv,
      EndInv, PlaceInv, Holds, Resting, Threads, Recovering, Stopped, InDevice, Touching
<1>12. ASSUME ~raced' PROVE EndInv'
  <2>1. RingInv /\ EndInv
    BY <1>4, <1>5, <1>12 DEF TypeOK
  <2> QED BY <1>2, <1>3, <1>4, <1>5, <1>12, <2>1, LastFacts, SMTT(20) DEF Moves, EndInv, Leaving, InDevice, PlaceInv
<1> QED BY <1>2, <1>6, <1>7, <1>8, <1>9, <1>10, <1>11, <1>12 DEF LifeInv, Moves

LEMMA UnregisterGoes ==
  ASSUME TodoInv, NEW t \in Threads, At(t, "unregister"),
         Become(t, (IF net.running THEN Close ELSE <<>>) \o <<"free_netdev">>)
  PROVE  /\ TodoInv' /\ Others(t) /\ t = "device" /\ Left("device") = {"unregister"}
         /\ net.running => (Left("device"))' = CloseSteps \union {"free_netdev"}
         /\ ~net.running => (Left("device"))' = {"free_netdev"}
         /\ \A y \in Touching : ~(At(t, y))'
<1>1. t = "device" /\ Left("device") = {"unregister"}
  <2>1. PICK left : Left(t) = {"unregister"} \union left /\ Follows(t, "unregister", left)
    BY HeadFollows DEF Steps
  <2> QED BY <2>1 DEF Follows
<1> DEFINE b == <<"free_netdev">>
           c == Close \o b
<1>2. /\ IsCall("device", c) /\ Rest(c, 0) = CloseSteps \union {"free_netdev"}
      /\ IsCall("device", b) /\ Rest(b, 0) = {"free_netdev"}
  BY ShortCalls
<1>3. CASE net.running
  <2>1. Become(t, c)
    BY <1>3
  <2> HIDE DEF c
  <2> QED BY <1>1, <1>2, <1>3, <2>1, BecomeGoes
<1>4. CASE ~net.running
  <2>1. Become(t, b)
    <3>1. (IF net.running THEN Close ELSE <<>>) = <<>> /\ <<>> \o b = b
      BY <1>4
    <3>2. Become(t, (IF net.running THEN Close ELSE <<>>) \o b)
      OBVIOUS
    <3> HIDE DEF b
    <3> QED BY <3>1, <3>2
  <2> HIDE DEF b
  <2> QED BY <1>1, <1>2, <1>4, <2>1, BecomeGoes
<1> QED BY <1>1, <1>3, <1>4

LEMMA DevOpenedKeeps ==
  ASSUME TypeOK, TodoInv, LifeInv, NEW t \in Threads, At(t, "dev_open"), Expand(t, Open), net.attached,
         net' = [net EXCEPT !.running = TRUE], UNCHANGED <<ints, jobs, raced>>
  PROVE  TodoInv' /\ LifeInv'
<1>1. \A y \in Touching : ~(At(t, y))'
  BY DevOpenGoes
<1>2. Moves(t)
  <2>1. TodoInv' /\ Others(t)
    BY DevOpenGoes
  <2> QED BY <2>1, MovesOn
<1>3. /\ t = "user" /\ Left("user") = {"dev_open"}
      /\ (Left("user"))' = {"setup_rings", "configure", "request_irq", "clear_down", "napi_enable", "start_masked"}
  BY DevOpenGoes DEF OpenSteps
<1>4. /\ net'.present = net.present /\ net'.attached = net.attached /\ net'.asleep = net.asleep
      /\ net'.rings = net.rings /\ net'.down = net.down /\ ints'.napi = ints.napi
      /\ ints'.irq = ints.irq /\ ints'.dma = ints.dma /\ ints'.isr = ints.isr
      /\ jobs'.armed = jobs.armed /\ jobs'.work = jobs.work /\ jobs'.wd = jobs.wd
      /\ net.attached /\ net'.running /\ raced' = raced
  BY DEF TypeOK, NetType, IntsType, JobsType
<1>5. PlaceInv /\ VectorInv /\ HoldInv /\ AgainInv /\ IrqInv /\ (~raced => RingInv /\ EndInv)
      /\ ints.napi = "off" /\ ~Held /\ ~ints.irq /\ ~InDevice("free_rings")
  <2>1. PlaceInv /\ VectorInv /\ HoldInv /\ AgainInv /\ IrqInv /\ (~raced => RingInv /\ EndInv)
    BY DEF LifeInv
  <2>2. ints.napi = "off" /\ ~Held /\ ~ints.irq /\ ~InDevice("free_rings")
    <3>1. net.present /\ ~net.running
      BY <1>2, <1>3, <2>1 DEF Moves, PlaceInv
    <3>2. ~InDevice("clear_scheme") /\ ~InDevice("free_netdev")
      BY <1>2, <1>3, <2>1 DEF Moves, PlaceInv, InDevice
    <3>3. ~InDevice("free_irq") /\ ~InDevice("free_rings")
      BY <3>2, InDeviceToo
    <3>4. Resting
      BY <1>3, <2>1, <3>1 DEF HoldInv
    <3>5. ints.napi = "off" /\ ~Held
      BY <1>4, <2>1, <3>1, <3>4 DEF Resting, VectorInv
    <3>6. ~ints.irq
      BY <1>3, <2>1, <3>1, <3>3 DEF IrqInv, InDevice
    <3> QED BY <3>3, <3>5, <3>6
  <2> QED BY <2>1, <2>2
<1>6. PlaceInv'
  BY <1>2, <1>3, <1>4, <1>5, SMTT(20) DEF Moves, PlaceInv, InDevice
<1>7. VectorInv'
  BY <1>2, <1>3, <1>4, <1>5, SMTT(20) DEF Moves, VectorInv, PlaceInv, IrqInv, InDevice
<1>8. HoldInv'
  BY <1>2, <1>3, <1>4, <1>5, HoldersAre, HoldersOne, SMTT(20) DEF Moves, HoldInv, Holds, VectorInv, PlaceInv,
    IrqInv, Resting, Stopped, Recovering, OpenFailed, InDevice, Threads
<1>9. AgainInv'
  BY <1>2, <1>3, <1>4, <1>5, HoldersAre, SMTT(20) DEF Moves, PlaceInv, VectorInv, HoldInv, AgainInv, Holds, Whole,
    OpenFailed, InDevice, Threads
<1>10. IrqInv'
  BY <1>2, <1>3, <1>4, <1>5, HoldersAre, SMTT(20) DEF Moves, IrqInv, PlaceInv, OpenFailed, InDevice, VectorInv,
    HoldInv, Holds, Resting, Threads, Recovering, Stopped
<1>11. ASSUME ~raced' PROVE RingInv'
  <2>1. RingInv /\ EndInv
    BY <1>4, <1>5, <1>11 DEF TypeOK
  <2> QED BY <1>1, <1>2, <1>3, <1>4, <1>5, <2>1, HoldersAre, SMTT(20) DEF Taken, RingInv, Moves, VectorInv, HoldInv,
      EndInv, PlaceInv, Holds, Resting, Threads, Recovering, Stopped, InDevice, Touching
<1>12. ASSUME ~raced' PROVE EndInv'
  <2>1. RingInv /\ EndInv
    BY <1>4, <1>5, <1>12 DEF TypeOK
  <2> QED BY <1>2, <1>3, <1>4, <1>5, <1>12, <2>1, LastFacts, SMTT(20) DEF Moves, EndInv, Leaving, InDevice, PlaceInv
<1> QED BY <1>2, <1>6, <1>7, <1>8, <1>9, <1>10, <1>11, <1>12 DEF LifeInv, Moves

LEMMA UnregisterKeeps ==
  ASSUME TypeOK, TodoInv, LifeInv, NEW t \in Threads, Unregister(t)
  PROVE  TodoInv' /\ LifeInv'
<1>1. \A y \in Touching : ~(At(t, y))'
  BY UnregisterGoes DEF Unregister
<1>2. Moves(t)
  <2>1. TodoInv' /\ Others(t)
    BY UnregisterGoes DEF Unregister
  <2> QED BY <2>1, MovesOn
<1>3. /\ t = "device" /\ Left("device") = {"unregister"} /\ Idle("user")
      /\ net.running => (Left("device"))' = {"stop", "napi_disable", "quiesce", "reset", "free_irq", "free_rings",
                                             "free_netdev"}
      /\ ~net.running => (Left("device"))' = {"free_netdev"}
  <2>1. DownSteps \union {"free_irq", "free_rings"} \union {"free_netdev"} =
          {"stop", "napi_disable", "quiesce", "reset", "free_irq", "free_rings", "free_netdev"}
    BY DEF DownSteps
  <2> QED BY <2>1, UnregisterGoes DEF Unregister, CloseSteps
<1>4. /\ net'.attached = net.attached /\ net'.asleep = net.asleep /\ net'.rings = net.rings
      /\ net'.down = net.down /\ ints'.napi = ints.napi /\ ints'.irq = ints.irq
      /\ ints'.dma = ints.dma /\ ints'.isr = ints.isr /\ jobs'.armed = jobs.armed
      /\ jobs'.work = jobs.work /\ jobs'.wd = jobs.wd /\ ~net'.running
      /\ ~net'.present /\ raced' = raced
  BY DEF Unregister, TypeOK, NetType, IntsType, JobsType
<1>5. PlaceInv /\ VectorInv /\ HoldInv /\ AgainInv /\ IrqInv /\ (~raced => RingInv /\ EndInv)
  BY DEF LifeInv
<1>6. PlaceInv'
  BY <1>2, <1>3, <1>4, <1>5, SMTT(20) DEF Moves, PlaceInv, InDevice
<1>7. VectorInv'
  BY <1>2, <1>3, <1>4, <1>5, SMTT(20) DEF Moves, VectorInv, PlaceInv, IrqInv, InDevice
<1>8. HoldInv'
  BY <1>2, <1>3, <1>4, <1>5, HoldersAre, HoldersOne, SMTT(20) DEF Moves, HoldInv, Holds, VectorInv, PlaceInv,
    IrqInv, Resting, Stopped, Recovering, OpenFailed, InDevice, Threads
<1>9. AgainInv'
  BY <1>2, <1>3, <1>4, <1>5, HoldersAre, SMTT(20) DEF Moves, PlaceInv, VectorInv, HoldInv, AgainInv, Holds, Whole,
    OpenFailed, InDevice, Threads
<1>10. IrqInv'
  BY <1>2, <1>3, <1>4, <1>5, HoldersAre, SMTT(20) DEF Moves, IrqInv, PlaceInv, OpenFailed, InDevice, VectorInv,
    HoldInv, Holds, Resting, Threads, Recovering, Stopped
<1>11. ASSUME ~raced' PROVE RingInv'
  <2>1. RingInv /\ EndInv
    BY <1>4, <1>5, <1>11 DEF TypeOK
  <2> QED BY <1>1, <1>2, <1>3, <1>4, <1>5, <2>1, HoldersAre, SMTT(20) DEF Taken, RingInv, Moves, VectorInv, HoldInv,
      EndInv, PlaceInv, Holds, Resting, Threads, Recovering, Stopped, InDevice, Touching
<1>12. ASSUME ~raced' PROVE EndInv'
  <2>1. RingInv /\ EndInv
    BY <1>4, <1>5, <1>12 DEF TypeOK
  <2> QED BY <1>2, <1>3, <1>4, <1>5, <1>12, <2>1, LastFacts, SMTT(20) DEF Moves, EndInv, Leaving, InDevice, PlaceInv
<1> QED BY <1>2, <1>6, <1>7, <1>8, <1>9, <1>10, <1>11, <1>12 DEF LifeInv, Moves

LEMMA SchemeInitKeeps ==
  ASSUME TypeOK, TodoInv, LifeInv, NEW t \in Threads, At(t, "init_scheme"),
         Expand(t, <<"reset">> \o (IF net.running THEN Open ELSE <<>>)),
         ints' = [ints EXCEPT !.napi = "off"], UNCHANGED <<net, jobs, raced>>
  PROVE  TodoInv' /\ LifeInv'
<1>1. \A y \in Touching : ~(At(t, y))'
  BY InitSchemeGoes
<1>2. Moves(t)
  <2>1. TodoInv' /\ Others(t)
    BY InitSchemeGoes
  <2> QED BY <2>1, MovesOn
<1>3. /\ t = "device" /\ Left("device") = {"init_scheme", "attach", "thaw"}
      /\ net.running => (Left("device"))' = {"reset", "setup_rings", "configure", "request_irq", "clear_down",
                                             "napi_enable", "start_masked", "attach", "thaw"}
      /\ ~net.running => (Left("device"))' = {"reset", "attach", "thaw"}
  <2>1. {"reset", "attach", "thaw"} \union OpenSteps =
          {"reset", "setup_rings", "configure", "request_irq", "clear_down", "napi_enable", "start_masked", "attach",
           "thaw"}
    BY DEF OpenSteps
  <2> QED BY <2>1, InitSchemeGoes
<1>4. /\ net'.present = net.present /\ net'.running = net.running /\ net'.attached = net.attached
      /\ net'.asleep = net.asleep /\ net'.rings = net.rings /\ net'.down = net.down
      /\ ints'.irq = ints.irq /\ ints'.dma = ints.dma /\ ints'.isr = ints.isr
      /\ jobs'.armed = jobs.armed /\ jobs'.work = jobs.work /\ jobs'.wd = jobs.wd
      /\ ints'.napi = "off" /\ raced' = raced
  BY DEF TypeOK, NetType, IntsType, JobsType
<1>5. PlaceInv /\ VectorInv /\ HoldInv /\ AgainInv /\ IrqInv /\ (~raced => RingInv /\ EndInv)
      /\ Left("user") = {} /\ Left("task") = {}
  <2>1. PlaceInv /\ VectorInv /\ HoldInv /\ AgainInv /\ IrqInv /\ (~raced => RingInv /\ EndInv)
    BY DEF LifeInv
  <2>2. Left("user") = {} /\ Left("task") = {}
    BY <1>2, <1>3, <2>1 DEF Moves, PlaceInv, VectorInv, InDevice
  <2> QED BY <2>1, <2>2
<1>6. PlaceInv'
  BY <1>2, <1>3, <1>4, <1>5, SMTT(20) DEF Moves, PlaceInv, InDevice
<1>7. VectorInv'
  BY <1>2, <1>3, <1>4, <1>5, SMTT(20) DEF Moves, VectorInv, PlaceInv, IrqInv, InDevice
<1>8. HoldInv'
  BY <1>2, <1>3, <1>4, <1>5, HoldersAre, HoldersOne, SMTT(20) DEF Moves, HoldInv, Holds, VectorInv, PlaceInv,
    IrqInv, Resting, Stopped, Recovering, OpenFailed, InDevice, Threads
<1>9. AgainInv'
  BY <1>2, <1>3, <1>4, <1>5, HoldersAre, SMTT(20) DEF Moves, PlaceInv, VectorInv, HoldInv, AgainInv, Holds, Whole,
    OpenFailed, InDevice, Threads
<1>10. IrqInv'
  BY <1>2, <1>3, <1>4, <1>5, HoldersAre, SMTT(20) DEF Moves, IrqInv, PlaceInv, OpenFailed, InDevice, VectorInv,
    HoldInv, Holds, Resting, Threads, Recovering, Stopped
<1>11. ASSUME ~raced' PROVE RingInv'
  <2>1. RingInv /\ EndInv
    BY <1>4, <1>5, <1>11 DEF TypeOK
  <2> QED BY <1>1, <1>2, <1>3, <1>4, <1>5, <2>1, HoldersAre, SMTT(20) DEF Taken, RingInv, Moves, VectorInv, HoldInv,
      EndInv, PlaceInv, Holds, Resting, Threads, Recovering, Stopped, InDevice, Touching
<1>12. ASSUME ~raced' PROVE EndInv'
  <2>1. RingInv /\ EndInv
    BY <1>4, <1>5, <1>12 DEF TypeOK
  <2> QED BY <1>2, <1>3, <1>4, <1>5, <1>12, <2>1, LastFacts, SMTT(20) DEF Moves, EndInv, Leaving, InDevice, PlaceInv
<1> QED BY <1>2, <1>6, <1>7, <1>8, <1>9, <1>10, <1>11, <1>12 DEF LifeInv, Moves

LEMMA SchemeNotInitKeeps ==
  ASSUME TypeOK, TodoInv, LifeInv, NEW t \in Threads, At(t, "init_scheme"), Become(t, <<"thaw">>), UNCHANGED <<net, ints, jobs, raced>>
  PROVE  TodoInv' /\ LifeInv'
<1>1. \A y \in Touching : ~(At(t, y))'
  BY InitSchemeGoes
<1>2. Moves(t)
  <2>1. TodoInv' /\ Others(t)
    BY InitSchemeGoes
  <2> QED BY <2>1, MovesOn
<1>3. /\ t = "device" /\ Left("device") = {"init_scheme", "attach", "thaw"} /\ (Left("device"))' = {"thaw"}
  BY InitSchemeGoes
<1>4. /\ net'.present = net.present /\ net'.running = net.running /\ net'.attached = net.attached
      /\ net'.asleep = net.asleep /\ net'.rings = net.rings /\ net'.down = net.down
      /\ ints'.napi = ints.napi /\ ints'.irq = ints.irq /\ ints'.dma = ints.dma
      /\ ints'.isr = ints.isr /\ jobs'.armed = jobs.armed /\ jobs'.work = jobs.work
      /\ jobs'.wd = jobs.wd /\ raced' = raced
  BY DEF TypeOK, NetType, IntsType, JobsType
<1>5. PlaceInv /\ VectorInv /\ HoldInv /\ AgainInv /\ IrqInv /\ (~raced => RingInv /\ EndInv)
  BY DEF LifeInv
<1>6. PlaceInv'
  BY <1>2, <1>3, <1>4, <1>5, SMTT(20) DEF Moves, PlaceInv, InDevice
<1>7. VectorInv'
  BY <1>2, <1>3, <1>4, <1>5, SMTT(20) DEF Moves, VectorInv, PlaceInv, IrqInv, InDevice
<1>8. HoldInv'
  BY <1>2, <1>3, <1>4, <1>5, HoldersAre, HoldersOne, SMTT(20) DEF Moves, HoldInv, Holds, VectorInv, PlaceInv,
    IrqInv, Resting, Stopped, Recovering, OpenFailed, InDevice, Threads
<1>9. AgainInv'
  BY <1>2, <1>3, <1>4, <1>5, HoldersAre, SMTT(20) DEF Moves, PlaceInv, VectorInv, HoldInv, AgainInv, Holds, Whole,
    OpenFailed, InDevice, Threads
<1>10. IrqInv'
  BY <1>2, <1>3, <1>4, <1>5, HoldersAre, SMTT(20) DEF Moves, IrqInv, PlaceInv, OpenFailed, InDevice, VectorInv,
    HoldInv, Holds, Resting, Threads, Recovering, Stopped
<1>11. ASSUME ~raced' PROVE RingInv'
  <2>1. RingInv /\ EndInv
    BY <1>4, <1>5, <1>11 DEF TypeOK
  <2> QED BY <1>1, <1>2, <1>3, <1>4, <1>5, <2>1, HoldersAre, SMTT(20) DEF Taken, RingInv, Moves, VectorInv, HoldInv,
      EndInv, PlaceInv, Holds, Resting, Threads, Recovering, Stopped, InDevice, Touching
<1>12. ASSUME ~raced' PROVE EndInv'
  <2>1. RingInv /\ EndInv
    BY <1>4, <1>5, <1>12 DEF TypeOK
  <2> QED BY <1>2, <1>3, <1>4, <1>5, <1>12, <2>1, LastFacts, SMTT(20) DEF Moves, EndInv, Leaving, InDevice, PlaceInv
<1> QED BY <1>2, <1>6, <1>7, <1>8, <1>9, <1>10, <1>11, <1>12 DEF LifeInv, Moves

LEMMA ErrorDownKeeps ==
  ASSUME TypeOK, TodoInv, LifeInv, NEW t \in Threads, ErrorDown(t)
  PROVE  TodoInv' /\ LifeInv'
<1>1. \A y \in Touching : ~(At(t, y))'
  BY ErrorDownGoes DEF ErrorDown
<1>2. Moves(t)
  <2>1. TodoInv' /\ Others(t)
    BY ErrorDownGoes DEF ErrorDown
  <2> QED BY <2>1, MovesOn
<1>3. /\ t = "device" /\ Left("device") = {"error_down", "slot_reset", "io_resume"}
      /\ net.running => (Left("device"))' = {"stop", "napi_disable", "quiesce", "reset", "slot_reset", "io_resume"}
      /\ ~net.running => (Left("device"))' = {"slot_reset", "io_resume"}
  <2>1. {"slot_reset", "io_resume"} \union DownSteps =
          {"stop", "napi_disable", "quiesce", "reset", "slot_reset", "io_resume"}
    BY DEF DownSteps
  <2> QED BY <2>1, ErrorDownGoes DEF ErrorDown
<1>4. /\ net'.present = net.present /\ net'.running = net.running /\ net'.attached = net.attached
      /\ net'.asleep = net.asleep /\ net'.rings = net.rings /\ net'.down = net.down
      /\ ints'.napi = ints.napi /\ ints'.irq = ints.irq /\ ints'.dma = ints.dma
      /\ ints'.isr = ints.isr /\ jobs'.armed = jobs.armed /\ jobs'.work = jobs.work
      /\ jobs'.wd = jobs.wd /\ raced' = raced
  BY DEF ErrorDown, TypeOK, NetType, IntsType, JobsType
<1>5. PlaceInv /\ VectorInv /\ HoldInv /\ AgainInv /\ IrqInv /\ (~raced => RingInv /\ EndInv)
  BY DEF LifeInv
<1>6. PlaceInv'
  BY <1>2, <1>3, <1>4, <1>5, SMTT(20) DEF Moves, PlaceInv, InDevice
<1>7. VectorInv'
  BY <1>2, <1>3, <1>4, <1>5, SMTT(20) DEF Moves, VectorInv, PlaceInv, IrqInv, InDevice
<1>8. HoldInv'
  BY <1>2, <1>3, <1>4, <1>5, HoldersAre, HoldersOne, SMTT(20) DEF Moves, HoldInv, Holds, VectorInv, PlaceInv,
    IrqInv, Resting, Stopped, Recovering, OpenFailed, InDevice, Threads
<1>9. AgainInv'
  BY <1>2, <1>3, <1>4, <1>5, HoldersAre, SMTT(20) DEF Moves, PlaceInv, VectorInv, HoldInv, AgainInv, Holds, Whole,
    OpenFailed, InDevice, Threads
<1>10. IrqInv'
  BY <1>2, <1>3, <1>4, <1>5, HoldersAre, SMTT(20) DEF Moves, IrqInv, PlaceInv, OpenFailed, InDevice, VectorInv,
    HoldInv, Holds, Resting, Threads, Recovering, Stopped
<1>11. ASSUME ~raced' PROVE RingInv'
  <2>1. RingInv /\ EndInv
    BY <1>4, <1>5, <1>11 DEF TypeOK
  <2> QED BY <1>1, <1>2, <1>3, <1>4, <1>5, <2>1, HoldersAre, SMTT(20) DEF Taken, RingInv, Moves, VectorInv, HoldInv,
      EndInv, PlaceInv, Holds, Resting, Threads, Recovering, Stopped, InDevice, Touching
<1>12. ASSUME ~raced' PROVE EndInv'
  <2>1. RingInv /\ EndInv
    BY <1>4, <1>5, <1>12 DEF TypeOK
  <2> QED BY <1>2, <1>3, <1>4, <1>5, <1>12, <2>1, LastFacts, SMTT(20) DEF Moves, EndInv, Leaving, InDevice, PlaceInv
<1> QED BY <1>2, <1>6, <1>7, <1>8, <1>9, <1>10, <1>11, <1>12 DEF LifeInv, Moves

LEMMA SlotResetKeeps ==
  ASSUME TypeOK, TodoInv, LifeInv, NEW t \in Threads, SlotReset(t)
  PROVE  TodoInv' /\ LifeInv'
<1>1. \A y \in Touching : ~(At(t, y))'
  BY SlotResetGoes DEF SlotReset
<1>2. Moves(t)
  <2>1. TodoInv' /\ Others(t)
    BY SlotResetGoes DEF SlotReset
  <2> QED BY <2>1, MovesOn
<1>3. /\ t = "device" /\ Left("device") = {"slot_reset", "io_resume"}
      /\ (Left("device"))' = {"reset", "io_resume"} \/ (Left("device"))' = {}
  BY SlotResetGoes DEF SlotReset
<1>4. /\ net'.present = net.present /\ net'.running = net.running /\ net'.attached = net.attached
      /\ net'.asleep = net.asleep /\ net'.rings = net.rings /\ net'.down = net.down
      /\ ints'.napi = ints.napi /\ ints'.irq = ints.irq /\ ints'.dma = ints.dma
      /\ ints'.isr = ints.isr /\ jobs'.armed = jobs.armed /\ jobs'.work = jobs.work
      /\ jobs'.wd = jobs.wd /\ raced' = raced
  BY DEF SlotReset, TypeOK, NetType, IntsType, JobsType
<1>5. PlaceInv /\ VectorInv /\ HoldInv /\ AgainInv /\ IrqInv /\ (~raced => RingInv /\ EndInv)
  BY DEF LifeInv
<1>6. PlaceInv'
  BY <1>2, <1>3, <1>4, <1>5, SMTT(20) DEF Moves, PlaceInv, InDevice
<1>7. VectorInv'
  BY <1>2, <1>3, <1>4, <1>5, SMTT(20) DEF Moves, VectorInv, PlaceInv, IrqInv, InDevice
<1>8. HoldInv'
  BY <1>2, <1>3, <1>4, <1>5, HoldersAre, HoldersOne, SMTT(20) DEF Moves, HoldInv, Holds, VectorInv, PlaceInv,
    IrqInv, Resting, Stopped, Recovering, OpenFailed, InDevice, Threads
<1>9. AgainInv'
  BY <1>2, <1>3, <1>4, <1>5, HoldersAre, SMTT(20) DEF Moves, PlaceInv, VectorInv, HoldInv, AgainInv, Holds, Whole,
    OpenFailed, InDevice, Threads
<1>10. IrqInv'
  BY <1>2, <1>3, <1>4, <1>5, HoldersAre, SMTT(20) DEF Moves, IrqInv, PlaceInv, OpenFailed, InDevice, VectorInv,
    HoldInv, Holds, Resting, Threads, Recovering, Stopped
<1>11. ASSUME ~raced' PROVE RingInv'
  <2>1. RingInv /\ EndInv
    BY <1>4, <1>5, <1>11 DEF TypeOK
  <2> QED BY <1>1, <1>2, <1>3, <1>4, <1>5, <2>1, HoldersAre, SMTT(20) DEF Taken, RingInv, Moves, VectorInv, HoldInv,
      EndInv, PlaceInv, Holds, Resting, Threads, Recovering, Stopped, InDevice, Touching
<1>12. ASSUME ~raced' PROVE EndInv'
  <2>1. RingInv /\ EndInv
    BY <1>4, <1>5, <1>12 DEF TypeOK
  <2> QED BY <1>2, <1>3, <1>4, <1>5, <1>12, <2>1, LastFacts, SMTT(20) DEF Moves, EndInv, Leaving, InDevice, PlaceInv
<1> QED BY <1>2, <1>6, <1>7, <1>8, <1>9, <1>10, <1>11, <1>12 DEF LifeInv, Moves

LEMMA IoResumeKeeps ==
  ASSUME TypeOK, TodoInv, LifeInv, NEW t \in Threads, IoResume(t)
  PROVE  TodoInv' /\ LifeInv'
<1>1. \A y \in Touching : ~(At(t, y))'
  BY IoResumeGoes DEF IoResume
<1>2. Moves(t)
  <2>1. TodoInv' /\ Others(t)
    BY IoResumeGoes DEF IoResume
  <2> QED BY <2>1, MovesOn
<1>3. /\ t = "device" /\ Left("device") = {"io_resume"}
      /\ net.running => (Left("device"))' = {"configure", "clear_down", "napi_enable", "start", "attach"}
      /\ ~net.running => (Left("device"))' = {"attach"}
  BY IoResumeGoes DEF IoResume
<1>4. /\ net'.present = net.present /\ net'.running = net.running /\ net'.attached = net.attached
      /\ net'.asleep = net.asleep /\ net'.rings = net.rings /\ net'.down = net.down
      /\ ints'.napi = ints.napi /\ ints'.irq = ints.irq /\ ints'.dma = ints.dma
      /\ ints'.isr = ints.isr /\ jobs'.armed = jobs.armed /\ jobs'.work = jobs.work
      /\ jobs'.wd = jobs.wd /\ raced' = raced
  BY DEF IoResume, TypeOK, NetType, IntsType, JobsType
<1>5. PlaceInv /\ VectorInv /\ HoldInv /\ AgainInv /\ IrqInv /\ (~raced => RingInv /\ EndInv)
      /\ ~OpenFailed /\ (net.running => ints.napi = "off" /\ ~Held)
  <2>1. PlaceInv /\ VectorInv /\ HoldInv /\ AgainInv /\ IrqInv /\ (~raced => RingInv /\ EndInv)
    BY DEF LifeInv
  <2>2. ~OpenFailed /\ (net.running => ints.napi = "off" /\ ~Held)
    <3>1. net.running => Recovering
      BY <1>3 DEF Recovering, InDevice
    <3>2. net.running => ints.napi = "off" /\ ~Held /\ ints.irq
      BY <2>1, <3>1 DEF HoldInv, IrqInv
    <3> QED BY <2>1, <3>2 DEF PlaceInv, IrqInv, OpenFailed
  <2> QED BY <2>1, <2>2
<1>6. PlaceInv'
  BY <1>2, <1>3, <1>4, <1>5, SMTT(20) DEF Moves, PlaceInv, InDevice
<1>7. VectorInv'
  BY <1>2, <1>3, <1>4, <1>5, SMTT(20) DEF Moves, VectorInv, PlaceInv, IrqInv, InDevice
<1>8. HoldInv'
  BY <1>2, <1>3, <1>4, <1>5, HoldersAre, HoldersOne, SMTT(20) DEF Moves, HoldInv, Holds, VectorInv, PlaceInv,
    IrqInv, Resting, Stopped, Recovering, OpenFailed, InDevice, Threads
<1>9. AgainInv'
  BY <1>2, <1>3, <1>4, <1>5, HoldersAre, SMTT(20) DEF Moves, PlaceInv, VectorInv, HoldInv, AgainInv, Holds, Whole,
    OpenFailed, InDevice, Threads
<1>10. IrqInv'
  BY <1>2, <1>3, <1>4, <1>5, HoldersAre, SMTT(20) DEF Moves, IrqInv, PlaceInv, OpenFailed, InDevice, VectorInv,
    HoldInv, Holds, Resting, Threads, Recovering, Stopped
<1>11. ASSUME ~raced' PROVE RingInv'
  <2>1. RingInv /\ EndInv
    BY <1>4, <1>5, <1>11 DEF TypeOK
  <2> QED BY <1>1, <1>2, <1>3, <1>4, <1>5, <2>1, HoldersAre, SMTT(20) DEF Taken, RingInv, Moves, VectorInv, HoldInv,
      EndInv, PlaceInv, Holds, Resting, Threads, Recovering, Stopped, InDevice, Touching
<1>12. ASSUME ~raced' PROVE EndInv'
  <2>1. RingInv /\ EndInv
    BY <1>4, <1>5, <1>12 DEF TypeOK
  <2> QED BY <1>2, <1>3, <1>4, <1>5, <1>12, <2>1, LastFacts, SMTT(20) DEF Moves, EndInv, Leaving, InDevice, PlaceInv
<1> QED BY <1>2, <1>6, <1>7, <1>8, <1>9, <1>10, <1>11, <1>12 DEF LifeInv, Moves

LEMMA CallKeeps ==
  ASSUME TypeOK, TodoInv, LifeInv, Call
  PROVE  TodoInv' /\ LifeInv'
<1>0. /\ TodoInv' /\ Others("user") /\ Fits((Left("user"))')
      /\ \A y \in Touching : ~(At("user", y))'
  <2>1. PICK call \in Calls : Become("user", call)
    BY DEF Call
  <2>2. IsCall("user", call) /\ Fits(Rest(call, 0))
    BY UserCalls
  <2> QED BY <2>1, <2>2, BecomeGoes DEF Threads
<1>1. \A y \in Touching : ~(At("user", y))'
  BY <1>0
<1>2. Moves("user")
  BY <1>0, MovesOn DEF Threads
<1>3. /\ Left("user") = {} /\ net.present /\ ~net.asleep /\ ~InDevice("clear_scheme")
      /\ "not_open" \in (Left("user"))' \/ "napi_enable" \in (Left("user"))' => net.running
      /\ {"dev_open", "free_irq", "free_rings"} \cap (Left("user"))' # {} /\ "not_open" \notin (Left("user"))'
           => ~net.running
      /\ "napi_enable" \in (Left("user"))' => net.attached /\ "napi_disable" \in (Left("user"))'
      /\ "not_open" \in (Left("user"))' => "free_irq" \in (Left("user"))'
      /\ "request_irq" \notin (Left("user"))'
  <2>1. ~net.asleep /\ ~InDevice("clear_scheme")
    BY LastFacts DEF Call
  <2> QED BY <1>0, <1>2, <2>1 DEF Call, Fits, Moves
<1>4. /\ net'.present = net.present /\ net'.running = net.running /\ net'.attached = net.attached
      /\ net'.asleep = net.asleep /\ net'.rings = net.rings /\ net'.down = net.down
      /\ ints'.napi = ints.napi /\ ints'.irq = ints.irq /\ ints'.dma = ints.dma
      /\ ints'.isr = ints.isr /\ jobs'.armed = jobs.armed /\ jobs'.work = jobs.work
      /\ jobs'.wd = jobs.wd /\ raced' = raced
  BY DEF Call, TypeOK, NetType, IntsType, JobsType
<1>5. PlaceInv /\ VectorInv /\ HoldInv /\ AgainInv /\ IrqInv /\ (~raced => RingInv /\ EndInv)
  BY DEF LifeInv
<1>6. PlaceInv'
  BY <1>2, <1>3, <1>4, <1>5, SMTT(20) DEF Moves, PlaceInv, InDevice
<1>7. VectorInv'
  BY <1>2, <1>3, <1>4, <1>5, SMTT(20) DEF Moves, VectorInv, PlaceInv, IrqInv, InDevice
<1>8. HoldInv'
  BY <1>2, <1>3, <1>4, <1>5, HoldersAre, HoldersOne, SMTT(20) DEF Moves, HoldInv, Holds, VectorInv, PlaceInv,
    IrqInv, Resting, Stopped, Recovering, OpenFailed, InDevice, Threads
<1>9. AgainInv'
  BY <1>2, <1>3, <1>4, <1>5, HoldersAre, SMTT(20) DEF Moves, PlaceInv, VectorInv, HoldInv, AgainInv, Holds, Whole,
    OpenFailed, InDevice, Threads
<1>10. IrqInv'
  BY <1>2, <1>3, <1>4, <1>5, HoldersAre, SMTT(20) DEF Moves, IrqInv, PlaceInv, OpenFailed, InDevice, VectorInv,
    HoldInv, Holds, Resting, Threads, Recovering, Stopped
<1>11. ASSUME ~raced' PROVE RingInv'
  <2>1. RingInv /\ EndInv
    BY <1>4, <1>5, <1>11 DEF TypeOK
  <2> QED BY <1>1, <1>2, <1>3, <1>4, <1>5, <2>1, HoldersAre, SMTT(20) DEF Taken, RingInv, Moves, VectorInv, HoldInv,
      EndInv, PlaceInv, Holds, Resting, Threads, Recovering, Stopped, InDevice, Touching
<1>12. ASSUME ~raced' PROVE EndInv'
  <2>1. RingInv /\ EndInv
    BY <1>4, <1>5, <1>12 DEF TypeOK
  <2> QED BY <1>2, <1>3, <1>4, <1>5, <1>12, <2>1, LastFacts, SMTT(20) DEF Moves, EndInv, Leaving, InDevice, PlaceInv
<1> QED BY <1>2, <1>6, <1>7, <1>8, <1>9, <1>10, <1>11, <1>12 DEF LifeInv, Moves

LEMMA SuspendedKeeps ==
  ASSUME TypeOK, TodoInv, LifeInv, net.present, Idle("device"), Idle("user"), ~net.asleep, Become("device", Suspend),
         UNCHANGED <<net, ints, jobs, raced>>
  PROVE  TodoInv' /\ LifeInv'
<1>0. /\ TodoInv' /\ Others("device") /\ (Left("device"))' = Rest(Suspend, 0)
      /\ \A y \in Touching : ~(At("device", y))'
  <2>1. IsCall("device", Suspend)
    BY CoreCalls
  <2> QED BY <2>1, BecomeGoes DEF Threads
<1>1. \A y \in Touching : ~(At("device", y))'
  BY <1>0
<1>2. Moves("device")
  BY <1>0, MovesOn DEF Threads
<1>3. /\ net.present /\ ~net.asleep /\ Left("user") = {} /\ Left("device") = {}
      /\ net.running => (Left("device"))' = {"detach", "stop", "napi_disable", "quiesce", "reset", "free_irq",
                                             "free_rings", "clear_scheme"}
      /\ ~net.running => (Left("device"))' = {"detach", "clear_scheme"}
  BY <1>0, <1>2, CoreCalls DEF Moves, CloseSteps, DownSteps
<1>4. /\ net'.present = net.present /\ net'.running = net.running /\ net'.attached = net.attached
      /\ net'.asleep = net.asleep /\ net'.rings = net.rings /\ net'.down = net.down
      /\ ints'.napi = ints.napi /\ ints'.irq = ints.irq /\ ints'.dma = ints.dma
      /\ ints'.isr = ints.isr /\ jobs'.armed = jobs.armed /\ jobs'.work = jobs.work
      /\ jobs'.wd = jobs.wd /\ raced' = raced
  BY DEF TypeOK, NetType, IntsType, JobsType
<1>5. PlaceInv /\ VectorInv /\ HoldInv /\ AgainInv /\ IrqInv /\ (~raced => RingInv /\ EndInv)
  BY DEF LifeInv
<1>6. PlaceInv'
  BY <1>2, <1>3, <1>4, <1>5, SMTT(20) DEF Moves, PlaceInv, InDevice
<1>7. VectorInv'
  BY <1>2, <1>3, <1>4, <1>5, SMTT(20) DEF Moves, VectorInv, PlaceInv, IrqInv, InDevice
<1>8. HoldInv'
  BY <1>2, <1>3, <1>4, <1>5, HoldersAre, HoldersOne, SMTT(20) DEF Moves, HoldInv, Holds, VectorInv, PlaceInv,
    IrqInv, Resting, Stopped, Recovering, OpenFailed, InDevice, Threads
<1>9. AgainInv'
  BY <1>2, <1>3, <1>4, <1>5, HoldersAre, SMTT(20) DEF Moves, PlaceInv, VectorInv, HoldInv, AgainInv, Holds, Whole,
    OpenFailed, InDevice, Threads
<1>10. IrqInv'
  BY <1>2, <1>3, <1>4, <1>5, HoldersAre, SMTT(20) DEF Moves, IrqInv, PlaceInv, OpenFailed, InDevice, VectorInv,
    HoldInv, Holds, Resting, Threads, Recovering, Stopped
<1>11. ASSUME ~raced' PROVE RingInv'
  <2>1. RingInv /\ EndInv
    BY <1>4, <1>5, <1>11 DEF TypeOK
  <2> QED BY <1>1, <1>2, <1>3, <1>4, <1>5, <2>1, HoldersAre, SMTT(20) DEF Taken, RingInv, Moves, VectorInv, HoldInv,
      EndInv, PlaceInv, Holds, Resting, Threads, Recovering, Stopped, InDevice, Touching
<1>12. ASSUME ~raced' PROVE EndInv'
  <2>1. RingInv /\ EndInv
    BY <1>4, <1>5, <1>12 DEF TypeOK
  <2> QED BY <1>2, <1>3, <1>4, <1>5, <1>12, <2>1, LastFacts, SMTT(20) DEF Moves, EndInv, Leaving, InDevice, PlaceInv
<1> QED BY <1>2, <1>6, <1>7, <1>8, <1>9, <1>10, <1>11, <1>12 DEF LifeInv, Moves

LEMMA ResumedKeeps ==
  ASSUME TypeOK, TodoInv, LifeInv, net.present, Idle("device"), Idle("user"), net.asleep, ~raced, Become("device", Resume),
         UNCHANGED <<net, ints, jobs, raced>>
  PROVE  TodoInv' /\ LifeInv'
<1>0. /\ TodoInv' /\ Others("device") /\ (Left("device"))' = Rest(Resume, 0)
      /\ \A y \in Touching : ~(At("device", y))'
  <2>1. IsCall("device", Resume)
    BY CoreCalls
  <2> QED BY <2>1, BecomeGoes DEF Threads
<1>1. \A y \in Touching : ~(At("device", y))'
  BY <1>0
<1>2. Moves("device")
  BY <1>0, MovesOn DEF Threads
<1>3. /\ net.present /\ net.asleep /\ Left("user") = {} /\ Left("device") = {}
      /\ ~raced /\ (Left("device"))' = {"init_scheme", "attach", "thaw"}
  BY <1>0, <1>2, CoreCalls DEF Moves
<1>4. /\ net'.present = net.present /\ net'.running = net.running /\ net'.attached = net.attached
      /\ net'.asleep = net.asleep /\ net'.rings = net.rings /\ net'.down = net.down
      /\ ints'.napi = ints.napi /\ ints'.irq = ints.irq /\ ints'.dma = ints.dma
      /\ ints'.isr = ints.isr /\ jobs'.armed = jobs.armed /\ jobs'.work = jobs.work
      /\ jobs'.wd = jobs.wd /\ raced' = raced
  BY DEF TypeOK, NetType, IntsType, JobsType
<1>5. PlaceInv /\ VectorInv /\ HoldInv /\ AgainInv /\ IrqInv /\ (~raced => RingInv /\ EndInv)
      /\ ints.napi = "none" /\ ~net.attached /\ Left("task") = {} /\ "reset" \notin jobs.work
  <2>1. PlaceInv /\ VectorInv /\ HoldInv /\ AgainInv /\ IrqInv /\ (~raced => RingInv /\ EndInv)
    BY DEF LifeInv
  <2>2. ints.napi = "none" /\ ~net.attached /\ Left("task") = {} /\ "reset" \notin jobs.work
    <3>1. EndInv
      BY <1>3, <2>1
    <3>2. ints.napi = "none" /\ ~net.attached
      BY <1>3, <2>1 DEF VectorInv, InDevice
    <3> QED BY <1>2, <3>1, <3>2 DEF EndInv, Moves
  <2> QED BY <2>1, <2>2
<1>6. PlaceInv'
  BY <1>2, <1>3, <1>4, <1>5, SMTT(20) DEF Moves, PlaceInv, InDevice
<1>7. VectorInv'
  BY <1>2, <1>3, <1>4, <1>5, SMTT(20) DEF Moves, VectorInv, PlaceInv, IrqInv, InDevice
<1>8. HoldInv'
  BY <1>2, <1>3, <1>4, <1>5, HoldersAre, HoldersOne, SMTT(20) DEF Moves, HoldInv, Holds, VectorInv, PlaceInv,
    IrqInv, Resting, Stopped, Recovering, OpenFailed, InDevice, Threads
<1>9. AgainInv'
  BY <1>2, <1>3, <1>4, <1>5, HoldersAre, SMTT(20) DEF Moves, PlaceInv, VectorInv, HoldInv, AgainInv, Holds, Whole,
    OpenFailed, InDevice, Threads
<1>10. IrqInv'
  BY <1>2, <1>3, <1>4, <1>5, HoldersAre, SMTT(20) DEF Moves, IrqInv, PlaceInv, OpenFailed, InDevice, VectorInv,
    HoldInv, Holds, Resting, Threads, Recovering, Stopped
<1>11. ASSUME ~raced' PROVE RingInv'
  <2>1. RingInv /\ EndInv
    BY <1>4, <1>5, <1>11 DEF TypeOK
  <2> QED BY <1>1, <1>2, <1>3, <1>4, <1>5, <2>1, HoldersAre, SMTT(20) DEF Taken, RingInv, Moves, VectorInv, HoldInv,
      EndInv, PlaceInv, Holds, Resting, Threads, Recovering, Stopped, InDevice, Touching
<1>12. ASSUME ~raced' PROVE EndInv'
  <2>1. RingInv /\ EndInv
    BY <1>4, <1>5, <1>12 DEF TypeOK
  <2> QED BY <1>2, <1>3, <1>4, <1>5, <1>12, <2>1, LastFacts, SMTT(20) DEF Moves, EndInv, Leaving, InDevice, PlaceInv
<1> QED BY <1>2, <1>6, <1>7, <1>8, <1>9, <1>10, <1>11, <1>12 DEF LifeInv, Moves

LEMMA DetachedKeeps ==
  ASSUME TypeOK, TodoInv, LifeInv, net.present, Idle("device"), ~raced, Become("device", Remove),
         UNCHANGED <<net, ints, jobs, raced>>
  PROVE  TodoInv' /\ LifeInv'
<1>0. /\ TodoInv' /\ Others("device") /\ (Left("device"))' = Rest(Remove, 0)
      /\ \A y \in Touching : ~(At("device", y))'
  <2>1. IsCall("device", Remove)
    BY CoreCalls
  <2> QED BY <2>1, BecomeGoes DEF Threads
<1>1. \A y \in Touching : ~(At("device", y))'
  BY <1>0
<1>2. Moves("device")
  BY <1>0, MovesOn DEF Threads
<1>3. /\ net.present /\ Left("device") = {}
      /\ (Left("device"))' = {"set_down", "del_timer", "flush", "unregister"}
  BY <1>0, <1>2, CoreCalls DEF Moves
<1>4. /\ net'.present = net.present /\ net'.running = net.running /\ net'.attached = net.attached
      /\ net'.asleep = net.asleep /\ net'.rings = net.rings /\ net'.down = net.down
      /\ ints'.napi = ints.napi /\ ints'.irq = ints.irq /\ ints'.dma = ints.dma
      /\ ints'.isr = ints.isr /\ jobs'.armed = jobs.armed /\ jobs'.work = jobs.work
      /\ jobs'.wd = jobs.wd /\ raced' = raced
  BY DEF TypeOK, NetType, IntsType, JobsType
<1>5. PlaceInv /\ VectorInv /\ HoldInv /\ AgainInv /\ IrqInv /\ (~raced => RingInv /\ EndInv)
  BY DEF LifeInv
<1>6. PlaceInv'
  BY <1>2, <1>3, <1>4, <1>5, SMTT(20) DEF Moves, PlaceInv, InDevice
<1>7. VectorInv'
  BY <1>2, <1>3, <1>4, <1>5, SMTT(20) DEF Moves, VectorInv, PlaceInv, IrqInv, InDevice
<1>8. HoldInv'
  BY <1>2, <1>3, <1>4, <1>5, HoldersAre, HoldersOne, SMTT(20) DEF Moves, HoldInv, Holds, VectorInv, PlaceInv,
    IrqInv, Resting, Stopped, Recovering, OpenFailed, InDevice, Threads
<1>9. AgainInv'
  BY <1>2, <1>3, <1>4, <1>5, HoldersAre, SMTT(20) DEF Moves, PlaceInv, VectorInv, HoldInv, AgainInv, Holds, Whole,
    OpenFailed, InDevice, Threads
<1>10. IrqInv'
  BY <1>2, <1>3, <1>4, <1>5, HoldersAre, SMTT(20) DEF Moves, IrqInv, PlaceInv, OpenFailed, InDevice, VectorInv,
    HoldInv, Holds, Resting, Threads, Recovering, Stopped
<1>11. ASSUME ~raced' PROVE RingInv'
  <2>1. RingInv /\ EndInv
    BY <1>4, <1>5, <1>11 DEF TypeOK
  <2> QED BY <1>1, <1>2, <1>3, <1>4, <1>5, <2>1, HoldersAre, SMTT(20) DEF Taken, RingInv, Moves, VectorInv, HoldInv,
      EndInv, PlaceInv, Holds, Resting, Threads, Recovering, Stopped, InDevice, Touching
<1>12. ASSUME ~raced' PROVE EndInv'
  <2>1. RingInv /\ EndInv
    BY <1>4, <1>5, <1>12 DEF TypeOK
  <2> QED BY <1>2, <1>3, <1>4, <1>5, <1>12, <2>1, LastFacts, SMTT(20) DEF Moves, EndInv, Leaving, InDevice, PlaceInv
<1> QED BY <1>2, <1>6, <1>7, <1>8, <1>9, <1>10, <1>11, <1>12 DEF LifeInv, Moves

LEMMA PciErrorSeenKeeps ==
  ASSUME TypeOK, TodoInv, LifeInv, net.present, net.attached, Idle("device"), ~raced, Become("device", PciRecovery),
         net' = [net EXCEPT !.attached = FALSE], UNCHANGED <<ints, jobs, raced>>
  PROVE  TodoInv' /\ LifeInv'
<1>0. /\ TodoInv' /\ Others("device") /\ (Left("device"))' = Rest(PciRecovery, 0)
      /\ \A y \in Touching : ~(At("device", y))'
  <2>1. IsCall("device", PciRecovery)
    BY CoreCalls
  <2> QED BY <2>1, BecomeGoes DEF Threads
<1>1. \A y \in Touching : ~(At("device", y))'
  BY <1>0
<1>2. Moves("device")
  BY <1>0, MovesOn DEF Threads
<1>3. /\ net.present /\ net.attached /\ Left("device") = {}
      /\ (Left("device"))' = {"error_down", "slot_reset", "io_resume"}
  BY <1>0, <1>2, CoreCalls DEF Moves
<1>4. /\ net'.present = net.present /\ net'.running = net.running /\ net'.asleep = net.asleep
      /\ net'.rings = net.rings /\ net'.down = net.down /\ ints'.napi = ints.napi
      /\ ints'.irq = ints.irq /\ ints'.dma = ints.dma /\ ints'.isr = ints.isr
      /\ jobs'.armed = jobs.armed /\ jobs'.work = jobs.work /\ jobs'.wd = jobs.wd
      /\ ~net'.attached /\ raced' = raced
  BY DEF TypeOK, NetType, IntsType, JobsType
<1>5. PlaceInv /\ VectorInv /\ HoldInv /\ AgainInv /\ IrqInv /\ (~raced => RingInv /\ EndInv)
  BY DEF LifeInv
<1>6. PlaceInv'
  BY <1>2, <1>3, <1>4, <1>5, SMTT(20) DEF Moves, PlaceInv, InDevice
<1>7. VectorInv'
  BY <1>2, <1>3, <1>4, <1>5, SMTT(20) DEF Moves, VectorInv, PlaceInv, IrqInv, InDevice
<1>8. HoldInv'
  BY <1>2, <1>3, <1>4, <1>5, HoldersAre, HoldersOne, SMTT(20) DEF Moves, HoldInv, Holds, VectorInv, PlaceInv,
    IrqInv, Resting, Stopped, Recovering, OpenFailed, InDevice, Threads
<1>9. AgainInv'
  BY <1>2, <1>3, <1>4, <1>5, HoldersAre, SMTT(20) DEF Moves, PlaceInv, VectorInv, HoldInv, AgainInv, Holds, Whole,
    OpenFailed, InDevice, Threads
<1>10. IrqInv'
  BY <1>2, <1>3, <1>4, <1>5, HoldersAre, SMTT(20) DEF Moves, IrqInv, PlaceInv, OpenFailed, InDevice, VectorInv,
    HoldInv, Holds, Resting, Threads, Recovering, Stopped
<1>11. ASSUME ~raced' PROVE RingInv'
  <2>1. RingInv /\ EndInv
    BY <1>4, <1>5, <1>11 DEF TypeOK
  <2> QED BY <1>1, <1>2, <1>3, <1>4, <1>5, <2>1, HoldersAre, SMTT(20) DEF Taken, RingInv, Moves, VectorInv, HoldInv,
      EndInv, PlaceInv, Holds, Resting, Threads, Recovering, Stopped, InDevice, Touching
<1>12. ASSUME ~raced' PROVE EndInv'
  <2>1. RingInv /\ EndInv
    BY <1>4, <1>5, <1>12 DEF TypeOK
  <2> QED BY <1>2, <1>3, <1>4, <1>5, <1>12, <2>1, LastFacts, SMTT(20) DEF Moves, EndInv, Leaving, InDevice, PlaceInv
<1> QED BY <1>2, <1>6, <1>7, <1>8, <1>9, <1>10, <1>11, <1>12 DEF LifeInv, Moves

LEMMA ResetTaskKeeps ==
  ASSUME TypeOK, TodoInv, LifeInv, "reset" \in jobs.work, Idle("task"), Become("task", ReinitLocked),
         jobs' = [jobs EXCEPT !.work = @ \ {"reset"}], UNCHANGED <<net, ints, raced>>
  PROVE  TodoInv' /\ LifeInv'
<1>0. /\ TodoInv' /\ Others("task") /\ (Left("task"))' = Rest(ReinitLocked, 0)
      /\ \A y \in Touching : ~(At("task", y))'
  <2>1. IsCall("task", ReinitLocked)
    BY CoreCalls
  <2> QED BY <2>1, BecomeGoes DEF Threads
<1>1. \A y \in Touching : ~(At("task", y))'
  BY <1>0
<1>2. Moves("task")
  BY <1>0, MovesOn DEF Threads
<1>3. /\ "reset" \in jobs.work /\ Left("task") = {}
      /\ (Left("task"))' = {"take", "give", "stop", "napi_disable", "quiesce", "reset", "configure", "clear_down",
                            "napi_enable", "start"}
  BY <1>0, <1>2, CoreCalls DEF Moves, DownSteps, UpSteps
<1>4. /\ net'.present = net.present /\ net'.running = net.running /\ net'.attached = net.attached
      /\ net'.asleep = net.asleep /\ net'.rings = net.rings /\ net'.down = net.down
      /\ ints'.napi = ints.napi /\ ints'.irq = ints.irq /\ ints'.dma = ints.dma
      /\ ints'.isr = ints.isr /\ jobs'.armed = jobs.armed /\ jobs'.wd = jobs.wd
      /\ jobs'.work = jobs.work \ {"reset"} /\ raced' = raced
  BY DEF TypeOK, NetType, IntsType, JobsType
<1>5. PlaceInv /\ VectorInv /\ HoldInv /\ AgainInv /\ IrqInv /\ (~raced => RingInv /\ EndInv)
  BY DEF LifeInv
<1>6. PlaceInv'
  BY <1>2, <1>3, <1>4, <1>5, SMTT(20) DEF Moves, PlaceInv, InDevice
<1>7. VectorInv'
  BY <1>2, <1>3, <1>4, <1>5, SMTT(20) DEF Moves, VectorInv, PlaceInv, IrqInv, InDevice
<1>8. HoldInv'
  BY <1>2, <1>3, <1>4, <1>5, HoldersAre, HoldersOne, SMTT(20) DEF Moves, HoldInv, Holds, VectorInv, PlaceInv,
    IrqInv, Resting, Stopped, Recovering, OpenFailed, InDevice, Threads
<1>9. AgainInv'
  BY <1>2, <1>3, <1>4, <1>5, HoldersAre, SMTT(20) DEF Moves, PlaceInv, VectorInv, HoldInv, AgainInv, Holds, Whole,
    OpenFailed, InDevice, Threads
<1>10. IrqInv'
  BY <1>2, <1>3, <1>4, <1>5, HoldersAre, SMTT(20) DEF Moves, IrqInv, PlaceInv, OpenFailed, InDevice, VectorInv,
    HoldInv, Holds, Resting, Threads, Recovering, Stopped
<1>11. ASSUME ~raced' PROVE RingInv'
  <2>1. RingInv /\ EndInv
    BY <1>4, <1>5, <1>11 DEF TypeOK
  <2> QED BY <1>1, <1>2, <1>3, <1>4, <1>5, <2>1, HoldersAre, SMTT(20) DEF Taken, RingInv, Moves, VectorInv, HoldInv,
      EndInv, PlaceInv, Holds, Resting, Threads, Recovering, Stopped, InDevice, Touching
<1>12. ASSUME ~raced' PROVE EndInv'
  <2>1. RingInv /\ EndInv
    BY <1>4, <1>5, <1>12 DEF TypeOK
  <2> QED BY <1>2, <1>3, <1>4, <1>5, <1>12, <2>1, LastFacts, SMTT(20) DEF Moves, EndInv, Leaving, InDevice, PlaceInv
<1> QED BY <1>2, <1>6, <1>7, <1>8, <1>9, <1>10, <1>11, <1>12 DEF LifeInv, Moves

LEMMA PciErrorLastKeeps ==
  ASSUME TypeOK, TodoInv, LifeInv, net.present, net.attached, UNCHANGED todo,
         net' = [net EXCEPT !.attached = FALSE], UNCHANGED <<ints, jobs, raced>>
  PROVE  TodoInv' /\ LifeInv'
<1>0. todo' = todo
  OBVIOUS
<1>1. \A y \in Touching : (At("user", y))' => At("user", y)
  BY <1>0 DEF At, Idle
<1>2. Moves("user") /\ (Left("user"))' = Left("user")
  <2>1. TodoInv' /\ (Left("user"))' = Left("user")
    BY <1>0 DEF TodoInv, Left
  <2>2. Others("user")
    BY <1>0, OthersStay
  <2> QED BY <2>1, <2>2, MovesOn DEF Threads
<1>3. net.present /\ net.attached
  OBVIOUS
<1>4. /\ net'.present = net.present /\ net'.running = net.running /\ net'.asleep = net.asleep
      /\ net'.rings = net.rings /\ net'.down = net.down /\ ints'.napi = ints.napi
      /\ ints'.irq = ints.irq /\ ints'.dma = ints.dma /\ ints'.isr = ints.isr
      /\ jobs'.armed = jobs.armed /\ jobs'.work = jobs.work /\ jobs'.wd = jobs.wd
      /\ ~net'.attached /\ raced' = raced
  BY DEF TypeOK, NetType, IntsType, JobsType
<1>5. PlaceInv /\ VectorInv /\ HoldInv /\ AgainInv /\ IrqInv /\ (~raced => RingInv /\ EndInv)
  BY DEF LifeInv
<1>6. PlaceInv'
  BY <1>2, <1>3, <1>4, <1>5, SMTT(20) DEF Moves, PlaceInv, InDevice
<1>7. VectorInv'
  BY <1>2, <1>3, <1>4, <1>5, SMTT(20) DEF Moves, VectorInv, PlaceInv, IrqInv, InDevice
<1>8. HoldInv'
  BY <1>2, <1>3, <1>4, <1>5, HoldersAre, HoldersOne, SMTT(20) DEF Moves, HoldInv, Holds, VectorInv, PlaceInv,
    IrqInv, Resting, Stopped, Recovering, OpenFailed, InDevice, Threads
<1>9. AgainInv'
  BY <1>2, <1>3, <1>4, <1>5, HoldersAre, SMTT(20) DEF Moves, PlaceInv, VectorInv, HoldInv, AgainInv, Holds, Whole,
    OpenFailed, InDevice, Threads
<1>10. IrqInv'
  BY <1>2, <1>3, <1>4, <1>5, HoldersAre, SMTT(20) DEF Moves, IrqInv, PlaceInv, OpenFailed, InDevice, VectorInv,
    HoldInv, Holds, Resting, Threads, Recovering, Stopped
<1>11. ASSUME ~raced' PROVE RingInv'
  <2>1. RingInv /\ EndInv
    BY <1>4, <1>5, <1>11 DEF TypeOK
  <2> QED BY <1>1, <1>2, <1>3, <1>4, <1>5, <2>1, HoldersAre, SMTT(20) DEF Taken, RingInv, Moves, VectorInv, HoldInv,
      EndInv, PlaceInv, Holds, Resting, Threads, Recovering, Stopped, InDevice, Touching
<1>12. ASSUME ~raced' PROVE EndInv'
  <2>1. RingInv /\ EndInv
    BY <1>4, <1>5, <1>12 DEF TypeOK
  <2> QED BY <1>2, <1>3, <1>4, <1>5, <1>12, <2>1, LastFacts, SMTT(20) DEF Moves, EndInv, Leaving, InDevice, PlaceInv
<1> QED BY <1>2, <1>6, <1>7, <1>8, <1>9, <1>10, <1>11, <1>12 DEF LifeInv, Moves

LEMMA WatchdogTestsKeeps ==
  ASSUME TypeOK, TodoInv, LifeInv, WatchdogTests
  PROVE  TodoInv' /\ LifeInv'
<1>0. todo' = todo
  BY DEF WatchdogTests
<1>1. \A y \in Touching : (At("user", y))' => At("user", y)
  BY <1>0 DEF At, Idle
<1>2. Moves("user") /\ (Left("user"))' = Left("user")
  <2>1. TodoInv' /\ (Left("user"))' = Left("user")
    BY <1>0 DEF TodoInv, Left
  <2>2. Others("user")
    BY <1>0, OthersStay
  <2> QED BY <2>1, <2>2, MovesOn DEF Threads
<1>3. jobs.wd = "idle" /\ "watchdog" \in jobs.work
  BY DEF WatchdogTests
<1>4. /\ net'.present = net.present /\ net'.running = net.running /\ net'.attached = net.attached
      /\ net'.asleep = net.asleep /\ net'.rings = net.rings /\ net'.down = net.down
      /\ ints'.napi = ints.napi /\ ints'.irq = ints.irq /\ ints'.dma = ints.dma
      /\ ints'.isr = ints.isr /\ jobs'.armed = jobs.armed /\ jobs'.work = jobs.work \ {"watchdog"}
      /\ raced' = raced
  BY DEF WatchdogTests, TypeOK, NetType, IntsType, JobsType
<1>5. PlaceInv /\ VectorInv /\ HoldInv /\ AgainInv /\ IrqInv /\ (~raced => RingInv /\ EndInv)
  BY DEF LifeInv
<1>6. PlaceInv'
  BY <1>2, <1>3, <1>4, <1>5, SMTT(20) DEF Moves, PlaceInv, InDevice
<1>7. VectorInv'
  BY <1>2, <1>3, <1>4, <1>5, SMTT(20) DEF Moves, VectorInv, PlaceInv, IrqInv, InDevice
<1>8. HoldInv'
  BY <1>2, <1>3, <1>4, <1>5, HoldersAre, HoldersOne, SMTT(20) DEF Moves, HoldInv, Holds, VectorInv, PlaceInv,
    IrqInv, Resting, Stopped, Recovering, OpenFailed, InDevice, Threads
<1>9. AgainInv'
  BY <1>2, <1>3, <1>4, <1>5, HoldersAre, SMTT(20) DEF Moves, PlaceInv, VectorInv, HoldInv, AgainInv, Holds, Whole,
    OpenFailed, InDevice, Threads
<1>10. IrqInv'
  BY <1>2, <1>3, <1>4, <1>5, HoldersAre, SMTT(20) DEF Moves, IrqInv, PlaceInv, OpenFailed, InDevice, VectorInv,
    HoldInv, Holds, Resting, Threads, Recovering, Stopped
<1>11. ASSUME ~raced' PROVE RingInv'
  <2>1. RingInv /\ EndInv
    BY <1>4, <1>5, <1>11 DEF TypeOK
  <2> QED BY <1>1, <1>2, <1>3, <1>4, <1>5, <2>1, HoldersAre, SMTT(20) DEF Taken, RingInv, Moves, VectorInv, HoldInv,
      EndInv, PlaceInv, Holds, Resting, Threads, Recovering, Stopped, InDevice, Touching
<1>12. ASSUME ~raced' PROVE EndInv'
  <2>1. RingInv /\ EndInv
    BY <1>4, <1>5, <1>12 DEF TypeOK
  <2> QED BY <1>2, <1>3, <1>4, <1>5, <1>12, <2>1, LastFacts, SMTT(20) DEF Moves, EndInv, Leaving, InDevice, PlaceInv
<1> QED BY <1>2, <1>6, <1>7, <1>8, <1>9, <1>10, <1>11, <1>12 DEF LifeInv, Moves

LEMMA WatchdogArmsKeeps ==
  ASSUME TypeOK, TodoInv, LifeInv, WatchdogArms
  PROVE  TodoInv' /\ LifeInv'
<1>0. todo' = todo
  BY DEF WatchdogArms
<1>1. \A y \in Touching : (At("user", y))' => At("user", y)
  BY <1>0 DEF At, Idle
<1>2. Moves("user") /\ (Left("user"))' = Left("user")
  <2>1. TodoInv' /\ (Left("user"))' = Left("user")
    BY <1>0 DEF TodoInv, Left
  <2>2. Others("user")
    BY <1>0, OthersStay
  <2> QED BY <2>1, <2>2, MovesOn DEF Threads
<1>3. jobs.wd = "arm"
  BY DEF WatchdogArms
<1>4. /\ net'.present = net.present /\ net'.running = net.running /\ net'.attached = net.attached
      /\ net'.asleep = net.asleep /\ net'.rings = net.rings /\ net'.down = net.down
      /\ ints'.napi = ints.napi /\ ints'.irq = ints.irq /\ ints'.dma = ints.dma
      /\ ints'.isr = ints.isr /\ jobs'.work = jobs.work /\ jobs'.wd = "idle"
      /\ raced' = (raced \/ net.down)
  BY DEF WatchdogArms, TypeOK, NetType, IntsType, JobsType
<1>5. PlaceInv /\ VectorInv /\ HoldInv /\ AgainInv /\ IrqInv /\ (~raced => RingInv /\ EndInv)
  BY DEF LifeInv
<1>6. PlaceInv'
  BY <1>2, <1>3, <1>4, <1>5, SMTT(20) DEF Moves, PlaceInv, InDevice
<1>7. VectorInv'
  BY <1>2, <1>3, <1>4, <1>5, SMTT(20) DEF Moves, VectorInv, PlaceInv, IrqInv, InDevice
<1>8. HoldInv'
  BY <1>2, <1>3, <1>4, <1>5, HoldersAre, HoldersOne, SMTT(20) DEF Moves, HoldInv, Holds, VectorInv, PlaceInv,
    IrqInv, Resting, Stopped, Recovering, OpenFailed, InDevice, Threads
<1>9. AgainInv'
  BY <1>2, <1>3, <1>4, <1>5, HoldersAre, SMTT(20) DEF Moves, PlaceInv, VectorInv, HoldInv, AgainInv, Holds, Whole,
    OpenFailed, InDevice, Threads
<1>10. IrqInv'
  BY <1>2, <1>3, <1>4, <1>5, HoldersAre, SMTT(20) DEF Moves, IrqInv, PlaceInv, OpenFailed, InDevice, VectorInv,
    HoldInv, Holds, Resting, Threads, Recovering, Stopped
<1>11. ASSUME ~raced' PROVE RingInv'
  <2>1. RingInv /\ EndInv
    BY <1>4, <1>5, <1>11 DEF TypeOK
  <2> QED BY <1>1, <1>2, <1>3, <1>4, <1>5, <2>1, HoldersAre, SMTT(20) DEF Taken, RingInv, Moves, VectorInv, HoldInv,
      EndInv, PlaceInv, Holds, Resting, Threads, Recovering, Stopped, InDevice, Touching
<1>12. ASSUME ~raced' PROVE EndInv'
  <2>1. RingInv /\ EndInv
    BY <1>4, <1>5, <1>12 DEF TypeOK
  <2>2. (Leaving("set_down"))' => net'.down
    BY <1>2, <1>3, <1>4, <1>5, <1>12, <2>1, LastFacts, SMTT(20) DEF Moves, EndInv, Leaving, InDevice, PlaceInv
  <2>3. (Leaving("del_timer"))' => ~jobs'.armed
    BY <1>2, <1>3, <1>4, <1>5, <1>12, <2>1, InDeviceToo
       DEF Moves, EndInv, VectorInv, IrqInv, Leaving, InDevice, PlaceInv
  <2>4. (Leaving("flush"))' => jobs'.work = {} /\ jobs'.wd = "idle" /\ (Idle("task"))'
    BY <1>2, <1>3, <1>4, <1>5, <1>12, <2>1, LastFacts, SMTT(20) DEF Moves, EndInv, Leaving, InDevice, PlaceInv
  <2>5. ints'.napi = "none" => (Idle("task"))' /\ "reset" \notin jobs'.work
    BY <1>2, <1>3, <1>4, <1>5, <1>12, <2>1, SMTT(20) DEF Moves, EndInv, Leaving, InDevice, PlaceInv
  <2> QED BY <2>2, <2>3, <2>4, <2>5 DEF EndInv
<1> QED BY <1>2, <1>6, <1>7, <1>8, <1>9, <1>10, <1>11, <1>12 DEF LifeInv, Moves

LEMMA TimerFiresKeeps ==
  ASSUME TypeOK, TodoInv, LifeInv, TimerFires
  PROVE  TodoInv' /\ LifeInv'
<1>0. todo' = todo
  BY DEF TimerFires
<1>1. \A y \in Touching : (At("user", y))' => At("user", y)
  BY <1>0 DEF At, Idle
<1>2. Moves("user") /\ (Left("user"))' = Left("user")
  <2>1. TodoInv' /\ (Left("user"))' = Left("user")
    BY <1>0 DEF TodoInv, Left
  <2>2. Others("user")
    BY <1>0, OthersStay
  <2> QED BY <2>1, <2>2, MovesOn DEF Threads
<1>3. jobs.armed
  BY DEF TimerFires
<1>4. /\ net'.present = net.present /\ net'.running = net.running /\ net'.attached = net.attached
      /\ net'.asleep = net.asleep /\ net'.rings = net.rings /\ net'.down = net.down
      /\ ints'.napi = ints.napi /\ ints'.irq = ints.irq /\ ints'.dma = ints.dma
      /\ ints'.isr = ints.isr /\ jobs'.wd = jobs.wd /\ ~jobs'.armed
      /\ jobs'.work = jobs.work \union {"watchdog"} /\ raced' = raced
  BY DEF TimerFires, TypeOK, NetType, IntsType, JobsType
<1>5. PlaceInv /\ VectorInv /\ HoldInv /\ AgainInv /\ IrqInv /\ (~raced => RingInv /\ EndInv)
  BY DEF LifeInv
<1>6. PlaceInv'
  BY <1>2, <1>3, <1>4, <1>5, SMTT(20) DEF Moves, PlaceInv, InDevice
<1>7. VectorInv'
  BY <1>2, <1>3, <1>4, <1>5, SMTT(20) DEF Moves, VectorInv, PlaceInv, IrqInv, InDevice
<1>8. HoldInv'
  BY <1>2, <1>3, <1>4, <1>5, HoldersAre, HoldersOne, SMTT(20) DEF Moves, HoldInv, Holds, VectorInv, PlaceInv,
    IrqInv, Resting, Stopped, Recovering, OpenFailed, InDevice, Threads
<1>9. AgainInv'
  BY <1>2, <1>3, <1>4, <1>5, HoldersAre, SMTT(20) DEF Moves, PlaceInv, VectorInv, HoldInv, AgainInv, Holds, Whole,
    OpenFailed, InDevice, Threads
<1>10. IrqInv'
  BY <1>2, <1>3, <1>4, <1>5, HoldersAre, SMTT(20) DEF Moves, IrqInv, PlaceInv, OpenFailed, InDevice, VectorInv,
    HoldInv, Holds, Resting, Threads, Recovering, Stopped
<1>11. ASSUME ~raced' PROVE RingInv'
  <2>1. RingInv /\ EndInv
    BY <1>4, <1>5, <1>11 DEF TypeOK
  <2> QED BY <1>1, <1>2, <1>3, <1>4, <1>5, <2>1, HoldersAre, SMTT(20) DEF Taken, RingInv, Moves, VectorInv, HoldInv,
      EndInv, PlaceInv, Holds, Resting, Threads, Recovering, Stopped, InDevice, Touching
<1>12. ASSUME ~raced' PROVE EndInv'
  <2>1. RingInv /\ EndInv
    BY <1>4, <1>5, <1>12 DEF TypeOK
  <2> QED BY <1>2, <1>3, <1>4, <1>5, <1>12, <2>1, LastFacts, InDeviceToo, SMTT(20) DEF Moves, EndInv, Leaving,
      InDevice, PlaceInv, VectorInv, IrqInv
<1> QED BY <1>2, <1>6, <1>7, <1>8, <1>9, <1>10, <1>11, <1>12 DEF LifeInv, Moves

LEMMA MsixOtherKeeps ==
  ASSUME TypeOK, TodoInv, LifeInv, MsixOther
  PROVE  TodoInv' /\ LifeInv'
<1>0. todo' = todo
  BY DEF MsixOther
<1>1. \A y \in Touching : (At("user", y))' => At("user", y)
  BY <1>0 DEF At, Idle
<1>2. Moves("user") /\ (Left("user"))' = Left("user")
  <2>1. TodoInv' /\ (Left("user"))' = Left("user")
    BY <1>0 DEF TodoInv, Left
  <2>2. Others("user")
    BY <1>0, OthersStay
  <2> QED BY <2>1, <2>2, MovesOn DEF Threads
<1>3. ints.irq /\ ints.isr = "idle"
  BY DEF MsixOther, Raised
<1>4. /\ net'.present = net.present /\ net'.running = net.running /\ net'.attached = net.attached
      /\ net'.asleep = net.asleep /\ net'.rings = net.rings /\ net'.down = net.down
      /\ ints'.napi = ints.napi /\ ints'.irq = ints.irq /\ ints'.dma = ints.dma
      /\ jobs'.armed = jobs.armed /\ jobs'.wd = jobs.wd /\ jobs'.work \subseteq jobs.work \union {"reset"}
      /\ ("reset" \in jobs'.work => "reset" \in jobs.work \/ ~net.down \/ raced') /\ (raced => raced')
  BY DEF MsixOther, TypeOK, NetType, IntsType, JobsType
<1>5. PlaceInv /\ VectorInv /\ HoldInv /\ AgainInv /\ IrqInv /\ (~raced => RingInv /\ EndInv)
  BY DEF LifeInv
<1>6. PlaceInv'
  BY <1>2, <1>3, <1>4, <1>5, SMTT(20) DEF Moves, PlaceInv, InDevice
<1>7. VectorInv'
  BY <1>2, <1>3, <1>4, <1>5, SMTT(20) DEF Moves, VectorInv, PlaceInv, IrqInv, InDevice
<1>8. HoldInv'
  BY <1>2, <1>3, <1>4, <1>5, HoldersAre, HoldersOne, SMTT(20) DEF Moves, HoldInv, Holds, VectorInv, PlaceInv,
    IrqInv, Resting, Stopped, Recovering, OpenFailed, InDevice, Threads
<1>9. AgainInv'
  BY <1>2, <1>3, <1>4, <1>5, HoldersAre, SMTT(20) DEF Moves, PlaceInv, VectorInv, HoldInv, AgainInv, Holds, Whole,
    OpenFailed, InDevice, Threads
<1>10. IrqInv'
  BY <1>2, <1>3, <1>4, <1>5, HoldersAre, SMTT(20) DEF Moves, IrqInv, PlaceInv, OpenFailed, InDevice, VectorInv,
    HoldInv, Holds, Resting, Threads, Recovering, Stopped
<1>11. ASSUME ~raced' PROVE RingInv'
  <2>1. RingInv /\ EndInv
    BY <1>4, <1>5, <1>11 DEF TypeOK
  <2> QED BY <1>1, <1>2, <1>3, <1>4, <1>5, <2>1, HoldersAre, SMTT(20) DEF Taken, RingInv, Moves, VectorInv, HoldInv,
      EndInv, PlaceInv, Holds, Resting, Threads, Recovering, Stopped, InDevice, Touching
<1>12. ASSUME ~raced' PROVE EndInv'
  <2>1. RingInv /\ EndInv
    BY <1>4, <1>5, <1>12 DEF TypeOK
  <2> QED BY <1>2, <1>3, <1>4, <1>5, <1>12, <2>1, LastFacts, InDeviceToo, SMTT(20) DEF Moves, EndInv, Leaving,
      InDevice, PlaceInv, VectorInv, IrqInv
<1> QED BY <1>2, <1>6, <1>7, <1>8, <1>9, <1>10, <1>11, <1>12 DEF LifeInv, Moves

LEMMA MsixOtherEndsKeeps ==
  ASSUME TypeOK, TodoInv, LifeInv, MsixOtherEnds
  PROVE  TodoInv' /\ LifeInv'
<1>0. todo' = todo
  BY DEF MsixOtherEnds
<1>1. \A y \in Touching : (At("user", y))' => At("user", y)
  BY <1>0 DEF At, Idle
<1>2. Moves("user") /\ (Left("user"))' = Left("user")
  <2>1. TodoInv' /\ (Left("user"))' = Left("user")
    BY <1>0 DEF TodoInv, Left
  <2>2. Others("user")
    BY <1>0, OthersStay
  <2> QED BY <2>1, <2>2, MovesOn DEF Threads
<1>3. ints.isr # "idle"
  BY DEF MsixOtherEnds
<1>4. /\ net'.present = net.present /\ net'.running = net.running /\ net'.attached = net.attached
      /\ net'.asleep = net.asleep /\ net'.rings = net.rings /\ net'.down = net.down
      /\ ints'.napi = ints.napi /\ ints'.irq = ints.irq /\ ints'.dma = ints.dma
      /\ jobs'.work = jobs.work /\ jobs'.wd = jobs.wd /\ ints'.isr = "idle"
      /\ (jobs'.armed => jobs.armed \/ ~net.down \/ raced') /\ (raced => raced')
  BY DEF MsixOtherEnds, TypeOK, NetType, IntsType, JobsType
<1>5. PlaceInv /\ VectorInv /\ HoldInv /\ AgainInv /\ IrqInv /\ (~raced => RingInv /\ EndInv)
  BY DEF LifeInv
<1>6. PlaceInv'
  BY <1>2, <1>3, <1>4, <1>5, SMTT(20) DEF Moves, PlaceInv, InDevice
<1>7. VectorInv'
  BY <1>2, <1>3, <1>4, <1>5, SMTT(20) DEF Moves, VectorInv, PlaceInv, IrqInv, InDevice
<1>8. HoldInv'
  BY <1>2, <1>3, <1>4, <1>5, HoldersAre, HoldersOne, SMTT(20) DEF Moves, HoldInv, Holds, VectorInv, PlaceInv,
    IrqInv, Resting, Stopped, Recovering, OpenFailed, InDevice, Threads
<1>9. AgainInv'
  BY <1>2, <1>3, <1>4, <1>5, HoldersAre, SMTT(20) DEF Moves, PlaceInv, VectorInv, HoldInv, AgainInv, Holds, Whole,
    OpenFailed, InDevice, Threads
<1>10. IrqInv'
  BY <1>2, <1>3, <1>4, <1>5, HoldersAre, SMTT(20) DEF Moves, IrqInv, PlaceInv, OpenFailed, InDevice, VectorInv,
    HoldInv, Holds, Resting, Threads, Recovering, Stopped
<1>11. ASSUME ~raced' PROVE RingInv'
  <2>1. RingInv /\ EndInv
    BY <1>4, <1>5, <1>11 DEF TypeOK
  <2> QED BY <1>1, <1>2, <1>3, <1>4, <1>5, <2>1, HoldersAre, SMTT(20) DEF Taken, RingInv, Moves, VectorInv, HoldInv,
      EndInv, PlaceInv, Holds, Resting, Threads, Recovering, Stopped, InDevice, Touching
<1>12. ASSUME ~raced' PROVE EndInv'
  <2>1. RingInv /\ EndInv
    BY <1>4, <1>5, <1>12 DEF TypeOK
  <2> QED BY <1>2, <1>3, <1>4, <1>5, <1>12, <2>1, LastFacts, InDeviceToo, SMTT(20) DEF Moves, EndInv, Leaving,
      InDevice, PlaceInv, VectorInv, IrqInv
<1> QED BY <1>2, <1>6, <1>7, <1>8, <1>9, <1>10, <1>11, <1>12 DEF LifeInv, Moves

LEMMA MsixRingKeeps ==
  ASSUME TypeOK, TodoInv, LifeInv, MsixRing
  PROVE  TodoInv' /\ LifeInv'
<1>0. todo' = todo
  BY DEF MsixRing
<1>1. \A y \in Touching : (At("user", y))' => At("user", y)
  BY <1>0 DEF At, Idle
<1>2. Moves("user") /\ (Left("user"))' = Left("user")
  <2>1. TodoInv' /\ (Left("user"))' = Left("user")
    BY <1>0 DEF TodoInv, Left
  <2>2. Others("user")
    BY <1>0, OthersStay
  <2> QED BY <2>1, <2>2, MovesOn DEF Threads
<1>3. ints.irq /\ ints.napi = "on"
  BY DEF MsixRing, Raised
<1>4. /\ net'.present = net.present /\ net'.running = net.running /\ net'.attached = net.attached
      /\ net'.asleep = net.asleep /\ net'.rings = net.rings /\ net'.down = net.down
      /\ ints'.irq = ints.irq /\ ints'.dma = ints.dma /\ ints'.isr = ints.isr
      /\ jobs'.armed = jobs.armed /\ jobs'.work = jobs.work /\ jobs'.wd = jobs.wd
      /\ ints'.napi = "busy" /\ raced' = raced
  BY DEF MsixRing, TypeOK, NetType, IntsType, JobsType
<1>5. PlaceInv /\ VectorInv /\ HoldInv /\ AgainInv /\ IrqInv /\ (~raced => RingInv /\ EndInv)
  BY DEF LifeInv
<1>6. PlaceInv'
  BY <1>2, <1>3, <1>4, <1>5, SMTT(20) DEF Moves, PlaceInv, InDevice
<1>7. VectorInv'
  BY <1>2, <1>3, <1>4, <1>5, SMTT(20) DEF Moves, VectorInv, PlaceInv, IrqInv, InDevice
<1>8. HoldInv'
  BY <1>2, <1>3, <1>4, <1>5, HoldersAre, HoldersOne, SMTT(20) DEF Moves, HoldInv, Holds, VectorInv, PlaceInv,
    IrqInv, Resting, Stopped, Recovering, OpenFailed, InDevice, Threads
<1>9. AgainInv'
  BY <1>2, <1>3, <1>4, <1>5, HoldersAre, SMTT(20) DEF Moves, PlaceInv, VectorInv, HoldInv, AgainInv, Holds, Whole,
    OpenFailed, InDevice, Threads
<1>10. IrqInv'
  BY <1>2, <1>3, <1>4, <1>5, HoldersAre, SMTT(20) DEF Moves, IrqInv, PlaceInv, OpenFailed, InDevice, VectorInv,
    HoldInv, Holds, Resting, Threads, Recovering, Stopped
<1>11. ASSUME ~raced' PROVE RingInv'
  <2>1. RingInv /\ EndInv
    BY <1>4, <1>5, <1>11 DEF TypeOK
  <2> QED BY <1>1, <1>2, <1>3, <1>4, <1>5, <2>1, HoldersAre, SMTT(20) DEF Taken, RingInv, Moves, VectorInv, HoldInv,
      EndInv, PlaceInv, Holds, Resting, Threads, Recovering, Stopped, InDevice, Touching
<1>12. ASSUME ~raced' PROVE EndInv'
  <2>1. RingInv /\ EndInv
    BY <1>4, <1>5, <1>12 DEF TypeOK
  <2> QED BY <1>2, <1>3, <1>4, <1>5, <1>12, <2>1, LastFacts, SMTT(20) DEF Moves, EndInv, Leaving, InDevice, PlaceInv
<1> QED BY <1>2, <1>6, <1>7, <1>8, <1>9, <1>10, <1>11, <1>12 DEF LifeInv, Moves

(***************************************************************************)
(* All steps together, and what follows for the properties                 *)
(***************************************************************************)
(* A device that was just probed. *)
Fresh ==
  /\ todo = [t \in Threads |-> <<>>]
  /\ net = NewNet /\ ints = NewInts
  /\ jobs = [armed |-> FALSE, work |-> {}, wd |-> "idle"]
  /\ raced = FALSE

LEMMA FreshTypes == Fresh => TypeOK
<1> SUFFICES ASSUME Fresh PROVE TypeOK
  OBVIOUS
<1>1. <<>> \in Seq(Steps)
  OBVIOUS
<1>2. todo \in [Threads -> Seq(Steps)]
  BY <1>1 DEF Fresh
<1> QED BY <1>2 DEF Fresh, TypeOK, NetType, IntsType, JobsType, NewNet, NewInts, Causes, Works

LEMMA FreshIdle == Fresh => TodoInv /\ \A t \in Threads : Left(t) = {} /\ Idle(t)
<1> SUFFICES ASSUME Fresh PROVE TodoInv /\ \A t \in Threads : Left(t) = {} /\ Idle(t)
  OBVIOUS
<1>1. \A t \in Threads : todo[t] = <<>>
  BY DEF Fresh
<1>2. todo \in [Threads -> Seq(Steps)]
  BY FreshTypes DEF TypeOK
<1>3. Prepared(<<>>)
  BY DEF Prepared
<1>4. \A t \in Threads : Shaped(t, todo[t], {}) /\ Rest(todo[t], 0) = {}
  BY <1>1, ShapedNone
<1> QED BY <1>1, <1>2, <1>3, <1>4 DEF TodoInv, Left, Idle

LEMMA FreshLife == Fresh => LifeInv
<1> SUFFICES ASSUME Fresh PROVE LifeInv
  OBVIOUS
<1>1. /\ Left("user") = {} /\ Left("task") = {} /\ Left("device") = {}
      /\ Idle("user") /\ Idle("task") /\ Idle("device")
  BY FreshIdle DEF Threads
<1>2. /\ net.present /\ ~net.rings /\ ~net.running /\ net.attached /\ ~net.asleep
      /\ ints.napi = "off" /\ ~ints.irq /\ ~ints.dma /\ ints.isr = "idle"
      /\ ~jobs.armed /\ jobs.work = {} /\ jobs.wd = "idle"
  BY DEF Fresh, NewNet, NewInts
<1>3. ~Held
  BY <1>1, HoldersAre DEF Holds
<1>4. PlaceInv /\ VectorInv
  BY <1>1, <1>2 DEF PlaceInv, VectorInv, InDevice
<1>5. HoldInv
  BY <1>1, <1>2, <1>3 DEF HoldInv, Resting, Stopped, Recovering, OpenFailed, InDevice, Held
<1>6. AgainInv /\ IrqInv
  BY <1>1, <1>2, <1>3 DEF AgainInv, IrqInv, Recovering, Stopped, OpenFailed, InDevice, Held
<1>7. RingInv
  <2>1. \A t \in Threads : ~At(t, "resize") /\ ~At(t, "free_irq") /\ ~At(t, "free_rings")
    BY FreshIdle DEF At
  <2> QED BY <1>1, <1>2, <1>3, <2>1 DEF RingInv, Recovering, Stopped, InDevice, Held
<1>8. EndInv
  BY <1>1, <1>2 DEF EndInv, Leaving, InDevice
<1> QED BY <1>4, <1>5, <1>6, <1>7, <1>8 DEF LifeInv

LEMMA FreshAll == Fresh => TypeOK /\ TodoInv /\ LifeInv
BY FreshTypes, FreshIdle, FreshLife

LEMMA FreshNext == Fresh' => TypeOK' /\ TodoInv' /\ LifeInv'
BY FreshAll, PTL

LEMMA ProbeKeeps ==
  ASSUME TypeOK, Probe
  PROVE  TypeOK' /\ TodoInv' /\ LifeInv'
<1>1. todo' = [t \in Threads |-> <<>>]
  BY DEF Probe, TypeOK, Idle
<1>2. jobs' = [armed |-> FALSE, work |-> {}, wd |-> "idle"]
  BY DEF Probe, TypeOK, JobsType
<1>3. Fresh'
  BY <1>1, <1>2 DEF Probe, Fresh, NewNet, NewInts
<1> QED BY <1>3, FreshNext

LEMMA StutterKeeps ==
  ASSUME TypeOK, TodoInv, LifeInv, UNCHANGED vars
  PROVE  TypeOK' /\ TodoInv' /\ LifeInv'
<1>1. todo' = todo /\ net' = net /\ ints' = ints /\ jobs' = jobs /\ raced' = raced
  BY DEF vars
<1>2. TypeOK' /\ TodoInv'
  BY <1>1 DEF TypeOK, TodoInv
<1>3. \A t \in Threads : (Left(t))' = Left(t) /\ ((Idle(t))' <=> Idle(t))
        /\ \A x : (At(t, x))' <=> At(t, x)
  BY <1>1 DEF Left, Idle, At
<1>4. /\ PlaceInv' /\ VectorInv' /\ EndInv' = EndInv
      /\ AgainInv' /\ HoldInv' /\ IrqInv' /\ RingInv' = RingInv
  BY <1>1 DEF LifeInv, PlaceInv, VectorInv, EndInv, AgainInv, HoldInv, IrqInv, RingInv, Leaving, InDevice, Left, Idle,
    Whole, OpenFailed, Held, Holds, Resting, Recovering, Stopped, At
<1> QED BY <1>1, <1>2, <1>4 DEF LifeInv

(* Every step gives every flag a value of its kind. *)
LEMMA TypesKept ==
  ASSUME TypeOK, TodoInv', Next
  PROVE  TypeOK'
<1>1. todo' \in [Threads -> Seq(Steps)]
  BY DEF TodoInv
<1>2. net \in NetType /\ ints \in IntsType /\ jobs \in JobsType /\ raced \in BOOLEAN
  BY DEF TypeOK
<1>3. ASSUME NEW t \in Threads, Step(t)
      PROVE  net' \in NetType /\ ints' \in IntsType /\ jobs' \in JobsType /\ raced' \in BOOLEAN
  <2>1. CASE Stop(t) \/ NapiDisable(t) \/ Quiesce(t) \/ Reset(t) \/ Configure(t)
    <3>1. CASE Stop(t) \/ NapiDisable(t)
      BY <1>2, <3>1 DEF NetType, IntsType, Stop, NapiDisable
    <3>2. CASE Quiesce(t)
      BY <1>2, <3>2 DEF IntsType, JobsType, Quiesce
    <3>3. CASE Reset(t) \/ Configure(t)
      BY <1>2, <3>3 DEF IntsType, Causes, Reset, ResetHw, Configure
    <3> QED BY <2>1, <3>1, <3>2, <3>3
  <2>2. CASE ClearDown(t)
    BY <1>2, <2>2 DEF NetType, ClearDown
  <2>3. CASE Start(t) \/ StartMasked(t)
    <3>1. PICK mask \in SUBSET Causes : StartWith(t, mask)
      BY <2>3 DEF Start, StartMasked, Causes
    <3>2. /\ ints' = [ints EXCEPT !.masked = mask] /\ jobs' = [jobs EXCEPT !.work = @ \union {"watchdog"}]
          /\ raced' = (raced \/ Removing) /\ net' = net
      BY <3>1 DEF StartWith
    <3>3. net' \in NetType /\ ints' \in IntsType
      BY <1>2, <3>1, <3>2 DEF IntsType
    <3>4. jobs' \in JobsType
      BY <1>2, <3>2 DEF JobsType, Works
    <3>5. raced' \in BOOLEAN
      BY <3>2
    <3> QED BY <3>3, <3>4, <3>5
  <2>4. CASE NapiEnable(t) \/ DevOpen(t) \/ SetupRings(t) \/ RequestIrq(t) \/ NotOpen(t) \/ FreeIrq(t) \/ FreeRings(t)
    <3>1. CASE NapiEnable(t)
      BY <1>2, <3>1 DEF IntsType, NapiEnable
    <3>2. CASE DevOpen(t)
      BY <1>2, <3>2 DEF NetType, DevOpen
    <3>3. CASE SetupRings(t)
      BY <1>2, <3>3 DEF NetType, SetupRings
    <3>4. CASE RequestIrq(t)
      BY <1>2, <3>4 DEF NetType, IntsType, RequestIrq
    <3>5. CASE NotOpen(t) \/ FreeIrq(t) \/ FreeRings(t)
      BY <1>2, <3>5 DEF NetType, IntsType, NotOpen, FreeIrq, FreeRings
    <3> QED BY <2>4, <3>1, <3>2, <3>3, <3>4, <3>5
  <2>5. CASE Take(t) \/ Resize(t) \/ Give(t) \/ VlanMask(t) \/ VlanUnmask(t) \/ Detach(t) \/ InitScheme(t)
    BY <1>2, <2>5 DEF NetType, IntsType, Causes, Take, Resize, Give, VlanMask, VlanUnmask, Detach, InitScheme
  <2>6. CASE ClearScheme(t)
    BY <1>2, <2>6 DEF NetType, IntsType, ClearScheme
  <2>7. CASE Thaw(t) \/ Attach(t) \/ SetDown(t) \/ DelTimer(t) \/ Flush(t) \/ Unregister(t) \/ FreeNetdev(t)
    BY <1>2, <2>7 DEF NetType, IntsType, JobsType, Thaw, Attach, SetDown, DelTimer, Flush, Unregister, FreeNetdev
  <2>8. CASE ErrorDown(t) \/ SlotReset(t) \/ IoResume(t)
    BY <1>2, <2>8 DEF ErrorDown, SlotReset, IoResume
  <2> QED BY <1>3, <2>1, <2>2, <2>3, <2>4, <2>5, <2>6, <2>7, <2>8 DEF Step
<1>4. ASSUME Call \/ Sleep \/ Detached \/ PciError \/ ResetTask \/ Probe
      PROVE  net' \in NetType /\ ints' \in IntsType /\ jobs' \in JobsType /\ raced' \in BOOLEAN
  <2>1. CASE Call \/ Sleep \/ Detached
    BY <1>2, <2>1 DEF Call, Sleep, Detached
  <2>2. CASE PciError
    BY <1>2, <2>2 DEF NetType, PciError
  <2>3. CASE ResetTask
    BY <1>2, <2>3 DEF JobsType, ResetTask
  <2>4. CASE Probe
    BY <1>2, <2>4 DEF NetType, IntsType, Causes, NewNet, NewInts, Probe
  <2> QED BY <1>4, <2>1, <2>2, <2>3, <2>4
<1>5. ASSUME Watchdog \/ TimerFires \/ MsixRing
      PROVE  net' \in NetType /\ ints' \in IntsType /\ jobs' \in JobsType /\ raced' \in BOOLEAN
  <2>1. CASE WatchdogTests
    BY <1>2, <2>1 DEF JobsType, WatchdogTests
  <2>2. CASE WatchdogArms
    BY <1>2, <2>2 DEF JobsType, WatchdogArms
  <2>3. CASE TimerFires
    BY <1>2, <2>3 DEF JobsType, Works, TimerFires
  <2>4. CASE MsixRing
    BY <1>2, <2>4 DEF IntsType, MsixRing
  <2> QED BY <1>5, <2>1, <2>2, <2>3, <2>4 DEF Watchdog
<1>6. ASSUME MsixOther
      PROVE  net' \in NetType /\ ints' \in IntsType /\ jobs' \in JobsType /\ raced' \in BOOLEAN
  BY <1>2, <1>6 DEF NetType, IntsType, JobsType, Works, MsixOther
<1>7. ASSUME MsixOtherEnds
      PROVE  net' \in NetType /\ ints' \in IntsType /\ jobs' \in JobsType /\ raced' \in BOOLEAN
  BY <1>2, <1>7 DEF NetType, IntsType, JobsType, MsixOtherEnds
<1> QED BY <1>1, <1>3, <1>4, <1>5, <1>6, <1>7 DEF Next, TypeOK

LEMMA StepKeeps ==
  ASSUME TypeOK, TodoInv, LifeInv, NEW t \in Threads, Step(t)
  PROVE  TodoInv' /\ LifeInv'
<1>1. CASE \/ Stop(t) \/ Quiesce(t) \/ Reset(t) \/ Configure(t) \/ Start(t) \/ StartMasked(t)
           \/ Take(t) \/ Resize(t) \/ Give(t) \/ VlanMask(t) \/ VlanUnmask(t)
  BY <1>1, QuietSteps
<1>2. CASE NapiDisable(t) \/ NapiEnable(t) \/ ClearDown(t) \/ NotOpen(t) \/ FreeIrq(t) \/ FreeRings(t)
  BY <1>2, NapiDisableKeeps, NapiEnableKeeps, ClearDownKeeps, NotOpenKeeps, FreeIrqKeeps, FreeRingsKeeps
<1>3. CASE Detach(t) \/ ClearScheme(t) \/ Thaw(t) \/ Attach(t) \/ SetDown(t) \/ DelTimer(t) \/ Flush(t) \/ FreeNetdev(t)
  BY <1>3, DetachKeeps, ClearSchemeKeeps, ThawKeeps, AttachKeeps, SetDownKeeps, DelTimerKeeps, FlushKeeps,
    FreeNetdevKeeps
<1>4. CASE Unregister(t) \/ ErrorDown(t) \/ SlotReset(t) \/ IoResume(t)
  BY <1>4, UnregisterKeeps, ErrorDownKeeps, SlotResetKeeps, IoResumeKeeps
<1>5. CASE DevOpen(t)
  <2>1. CASE net.attached
    BY <1>5, <2>1, DevOpenedKeeps DEF DevOpen
  <2>2. CASE ~net.attached
    <3>1. Taken(t, "dev_open") /\ UNCHANGED <<net, ints, jobs, raced>>
      BY <1>5, <2>2 DEF DevOpen, Taken
    <3> QED BY <3>1, NotOpenedKeeps
  <2> QED BY <2>1, <2>2
<1>6. CASE SetupRings(t)
  <2>1. CASE Done(t) /\ net' = [net EXCEPT !.rings = TRUE]
    <3>1. Taken(t, "setup_rings") /\ UNCHANGED <<ints, jobs, raced>>
      BY <1>6, <2>1 DEF SetupRings, Taken
    <3> QED BY <2>1, <3>1, RingsSetupKeeps
  <2>2. CASE Fail(t) /\ net' = net
    <3>1. At(t, "setup_rings") /\ UNCHANGED <<net, ints, jobs, raced>>
      BY <1>6, <2>2 DEF SetupRings
    <3> QED BY <2>2, <3>1, RingsNotSetupKeeps
  <2> QED BY <1>6, <2>1, <2>2 DEF SetupRings
<1>7. CASE RequestIrq(t)
  <2>1. CASE Done(t) /\ ints' = [ints EXCEPT !.irq = TRUE] /\ UNCHANGED net
    <3>1. Taken(t, "request_irq") /\ UNCHANGED <<net, jobs, raced>>
      BY <1>7, <2>1 DEF RequestIrq, Taken
    <3> QED BY <2>1, <3>1, IrqRequestedKeeps
  <2>2. CASE Fail(t) /\ ints' = [ints EXCEPT !.dma = FALSE] /\ net' = [net EXCEPT !.rings = FALSE]
    <3>1. At(t, "request_irq") /\ UNCHANGED <<jobs, raced>>
      BY <1>7 DEF RequestIrq
    <3> QED BY <2>2, <3>1, IrqNotRequestedKeeps
  <2> QED BY <1>7, <2>1, <2>2 DEF RequestIrq
<1>8. CASE InitScheme(t)
  <2>1. CASE ints' = [ints EXCEPT !.napi = "off"]
             /\ Expand(t, <<"reset">> \o (IF net.running THEN Open ELSE <<>>))
    <3>1. At(t, "init_scheme") /\ UNCHANGED <<net, jobs, raced>>
      BY <1>8 DEF InitScheme
    <3> QED BY <2>1, <3>1, SchemeInitKeeps
  <2>2. CASE UNCHANGED ints /\ Become(t, <<"thaw">>)
    <3>1. At(t, "init_scheme") /\ UNCHANGED <<net, ints, jobs, raced>>
      BY <1>8, <2>2 DEF InitScheme
    <3> QED BY <2>2, <3>1, SchemeNotInitKeeps
  <2> QED BY <1>8, <2>1, <2>2 DEF InitScheme
<1> QED BY <1>1, <1>2, <1>3, <1>4, <1>5, <1>6, <1>7, <1>8 DEF Step

LEMMA NextKeeps ==
  ASSUME TypeOK, TodoInv, LifeInv, Next
  PROVE  TodoInv' /\ LifeInv'
<1>1. CASE \E t \in Threads : Step(t)
  BY <1>1, StepKeeps
<1>2. CASE Call
  BY <1>2, CallKeeps
<1>3. CASE Sleep
  <2>1. net.present /\ Idle("device") /\ Idle("user") /\ ~raced /\ UNCHANGED <<net, ints, jobs, raced>>
    BY <1>3 DEF Sleep
  <2>2. CASE net.asleep
    BY <1>3, <2>1, <2>2, ResumedKeeps DEF Sleep
  <2>3. CASE ~net.asleep
    BY <1>3, <2>1, <2>3, SuspendedKeeps DEF Sleep
  <2> QED BY <2>2, <2>3
<1>4. CASE Detached
  BY <1>4, DetachedKeeps DEF Detached
<1>5. CASE PciError
  BY <1>5, PciErrorSeenKeeps, PciErrorLastKeeps DEF PciError
<1>6. CASE ResetTask
  BY <1>6, ResetTaskKeeps DEF ResetTask
<1>7. CASE Watchdog
  BY <1>7, WatchdogTestsKeeps, WatchdogArmsKeeps DEF Watchdog
<1>8. CASE TimerFires \/ MsixRing
  BY <1>8, TimerFiresKeeps, MsixRingKeeps
<1>9. CASE MsixOther \/ MsixOtherEnds
  BY <1>9, MsixOtherKeeps, MsixOtherEndsKeeps
<1>10. CASE Probe
  BY <1>10, ProbeKeeps
<1> QED BY <1>1, <1>2, <1>3, <1>4, <1>5, <1>6, <1>7, <1>8, <1>9, <1>10 DEF Next

(* The invariant holds whatever users, the driver core, the PCI layer,     *)
(* igb_reset_task(), the watchdog and the interrupts do, in any order.     *)
THEOREM DeviceInvariance == Spec => []DeviceInv
<1> DEFINE Inv == TypeOK /\ TodoInv /\ LifeInv
<1>1. Init => Inv
  BY FreshAll DEF Init, Fresh
<1>2. Inv /\ [Next]_vars => Inv'
  <2>1. ASSUME Inv, Next PROVE Inv'
    BY <2>1, NextKeeps, TypesKept
  <2>2. ASSUME Inv, UNCHANGED vars PROVE Inv'
    BY <2>2, StutterKeeps
  <2> QED BY <2>1, <2>2
<1>3. Inv => DeviceInv
  BY DEF LifeInv, DeviceInv
<1> QED BY <1>1, <1>2, <1>3, PTL DEF Spec

(* Who is about to call napi_enable(), in igb_up() or igb_open(), has the   *)
(* instance disabled since its own or an earlier igb_down(): BUG_ON() in it *)
(* never stops the kernel.                                                  *)
THEOREM NapiAlwaysPaired == Spec => []NapiPaired
<1>1. DeviceInv => NapiPaired
  <2> SUFFICES ASSUME DeviceInv, NEW t \in Threads, At(t, "napi_enable")
               PROVE  ints.napi \in {"none", "off"}
    BY DEF NapiPaired
  <2>1. TodoInv /\ HoldInv
    BY DEF DeviceInv
  <2>2. PICK left : Left(t) = {"napi_enable"} \union left /\ Follows(t, "napi_enable", left)
    BY <2>1, HeadFollows DEF Steps
  <2>3. Holds(t)
    BY <2>2, NapiEnableLeft DEF Threads, Holds
  <2> QED BY <2>1, <2>3 DEF HoldInv, Held
<1> QED BY <1>1, DeviceInvariance, PTL

(* Once all calls are over, a device that is running, attached and awake is *)
(* up: no order of igb_close(), igb_open(), igb_reinit_locked(), suspend,   *)
(* resume and recovery, nor any failure of igb_open(), leaves it down.      *)
THEOREM UpAlwaysWorks == Spec => []UpWorks
<1>1. DeviceInv => UpWorks
  <2> SUFFICES ASSUME DeviceInv, \A t \in Threads : Idle(t),
                      net.present, net.attached, net.running, ~net.asleep
               PROVE  ~net.down /\ ints.napi \in {"on", "busy"} /\ ints.irq
    BY DEF UpWorks
  <2>1. TypeOK /\ TodoInv /\ VectorInv /\ AgainInv /\ IrqInv
    BY DEF DeviceInv
  <2>2. \A t \in Threads : Left(t) = {}
    BY <2>1, IdleLeft
  <2>3. ~InDevice("unregister") /\ ~OpenFailed /\ ~Held
    BY <2>2 DEF InDevice, OpenFailed, Held, Holds, Threads
  <2>4. ~net.down /\ ints.napi # "off"
    BY <2>1, <2>2, <2>3 DEF AgainInv, Whole
  <2>5. ints.napi # "none"
    BY <2>1 DEF VectorInv
  <2>6. ints.napi \in {"none", "off", "on", "busy"}
    BY <2>1 DEF TypeOK, IntsType
  <2> QED BY <2>1, <2>4, <2>5, <2>6 DEF IrqInv
<1> QED BY <1>1, DeviceInvariance, PTL

(* The NIC never uses rings that igb_close() or a failed igb_open() has     *)
(* freed, nor those that igb_set_ringparam() is about to exchange.          *)
THEOREM RingsAlwaysQuiet == Spec => []RingsQuiet
<1>1. DeviceInv => RingsQuiet
  BY DEF DeviceInv, RingInv, RingsQuiet
<1> QED BY <1>1, DeviceInvariance, PTL

(* After igb_remove() nothing comes that uses the adapter, unless one of    *)
(* the races that `raced' tells of was lost.                                *)
THEOREM NothingLate == Spec => []NoLateWork
<1>1. DeviceInv => NoLateWork
  <2> SUFFICES ASSUME DeviceInv, Freed, ~raced
               PROVE  ~jobs.armed /\ jobs.work = {} /\ jobs.wd = "idle" /\ ints.isr = "idle" /\ Idle("task")
    BY DEF NoLateWork
  <2>1. TodoInv /\ PlaceInv /\ IrqInv /\ EndInv /\ ~net.present /\ Idle("device")
    BY DEF DeviceInv, Freed
  <2>2. Idle("user") /\ ~net.running
    BY <2>1 DEF PlaceInv
  <2>3. Left("user") = {} /\ Left("device") = {}
    BY <2>1, <2>2, IdleLeft DEF Threads
  <2>4. ~ints.irq /\ ints.isr = "idle"
    BY <2>1, <2>2, <2>3 DEF IrqInv
  <2>5. Leaving("del_timer") /\ Leaving("flush")
    BY <2>1, <2>3 DEF Leaving, InDevice
  <2> QED BY <2>1, <2>4, <2>5 DEF EndInv
<1> QED BY <1>1, DeviceInvariance, PTL
=============================================================================
