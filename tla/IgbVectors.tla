----------------------------- MODULE IgbVectors -----------------------------
(***************************************************************************)
(* Which interrupt a queue of a NIC raises, modules/igb/igb_main.c.        *)
(* A NIC gets some queues and vectors at probe (igb_sw_init), a register   *)
(* set for each of its rings, which depends on the virtual functions       *)
(* (VFs), a vector for each ring or pair of rings, and an entry in the     *)
(* NIC's vector table when it is opened.  All of it is done anew after a   *)
(* suspend, and in part when the interrupts of MSI-X cannot be had: then   *)
(* the NIC goes on with MSI or its legacy interrupt.                       *)
(*                                                                         *)
(* A NIC has as many rx as tx rings.  The calls are in one thread, each of *)
(* them is a step.                                                         *)
(***************************************************************************)
EXTENDS Integers

CONSTANTS
  Mac,         \* hw->mac.type
  QueueNum,    \* the module's queue_num, at most one for each CPU
  MaxVfs       \* the module's max_vfs

MAX_Q_VECTORS == 8
None == -1     \* no ring, IGB_N0_QUEUE; no vector

VARIABLES
  pc,      \* "start", "probe", "down", "up", "suspended"; "failed": the probe or the
           \* resume has given up; "broken": a pointer to a ring leads nowhere
  irq,     \* "msix", "msi", "legacy", or "none" while nothing is set up
  vfs,     \* vfs_allocated_count
  rss,     \* rss_queues
  pairs,   \* IGB_FLAG_QUEUE_PAIRS
  num,     \* num_rx_queues and num_tx_queues
  nqv,     \* num_q_vectors
  reg,     \* reg_idx of rx ring and tx ring i
  qv,      \* the rings of each q_vector
  table    \* the NIC's vector table: the vector of each cell

counts == <<vfs, rss, pairs, num, nqv>>
vectorVars == <<pc, irq, counts, reg, qv, table>>

Macs == {"82575", "82576", "82580", "i350"}
Rings == 0..(num - 1)
QVectors == 0..(nqv - 1)
Lesser(a, b) == IF a < b THEN a ELSE b

(***************************************************************************)
(* igb_sw_init, igb_init_interrupt_scheme                                  *)
(***************************************************************************)
MaxRxQueues(v) == IF v > 0 THEN 2 ELSE IF Mac = "82575" THEN 4 ELSE 8

\* One vector for each ring, or for a pair of them
NumVecs(r, p) == IF p THEN r ELSE 2 * r

\* Q_IDX_82576
QIdx(i) == ((i % 2) * 8) + (i \div 2)

\* igb_cache_ring_register
RingRegister(v, i) == IF Mac = "82576" /\ v > 0 THEN v + QIdx(i) ELSE v + i

\* igb_map_ring_to_vector
MapRingToVector(n, q) ==
  [v \in 0..(q - 1) |->
     [rx |-> IF v < n THEN v ELSE None,
      tx |-> IF q < 2 * n THEN v ELSE IF v < n THEN None ELSE v - n]]

\* igb_set_interrupt_capability: MSI-X for r queues, or one queue and no VFs
WithMsix(v, r, p) ==
  irq' = "msix" /\ vfs' = v /\ rss' = r /\ pairs' = p /\ num' = r /\ nqv' = NumVecs(r, p)
WithoutMsix ==
  irq' \in {"msi", "legacy"} /\ vfs' = 0 /\ rss' = 1 /\ pairs' = TRUE /\ num' = 1 /\ nqv' = 1

InitInterruptScheme(v, r, p, next) ==
  /\ WithMsix(v, r, p) \/ WithoutMsix
  /\ reg' = [i \in 0..(num' - 1) |-> RingRegister(vfs', i)]
  /\ qv' = MapRingToVector(num', nqv')
  /\ pc' \in {next, "failed"}
  /\ UNCHANGED table

SwInit ==
  LET v == IF Mac = "82576" THEN MaxVfs ELSE 0
      r == Lesser(MaxRxQueues(v), QueueNum)
  IN /\ pc = "start"
     /\ InitInterruptScheme(v, r, r > 4 \/ (r > 1 /\ v > 6), "probe")

\* No more than seven, and none when they cannot be had.  The rings keep their registers.
ProbeVfs ==
  /\ pc = "probe"
  /\ pc' = "down"
  /\ vfs' \in {Lesser(vfs, 7), 0}
  /\ UNCHANGED <<irq, rss, pairs, num, nqv, reg, qv, table>>

(***************************************************************************)
(* igb_open and igb_close                                                  *)
(***************************************************************************)
\* Index and byte of a ring's cell in IVAR.  The 82575 has a register for each vector, and
\* in it a bit for each queue: its cells are the queues.
Cell(kind, q) ==
  LET side == IF kind = "tx" THEN 1 ELSE 0 IN
  IF Mac = "82575" THEN <<q, side>>
  ELSE IF Mac = "82576" THEN <<q % 8, (IF q < 8 THEN 0 ELSE 2) + side>>
  ELSE <<q \div 2, (2 * (q % 2)) + side>>
Cells == (0..7) \X (0..3)
NoVectors == [c \in Cells |-> None]

CellsOf(v) ==
  (IF qv[v].rx = None THEN {} ELSE {Cell("rx", reg[qv[v].rx])})
    \cup (IF qv[v].tx = None THEN {} ELSE {Cell("tx", reg[qv[v].tx])})

\* igb_assign_vector, for all q_vectors in turn: the last to write a cell has it.  With
\* MSI-X vector 0 is for all other interrupts.
FirstVector == IF irq = "msix" THEN 1 ELSE 0
AssignVectors ==
  [c \in Cells |->
     LET writers == {v \in QVectors : c \in CellsOf(v)} IN
     IF writers = {} THEN table[c]
     ELSE FirstVector + (CHOOSE v \in writers : \A w \in writers : w <= v)]

IgbRequestIrq ==
  /\ pc = "down"
  /\ pc' = "up"
  /\ table' = AssignVectors
  /\ UNCHANGED <<irq, counts, reg, qv>>

\* igb_request_irq, when a vector of MSI-X could not be had: all is freed, and one queue
\* and one q_vector are allocated.  The ring is not mapped to the q_vector; rss_queues and
\* the VFs stay, for which igb_cache_ring_register looks for rings that are gone.
FallBack ==
  /\ pc = "down" /\ irq = "msix"
  /\ irq' \in {"msi", "legacy"}
  /\ num' = 1 /\ nqv' = 1
  /\ reg' = [i \in 0..0 |-> RingRegister(vfs, i)]
  /\ qv' = [v \in 0..0 |-> [rx |-> None, tx |-> None]]
  /\ pc' \in IF Mac = "82576" /\ vfs > 0 /\ rss > 1 THEN {"broken"} ELSE {"up", "broken"}
  /\ UNCHANGED <<vfs, rss, pairs, table>>

\* The reset clears the table
IgbClose ==
  /\ pc = "up"
  /\ pc' = "down"
  /\ table' = NoVectors
  /\ UNCHANGED <<irq, counts, reg, qv>>

\* igb_clear_interrupt_scheme, of a NIC that is closed, and igb_resume
IgbSuspend ==
  /\ pc = "down"
  /\ pc' = "suspended"
  /\ irq' = "none" /\ num' = 0 /\ nqv' = 0
  /\ reg' = [i \in 0..(-1) |-> None]
  /\ qv' = [v \in 0..(-1) |-> None]
  /\ UNCHANGED <<vfs, rss, pairs, table>>

IgbResume ==
  /\ pc = "suspended"
  /\ InitInterruptScheme(vfs, rss, pairs, "down")

-----------------------------------------------------------------------------
VectorsInit ==
  /\ Mac \in Macs /\ QueueNum \in Nat \ {0} /\ MaxVfs \in Nat
  /\ pc = "start" /\ irq = "none"
  /\ vfs = 0 /\ rss = 1 /\ pairs = FALSE /\ num = 0 /\ nqv = 0
  /\ reg = [i \in 0..(-1) |-> None] /\ qv = [v \in 0..(-1) |-> None]
  /\ table = NoVectors

VectorsNext == SwInit \/ ProbeVfs \/ IgbRequestIrq \/ FallBack \/ IgbClose \/ IgbSuspend \/ IgbResume

VectorsSpec == VectorsInit /\ [][VectorsNext]_vectorVars

(***************************************************************************)
(* igb_setup_mrqc: where the NIC puts a packet with hash j.                *)
(***************************************************************************)
RssNum == IF vfs = 0 THEN rss ELSE IF Mac = "82576" THEN 2 ELSE 1
Shift == IF Mac = "82575" THEN 64 ELSE IF vfs > 0 THEN 8 ELSE 1
Reta(j) == (j % RssNum) * Shift

\* The NIC takes the queue from the upper bits (82575), and adds it to the first queue of
\* the pool of the driver (VMDq with two queues each)
RssQueue(j) ==
  IF Mac = "82575" THEN Reta(j) \div 64
  ELSE IF vfs > 0 /\ rss = 1 THEN vfs
  ELSE vfs + Reta(j)

\* VF k has the queues k and k + 8
VfQueues == {k : k \in 0..(vfs - 1)} \cup {k + 8 : k \in 0..(vfs - 1)}

-----------------------------------------------------------------------------
\* The ring has its q_vector, unless the driver has fallen back when opening the NIC
Mapped == nqv > 0 /\ qv[0].rx # None

\* The rings got their registers while there were at most seven VFs
Numbered == num > 0 /\ reg[0] <= 7

\* The q_vectors fit into adapter->q_vector, and the registers are ones the NIC has.
VectorsFit ==
  /\ nqv <= MAX_Q_VECTORS
  /\ Numbered => \A i \in Rings :
       reg[i] < (IF Mac = "82576" THEN 16 ELSE IF Mac = "82575" THEN 4 ELSE 8)

\* When a NIC is open every rx and tx ring has the vector of the q_vector that polls it:
\* no other ring or q_vector has written its cell.
EveryRingHeard ==
  pc = "up" /\ Mapped /\ Numbered =>
    \A i \in Rings :
      /\ \E v \in QVectors : qv[v].rx = i /\ table[Cell("rx", reg[i])] = FirstVector + v
      /\ \E v \in QVectors : qv[v].tx = i /\ table[Cell("tx", reg[i])] = FirstVector + v

\* "In order to avoid collision we start at the first free queue": no ring of the driver
\* has a queue of a VF, if the VFs are still those that the rings were numbered with.
PfApart ==
  Numbered /\ reg[0] = vfs => \A i \in Rings : reg[i] \notin VfQueues

\* Under the same conditions all packets, whatever their hash, get to a ring.
RssLands ==
  pc = "up" /\ Mapped /\ Numbered /\ reg[0] = vfs =>
    \A j \in 0..127 : \E i \in Rings : RssQueue(j) = reg[i]

\* Without MSI-X there is one q_vector with a ring of each kind, both of which
\* igb_set_itr() uses without looking.
MsiPaired ==
  pc = "up" /\ irq # "msix" /\ Mapped => nqv = 1 /\ qv[0] = [rx |-> 0, tx |-> 0]
=============================================================================
