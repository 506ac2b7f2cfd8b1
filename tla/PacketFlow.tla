----------------------------- MODULE PacketFlow -----------------------------
(***************************************************************************)
(* The life of packet buffers in the processes that run main_loop()        *)
(* (uspace/src/main.c).  A buffer belongs to one process for ever          *)
(* (packet.id), travels to the NIC, to the process that its contents       *)
(* concern, to the net, and has to come back to the free pool of its       *)
(* owner.  One action per call of main_loop(), in its order, and the NIC   *)
(* at any moment.                                                          *)
(*                                                                         *)
(* The queue from process i to process j is the channel that LfQueue       *)
(* implements (PacketChannel): <pending> and <chan>.  One adapter per      *)
(* process.  Abstracted: what a packet contains, so that the process it    *)
(* concerns (Dispatch) and its fate (transmit or drop) are any; the order  *)
(* of lists, except where a ring or a queue serves it first in first out.  *)
(***************************************************************************)
EXTENDS Integers, Sequences, SequencesExt, FiniteSets

CONSTANTS
  Procs,      (* the processes                                           *)
  Packets,    (* the packet buffers of all processes                     *)
  Owner,      (* packet.id: the process whose zone the buffer is from    *)
  RxSize,     (* descriptors of an rx ring; one of them stays unused     *)
  TxSize,     (* descriptors of a tx ring; one of them stays unused      *)
  QueueSize   (* descriptors of an lf_queue; one of them stays unused    *)

ASSUME FlowAssumption ==
  /\ IsFiniteSet(Packets)
  /\ Owner \in [Packets -> Procs]
  /\ {RxSize, TxSize, QueueSize} \subseteq Nat \ {0}

VARIABLES
  pc,         (* pc[i]: the next call of main_loop() in process i        *)
  free,       (* free[i]: zone->free_packet_pool                         *)
  rxRing,     (* rxRing[i]: buffers between head and tail of the rx ring *)
  rxFull,     (* rxFull[i]: those into which the NIC has put a frame     *)
  recvd,      (* recvd[i]: recv_from_driver                              *)
  dispd,      (* dispd[i]: recv_from_dispatch                            *)
  toFree,     (* toFree[i]: free_head                                    *)
  toReclaim,  (* toReclaim[i]: to_reclaim                                *)
  tx,         (* tx[i]: the tx ring from head on, then its packet pool   *)
  sent,       (* sent[i]: how many of tx[i] are between head and tail    *)
  done,       (* done[i]: how many of tx[i] the NIC has transmitted (DD) *)
  pending,    (* pending[i][j]: buffered by i in the queue to j          *)
  chan,       (* chan[i][j]: published by i in the queue to j            *)
  state       (* state[p]: packet.lfq_state                              *)

rxVars == <<rxRing, rxFull>>
txVars == <<tx, sent, done>>
lists == <<recvd, dispd, toFree, toReclaim>>
queues == <<pending, chan>>
vars == <<pc, free, rxVars, lists, txVars, queues, state>>

Owned(i) == {p \in Packets : Owner[p] = i}
Elements(s) == {s[k] : k \in DOMAIN s}
AtMost(n, m) == IF n <= m THEN n ELSE m

(* Nobody sends to itself: both loops over the queues skip q->id. *)
Others(i) == Procs \ {i}

Empty == [i \in Procs |-> {}]
NoQueues == [i \in Procs |-> [j \in Others(i) |-> <<>>]]

(* Some ARP requests may be waiting to be sent: rt_find_server_route(),    *)
(* before the loop, makes them of free buffers.                            *)
Requests(i) == UNION {SetToSeqs(s) : s \in SUBSET Owned(i)}

Init ==
  /\ pc = [i \in Procs |-> "alloc"]
  /\ tx \in {f \in [Procs -> UNION {Requests(i) : i \in Procs}] :
               \A i \in Procs : f[i] \in Requests(i)}
  /\ free = [i \in Procs |-> Owned(i) \ Elements(tx[i])]
  /\ rxRing = Empty /\ rxFull = Empty
  /\ recvd = Empty /\ dispd = Empty /\ toFree = Empty /\ toReclaim = Empty
  /\ sent = [i \in Procs |-> 0] /\ done = [i \in Procs |-> 0]
  /\ pending = NoQueues /\ chan = NoQueues
  /\ state = [p \in Packets |-> "END"]

(* Process i makes the call <now> and goes on to the call <then>. *)
Call(i, now, then) == pc[i] = now /\ pc' = [pc EXCEPT ![i] = then]

-----------------------------------------------------------------------------
(* driver_alloc_rx_buffer: free buffers fill the rx ring. *)
AllocRx(i) ==
  /\ Call(i, "alloc", "recv")
  /\ \E s \in SUBSET free[i] :
       /\ Cardinality(s) = AtMost(Cardinality(free[i]), RxSize - 1 - Cardinality(rxRing[i]))
       /\ free' = [free EXCEPT ![i] = @ \ s]
       /\ rxRing' = [rxRing EXCEPT ![i] = @ \cup s]
  /\ UNCHANGED <<rxFull, lists, txVars, queues, state>>

(* packet_init_and_filter: those of an unknown protocol (bad) are dropped. *)
InitAndFilter(i, frames) ==
  /\ \E bad \in SUBSET frames :
       /\ toFree' = [toFree EXCEPT ![i] = @ \cup bad]
       /\ recvd' = [recvd EXCEPT ![i] = @ \cup (frames \ bad)]
  /\ state' = [p \in Packets |-> IF p \in frames THEN "START" ELSE state[p]]

(* driver_recv, of the frames the NIC has received, and then               *)
(* packet_init_and_filter.                                                 *)
Recv(i) ==
  /\ Call(i, "recv", "dispatch")
  /\ InitAndFilter(i, rxFull[i])
  /\ rxRing' = [rxRing EXCEPT ![i] = @ \ rxFull[i]]
  /\ rxFull' = [rxFull EXCEPT ![i] = {}]
  /\ UNCHANGED <<free, dispd, toReclaim, txVars, queues>>

(* lfq_send_flush: of the packets out[j] buffered for process j, publish   *)
(* as many as the queue to j has room for.                                 *)
Flush(i, out) ==
  LET n(j) == AtMost(Len(out[j]), QueueSize - 1 - Len(chan[i][j])) IN
  /\ pending' = [pending EXCEPT ![i] =
       [j \in Others(i) |-> SubSeq(out[j], n(j) + 1, Len(out[j]))]]
  /\ chan' = [chan EXCEPT ![i] =
       [j \in Others(i) |-> chan[i][j] \o SubSeq(out[j], 1, n(j))]]

(* lfq_send: the packets of s, of which p goes to to[p], join the packets  *)
(* that are buffered by i.                                                 *)
Buffered(i, s, to) ==
  { out \in [Others(i) -> UNION {SetToSeqs(t) : t \in SUBSET s}] :
      \A j \in Others(i) : Elements(out[j]) = {p \in s : to[p] = j} }

(* lfq_send of each packet of s, then lfq_send_flush. *)
SendAndFlush(i, s, to) ==
  \E out \in Buffered(i, s, to) :
    Flush(i, [j \in Others(i) |-> pending[i][j] \o out[j]])

(* dispatch_packet, up to lfq_recv: every received packet stays here or    *)
(* goes to the process it concerns.                                        *)
DispatchOut(i) ==
  /\ Call(i, "dispatch", "dispatched")
  /\ IF recvd[i] = {}
       THEN UNCHANGED <<recvd, state, queues>>
       ELSE \E to \in [recvd[i] -> Procs] :
              LET away == {p \in recvd[i] : to[p] # i} IN
              /\ recvd' = [recvd EXCEPT ![i] = @ \ away]
              /\ state' = [p \in Packets |-> IF p \in away THEN "DISPATCH" ELSE state[p]]
              /\ SendAndFlush(i, away, to)
  /\ UNCHANGED <<free, rxVars, dispd, toFree, toReclaim, txVars>>

(* Mutant of DispatchIn: "case LFQ_RECLAIM" falls into the default of      *)
(* LFQ_DISPATCH, so that a packet that came back is processed again.       *)
DispatchInAll(i) ==
  LET got == UNION {Elements(chan[j][i]) : j \in Others(i)} IN
  /\ Call(i, "dispatched", "process")
  /\ chan' = [j \in Procs |-> [k \in Others(j) |-> IF k = i THEN <<>> ELSE chan[j][k]]]
  /\ dispd' = [dispd EXCEPT ![i] = @ \cup got]
  /\ UNCHANGED <<free, rxVars, recvd, toFree, toReclaim, txVars, pending, state>>

(* dispatch_packet, from lfq_recv on: packets that come back to their      *)
(* owner are freed, others are to be processed.  (A packet in state XMIT   *)
(* would be transmitted and one in state END would stop the program;       *)
(* QueuedStates says that neither is ever received.)                       *)
DispatchIn(i) ==
  LET got == UNION {Elements(chan[j][i]) : j \in Others(i)}
      back == {p \in got : state[p] = "RECLAIM"} IN
  /\ Call(i, "dispatched", "process")
  /\ chan' = [j \in Procs |-> [k \in Others(j) |-> IF k = i THEN <<>> ELSE chan[j][k]]]
  /\ toFree' = [toFree EXCEPT ![i] = @ \cup back]
  /\ dispd' = [dispd EXCEPT ![i] = @ \cup (got \ back)]
  /\ state' = [p \in Packets |-> IF p \in back THEN "END" ELSE state[p]]
  /\ UNCHANGED <<free, rxVars, recvd, toReclaim, txVars, pending>>

(* Mutant of Process: both calls get free_head for what they drop. *)
ProcessAllFreed(i) ==
  /\ Call(i, "process", "reclaimTx")
  /\ \E xmit \in SUBSET (recvd[i] \cup dispd[i]) :
       /\ \E s \in SetToSeqs(xmit) : tx' = [tx EXCEPT ![i] = @ \o s]
       /\ toFree' = [toFree EXCEPT ![i] = @ \cup ((recvd[i] \cup dispd[i]) \ xmit)]
  /\ recvd' = [recvd EXCEPT ![i] = {}]
  /\ dispd' = [dispd EXCEPT ![i] = {}]
  /\ UNCHANGED <<free, rxVars, toReclaim, sent, done, queues, state>>

(* process_packets on both lists: the packets of xmit join the pool of the *)
(* tx ring, the others are dropped: a packet received from the NIC is this *)
(* process's own and is freed, a dispatched one is to be given back.       *)
Process(i) ==
  /\ Call(i, "process", "reclaimTx")
  /\ \E xmit \in SUBSET (recvd[i] \cup dispd[i]) :
       /\ \E s \in SetToSeqs(xmit) : tx' = [tx EXCEPT ![i] = @ \o s]
       /\ toFree' = [toFree EXCEPT ![i] = @ \cup (recvd[i] \ xmit)]
       /\ toReclaim' = [toReclaim EXCEPT ![i] = @ \cup (dispd[i] \ xmit)]
  /\ recvd' = [recvd EXCEPT ![i] = {}]
  /\ dispd' = [dispd EXCEPT ![i] = {}]
  /\ UNCHANGED <<free, rxVars, sent, done, queues, state>>

(* Mutant of ReclaimTx: head is moved before the descriptor's DD is read,  *)
(* so that the first descriptor is never looked at.                        *)
ReclaimTxFromSecond(i) ==
  LET n == IF sent[i] = 0 THEN 0 ELSE AtMost(done[i], sent[i] - 1) IN
  /\ Call(i, "reclaimTx", "reclaim")
  /\ toReclaim' = [toReclaim EXCEPT ![i] = @ \cup Elements(SubSeq(tx[i], 2, n))]
  /\ tx' = [tx EXCEPT ![i] = SubSeq(@, 1, AtMost(n, 1)) \o SubSeq(@, n + 1, Len(@))]
  /\ sent' = [sent EXCEPT ![i] = @ - n + AtMost(n, 1)]
  /\ done' = [done EXCEPT ![i] = @ - n + AtMost(n, 1)]
  /\ UNCHANGED <<free, rxVars, recvd, dispd, toFree, queues, state>>

(* driver_reclaim_tx_buffer: transmitted packets leave the tx ring, except *)
(* that the loop "while((i + 1)%size != end)" stops before the last one.   *)
ReclaimTx(i) ==
  LET n == IF sent[i] = 0 THEN 0 ELSE AtMost(done[i], sent[i] - 1) IN
  /\ Call(i, "reclaimTx", "reclaim")
  /\ toReclaim' = [toReclaim EXCEPT ![i] = @ \cup Elements(SubSeq(tx[i], 1, n))]
  /\ tx' = [tx EXCEPT ![i] = SubSeq(@, n + 1, Len(@))]
  /\ sent' = [sent EXCEPT ![i] = @ - n]
  /\ done' = [done EXCEPT ![i] = @ - n]
  /\ UNCHANGED <<free, rxVars, recvd, dispd, toFree, queues, state>>

(* Mutants of DispatchReclaim: the packet is not unlinked from the list;   *)
(* its lfq_state is left as it is.                                         *)
DispatchReclaimLinked(i) ==
  LET foreign == toReclaim[i] \ Owned(i) IN
  /\ Call(i, "reclaim", "free")
  /\ state' = [p \in Packets |-> IF p \in foreign THEN "RECLAIM" ELSE state[p]]
  /\ IF toReclaim[i] = {} THEN UNCHANGED queues ELSE SendAndFlush(i, foreign, Owner)
  /\ UNCHANGED <<free, rxVars, lists, txVars>>

DispatchReclaimSameState(i) ==
  LET foreign == toReclaim[i] \ Owned(i) IN
  /\ Call(i, "reclaim", "free")
  /\ toReclaim' = [toReclaim EXCEPT ![i] = @ \ foreign]
  /\ IF toReclaim[i] = {} THEN UNCHANGED queues ELSE SendAndFlush(i, foreign, Owner)
  /\ UNCHANGED <<free, rxVars, recvd, dispd, toFree, txVars, state>>

(* dispatch_reclaim: packets of other processes start their way back. *)
DispatchReclaim(i) ==
  LET foreign == toReclaim[i] \ Owned(i) IN
  /\ Call(i, "reclaim", "free")
  /\ toReclaim' = [toReclaim EXCEPT ![i] = @ \ foreign]
  /\ state' = [p \in Packets |-> IF p \in foreign THEN "RECLAIM" ELSE state[p]]
  /\ IF toReclaim[i] = {} THEN UNCHANGED queues ELSE SendAndFlush(i, foreign, Owner)
  /\ UNCHANGED <<free, rxVars, recvd, dispd, toFree, txVars>>

(* packet_zone_reclaim on both lists. *)
ReclaimZone(i) ==
  /\ Call(i, "free", "send")
  /\ free' = [free EXCEPT ![i] = @ \cup toFree[i] \cup toReclaim[i]]
  /\ toFree' = [toFree EXCEPT ![i] = {}]
  /\ toReclaim' = [toReclaim EXCEPT ![i] = {}]
  /\ UNCHANGED <<rxVars, recvd, dispd, txVars, queues, state>>

(* driver_send: the tx ring takes what it has room for from its pool. *)
Send(i) ==
  /\ Call(i, "send", "flush")
  /\ sent' = [sent EXCEPT ![i] = AtMost(Len(tx[i]), TxSize - 1)]
  /\ UNCHANGED <<free, rxVars, lists, tx, done, queues, state>>

(* Mutant of DispatchFlush: no flush at the end of the loop. *)
DispatchFlushSkipped(i) ==
  /\ Call(i, "flush", "alloc")
  /\ UNCHANGED <<free, rxVars, lists, txVars, queues, state>>

(* dispatch_flush; timer_expire() touches no packet. *)
DispatchFlush(i) ==
  /\ Call(i, "flush", "alloc")
  /\ Flush(i, pending[i])
  /\ UNCHANGED <<free, rxVars, lists, txVars, state>>

Step(i) ==
  \/ AllocRx(i) \/ Recv(i) \/ DispatchOut(i) \/ DispatchIn(i) \/ Process(i)
  \/ ReclaimTx(i) \/ DispatchReclaim(i) \/ ReclaimZone(i) \/ Send(i)
  \/ DispatchFlush(i)

(* The NIC: a frame arrives, the transmission of a frame ends. *)
FrameArrives(i) ==
  /\ \E p \in rxRing[i] \ rxFull[i] : rxFull' = [rxFull EXCEPT ![i] = @ \cup {p}]
  /\ UNCHANGED <<pc, free, rxRing, lists, txVars, queues, state>>

FrameSent(i) ==
  /\ done[i] < sent[i]
  /\ done' = [done EXCEPT ![i] = @ + 1]
  /\ UNCHANGED <<pc, free, rxVars, lists, tx, sent, queues, state>>

Next == \E i \in Procs : Step(i) \/ FrameArrives(i) \/ FrameSent(i)

Spec == Init /\ [][Next]_vars

(* Every process runs main_loop() for ever and the NIC transmits what it   *)
(* is given.  No frame has to arrive.                                      *)
FairSpec == Spec /\ \A i \in Procs : WF_vars(Step(i)) /\ WF_vars(FrameSent(i))

-----------------------------------------------------------------------------
LfqStates == {"START", "DISPATCH", "RECLAIM", "END"}
Calls == {"alloc", "recv", "dispatch", "dispatched", "process", "reclaimTx",
          "reclaim", "free", "send", "flush"}

TypeOK ==
  /\ pc \in [Procs -> Calls]
  /\ \A f \in {free, rxRing, rxFull, recvd, dispd, toFree, toReclaim} :
       f \in [Procs -> SUBSET Packets]
  /\ tx \in [Procs -> Seq(Packets)]
  /\ sent \in [Procs -> Nat] /\ done \in [Procs -> Nat]
  /\ DOMAIN pending = Procs /\ DOMAIN chan = Procs
  /\ state \in [Packets -> LfqStates]
  /\ \A i \in Procs :
       /\ rxFull[i] \subseteq rxRing[i]
       /\ Cardinality(rxRing[i]) <= RxSize - 1
       /\ done[i] <= sent[i] /\ sent[i] <= AtMost(Len(tx[i]), TxSize - 1)
       /\ \A f \in {pending, chan} : f[i] \in [Others(i) -> Seq(Packets)]
       /\ \A j \in Others(i) : Len(chan[i][j]) <= QueueSize - 1

(* The lists of process i, and what i has sent to j that j has not got.    *)
Lists(i) == [free |-> free[i], rxRing |-> rxRing[i], recvd |-> recvd[i], dispd |-> dispd[i],
             toFree |-> toFree[i], toReclaim |-> toReclaim[i]]
ListNames == {"free", "rxRing", "recvd", "dispd", "toFree", "toReclaim"}
Queue(i, j) == chan[i][j] \o pending[i][j]

(* The lists that packet p is in, and its positions in tx rings and queues. *)
InLists(p) == {at \in Procs \X ListNames : p \in Lists(at[1])[at[2]]}
InTx(p) == UNION {{i} \X {k \in DOMAIN tx[i] : tx[i][k] = p} : i \in Procs}
InQueues(p) ==
  UNION {{q} \X {k \in DOMAIN Queue(q[1], q[2]) : Queue(q[1], q[2])[k] = p} :
           q \in {r \in Procs \X Procs : r[1] # r[2]}}

(* No buffer is ever lost or used for two things at once, whatever the     *)
(* processes and the NIC do at the same time.                              *)
Conservation ==
  \A p \in Packets :
    Cardinality(InLists(p)) + Cardinality(InTx(p)) + Cardinality(InQueues(p)) = 1

(* A process gives the NIC buffers of its own only: a foreign buffer never *)
(* ends in its free pool, however it was received, dropped or transmitted. *)
OwnBuffersOnly ==
  \A i \in Procs : free[i] \cup rxRing[i] \cup recvd[i] \cup toFree[i] \subseteq Owned(i)

(* A packet in a queue is either on its way from its owner, to be          *)
(* processed, or on its way back to its owner, to be freed: the receiver   *)
(* never meets a state that makes it exit(-1) or process a reclaimed one.  *)
QueuedStates ==
  \A i \in Procs : \A j \in Others(i) :
    \A p \in Elements(pending[i][j]) \cup Elements(chan[i][j]) :
      \/ Owner[p] = i /\ state[p] = "DISPATCH"
      \/ Owner[p] = j /\ state[p] = "RECLAIM"

(* A packet that was dispatched reaches the other process, however full    *)
(* the queue is.                                                           *)
DispatchedArrives ==
  \A p \in Packets, i \in Procs : \A j \in Others(i) :
    (p \in Elements(pending[i][j])) ~> (p \in dispd[j] \cup toFree[j])

(* A buffer that another process gives back is free again in the end. *)
ReclaimedIsFreed ==
  \A p \in Packets : (state[p] = "RECLAIM") ~> (p \in free[Owner[p]])

(* A buffer whose transmission has ended leaves the tx ring, unless it is  *)
(* the last one of the ring: driver_reclaim_tx_buffer() keeps that one     *)
(* until another is sent.                                                  *)
TransmittedIsReclaimed ==
  \A i \in Procs, p \in Packets :
    (p \in Elements(SubSeq(tx[i], 1, AtMost(done[i], sent[i] - 1)))) ~> (p \notin Elements(tx[i]))
=============================================================================
