------------------------------ MODULE LfQueue ------------------------------
(***************************************************************************)
(* One lock-free queue of uspace/src/lf_queue.c: a ring of Size            *)
(* descriptors in shared memory with one sending and one receiving         *)
(* process.  The sender owns <tail> and the list in which lfq_send()       *)
(* buffers packets, the receiver owns <head>.  Each read or write of       *)
(* shared memory is one step, so every interleaving of                     *)
(* __put_packet_to_queue() and __get_packet_from_queue() is a behaviour.   *)
(* The stores of the sender become visible in program order (sfence before *)
(* the compare-and-swap, on x86).                                          *)
(*                                                                         *)
(* A behaviour starts when both processes have left lfq_module_init();     *)
(* LfQueueBoot models processes that leave it at different times.          *)
(***************************************************************************)
EXTENDS Integers, Sequences

CONSTANTS
  Packets,    (* packets the sender may send, named by physical address  *)
  Size,       (* queue->size, the number of descriptors                  *)
  NoPacket    (* what a descriptor holds before it is first written      *)

(* lfq_module_init refuses desc_num <= 0. *)
ASSUME SizeAssumption == Size \in Nat \ {0}
ASSUME NoPacketAssumption == NoPacket \notin Packets

VARIABLES
  home,       (* packets that are in no list of this queue               *)
  staged,     (* queue->list: packets buffered by lfq_send()             *)
  desc,       (* queue->desc                                             *)
  head, tail, (* queue->head, queue->tail                                *)
  sndPc,      (* where the sender is in __put_packet_to_queue            *)
  sndHead, sndTail, sndI,     (* its locals head, tail and i             *)
  rcvPc,      (* where the receiver is in __get_packet_from_queue        *)
  rcvHead, rcvTail, rcvI,     (* its locals head, tail and i             *)
  recv        (* the receiver's list lhead                               *)

sndVars == <<sndPc, sndHead, sndTail, sndI>>
rcvVars == <<rcvPc, rcvHead, rcvTail, rcvI>>
vars == <<home, staged, desc, head, tail, sndVars, rcvVars, recv>>

Slot == 0..(Size - 1)

(* The descriptor after i: both loops wrap with "if(i >= size) i = 0". *)
NextSlot(i) == IF i + 1 >= Size THEN 0 ELSE i + 1

-----------------------------------------------------------------------------
(* lfq_queue_create_init, and locals that hold nothing yet. *)
Init ==
  /\ home = Packets
  /\ staged = <<>>
  /\ desc = [s \in Slot |-> NoPacket]
  /\ head = 0
  /\ tail = 0
  /\ sndPc = "idle" /\ sndHead = 0 /\ sndTail = 0 /\ sndI = 0
  /\ rcvPc = "idle" /\ rcvHead = 0 /\ rcvTail = 0 /\ rcvI = 0
  /\ recv = <<>>

(* __lfq_send: buffer a packet; the flush that follows is the Put steps. *)
Send(p) ==
  /\ sndPc = "idle"
  /\ p \in home
  /\ home' = home \ {p}
  /\ staged' = Append(staged, p)
  /\ UNCHANGED <<desc, head, tail, sndVars, rcvVars, recv>>

(* int head = queue->head; *)
PutReadHead ==
  /\ sndPc = "idle"
  /\ sndPc' = "tail"
  /\ sndHead' = head
  /\ UNCHANGED <<home, staged, desc, head, tail, sndTail, sndI, rcvVars, recv>>

(* int tail = queue->tail; i = tail; return when the ring looks full. *)
PutReadTail ==
  /\ sndPc = "tail"
  /\ sndTail' = tail
  /\ sndI' = tail
  /\ sndPc' = IF NextSlot(tail) = sndHead THEN "idle" ELSE "put"
  /\ UNCHANGED <<home, staged, desc, head, tail, sndHead, rcvVars, recv>>

(* Mutant of PutPacket: the loop runs until the buffer is empty, without   *)
(* looking at <head>.                                                      *)
PutPacketUnbounded ==
  /\ sndPc = "put"
  /\ staged # <<>>
  /\ desc' = [desc EXCEPT ![sndI] = Head(staged)]
  /\ staged' = Tail(staged)
  /\ sndI' = NextSlot(sndI)
  /\ UNCHANGED <<home, head, tail, sndPc, sndHead, sndTail, rcvVars, recv>>

(* One turn of the loop: unlink the first buffered packet, write its       *)
(* physical address into the next descriptor.                              *)
PutPacket ==
  /\ sndPc = "put"
  /\ staged # <<>>
  /\ NextSlot(sndI) # sndHead
  /\ desc' = [desc EXCEPT ![sndI] = Head(staged)]
  /\ staged' = Tail(staged)
  /\ sndI' = NextSlot(sndI)
  /\ UNCHANGED <<home, head, tail, sndPc, sndHead, sndTail, rcvVars, recv>>

(* Mutant of PutCommit: the compare-and-swap stores the old <tail> back. *)
PutCommitOldTail ==
  /\ sndPc = "put"
  /\ staged = <<>> \/ NextSlot(sndI) = sndHead
  /\ sndPc' = "idle"
  /\ tail' = sndTail
  /\ UNCHANGED <<home, staged, desc, head, sndHead, sndTail, sndI, rcvVars, recv>>

(* The loop has ended: publish with a compare-and-swap of <tail>, or exit  *)
(* when somebody else moved it.  At most Size - 1 packets were written, so *)
(* count > 0 is i # tail.                                                  *)
PutCommit ==
  /\ sndPc = "put"
  /\ staged = <<>> \/ NextSlot(sndI) = sndHead
  /\ \/ /\ sndI = sndTail
        /\ sndPc' = "idle"
        /\ tail' = tail
     \/ /\ sndI # sndTail
        /\ tail = sndTail
        /\ sndPc' = "idle"
        /\ tail' = sndI
     \/ /\ sndI # sndTail
        /\ tail # sndTail
        /\ sndPc' = "exited"
        /\ tail' = tail
  /\ UNCHANGED <<home, staged, desc, head, sndHead, sndTail, sndI, rcvVars, recv>>

(* int head = queue->head; i = head; *)
GetReadHead ==
  /\ rcvPc = "idle"
  /\ rcvPc' = "tail"
  /\ rcvHead' = head
  /\ rcvI' = head
  /\ UNCHANGED <<home, staged, desc, head, tail, sndVars, rcvTail, recv>>

(* int tail = queue->tail; *)
GetReadTail ==
  /\ rcvPc = "tail"
  /\ rcvPc' = "get"
  /\ rcvTail' = tail
  /\ UNCHANGED <<home, staged, desc, head, tail, sndVars, rcvHead, rcvI, recv>>

(* Mutants of GetPacket: a do-while loop, as in __put_packet_to_queue;     *)
(* list_add() in the place of list_add_tail().                             *)
GetPacketDoWhile ==
  /\ rcvPc = "get"
  /\ rcvI # rcvTail \/ rcvI = rcvHead
  /\ recv' = Append(recv, desc[rcvI])
  /\ rcvI' = NextSlot(rcvI)
  /\ UNCHANGED <<home, staged, desc, head, tail, sndVars, rcvPc, rcvHead, rcvTail>>

GetPacketAtHead ==
  /\ rcvPc = "get"
  /\ rcvI # rcvTail
  /\ recv' = <<desc[rcvI]>> \o recv
  /\ rcvI' = NextSlot(rcvI)
  /\ UNCHANGED <<home, staged, desc, head, tail, sndVars, rcvPc, rcvHead, rcvTail>>

(* One turn of the loop: append the descriptor's packet to the list. *)
GetPacket ==
  /\ rcvPc = "get"
  /\ rcvI # rcvTail
  /\ recv' = Append(recv, desc[rcvI])
  /\ rcvI' = NextSlot(rcvI)
  /\ UNCHANGED <<home, staged, desc, head, tail, sndVars, rcvPc, rcvHead, rcvTail>>

(* Mutant of GetCommit: a receiver that has drained the ring moves both    *)
(* indexes back to the start.                                              *)
GetCommitRewind ==
  /\ rcvPc = "get"
  /\ rcvI = rcvTail
  /\ rcvPc' = "process"
  /\ head' = IF tail = rcvI THEN 0 ELSE rcvI
  /\ tail' = IF tail = rcvI THEN 0 ELSE tail
  /\ UNCHANGED <<home, staged, desc, sndVars, rcvHead, rcvTail, rcvI, recv>>

(* The loop has ended: release the descriptors with a compare-and-swap of  *)
(* <head>, or exit when somebody else moved it.                            *)
GetCommit ==
  /\ rcvPc = "get"
  /\ rcvI = rcvTail
  /\ \/ /\ rcvI = rcvHead
        /\ rcvPc' = "process"
        /\ head' = head
     \/ /\ rcvI # rcvHead
        /\ head = rcvHead
        /\ rcvPc' = "process"
        /\ head' = rcvI
     \/ /\ rcvI # rcvHead
        /\ head # rcvHead
        /\ rcvPc' = "exited"
        /\ head' = head
  /\ UNCHANGED <<home, staged, desc, tail, sndVars, rcvHead, rcvTail, rcvI, recv>>

(* The rest of the receiver's main loop empties the list before the next   *)
(* lfq_recv(): each packet is sent to the net, freed or sent elsewhere.    *)
ProcessReceived ==
  /\ rcvPc = "process"
  /\ rcvPc' = "idle"
  /\ home' = home \cup {recv[k] : k \in 1..Len(recv)}
  /\ recv' = <<>>
  /\ UNCHANGED <<staged, desc, head, tail, sndVars, rcvHead, rcvTail, rcvI>>

Put == PutReadHead \/ PutReadTail \/ PutPacket \/ PutCommit
Get == GetReadHead \/ GetReadTail \/ GetPacket \/ GetCommit

Next ==
  \/ \E p \in Packets : Send(p)
  \/ Put
  \/ Get
  \/ ProcessReceived

Spec == Init /\ [][Next]_vars

(* Both processes run main_loop() forever: each keeps flushing, receiving  *)
(* and processing.  Nothing says that anybody keeps sending.               *)
FairSpec == Spec /\ WF_vars(Put) /\ WF_vars(Get) /\ WF_vars(ProcessReceived)

-----------------------------------------------------------------------------
(* Positions on the ring. *)

(* Number of steps from slot i to slot j. *)
Dist(i, j) == IF j >= i THEN j - i ELSE j - i + Size

(* The slot k steps after slot i. *)
At(i, k) == IF i + k < Size THEN i + k ELSE i + k - Size

(* The contents of the slots from i up to and not including j. *)
Ring(i, j) == [k \in 1..Dist(i, j) |-> desc[At(i, k - 1)]]

(* Where the next packet is taken from: the receiver's position while it   *)
(* walks the ring, <head> otherwise.                                       *)
Cursor == IF rcvPc = "get" THEN rcvI ELSE head

(* Where the next packet is written. *)
WriteEnd == IF sndPc = "put" THEN sndI ELSE tail

(* The channel this queue implements. *)
Pending == Ring(tail, WriteEnd) \o staged
Published == Ring(Cursor, tail)

Channel == INSTANCE PacketChannel WITH
             Capacity <- Size - 1, pending <- Pending, chan <- Published

-----------------------------------------------------------------------------
(* The queue's variables have their types: indexes stay on the ring and    *)
(* everything in a list is a packet, never an unwritten descriptor.        *)
TypeOK ==
  /\ home \subseteq Packets
  /\ staged \in Seq(Packets)
  /\ desc \in [Slot -> Packets \cup {NoPacket}]
  /\ head \in Slot /\ tail \in Slot
  /\ sndPc \in {"idle", "tail", "put", "exited"}
  /\ sndHead \in Slot /\ sndTail \in Slot /\ sndI \in Slot
  /\ rcvPc \in {"idle", "tail", "get", "process", "exited"}
  /\ rcvHead \in Slot /\ rcvTail \in Slot /\ rcvI \in Slot
  /\ recv \in Seq(Packets)

(* The exit(-1) after a failed compare-and-swap, on <tail> in              *)
(* __put_packet_to_queue and on <head> in __get_packet_from_queue, is      *)
(* never reached: each index is written by one process only.               *)
NoExit == sndPc # "exited" /\ rcvPc # "exited"

(* The sender, which works from a possibly stale copy of <head>, never     *)
(* writes a descriptor that the receiver may still read: what is published *)
(* and what is being written fit on the ring with one slot to spare.       *)
NoOverrun == Dist(head, tail) + Dist(tail, WriteEnd) <= Size - 1

(* The receiver never reads past what has been published. *)
NoUnderrun == rcvPc = "get" => Dist(head, rcvI) + Dist(rcvI, rcvTail) <= Dist(head, tail)

(* The ring is a FIFO channel: every step of the queue is a step of        *)
(* PacketChannel or changes nothing the channel can see.                   *)
ImplementsChannel == Channel!Spec

(* Every packet that lfq_send() buffered reaches the other process. *)
Delivery ==
  \A p \in Packets :
    (\E k \in 1..Len(staged) : staged[k] = p)
      ~> (\E k \in 1..Len(recv) : recv[k] = p)
=============================================================================
