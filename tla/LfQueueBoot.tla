---------------------------- MODULE LfQueueBoot ----------------------------
(***************************************************************************)
(* LfQueue with its start.  After fork() every process runs                *)
(* lfq_module_init() on the memory that all of them share, at its own      *)
(* pace, and enters its main loop: nothing makes it wait for the others.   *)
(* A queue is initialised twice, by its receiver (recv_queue[i]) and by    *)
(* its sender (send_queue[i]), and its memory holds anything before that.  *)
(* Both processes map the queue at the same address, as forked children    *)
(* that make the same calls do.                                            *)
(***************************************************************************)
EXTENDS LfQueue

(* Where a process is in lfq_queue_create_init(): before each store. *)
BootPc == {"boot head", "boot tail", "boot list"}

BootInit ==
  /\ home = Packets
  /\ staged = <<>>
  /\ desc = [s \in Slot |-> NoPacket]
  /\ head \in Slot
  /\ tail \in Slot
  /\ sndPc = "boot head" /\ sndHead = 0 /\ sndTail = 0 /\ sndI = 0
  /\ rcvPc = "boot head" /\ rcvHead = 0 /\ rcvTail = 0 /\ rcvI = 0
  /\ recv = <<>>

(* lfq_queue_create_init, one store at a time, by the process at pc. *)
ResetHead(pc) ==
  /\ pc = "boot head"
  /\ pc' = "boot tail"
  /\ head' = 0
  /\ UNCHANGED <<home, staged, desc, tail, recv>>

(* Mutant of ResetTail: the store is left out. *)
ResetTailSkipped(pc) ==
  /\ pc = "boot tail"
  /\ pc' = "boot list"
  /\ UNCHANGED <<home, staged, desc, head, tail, recv>>

ResetTail(pc) ==
  /\ pc = "boot tail"
  /\ pc' = "boot list"
  /\ tail' = 0
  /\ UNCHANGED <<home, staged, desc, head, recv>>

ResetList(pc) ==
  /\ pc = "boot list"
  /\ pc' = "idle"
  /\ staged' = <<>>
  /\ UNCHANGED <<home, desc, head, tail, recv>>

Boot(pc) == ResetHead(pc) \/ ResetTail(pc) \/ ResetList(pc)

BootNext ==
  \/ Boot(sndPc) /\ UNCHANGED <<sndHead, sndTail, sndI, rcvVars>>
  \/ Boot(rcvPc) /\ UNCHANGED <<rcvHead, rcvTail, rcvI, sndVars>>
  \/ Next

BootSpec == BootInit /\ [][BootNext]_vars

-----------------------------------------------------------------------------
(* lfq_recv() never invents a packet: what it returns was sent and is      *)
(* returned once, whatever the shared memory held at first and whichever   *)
(* process initialises the queue last.                                     *)
NothingInvented ==
  \A k \in 1..Len(recv) :
    /\ recv[k] \in Packets \ home
    /\ \A l \in 1..Len(recv) : recv[k] = recv[l] => k = l
=============================================================================
