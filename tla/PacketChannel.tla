--------------------------- MODULE PacketChannel ---------------------------
(***************************************************************************)
(* What one lf_queue promises to the two processes that share it: a        *)
(* bounded FIFO channel from one sending process to one receiving process. *)
(* lfq_send() buffers a packet, a flush publishes some packets of the      *)
(* buffer in order and at once, lfq_recv() takes published packets in      *)
(* order, and the receiver then gives every packet away again.             *)
(*                                                                         *)
(* LfQueue is the ring that implements this channel.                       *)
(***************************************************************************)
EXTENDS Integers, Sequences

CONSTANTS
  Packets,    (* the packets that travel through the channel             *)
  Capacity    (* the largest number of published, not yet taken, packets *)

VARIABLES
  home,       (* packets that are outside of the channel                 *)
  pending,    (* packets sent and not yet published, in sending order    *)
  chan,       (* packets published and not yet taken, in sending order   *)
  recv        (* packets taken and not yet processed, in taking order    *)

vars == <<home, pending, chan, recv>>

Init ==
  /\ home = Packets
  /\ pending = <<>>
  /\ chan = <<>>
  /\ recv = <<>>

(* lfq_send() of one packet. *)
Send(p) ==
  /\ p \in home
  /\ home' = home \ {p}
  /\ pending' = Append(pending, p)
  /\ UNCHANGED <<chan, recv>>

(* A flush makes the first n buffered packets visible to the receiver. *)
Publish(n) ==
  /\ Len(chan) + n <= Capacity
  /\ chan' = chan \o SubSeq(pending, 1, n)
  /\ pending' = SubSeq(pending, n + 1, Len(pending))
  /\ UNCHANGED <<home, recv>>

(* The receiver takes the oldest published packet. *)
Take ==
  /\ chan # <<>>
  /\ recv' = Append(recv, Head(chan))
  /\ chan' = Tail(chan)
  /\ UNCHANGED <<home, pending>>

(* The receiver is done with everything it took. *)
Process ==
  /\ home' = home \cup {recv[k] : k \in 1..Len(recv)}
  /\ recv' = <<>>
  /\ UNCHANGED <<pending, chan>>

Next ==
  \/ \E p \in Packets : Send(p)
  \/ \E n \in 1..Len(pending) : Publish(n)
  \/ Take
  \/ Process

Spec == Init /\ [][Next]_vars
=============================================================================
