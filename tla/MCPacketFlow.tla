---------------------------- MODULE MCPacketFlow ----------------------------
(* A small instance of PacketFlow for TLC. *)
EXTENDS PacketFlow, TLC

CONSTANTS a, b, a1, b1

(* One buffer for each process. *)
TwoOwner == (a1 :> a) @@ (b1 :> b)
=============================================================================
