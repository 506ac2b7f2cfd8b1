----------------------------- MODULE MCLfQueue -----------------------------
(* Small instances of LfQueue for TLC. *)
EXTENDS LfQueue, TLC

PacketSymmetry == Permutations(Packets)
=============================================================================
