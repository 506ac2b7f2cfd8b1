------------------------------ MODULE MCIgbNvm ------------------------------
(* A small instance of IgbNvm for TLC. *)
EXTENDS IgbNvm, TLC

\* Part of a word, several pages, both edges, across the middle, and beyond the checksum
Places == {<<1, 6>>, <<5, 5>>, <<9, 2>>}
PortSymmetry == Permutations(Ports)
=============================================================================
