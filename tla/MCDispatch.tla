----------------------------- MODULE MCDispatch -----------------------------
(* Small instances of Dispatch for TLC, with the port numbers of the code. *)
EXTENDS Dispatch, TLC

(* Ports at both ends of the slices of one, two and three processes, and   *)
(* ports whose bytes, swapped, are another slice's or nobody's.            *)
BoundaryPorts == {1024, 1025, 22526, 22527, 33278, 33279, 44030, 44031,
                  65279, 65276, 65532, 65533}
ClientSymmetry == Permutations(Clients)
=============================================================================
