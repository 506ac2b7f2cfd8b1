------------------------------ MODULE MCTimer ------------------------------
(* A wheel of three seconds of three units each; a turn of the main loop   *)
(* may take longer than the wheel goes round.                              *)
EXTENDS Timer

CONSTANTS t1, t2
Asked == {-1, 1, 2, 3, 4}
=============================================================================
