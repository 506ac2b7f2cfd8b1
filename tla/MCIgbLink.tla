------------------------------- MODULE MCIgbLink -------------------------------
(* A small instance of IgbLink for TLC.                                     *)
EXTENDS IgbLink

TxPause == {"tx"}
UserModes == {{"rx", "tx"}}

\* A partner that heeds and sends pauses, one that only sends them, and one on
\* a half duplex link.
Switches ==
  {[pause |-> {"pause", "asm"}, full |-> TRUE], [pause |-> {"asm"}, full |-> TRUE],
   [pause |-> {"pause", "asm"}, full |-> FALSE]}
================================================================================
