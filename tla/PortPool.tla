------------------------------ MODULE PortPool ------------------------------
(***************************************************************************)
(* What a port range (uspace/src/port_range.c) promises: a port is free or *)
(* taken; who asks gets a free port, or the free port that it names, or    *)
(* NoPort; what is given back is free.                                     *)
(***************************************************************************)
CONSTANTS
  Ports,      (* the ports of the range                                  *)
  Reserved,   (* those that may be asked for by name                     *)
  NoPort      (* the answer 0: none                                      *)

VARIABLES
  free,       (* the ports nobody has                                    *)
  ret         (* the last answer                                         *)

vars == <<free, ret>>

Init == free = Ports /\ ret = NoPort

Any ==
  \/ \E p \in free : free' = free \ {p} /\ ret' = p
  \/ free = {} /\ ret' = NoPort /\ UNCHANGED free

Named(p) ==
  \/ p \in free \cap Reserved /\ free' = free \ {p} /\ ret' = p
  \/ p \notin free \cap Reserved /\ ret' = NoPort /\ UNCHANGED free

Give(p) ==
  /\ p \in Ports \ free
  /\ free' = free \cup {p}
  /\ UNCHANGED ret

Next == Any \/ \E p \in Ports : Named(p) \/ Give(p)

Spec == Init /\ [][Next]_vars
=============================================================================
