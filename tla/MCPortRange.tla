---------------------------- MODULE MCPortRange ----------------------------
(* Ports are model values.                                                 *)
EXTENDS PortRange

CONSTANTS p1, p2, p3, p4
=============================================================================
