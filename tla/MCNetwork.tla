----------------------------- MODULE MCNetwork -----------------------------
(* A small instance of Network for TLC. *)
EXTENDS Network, TLC

CONSTANTS v1, s1, s2, a, b, web, tls, plain, both

(* test_arp(), with a second NIC and a second server, and with two virtual *)
(* servers of which one is transparent: server a is in both pools.  The    *)
(* last call finds the virtual server full.                               *)
TwoServers == <<
  [op |-> "ip", ip |-> s1, type |-> "self", nic |-> 0],
  [op |-> "ip", ip |-> s2, type |-> "self", nic |-> 1],
  [op |-> "ip", ip |-> v1, type |-> "vs", nic |-> 0],
  [op |-> "server", pool |-> both, ip |-> a, known |-> TRUE],
  [op |-> "server", pool |-> both, ip |-> b, known |-> FALSE],
  [op |-> "vserver", pool |-> both, port |-> web, fullnat |-> TRUE],
  [op |-> "vserver ip", vs |-> 1, ip |-> v1],
  [op |-> "server", pool |-> plain, ip |-> a, known |-> TRUE],
  [op |-> "vserver", pool |-> plain, port |-> tls, fullnat |-> FALSE],
  [op |-> "vserver ip", vs |-> 2, ip |-> v1],
  [op |-> "vserver ip", vs |-> 1, ip |-> v1]
>>

(* Server a is behind both NICs, b behind the second one only. *)
TwoNets == {<<0, a>>, <<1, a>>, <<1, b>>}
=============================================================================
