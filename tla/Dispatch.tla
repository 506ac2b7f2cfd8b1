------------------------------ MODULE Dispatch ------------------------------
(***************************************************************************)
(* Which process a packet belongs to: uspace/src/dispatch.c, with the      *)
(* connections that process.c and connection.c make of the packets.        *)
(* Every process has its own rx queues, its own connection table and its   *)
(* own slice of the port numbers of each self ip; dispatch_packet() sends  *)
(* a packet that arrived elsewhere to the process that has its connection. *)
(*                                                                         *)
(* A port number is in host order when it is cut into slices, and in       *)
(* network order in a packet, in a connection and in a port range.         *)
(*                                                                         *)
(* Abstracted: which protocol a port is used with (each protocol has its   *)
(* own range of the same numbers), the one self ip of the instance stands  *)
(* for any of them, an address is a value and the hash of an address is    *)
(* any process.  Connection models the life of a connection.               *)
(***************************************************************************)
EXTENDS Integers, FiniteSets

CONSTANTS
  NumProc,    (* disp.num: the number of processes                       *)
  PortBase,   (* disp.port_base: the first port of process 0             *)
  Radix,      (* the values of a byte: a port number has two             *)
  Ports,      (* host-order ports the instance uses, a bound for TLC     *)
  Clients,    (* client endpoints; the address is what is hashed         *)
  FullNat,    (* ips of virtual servers in full-NAT mode                 *)
  Transparent,(* ips of virtual servers in transparent mode              *)
  Server,     (* a backend server                                        *)
  SelfIp      (* the ip that full-NAT connections have towards servers   *)

PortMax == Radix * Radix - 1

(* dispatch_module_init divides the ports by the number of processes, and  *)
(* dispatch_port_to_id divides by the result.                              *)
ASSUME NumAssumption ==
  /\ Radix \in Nat \ {0} /\ PortBase \in Nat \ {0}
  /\ NumProc \in Nat \ {0} /\ NumProc <= PortMax - PortBase
ASSUME AddressAssumption ==
  /\ FullNat \cap Transparent = {}
  /\ (Clients \cup {Server, SelfIp}) \cap (FullNat \cup Transparent) = {}
  /\ SelfIp \notin Clients \cup {Server}

VARIABLES
  hash,       (* hash[i][a]: ip_address_hash() of a by process i, modulo *)
              (* NumProc: every process draws its own hash_rand          *)
  rss,        (* rss[c][v]: whose rx queue the NIC picks for this flow   *)
  conns       (* the connections of all processes                        *)

vars == <<hash, rss, conns>>

Procs == 0..(NumProc - 1)
VsIps == FullNat \cup Transparent
NoPort == 0

(* The addresses that get hashed: those of requests, and of replies to     *)
(* transparent connections.                                                *)
Hashed == VsIps \cup IF Transparent = {} THEN {} ELSE Clients

-----------------------------------------------------------------------------
(* Port numbers. *)

PortSlice == (PortMax - PortBase) \div NumProc
SelfPortLow(id) == id * PortSlice + PortBase

(* Mutant of SelfPortHigh: the first port of the next slice is included. *)
SelfPortHighInclusive(id) == SelfPortLow(id) + PortSlice

SelfPortHigh(id) == SelfPortLow(id) + PortSlice - 1
Slice(id) == SelfPortLow(id)..SelfPortHigh(id)

(* htons() and ntohs(): the two bytes change places. *)
SwapBytes(port) == (port % Radix) * Radix + port \div Radix

(* Division in C rounds towards zero. *)
Quotient(a, b) == IF a >= 0 THEN a \div b ELSE -((-a) \div b)

DispatchPortToId(port) == Quotient(port - PortBase, PortSlice)

-----------------------------------------------------------------------------
(* __dispatch_ip_packet: where process i sends a packet. *)
Target(i, pkt) ==
  IF pkt.src \in VsIps THEN hash[i][pkt.src]
  ELSE IF pkt.dst = SelfIp THEN DispatchPortToId(pkt.dport)
  ELSE hash[i][pkt.dst]

(* The packets of a connection.  A port matters only towards a self ip. *)
RequestOf(c, v) == [src |-> c, dst |-> v, dport |-> NoPort]
ReplyOf(x) ==
  IF x.vs \in FullNat
    THEN [src |-> Server, dst |-> SelfIp, dport |-> x.port]
    ELSE [src |-> Server, dst |-> x.client, dport |-> NoPort]

(* The network-order ports in the port range of process i: port_range_init *)
(* filled it with its slice, and its connections took some.                *)
FreePorts(i) ==
  {SwapBytes(p) : p \in Slice(i) \cap Ports}
    \ {x.port : x \in {y \in conns : y.proc = i}}

Init ==
  /\ hash \in [Procs -> [Hashed -> Procs]]
  /\ rss \in [Clients -> [VsIps -> Procs]]
  /\ conns = {}

(* The first packet of client c to the virtual server v: it is dispatched  *)
(* and its process, which knows no connection of c, creates one.           *)
Request(c, v) ==
  LET j == Target(rss[c][v], RequestOf(c, v)) IN
  /\ ~ \E x \in conns : x.proc = j /\ x.client = c
  /\ \E port \in IF v \in FullNat THEN FreePorts(j) ELSE {NoPort} :
       conns' = conns \cup {[proc |-> j, client |-> c, vs |-> v, port |-> port]}
  /\ UNCHANGED <<hash, rss>>

(* connection_free, on a timeout or after the last FIN. *)
Close(x) ==
  /\ conns' = conns \ {x}
  /\ UNCHANGED <<hash, rss>>

Next ==
  \/ \E c \in Clients, v \in VsIps : Request(c, v)
  \/ \E x \in conns : Close(x)

Spec == Init /\ [][Next]_vars

-----------------------------------------------------------------------------
Connection == [proc : Procs, client : Clients, vs : VsIps,
               port : {NoPort} \cup {SwapBytes(p) : p \in 0..PortMax}]

TypeOK ==
  /\ hash \in [Procs -> [Hashed -> Procs]]
  /\ rss \in [Clients -> [VsIps -> Procs]]
  /\ conns \subseteq Connection

FullNatConns == {x \in conns : x.vs \in FullNat}

(* Processes share the self ips and never talk to each other about ports:  *)
(* still no two connections of the system have the same self port, or the  *)
(* server would confuse them.                                              *)
SelfPortsDiffer ==
  \A x, y \in FullNatConns : x.port = y.port => x = y

(* A server's reply to a full-NAT connection is dispatched to the process  *)
(* that has the connection, wherever it arrives.                           *)
ReplyReachesOwner ==
  \A x \in FullNatConns, k \in Procs : Target(k, ReplyOf(x)) = x.proc
=============================================================================
