----------------------------- MODULE Connection -----------------------------
(***************************************************************************)
(* The connections of one process: process_ip_packet() in                  *)
(* uspace/src/process.c, the connection table in connection.c, the TCP     *)
(* states in tcp.c, the port ranges of the self ip in local_ip.c and       *)
(* port_range.c, and the timer wheel in timer.c.                           *)
(*                                                                         *)
(* A packet changes a connection (looks it up, creates it, moves its TCP   *)
(* state, frees it) and is forwarded; <out> is the packet forwarded last.  *)
(* The process is single-threaded: a handler is one step.                  *)
(*                                                                         *)
(* Abstracted: an ip:port is a value; the server that is chosen, the route *)
(* and the adapter; there is one self ip; a port range is the sequence of  *)
(* its ports in the order in which they will be given out.                 *)
(***************************************************************************)
EXTENDS Integers, Sequences, FiniteSets

CONSTANTS
  Clients,        (* ip:port of clients                                  *)
  TcpVs, UdpVs,   (* ip:port of virtual servers, by protocol             *)
  FullNat,        (* virtual servers in full-NAT mode, others transparent *)
  Ports,          (* ports of the self ip, for each protocol             *)
  Bucket(_, _),   (* connection_hashkey() of an ip:port (a client, or    *)
                  (* the self ip with a port) and a protocol             *)
  Conns,          (* memory for connections: malloc fails after these    *)
  Timeout,        (* CONNECTION_TIMEOUT_SECONDS                          *)
  WheelSize,      (* total_clock_seconds                                 *)
  None            (* no connection, no packet                            *)

ASSUME TimeAssumption == Timeout \in Nat \ {0} /\ WheelSize \in Nat /\ Timeout < WheelSize
ASSUME VsAssumption == TcpVs \cap UdpVs = {} /\ FullNat \subseteq TcpVs \cup UdpVs
ASSUME PortsAssumption == IsFiniteSet(Ports) /\ Ports \cap Clients = {}

VARIABLES
  conn,       (* conn[i]: the connection in memory i, or None            *)
  linked,     (* the connections in the hash tables, newest first: the   *)
              (* order of every bucket of both tables                    *)
  ports,      (* ports[proto]: the free ports, next one first            *)
  wheel,      (* wheel[s]: timer_table[s], newest first                  *)
  second,     (* next_clock_second                                       *)
  out         (* the packet that was forwarded last                      *)

vars == <<conn, linked, ports, wheel, second, out>>

VServers == TcpVs \cup UdpVs
Protos == {"tcp", "udp"}
ProtoOf(v) == IF v \in TcpVs THEN "tcp" ELSE "udp"
States == {"init", "fin1", "fin1 ack", "fin2", "closed"}
Seconds == 0..(WheelSize - 1)

(* protocol is what the field holds, hashed is what it held when the       *)
(* connection was linked: it stays in the buckets of that protocol.        *)
ConnRecord == [client : Clients, vs : VServers, port : Ports \cup {None},
               protocol : Protos, hashed : Protos, state : States]

ASSUME NoneAssumption == None \notin Ports \cup Conns \cup ConnRecord

Items(s) == {s[k] : k \in DOMAIN s}
Live == Items(linked)

(* The elements of s at the positions K, and those not in S, in order.     *)
Kept(s, K) ==
  [n \in 1..Cardinality(K) |-> s[CHOOSE k \in K : Cardinality({l \in K : l <= k}) = n]]
Without(s, S) == Kept(s, {k \in DOMAIN s : s[k] \notin S})

Init ==
  /\ conn = [i \in Conns |-> None]
  /\ linked = <<>>
  /\ ports \in [Protos -> {s \in [1..Cardinality(Ports) -> Ports] : Items(s) = Ports}]
  /\ ports["tcp"] = ports["udp"]
  /\ wheel = [s \in Seconds |-> <<>>]
  /\ second = 0
  /\ out = None

-----------------------------------------------------------------------------
(* Mutant of InBucket: the lookup always computes the bucket of TCP.       *)
InBucketOfTcp(i, key, field, proto) ==
  conn[i][field] = key /\ Bucket(key, conn[i].hashed) = Bucket(key, "tcp")

(* Looking a connection up: the first one of the bucket with the right     *)
(* ip:port.  The third condition of connection_client_eq() and             *)
(* connection_self_eq() is an assignment and always holds.                 *)
InBucket(i, key, field, proto) ==
  conn[i][field] = key /\ Bucket(key, conn[i].hashed) = Bucket(key, proto)

(* connection_lookup, field = "client" in client_hashtable (is_client) and *)
(* "port" in self_hashtable, which has the full-NAT connections only.      *)
Lookup(key, field, proto) ==
  LET found == {k \in DOMAIN linked : InBucket(linked[k], key, field, proto)} IN
  IF found = {} THEN None ELSE linked[CHOOSE k \in found : \A l \in found : k <= l]

(* tcp_change_state *)
NextState(state, fin, ack) ==
  CASE fin /\ state = "init"     -> "fin1"
    [] ack /\ state = "fin1"     -> "fin1 ack"
    [] fin /\ state = "fin1 ack" -> "fin2"
    [] ack /\ state = "fin2"     -> "closed"
    [] OTHER                     -> state

(* The ports of those connections of s, as they are in c, that took theirs *)
(* for this protocol.                                                      *)
Returned(s, c, proto) ==
  Kept([k \in DOMAIN s |-> c[s[k]].port],
       {k \in DOMAIN s : c[s[k]].vs \in FullNat /\ c[s[k]].protocol = proto})

(* Mutants of Free: the port always goes to the range of TCP; no timer_del. *)
FreeToTcpRange(s, c) ==
  /\ ports' = [ports EXCEPT !["tcp"] = @ \o Returned(s, c, "tcp") \o Returned(s, c, "udp")]
  /\ wheel' = [t \in Seconds |-> Without(wheel[t], Items(s))]
  /\ linked' = Without(linked, Items(s))
  /\ conn' = [i \in Conns |-> IF i \in Items(s) THEN None ELSE c[i]]

FreeTimerRuns(s, c) ==
  /\ ports' = [proto \in Protos |-> ports[proto] \o Returned(s, c, proto)]
  /\ linked' = Without(linked, Items(s))
  /\ conn' = [i \in Conns |-> IF i \in Items(s) THEN None ELSE c[i]]
  /\ UNCHANGED wheel

(* connection_free of the connections of s, in this order, as they are in  *)
(* c: a full-NAT connection's port goes back, to the range of the          *)
(* connection's protocol, the timer is stopped, the tables forget it.      *)
Free(s, c) ==
  /\ ports' = [proto \in Protos |-> ports[proto] \o Returned(s, c, proto)]
  /\ wheel' = [t \in Seconds |-> Without(wheel[t], Items(s))]
  /\ linked' = Without(linked, Items(s))
  /\ conn' = [i \in Conns |-> IF i \in Items(s) THEN None ELSE c[i]]

(* A packet belongs to connection i: the lookup has rewritten its          *)
(* protocol, the packet is forwarded, and a TCP packet moves the state;    *)
(* the packet that closes the connection frees it.                         *)
Touch(i, proto, fin, ack) ==
  LET x == [conn[i] EXCEPT !.protocol = proto]
      y == IF proto = "tcp" THEN [x EXCEPT !.state = NextState(x.state, fin, ack)] ELSE x
      c == [conn EXCEPT ![i] = y]
  IN IF proto = "tcp" /\ y.state = "closed"
       THEN Free(<<i>>, c)
       ELSE conn' = c /\ UNCHANGED <<linked, ports, wheel>>

(* process_connection with is_client (to = "server") and without: the      *)
(* packet goes to a server of the virtual server vs, or to the client with *)
(* the address of vs.  origin says who sent it, and to what.               *)
Forward(origin, addressed, proto, to, client, vs) ==
  out' = [origin |-> origin, addressed |-> addressed, proto |-> proto,
          to |-> to, client |-> client, vs |-> vs]

-----------------------------------------------------------------------------
(* A packet from client c to the virtual server v, whose connection is     *)
(* known.                                                                  *)
FromKnownClient(c, v, fin, ack) ==
  LET i == Lookup(c, "client", ProtoOf(v)) IN
  /\ i # None
  /\ Touch(i, ProtoOf(v), fin, ack)
  /\ Forward("client", v, ProtoOf(v), "server", c, conn[i].vs)
  /\ UNCHANGED second

(* connection_set_self_ip_port: in full-NAT mode the connection takes the  *)
(* next free port.                                                         *)
SelfPort(v) == IF v \in FullNat THEN Head(ports[ProtoOf(v)]) ELSE None
TakePort(v) ==
  /\ v \in FullNat => ports[ProtoOf(v)] # <<>>
  /\ ports' = IF v \in FullNat THEN [ports EXCEPT ![ProtoOf(v)] = Tail(@)] ELSE ports

(* timer_add: the timer expires Timeout seconds from now. *)
Arm(i) ==
  wheel' = [wheel EXCEPT ![(second + Timeout) % WheelSize] = <<i>> \o @]

(* connection_create on the first packet of client c to the virtual server *)
(* v: the newest in its buckets, with the next free port in full-NAT mode. *)
(* It fails and the packet is dropped when there is no memory or no port,  *)
(* or no route to the server, and then gives back all it took.  The state  *)
(* of a UDP connection is what the memory happens to hold.                 *)
FromNewClient(c, v, fin, ack) ==
  LET proto == ProtoOf(v) IN
  /\ Lookup(c, "client", proto) = None
  /\ TakePort(v)
  /\ \E i \in Conns, garbage \in States :
       /\ conn[i] = None
       /\ proto = "tcp" => garbage = "init"
       /\ conn' = [conn EXCEPT ![i] =
            [client |-> c, vs |-> v, port |-> SelfPort(v), protocol |-> proto, hashed |-> proto,
             state |-> IF proto = "tcp" THEN NextState("init", fin, ack) ELSE garbage]]
       /\ linked' = <<i>> \o linked
       /\ Arm(i)
  /\ Forward("client", v, proto, "server", c, v)
  /\ UNCHANGED second

(* A server's packet to a port of the self ip (full-NAT).  Without a       *)
(* connection it is dropped.                                               *)
ToSelfPort(port, proto, fin, ack) ==
  LET i == Lookup(port, "port", proto) IN
  /\ i # None
  /\ Touch(i, proto, fin, ack)
  /\ Forward("server", port, proto, "client", conn[i].client, conn[i].vs)
  /\ UNCHANGED second

(* A server's packet to a client (transparent): process_ip_packet() sets   *)
(* is_client, for the sake of connection_lookup(), and passes it on to     *)
(* process_connection().                                                   *)
ToRemoteClient(c, proto, fin, ack) ==
  LET i == Lookup(c, "client", proto) IN
  /\ i # None
  /\ Touch(i, proto, fin, ack)
  /\ Forward("server", c, proto, "server", c, conn[i].vs)
  /\ UNCHANGED second

(* Mutant of Tick: the wheel stays at its last slot. *)
TickNoWrap ==
  LET next == IF second + 1 < WheelSize THEN second + 1 ELSE second IN
  /\ second' = next
  /\ Free(wheel[next], conn)
  /\ UNCHANGED out

(* timer_expire, one second of it: the timers of the next slot expire, and *)
(* the handler of each, connection_timeout(), frees its connection.        *)
Tick ==
  LET next == (second + 1) % WheelSize IN
  /\ second' = next
  /\ Free(wheel[next], conn)
  /\ UNCHANGED out

Packet(fin, ack) ==
  \/ \E c \in Clients, v \in VServers : FromKnownClient(c, v, fin, ack)
  \/ \E c \in Clients, v \in VServers : FromNewClient(c, v, fin, ack)
  \/ \E p \in Ports, proto \in Protos : ToSelfPort(p, proto, fin, ack)
  \/ \E c \in Clients, proto \in Protos : ToRemoteClient(c, proto, fin, ack)

Next == Tick \/ \E fin, ack \in BOOLEAN : Packet(fin, ack)

Spec == Init /\ [][Next]_vars

(* main_loop() calls timer_expire() for ever. *)
FairSpec == Spec /\ WF_vars(Tick)

-----------------------------------------------------------------------------
ForwardRecord ==
  [origin : {"client", "server"}, addressed : VServers \cup Ports \cup Clients,
   proto : Protos, to : {"client", "server"}, client : Clients, vs : VServers]

TypeOK ==
  /\ conn \in [Conns -> ConnRecord \cup {None}]
  /\ linked \in Seq(Conns)
  /\ ports \in [Protos -> Seq(Ports)]
  /\ wheel \in [Seconds -> Seq(Conns)]
  /\ second \in Seconds
  /\ out \in ForwardRecord \cup {None}

(* The slots of the wheel that a timer can be in. *)
Ahead == {(second + d) % WheelSize : d \in 1..Timeout}

Distinct(s) == \A k, l \in DOMAIN s : s[k] = s[l] => k = l

(* The live full-NAT connections of a protocol. *)
FullNatConns(proto) == {i \in Live : conn[i].vs \in FullNat /\ conn[i].hashed = proto}

(* Every port of each range is free once or held by one connection,        *)
(* whatever order connections are created, closed and timed out in         *)
(* (connection_set_self_ip_port() against connection_free()).              *)
PortsConserved ==
  \A proto \in Protos :
    /\ Distinct(ports[proto])
    /\ Items(ports[proto]) \cup {conn[i].port : i \in FullNatConns(proto)} = Ports
    /\ \A i \in FullNatConns(proto) : conn[i].port \notin Items(ports[proto])
    /\ \A i, j \in FullNatConns(proto) : conn[i].port = conn[j].port => i = j

(* A client has one connection for each protocol: connection_lookup()      *)
(* finds the one there is before connection_create() makes another.        *)
OneConnection ==
  \A i, j \in Live :
    conn[i].client = conn[j].client /\ conn[i].hashed = conn[j].hashed => i = j

(* The memory, the hash tables and the timer wheel agree: a connection in  *)
(* use is linked once and has one timer armed, at most Timeout seconds     *)
(* ahead; memory that was freed is in no table and no slot (a timer left   *)
(* there would free it again).                                             *)
TimersArmed ==
  /\ Distinct(linked)
  /\ \A t \in Seconds : Distinct(wheel[t])
  /\ \A i \in Conns :
       LET slots == {t \in Seconds : i \in Items(wheel[t])}
       IN  /\ i \in Live <=> conn[i] # None
           /\ IF i \in Live THEN \E t \in Ahead : slots = {t} ELSE slots = {}

(* A server's answer to a port of the self ip is passed to the client that *)
(* holds this port for this protocol ("server_ip:server_port -->           *)
(* local_ip:client_port, vs_ip:vs_port --> client_ip:client_port", the     *)
(* comment before process_connection()).                                   *)
AnswersReachOwner ==
  [][out' # None /\ out'.origin = "server" /\ out'.addressed \in Ports =>
       \E i \in FullNatConns(out'.proto) :
         conn[i].port = out'.addressed /\ conn[i].client = out'.client]_out

(* Every connection ends, however its packets arrive: the timer armed by   *)
(* connection_create() frees it when nothing else does.                    *)
ConnectionsEnd ==
  \A i \in Conns : conn[i] # None ~> conn[i] = None
=============================================================================
