------------------------------ MODULE Network ------------------------------
(***************************************************************************)
(* What a process knows of the net: its ips and the NICs they are bound to *)
(* (uspace/src/local_ip.c, interface.c, net_global.c), its routes          *)
(* (route.c), its virtual servers and pools of servers (vserver.c,         *)
(* server_pool.c), and what it learns and tells by ARP (arp.c).  After     *)
(* fork() every process makes the same configuration of tables of its own, *)
(* as test_arp() in test.c does, asks for the MAC addresses of the servers *)
(* and enters main_loop().  ARP frames and packets of clients arrive at    *)
(* the rx queue of any process.                                            *)
(*                                                                         *)
(* Abstracted: a NIC's number stands for its MAC address, and the ip of a  *)
(* host for that of the host; the order of hash buckets and of lists that  *)
(* are served round robin, so that an entry of the right key is any of     *)
(* them (the servers of a pool are taken in the order of the code); memory *)
(* and free packets do not run out before main_loop().  Connection models  *)
(* what becomes of a connection, here a packet of a client is its first.   *)
(***************************************************************************)
EXTENDS Integers, Sequences, FiniteSets

CONSTANTS
  Procs,      (* the processes                                           *)
  NumNic,     (* interface.num, the number of adapters                   *)
  LocalIps,   (* ips that can be given to ng_add_ip()                    *)
  Hosts,      (* ips of other hosts, among them the servers              *)
  Lan,        (* <<n, h>>: host h is reached through NIC n               *)
  Pools,      (* the server pools                                        *)
  VsPorts,    (* a port with a protocol                                  *)
  VsIpMax,    (* VS_IP_NUM_MAX                                           *)
  Config,     (* the calls that configure a process, in their order      *)
  None        (* no address, no packet                                   *)

Nics == 0..(NumNic - 1)
Types == {"self", "vs"}

(* The calls of the configuration: ng_add_ip(); server_pool_add_server(),  *)
(* followed by server_set_mac() or not; vserver_create(); and              *)
(* vserver_add_ip() for the virtual server created as the vs-th one.       *)
Calls ==
  [op : {"ip"}, ip : LocalIps, type : Types, nic : Nics]
  \cup [op : {"server"}, pool : Pools, ip : Hosts, known : BOOLEAN]
  \cup [op : {"vserver"}, pool : Pools, port : VsPorts, fullnat : BOOLEAN]
  \cup [op : {"vserver ip"}, vs : Nat \ {0}, ip : LocalIps]

Calling(op) == {k \in DOMAIN Config : Config[k].op = op}

ASSUME NetworkAssumption ==
  /\ NumNic \in Nat /\ VsIpMax \in Nat
  /\ LocalIps \cap Hosts = {} /\ None \notin LocalIps \cup Hosts
  /\ Lan \subseteq Nics \X Hosts

(* A virtual server is created before it gets an ip.  An ip is added once, *)
(* and of several servers with one ip (on different ports) the MAC address *)
(* is part of the configuration: arp_server_route() gives it to the first  *)
(* of them only.                                                           *)
Created(n) == {k \in 1..n : Config[k].op = "vserver"}

ASSUME ConfigAssumption ==
  /\ Config \in Seq(Calls)
  /\ \A k \in Calling("vserver ip") : Config[k].vs <= Cardinality(Created(k - 1))
  /\ \A k, l \in Calling("ip") : Config[k].ip = Config[l].ip => k = l
  /\ \A k, l \in Calling("server") :
       k # l /\ Config[k].ip = Config[l].ip => Config[k].known

VARIABLES
  at,         (* at[p]: the next call of Config, then rt_find_server_    *)
              (* route(), then main_loop()                               *)
  lips,       (* lips[p]: the local ips, in the ip sets and on the NICs  *)
  routes,     (* routes[p]: the entries of the route table               *)
  pool,       (* pool[p][k]: the array server_list of pool k             *)
  next,       (* next[p][k]: server_pool.next                            *)
  vservers,   (* vservers[p]: the virtual servers, as they were created  *)
  nodes,      (* nodes[p]: vs_hashtable, <<vs, ip>>, newest first        *)
  requests,   (* ARP requests that were sent to the hosts, <<n, ip>>     *)
  told,       (* <<ip, n>>: some ARP frame said that ip is at NIC n      *)
  out         (* what main_loop() did with the packet it got last        *)

tables == <<lips, routes, pool, next, vservers, nodes>>
vars == <<at, tables, requests, told, out>>

Asking == Len(Config) + 1
Looping == Len(Config) + 2
Running(p) == at[p] = Looping

Elements(s) == {s[k] : k \in DOMAIN s}

Init ==
  /\ at = [p \in Procs |-> 1]
  /\ lips = [p \in Procs |-> {}]
  /\ routes = [p \in Procs |-> {}]
  /\ pool = [p \in Procs |-> [k \in Pools |-> <<>>]]
  /\ next = [p \in Procs |-> [k \in Pools |-> 0]]
  /\ vservers = [p \in Procs |-> <<>>]
  /\ nodes = [p \in Procs |-> <<>>]
  /\ requests = {} /\ told = {} /\ out = None

-----------------------------------------------------------------------------
(* The configuration. *)

(* rt_lookup, rt_lookup_rr and rt_lookup_with_nic_id. *)
RoutesTo(p, ip) == {re \in routes[p] : re.ip = ip}

(* ng_add_ip: the ip goes to the ip set and to the list of the NIC, then   *)
(* rt_add_entry makes a route for it unless there is one for this ip.      *)
AddIp(p, c) ==
  /\ c.op = "ip"
  /\ lips' = [lips EXCEPT ![p] = @ \cup {[ip |-> c.ip, type |-> c.type, nic |-> c.nic]}]
  /\ routes' = IF RoutesTo(p, c.ip) # {} THEN routes
                 ELSE [routes EXCEPT ![p] = @ \cup {[ip |-> c.ip, nic |-> c.nic]}]
  /\ UNCHANGED <<pool, next, vservers, nodes>>

(* server_pool_add_server, and server_set_mac if the MAC is known: without *)
(* it the memory of the server holds anything.                             *)
AddServer(p, c) ==
  /\ c.op = "server"
  /\ pool' = [pool EXCEPT ![p][c.pool] =
       Append(@, [ip |-> c.ip, mac |-> IF c.known THEN c.ip ELSE None])]
  /\ UNCHANGED <<lips, routes, next, vservers, nodes>>

(* vserver_create, without an ip. *)
CreateVserver(p, c) ==
  /\ c.op = "vserver"
  /\ vservers' = [vservers EXCEPT ![p] =
       Append(@, [pool |-> c.pool, port |-> c.port, fullnat |-> c.fullnat])]
  /\ UNCHANGED <<lips, routes, pool, next, nodes>>

(* vserver_add_ip: nothing happens when the virtual server is full. *)
AddVserverIp(p, c) ==
  /\ c.op = "vserver ip"
  /\ nodes' = IF Cardinality({k \in DOMAIN nodes[p] : nodes[p][k][1] = c.vs}) >= VsIpMax
                THEN nodes
                ELSE [nodes EXCEPT ![p] = <<<<c.vs, c.ip>>>> \o @]
  /\ UNCHANGED <<lips, routes, pool, next, vservers>>

(* The next call of test_arp(). *)
Configure(p) ==
  /\ at[p] < Asking
  /\ LET c == Config[at[p]] IN
       AddIp(p, c) \/ AddServer(p, c) \/ CreateVserver(p, c) \/ AddVserverIp(p, c)
  /\ at' = [at EXCEPT ![p] = @ + 1]
  /\ UNCHANGED <<requests, told, out>>

-----------------------------------------------------------------------------
(* ARP. *)

Bound(p, n, type) == {l \in lips[p] : l.nic = n /\ l.type = type}

(* Mutant of Sources: interface_get_lip_rr() ignores the NIC. *)
SourcesOfAnyNic(p, n) == {l \in lips[p] : l.type = "vs"}

(* arp_send_request through NIC n tells a vs ip of this NIC, or a self ip  *)
(* if there is none.                                                       *)
Sources(p, n) == IF Bound(p, n, "vs") # {} THEN Bound(p, n, "vs") ELSE Bound(p, n, "self")

ServerIps(p) == UNION {{s.ip : s \in Elements(pool[p][k])} : k \in Pools}

(* rt_find_server_route, before main_loop(): asks for every server through *)
(* every NIC that has an ip.                                               *)
FindServerRoute(p) ==
  LET asks == {a \in ServerIps(p) \X Nics : Sources(p, a[2]) # {}} IN
  /\ at[p] = Asking
  /\ at' = [at EXCEPT ![p] = Looping]
  /\ \E src \in [asks -> lips[p]] :
       /\ \A a \in asks : src[a] \in Sources(p, a[2])
       /\ told' = told \cup {<<src[a].ip, a[2]>> : a \in asks}
  /\ requests' = requests \cup {<<a[2], a[1]>> : a \in asks}
  /\ UNCHANGED <<tables, out>>

(* The servers of process p with ip <ip>, by pool and place. *)
ServersWith(p, ip) ==
  UNION {{k} \X {m \in DOMAIN pool[p][k] : pool[p][k][m].ip = ip} : k \in Pools}

SetMacs(p, which, mac) ==
  pool' = [pool EXCEPT ![p] = [k \in Pools |-> [m \in DOMAIN pool[p][k] |->
            IF <<k, m>> \in which THEN [pool[p][k][m] EXCEPT !.mac = mac] ELSE pool[p][k][m]]]]

(* Mutant of ServerRoute: the MAC address is not flushed to the server. *)
ServerRouteOnly(p, ip, n) ==
  IF ServersWith(p, ip) = {} \/ RoutesTo(p, ip) # {}
    THEN UNCHANGED <<routes, pool>>
    ELSE /\ routes' = [routes EXCEPT ![p] = @ \cup {[ip |-> ip, nic |-> n]}]
         /\ UNCHANGED pool

(* arp_server_route: host ip answers through NIC n.  A server without a    *)
(* route through n gets the MAC of the answer; rt_add_entry accepts the    *)
(* route only if it is the first to this ip, and then the other servers    *)
(* with this ip are passed over.                                           *)
ServerRoute(p, ip, n) ==
  LET which == ServersWith(p, ip) IN
  IF which = {} \/ [ip |-> ip, nic |-> n] \in routes[p]
    THEN UNCHANGED <<routes, pool>>
    ELSE IF RoutesTo(p, ip) # {}
      THEN SetMacs(p, which, ip) /\ UNCHANGED routes
      ELSE /\ \E first \in which : SetMacs(p, {first}, ip)
           /\ routes' = [routes EXCEPT ![p] = @ \cup {[ip |-> ip, nic |-> n]}]

(* A host answers a request, never, late or more than once; the answer     *)
(* arrives at the queue of any process.                                    *)
ArpReply(p, ip, n) ==
  /\ Running(p)
  /\ ServerRoute(p, ip, n)
  /\ UNCHANGED <<at, lips, next, vservers, nodes, requests, told, out>>

(* Mutant of ArpRequest: the answer goes back through the NIC that the     *)
(* request came from, with the MAC address of this NIC.                    *)
ArpRequestSameNic(p, ip, n) ==
  LET found == RoutesTo(p, ip) IN
  /\ Running(p)
  /\ IF (\E l \in lips[p] : l.ip = ip) /\ found # {}
       THEN out' = [kind |-> "arp", ip |-> ip, nic |-> n] /\ told' = told \cup {<<ip, n>>}
       ELSE out' = [kind |-> "arp", ip |-> ip, nic |-> None] /\ told' = told
  /\ UNCHANGED <<at, tables, requests>>

(* arp_response: a host asks for ip through NIC n.  Only a local ip with a *)
(* route is answered, with the MAC address of the NIC of the route and     *)
(* through this NIC, whichever n is.                                       *)
ArpRequest(p, ip, n) ==
  LET found == RoutesTo(p, ip) IN
  /\ Running(p)
  /\ IF (\E l \in lips[p] : l.ip = ip) /\ found # {}
       THEN \E re \in found : /\ out' = [kind |-> "arp", ip |-> ip, nic |-> re.nic]
                              /\ told' = told \cup {<<ip, re.nic>>}
       ELSE out' = [kind |-> "arp", ip |-> ip, nic |-> None] /\ told' = told
  /\ UNCHANGED <<at, tables, requests>>

-----------------------------------------------------------------------------
(* The first packet of a client. *)

(* vserver_lookup: the newest virtual server of this ip and port. *)
VserverLookup(p, ip, port) ==
  LET found == {k \in DOMAIN nodes[p] : /\ nodes[p][k][2] = ip
                                        /\ vservers[p][nodes[p][k][1]].port = port} IN
  IF found = {} THEN None
  ELSE vservers[p][nodes[p][CHOOSE k \in found : \A l \in found : k <= l][1]]

(* Mutant of GetServer: next stays where it is. *)
GetServerSame(p, k) == next' = next

(* server_pool_get_server, on a pool with servers: pool[next], and next    *)
(* moves on.                                                               *)
GetServer(p, k) == next' = [next EXCEPT ![p][k] = (@ + 1) % Len(pool[p][k])]

(* The ips that connection_set_self_ip_port chooses from, for NIC n.       *)
SelfIps(p, n) == Bound(p, n, "self")

(* connection_create for virtual server v takes the next server of the     *)
(* pool, a route to it and, in full-NAT mode, a self ip of the NIC of the  *)
(* route; then the packet is forwarded.  If there is no server, no route   *)
(* or no self ip it is dropped, but the pool has moved on to the next      *)
(* server.                                                                 *)
ConnectionCreate(p, v) ==
  IF pool[p][v.pool] = <<>> THEN out' = None /\ UNCHANGED next
  ELSE LET s == pool[p][v.pool][next[p][v.pool] + 1]
           ways == {w \in RoutesTo(p, s.ip) \X lips[p] : w[2] \in SelfIps(p, w[1].nic)}
           sent(re, src) == out' = [kind |-> "packet", proc |-> p, pool |-> v.pool, src |-> src,
                                    server |-> s.ip, nic |-> re.nic, mac |-> s.mac]
       IN /\ GetServer(p, v.pool)
          /\ IF v.fullnat
               THEN IF ways = {} THEN out' = None ELSE \E w \in ways : sent(w[1], w[2].ip)
               ELSE IF RoutesTo(p, s.ip) = {} THEN out' = None
                    ELSE \E re \in RoutesTo(p, s.ip) : sent(re, None)

(* process_ip_packet, of a packet without a connection to a vs ip; it is   *)
(* dropped if no virtual server has this ip and port.                      *)
ClientPacket(p, ip, port) ==
  LET v == VserverLookup(p, ip, port) IN
  /\ Running(p)
  /\ \E l \in lips[p] : l.ip = ip /\ l.type = "vs"
  /\ v # None
  /\ ConnectionCreate(p, v)
  /\ UNCHANGED <<at, lips, routes, pool, vservers, nodes, requests, told>>

Step(p) ==
  \/ Configure(p) \/ FindServerRoute(p)
  \/ \E r \in requests \cap Lan : ArpReply(p, r[2], r[1])
  \/ \E ip \in LocalIps \cup Hosts, n \in Nics : ArpRequest(p, ip, n)
  \/ \E ip \in LocalIps, port \in VsPorts : ClientPacket(p, ip, port)

Next == \E p \in Procs : Step(p)

Spec == Init /\ [][Next]_vars

(* Clients can reach pool k at these addresses. *)
AddressesOf(p, k) ==
  {to \in LocalIps \X VsPorts :
     \E v \in {VserverLookup(p, to[1], to[2])} \ {None} : v.pool = k}

PacketForPool(p, k) ==
  Running(p) /\ \E to \in AddressesOf(p, k) : ClientPacket(p, to[1], to[2])

(* Clients go on sending: one that gets no answer tries again. *)
FairSpec == Spec /\ \A p \in Procs, k \in Pools : WF_vars(PacketForPool(p, k))

-----------------------------------------------------------------------------
LocalIp == [ip : LocalIps, type : Types, nic : Nics]
Route == [ip : LocalIps \cup Hosts, nic : Nics]
Server == [ip : Hosts, mac : Hosts \cup {None}]
Vserver == [pool : Pools, port : VsPorts, fullnat : BOOLEAN]
Out == [kind : {"arp"}, ip : LocalIps \cup Hosts, nic : Nics \cup {None}]
       \cup [kind : {"packet"}, proc : Procs, pool : Pools, server : Hosts, nic : Nics,
             mac : Hosts \cup {None}, src : LocalIps \cup {None}]
       \cup {None}

TypeOK ==
  /\ at \in [Procs -> 1..Looping]
  /\ lips \in [Procs -> SUBSET LocalIp]
  /\ routes \in [Procs -> SUBSET Route]
  /\ pool \in [Procs -> [Pools -> Seq(Server)]]
  /\ next \in [Procs -> [Pools -> Nat]]
  /\ \A p \in Procs, k \in Pools : next[p][k] < Len(pool[p][k]) \/ next[p][k] = 0
  /\ vservers \in [Procs -> Seq(Vserver)]
  /\ nodes \in [Procs -> Seq((Nat \ {0}) \X LocalIps)]
  /\ requests \subseteq Nics \X Hosts
  /\ told \subseteq LocalIps \X Nics
  /\ out \in Out

(* Whatever frames say of a local ip, sent by any process, as a question   *)
(* (arp_send_request) or as an answer (arp_response), they say the same    *)
(* MAC address: the other hosts never move an ip from NIC to NIC.          *)
OneMacPerIp ==
  \A t, u \in told : t[1] = u[1] => t[2] = u[2]

(* A request for a local ip is answered by every process that has its      *)
(* configuration, with the NIC of the configuration: ip sets, NICs and     *)
(* routes (ng_add_ip) agree, whatever was learned from other hosts.        *)
LocalIpsAnswered ==
  (out # None /\ out.kind = "arp") =>
    \A k \in Calling("ip") : Config[k].ip = out.ip => out.nic = Config[k].nic

(* What is sent to a server arrives: it leaves through a NIC behind which  *)
(* the server is, with its MAC address, and from a self ip of this NIC, so *)
(* that the answer comes back here.  That is, a server has a MAC before it *)
(* has a route, and what one table says of a server fits the others.       *)
ForwardedReachesServer ==
  (out # None /\ out.kind = "packet") =>
    /\ <<out.nic, out.server>> \in Lan
    /\ out.mac = out.server
    /\ out.src # None => \E l \in lips[out.proc] :
                           l.ip = out.src /\ l.type = "self" /\ l.nic = out.nic

(* A server that can be used: it has a route, through a NIC with a self ip. *)
Usable(p, s) == \E re \in RoutesTo(p, s.ip) : Bound(p, re.nic, "self") # {}

(* The pool goes on serving: while clients try again, servers without a    *)
(* route take their turns and pass, but one that can be used is reached    *)
(* (server_pool_get_server; which client meets it is left open).           *)
PoolServes ==
  \A p \in Procs, k \in Pools :
    (/\ Running(p)
     /\ AddressesOf(p, k) # {}
     /\ \E s \in Elements(pool[p][k]) : Usable(p, s))
    ~> (out # None /\ out.kind = "packet" /\ out.proc = p /\ out.pool = k)
=============================================================================
