--------------------------- MODULE NetworkProofs ---------------------------
(***************************************************************************)
(* What the tables of a process say of local ips and of servers fits       *)
(* together, for every configuration, every number of NICs and hosts, and  *)
(* whatever ARP frames arrive in which order.                              *)
(*                                                                         *)
(* LocalInv: the ips and their routes are those of the configuration.      *)
(* ServerInv: a server without a MAC address has no route; it becomes one  *)
(* in the same call, and nobody else's.                                    *)
(*                                                                         *)
(* At the end, for any finite set of ports: a port range, from which a     *)
(* local ip gives out its ports, implements a pool of ports.               *)
(***************************************************************************)
EXTENDS Network, PortRange, FiniteSetTheorems, WellFoundedInduction, TLAPS

(* Call k binds ip to NIC n. *)
Binds(k, ip, n) == k \in Calling("ip") /\ Config[k].ip = ip /\ Config[k].nic = n

LocalInv ==
  \A p \in Procs :
    /\ \A l \in lips[p] : \E k \in Calling("ip") : Binds(k, l.ip, l.nic)
    /\ \A k \in Calling("ip") : k < at[p] => \E l \in lips[p] : l.ip = Config[k].ip
    /\ \A l \in lips[p] : RoutesTo(p, l.ip) # {}
    /\ \A re \in routes[p] : re.ip \in LocalIps => \E k \in Calling("ip") : Binds(k, re.ip, re.nic)

(* Server number m of pool k was added by call c. *)
AddedBy(p, k, m, c) ==
  /\ c \in Calling("server") /\ c < at[p]
  /\ Config[c].ip = pool[p][k][m].ip
  /\ Config[c].known => pool[p][k][m].mac = pool[p][k][m].ip

RoutesInv(p) == \A re \in routes[p] : re.ip \in Hosts => Running(p) /\ <<re.nic, re.ip>> \in Lan

PlacesInv(p) ==
  \A k \in Pools : \A m \in DOMAIN pool[p][k] :
    /\ \E c \in Calling("server") : AddedBy(p, k, m, c)
    /\ pool[p][k][m].mac \in {None, pool[p][k][m].ip}
    /\ pool[p][k][m].mac = None => RoutesTo(p, pool[p][k][m].ip) = {}

SharedInv(p) ==
  \A k, l \in Pools : \A m \in DOMAIN pool[p][k], n \in DOMAIN pool[p][l] :
    <<k, m>> # <<l, n>> /\ pool[p][k][m].ip = pool[p][l][n].ip =>
      pool[p][k][m].mac = pool[p][k][m].ip

ServerInv == \A p \in Procs : RoutesInv(p) /\ PlacesInv(p) /\ SharedInv(p)

ToldInv == \A t \in told : \E k \in Calling("ip") : Binds(k, t[1], t[2])

(* Virtual servers are numbered as they were created. *)
VserverInv ==
  \A p \in Procs :
    /\ Len(vservers[p]) = Cardinality(Created(IF at[p] <= Len(Config) THEN at[p] - 1 ELSE Len(Config)))
    /\ \A k \in DOMAIN nodes[p] : nodes[p][k][1] \in 1..Len(vservers[p])

IInv ==
  /\ TypeOK /\ LocalInv /\ ServerInv /\ ToldInv /\ VserverInv
  /\ LocalIpsAnswered /\ ForwardedReachesServer

-----------------------------------------------------------------------------
LEMMA ConfigLength == Config \in Seq(Calls) /\ Len(Config) \in Nat /\ DOMAIN Config = 1..Len(Config)
<1>1. Config \in Seq(Calls)
  BY Zenon, ConfigAssumption DEF ConfigAssumption
<1> QED BY <1>1

LEMMA CallTypes ==
  ASSUME NEW k \in DOMAIN Config
  PROVE  /\ k \in Nat \ {0}
         /\ Config[k].op = "ip" => /\ Config[k].ip \in LocalIps /\ Config[k].type \in Types
                                   /\ Config[k].nic \in Nics
         /\ Config[k].op = "server" => /\ Config[k].pool \in Pools /\ Config[k].ip \in Hosts
                                       /\ Config[k].known \in BOOLEAN
         /\ Config[k].op = "vserver" => /\ Config[k].pool \in Pools /\ Config[k].port \in VsPorts
                                        /\ Config[k].fullnat \in BOOLEAN
         /\ Config[k].op = "vserver ip" => /\ Config[k].vs \in Nat \ {0}
                                           /\ Config[k].ip \in LocalIps
<1>1. Config[k] \in Calls /\ k \in Nat \ {0}
  BY ConfigLength
<1> QED BY <1>1 DEF Calls

(* A set of natural numbers has a smallest one. *)
LEMMA Smallest ==
  ASSUME NEW S, S \subseteq Nat, S # {}
  PROVE  \E k \in S : \A l \in S : k <= l
<1>1. PICK k \in S : \A l \in S : ~(<<l, k>> \in OpToRel(<, Nat))
  BY NatLessThanWellFounded, WFMin
<1>2. \A l \in S : ~(l < k)
  BY <1>1 DEF OpToRel
<1> QED BY <1>2

LEMMA LookupFinds ==
  ASSUME TypeOK, VserverInv, NEW p \in Procs, NEW ip, NEW port,
         VserverLookup(p, ip, port) # None
  PROVE  VserverLookup(p, ip, port) \in Vserver
<1> DEFINE found == {k \in DOMAIN nodes[p] : /\ nodes[p][k][2] = ip
                                             /\ vservers[p][nodes[p][k][1]].port = port}
           first == CHOOSE k \in found : \A l \in found : k <= l
<1>1. found # {}
  BY DEF VserverLookup
<1>2. found \subseteq Nat
  BY DEF TypeOK
<1>3. first \in found
  <2> HIDE DEF found
  <2> QED BY <1>1, <1>2, Smallest
<1>4. nodes[p][first][1] \in 1..Len(vservers[p])
  BY <1>3 DEF VserverInv
<1>5. VserverLookup(p, ip, port) = vservers[p][nodes[p][first][1]]
  BY <1>1 DEF VserverLookup
<1>6. vservers[p] \in Seq(Vserver)
  BY DEF TypeOK
<1> HIDE DEF first
<1> QED BY <1>4, <1>5, <1>6

(* One more call may have created one more virtual server. *)
LEMMA CreatedNext ==
  ASSUME NEW k \in DOMAIN Config
  PROVE  /\ Cardinality(Created(k - 1)) \in Nat
         /\ Cardinality(Created(k)) =
              IF Config[k].op = "vserver" THEN Cardinality(Created(k - 1)) + 1
              ELSE Cardinality(Created(k - 1))
<1>1. k \in Nat \ {0}
  BY ConfigLength
<1>2. IsFiniteSet(1..(k - 1))
  BY <1>1, FS_Interval
<1>3. IsFiniteSet(Created(k - 1))
  <2>1. Created(k - 1) \in SUBSET (1..(k - 1))
    BY DEF Created
  <2> QED BY <1>2, <2>1, FS_Subset
<1>4. k \notin Created(k - 1)
  BY <1>1 DEF Created
<1>5. Created(k) = IF Config[k].op = "vserver" THEN Created(k - 1) \cup {k} ELSE Created(k - 1)
  BY <1>1 DEF Created
<1>6. Cardinality(Created(k - 1) \cup {k}) = Cardinality(Created(k - 1)) + 1
  BY <1>3, <1>4, FS_AddElement
<1> QED BY <1>3, <1>5, <1>6, FS_CardinalityType

-----------------------------------------------------------------------------
LEMMA InitOK == Init => IInv
<1> SUFFICES ASSUME Init PROVE IInv
  OBVIOUS
<1> USE ConfigLength
<1>1. TypeOK
  BY DEF Init, TypeOK, Looping, Out, Route, LocalIp
<1>2. LocalInv /\ ServerInv /\ ToldInv
  <2>1. ToldInv
    BY DEF Init, ToldInv
  <2>2. LocalInv
    BY DEF Init, LocalInv, Calling
  <2>3. \A p \in Procs : routes[p] = {} /\ \A k \in Pools : pool[p][k] = <<>>
    BY DEF Init
  <2>4. \A p \in Procs : RoutesInv(p)
    BY <2>3 DEF RoutesInv
  <2>5. \A p \in Procs : PlacesInv(p) /\ SharedInv(p)
    BY <2>3 DEF PlacesInv, SharedInv
  <2> QED BY <2>1, <2>2, <2>4, <2>5 DEF ServerInv
<1>3. VserverInv
  <2>1. Created(0) = {}
    BY DEF Created
  <2>2. \A p \in Procs : (IF at[p] <= Len(Config) THEN at[p] - 1 ELSE Len(Config)) = 0
    BY DEF Init
  <2>3. \A p \in Procs : Len(vservers[p]) = 0 /\ DOMAIN nodes[p] = {}
    BY DEF Init
  <2> QED BY <2>1, <2>2, <2>3, FS_EmptySet DEF VserverInv
<1>4. LocalIpsAnswered /\ ForwardedReachesServer
  BY DEF Init, LocalIpsAnswered, ForwardedReachesServer
<1> QED BY <1>1, <1>2, <1>3, <1>4 DEF IInv

-----------------------------------------------------------------------------
(* The type of every variable is kept by every action. *)
LEMMA ConfigureType ==
  ASSUME TypeOK, NEW p \in Procs, Configure(p)
  PROVE  TypeOK'
<1> DEFINE c == Config[at[p]]
<1> USE DEF TypeOK
<1>1. at[p] \in DOMAIN Config /\ at[p] + 1 \in 1..Looping
  BY ConfigLength DEF Configure, Asking, Looping
<1>2. at' \in [Procs -> 1..Looping]
  BY <1>1 DEF Configure
<1>3. requests' \subseteq Nics \X Hosts /\ told' \subseteq LocalIps \X Nics /\ out' \in Out
  BY DEF Configure
<1>4. CASE AddIp(p, c)
  <2>1. c.ip \in LocalIps /\ c.type \in Types /\ c.nic \in Nics
    BY <1>1, <1>4, CallTypes DEF AddIp
  <2> HIDE DEF c
  <2>2. [ip |-> c.ip, type |-> c.type, nic |-> c.nic] \in LocalIp
    BY <2>1 DEF LocalIp
  <2>3. [ip |-> c.ip, nic |-> c.nic] \in Route
    BY <2>1 DEF Route
  <2>4. lips' \in [Procs -> SUBSET LocalIp] /\ routes' \in [Procs -> SUBSET Route]
    BY <1>4, <2>2, <2>3 DEF AddIp
  <2> QED BY <1>2, <1>3, <1>4, <2>4 DEF AddIp
<1>5. CASE AddServer(p, c)
  <2>1. c.pool \in Pools /\ c.ip \in Hosts
    BY <1>1, <1>5, CallTypes DEF AddServer
  <2> HIDE DEF c
  <2> DEFINE new == [ip |-> c.ip, mac |-> IF c.known THEN c.ip ELSE None]
  <2>2. new \in Server
    BY <2>1 DEF Server
  <2> HIDE DEF new
  <2>3. pool' = [pool EXCEPT ![p] = [pool[p] EXCEPT ![c.pool] = Append(pool[p][c.pool], new)]]
    BY <1>5 DEF AddServer, new
  <2>4. Append(pool[p][c.pool], new) \in Seq(Server)
        /\ Len(Append(pool[p][c.pool], new)) = Len(pool[p][c.pool]) + 1
    BY <2>1, <2>2
  <2>5. pool' \in [Procs -> [Pools -> Seq(Server)]]
    BY <2>1, <2>3, <2>4
  <2>6. \A q \in Procs, k \in Pools : Len(pool[q][k]) <= Len(pool'[q][k])
    BY <2>1, <2>3, <2>4
  <2>7. \A q \in Procs, k \in Pools : next'[q][k] < Len(pool'[q][k]) \/ next'[q][k] = 0
    BY <1>5, <2>5, <2>6 DEF AddServer
  <2> QED BY <1>2, <1>3, <1>5, <2>5, <2>7 DEF AddServer
<1>6. CASE CreateVserver(p, c)
  <2>1. c.pool \in Pools /\ c.port \in VsPorts /\ c.fullnat \in BOOLEAN
    BY <1>1, <1>6, CallTypes DEF CreateVserver
  <2> HIDE DEF c
  <2>2. [pool |-> c.pool, port |-> c.port, fullnat |-> c.fullnat] \in Vserver
    BY <2>1 DEF Vserver
  <2>3. vservers' \in [Procs -> Seq(Vserver)]
    BY <1>6, <2>2 DEF CreateVserver
  <2> QED BY <1>2, <1>3, <1>6, <2>3 DEF CreateVserver
<1>7. CASE AddVserverIp(p, c)
  <2> DEFINE N == (Nat \ {0}) \X LocalIps
  <2>1. c.vs \in Nat \ {0} /\ c.ip \in LocalIps
    BY <1>1, <1>7, CallTypes DEF AddVserverIp
  <2> HIDE DEF c
  <2>2. nodes \in [Procs -> Seq(N)] /\ <<<<c.vs, c.ip>>>> \in Seq(N)
    BY <2>1
  <2> HIDE DEF N
  <2>3. <<<<c.vs, c.ip>>>> \o nodes[p] \in Seq(N)
    BY <2>2
  <2>4. nodes' \in [Procs -> Seq(N)]
    BY <1>7, <2>2, <2>3 DEF AddVserverIp
  <2>5. nodes' \in [Procs -> Seq((Nat \ {0}) \X LocalIps)]
    BY <2>4 DEF N
  <2> QED BY <1>2, <1>3, <1>7, <2>5 DEF AddVserverIp
<1> QED BY <1>4, <1>5, <1>6, <1>7 DEF Configure

(* Setting addresses keeps the pools as they are. *)
LEMMA SetMacsPools ==
  ASSUME TypeOK, NEW p \in Procs, NEW which, NEW mac \in Hosts, SetMacs(p, which, mac)
  PROVE  /\ pool' \in [Procs -> [Pools -> Seq(Server)]]
         /\ \A q \in Procs, k \in Pools :
              /\ Len(pool'[q][k]) = Len(pool[q][k]) /\ DOMAIN pool'[q][k] = DOMAIN pool[q][k]
              /\ \A m \in DOMAIN pool[q][k] :
                   /\ pool'[q][k][m].ip = pool[q][k][m].ip
                   /\ pool'[q][k][m].mac = IF q = p /\ <<k, m>> \in which THEN mac
                                           ELSE pool[q][k][m].mac
<1> DEFINE set(k) == [m \in DOMAIN pool[p][k] |->
             IF <<k, m>> \in which THEN [pool[p][k][m] EXCEPT !.mac = mac] ELSE pool[p][k][m]]
<1>1. pool' = [pool EXCEPT ![p] = [k \in Pools |-> set(k)]]
  BY DEF SetMacs
<1>2. ASSUME NEW k \in Pools
      PROVE  /\ set(k) \in Seq(Server) /\ Len(set(k)) = Len(pool[p][k])
             /\ DOMAIN set(k) = DOMAIN pool[p][k]
             /\ \A m \in DOMAIN pool[p][k] :
                   /\ set(k)[m].ip = pool[p][k][m].ip
                   /\ set(k)[m].mac = IF <<k, m>> \in which THEN mac ELSE pool[p][k][m].mac
  <2>1. pool[p][k] \in Seq(Server)
    BY DEF TypeOK
  <2>2. \A m \in DOMAIN pool[p][k] : pool[p][k][m] \in Server
    BY <2>1
  <2>3. \A m \in DOMAIN pool[p][k] : [pool[p][k][m] EXCEPT !.mac = mac] \in Server
    BY <2>2 DEF Server
  <2>4. /\ Len(pool[p][k]) \in Nat /\ DOMAIN pool[p][k] = 1..Len(pool[p][k])
        /\ set(k) \in [1..Len(pool[p][k]) -> Server]
    <3>1. Len(pool[p][k]) \in Nat /\ DOMAIN pool[p][k] = 1..Len(pool[p][k])
      BY <2>1
    <3>2. \A m \in DOMAIN pool[p][k] :
            (IF <<k, m>> \in which THEN [pool[p][k][m] EXCEPT !.mac = mac] ELSE pool[p][k][m]) \in Server
      BY <2>2, <2>3
    <3> QED BY <3>1, <3>2, Zenon
  <2>5. \A m \in DOMAIN pool[p][k] :
          /\ [pool[p][k][m] EXCEPT !.mac = mac].ip = pool[p][k][m].ip
          /\ [pool[p][k][m] EXCEPT !.mac = mac].mac = mac
    BY <2>2 DEF Server
  <2>6. \A m \in DOMAIN pool[p][k] :
          set(k)[m] = IF <<k, m>> \in which THEN [pool[p][k][m] EXCEPT !.mac = mac] ELSE pool[p][k][m]
    OBVIOUS
  <2>7. /\ set(k) \in Seq(Server) /\ Len(set(k)) = Len(pool[p][k])
        /\ DOMAIN set(k) = DOMAIN pool[p][k]
    <3> HIDE DEF set
    <3> QED BY <2>4
  <2> HIDE DEF set
  <2> QED BY <2>5, <2>6, <2>7
<1> HIDE DEF set
<1>3. \A k \in Pools : pool'[p][k] = set(k)
  BY <1>1 DEF TypeOK
<1>4. \A q \in Procs \ {p} : pool'[q] = pool[q]
  BY <1>1 DEF TypeOK
<1>5. pool' \in [Procs -> [Pools -> Seq(Server)]]
  BY <1>1, <1>2 DEF TypeOK
<1> QED BY <1>2, <1>3, <1>4, <1>5

LEMMA ServersWithPlaces ==
  ASSUME NEW p, NEW ip
  PROVE  /\ \A k \in Pools : \A m : <<k, m>> \in ServersWith(p, ip) <=>
                                  m \in DOMAIN pool[p][k] /\ pool[p][k][m].ip = ip
         /\ \A w \in ServersWith(p, ip) : \E k \in Pools : \E m \in DOMAIN pool[p][k] :
              w = <<k, m>> /\ pool[p][k][m].ip = ip
  BY DEF ServersWith

(* arp_server_route() in its three ways: nothing, addresses only, or the   *)
(* first route and the address of one server.                              *)
LEMMA ServerRouteWays ==
  ASSUME NEW p, NEW ip, NEW n, ServerRoute(p, ip, n)
  PROVE  \/ UNCHANGED <<routes, pool>>
         \/ SetMacs(p, ServersWith(p, ip), ip) /\ UNCHANGED routes
         \/ /\ RoutesTo(p, ip) = {}
            /\ \E first \in ServersWith(p, ip) : SetMacs(p, {first}, ip)
            /\ routes' = [routes EXCEPT ![p] = @ \cup {[ip |-> ip, nic |-> n]}]
  BY DEF ServerRoute

LEMMA ArpReplyType ==
  ASSUME TypeOK, NEW p \in Procs, NEW ip, NEW n, <<n, ip>> \in requests \cap Lan, ArpReply(p, ip, n)
  PROVE  TypeOK'
<1>1. n \in Nics /\ ip \in Hosts
  BY DEF TypeOK
<1>2. [ip |-> ip, nic |-> n] \in Route
  BY <1>1 DEF Route
<1>3. routes' \in [Procs -> SUBSET Route]
  <2>1. \/ routes' = routes
        \/ routes' = [routes EXCEPT ![p] = @ \cup {[ip |-> ip, nic |-> n]}]
    BY ServerRouteWays DEF ArpReply
  <2> DEFINE re == [ip |-> ip, nic |-> n]
  <2> HIDE DEF re
  <2>2. CASE routes' = [routes EXCEPT ![p] = @ \cup {re}]
    BY <1>2, <2>2 DEF TypeOK, re
  <2> QED BY <2>1, <2>2 DEF TypeOK, re
<1>4. /\ pool' \in [Procs -> [Pools -> Seq(Server)]]
      /\ \A q \in Procs, k \in Pools : Len(pool'[q][k]) = Len(pool[q][k])
  <2>1. CASE pool' = pool
    BY <2>1 DEF TypeOK
  <2>2. CASE \E which : SetMacs(p, which, ip)
    BY <1>1, <2>2, SetMacsPools
  <2> QED BY <2>1, <2>2, ServerRouteWays DEF ArpReply
<1>5. UNCHANGED <<at, lips, next, vservers, nodes, requests, told, out>>
  BY DEF ArpReply
<1> QED BY <1>3, <1>4, <1>5 DEF TypeOK

LEMMA FindServerRouteType ==
  ASSUME TypeOK, NEW p \in Procs, FindServerRoute(p)
  PROVE  TypeOK'
<1> DEFINE asks == {a \in ServerIps(p) \X Nics : Sources(p, a[2]) # {}}
<1>1. PICK src \in [asks -> lips[p]] :
        told' = told \cup {<<src[a].ip, a[2]>> : a \in asks}
  BY DEF FindServerRoute
<1>2. requests' = requests \cup {<<a[2], a[1]>> : a \in asks}
  BY DEF FindServerRoute
<1>3. ServerIps(p) \subseteq Hosts
  <2> SUFFICES ASSUME NEW k \in Pools, NEW m \in DOMAIN pool[p][k] PROVE pool[p][k][m].ip \in Hosts
    BY DEF ServerIps, Elements
  <2>1. pool[p][k] \in Seq(Server)
    BY DEF TypeOK
  <2>2. pool[p][k][m] \in Server
    BY <2>1
  <2> QED BY <2>2 DEF Server
<1>4. \A a \in asks : a[1] \in Hosts /\ a[2] \in Nics
  BY <1>3
<1>5. \A a \in asks : src[a].ip \in LocalIps
  <2>1. lips[p] \subseteq LocalIp
    BY DEF TypeOK
  <2> HIDE DEF asks
  <2>2. \A a \in asks : src[a] \in LocalIp
    BY <1>1, <2>1
  <2> QED BY <2>2 DEF LocalIp
<1> HIDE DEF asks
<1>6. told' \subseteq LocalIps \X Nics /\ requests' \subseteq Nics \X Hosts
  BY <1>1, <1>2, <1>4, <1>5 DEF TypeOK
<1>7. at' \in [Procs -> 1..Looping] /\ UNCHANGED <<tables, out>>
  BY ConfigLength DEF FindServerRoute, TypeOK, Looping
<1> QED BY <1>6, <1>7 DEF TypeOK, tables

LEMMA ArpRequestType ==
  ASSUME TypeOK, NEW p \in Procs, NEW ip \in LocalIps \cup Hosts, NEW n \in Nics, ArpRequest(p, ip, n)
  PROVE  TypeOK'
<1>1. CASE \E l \in lips[p] : l.ip = ip
  <2>1. ip \in LocalIps
    BY <1>1 DEF TypeOK, LocalIp
  <2>2. \A re \in RoutesTo(p, ip) : re.nic \in Nics
    BY DEF RoutesTo, TypeOK, Route
  <2>3. told' \subseteq LocalIps \X Nics
    BY <2>1, <2>2 DEF ArpRequest, TypeOK
  <2>4. out' \in Out
    BY <2>2 DEF ArpRequest, Out
  <2> QED BY <2>3, <2>4 DEF ArpRequest, TypeOK, tables
<1>2. CASE ~\E l \in lips[p] : l.ip = ip
  <2>1. out' \in Out /\ told' = told
    BY <1>2 DEF ArpRequest, Out
  <2> QED BY <2>1 DEF ArpRequest, TypeOK, tables
<1> QED BY <1>1, <1>2

(* connection_create() either drops the packet or sends it to a server of  *)
(* the pool, through a NIC that has a route to it.                         *)
LEMMA CreateSends ==
  ASSUME TypeOK, NEW p \in Procs, NEW v \in Vserver, ConnectionCreate(p, v)
  PROVE  /\ \/ UNCHANGED next
            \/ pool[p][v.pool] # <<>> /\ GetServer(p, v.pool)
         /\ \/ out' = None
            \/ \E m \in DOMAIN pool[p][v.pool], re \in routes[p], src \in LocalIps \cup {None} :
                 /\ re.ip = pool[p][v.pool][m].ip
                 /\ src # None => \E l \in lips[p] : /\ l.ip = src /\ l.type = "self"
                                                     /\ l.nic = re.nic
                 /\ out' = [kind |-> "packet", proc |-> p, pool |-> v.pool, src |-> src,
                            server |-> pool[p][v.pool][m].ip, nic |-> re.nic,
                            mac |-> pool[p][v.pool][m].mac]
<1>1. CASE pool[p][v.pool] = <<>>
  BY <1>1 DEF ConnectionCreate
<1>2. CASE pool[p][v.pool] # <<>>
  <2> DEFINE m == next[p][v.pool] + 1
             s == pool[p][v.pool][m]
             ways == {w \in RoutesTo(p, s.ip) \X lips[p] : w[2] \in SelfIps(p, w[1].nic)}
             sent(re, src) == out' = [kind |-> "packet", proc |-> p, pool |-> v.pool, src |-> src,
                                      server |-> s.ip, nic |-> re.nic, mac |-> s.mac]
  <2>1. v.pool \in Pools
    BY DEF Vserver
  <2>2. m \in DOMAIN pool[p][v.pool]
    <3>1. pool[p][v.pool] \in Seq(Server) /\ next[p][v.pool] \in Nat
          /\ (next[p][v.pool] < Len(pool[p][v.pool]) \/ next[p][v.pool] = 0)
      BY <2>1 DEF TypeOK
    <3> QED BY <1>2, <3>1
  <2>3. /\ GetServer(p, v.pool)
        /\ IF v.fullnat
             THEN IF ways = {} THEN out' = None ELSE \E w \in ways : sent(w[1], w[2].ip)
             ELSE IF RoutesTo(p, s.ip) = {} THEN out' = None
                  ELSE \E re \in RoutesTo(p, s.ip) : sent(re, None)
    BY <1>2, Zenon DEF ConnectionCreate
  <2>4. CASE out' = None
    BY <1>2, <2>3, <2>4
  <2>5. CASE \E w \in ways : sent(w[1], w[2].ip)
    <3>1. PICK w \in ways : sent(w[1], w[2].ip)
      BY <2>5
    <3>2. /\ w[1] \in routes[p] /\ w[1].ip = s.ip
          /\ w[2] \in lips[p] /\ w[2].type = "self" /\ w[2].nic = w[1].nic
      BY <3>1 DEF RoutesTo, SelfIps, Bound
    <3>3. w[2].ip \in LocalIps
      BY <3>2 DEF TypeOK, LocalIp
    <3> QED BY <1>2, <2>2, <2>3, <3>1, <3>2, <3>3
  <2>6. CASE \E re \in RoutesTo(p, s.ip) : sent(re, None)
    <3>1. PICK re \in RoutesTo(p, s.ip) : sent(re, None)
      BY <2>6
    <3>2. re \in routes[p] /\ re.ip = s.ip
      BY <3>1 DEF RoutesTo
    <3> QED BY <1>2, <2>2, <2>3, <3>1, <3>2
  <2> QED BY <2>3, <2>4, <2>5, <2>6
<1> QED BY <1>1, <1>2

LEMMA Remainder ==
  ASSUME NEW a \in Nat, NEW b \in Nat \ {0}
  PROVE  a % b \in Nat /\ a % b < b
  OBVIOUS

LEMMA GetServerType ==
  ASSUME TypeOK, NEW p \in Procs, NEW k \in Pools, pool[p][k] # <<>>, GetServer(p, k)
  PROVE  /\ next' \in [Procs -> [Pools -> Nat]]
         /\ \A q \in Procs, l \in Pools : next'[q][l] < Len(pool[q][l]) \/ next'[q][l] = 0
<1>1. pool[p][k] \in Seq(Server) /\ next[p][k] \in Nat
  BY DEF TypeOK
<1>2. Len(pool[p][k]) \in Nat \ {0} /\ next[p][k] + 1 \in Nat
  BY <1>1
<1> DEFINE turn == (next[p][k] + 1) % Len(pool[p][k])
<1>3. turn \in Nat /\ turn < Len(pool[p][k])
  BY <1>2, Remainder
<1>4. next' = [next EXCEPT ![p] = [next[p] EXCEPT ![k] = turn]]
  BY DEF GetServer, TypeOK
<1> HIDE DEF turn
<1> QED BY <1>3, <1>4 DEF TypeOK

LEMMA ClientPacketType ==
  ASSUME TypeOK, VserverInv, NEW p \in Procs, NEW ip, NEW port, ClientPacket(p, ip, port)
  PROVE  TypeOK'
<1> DEFINE v == VserverLookup(p, ip, port)
<1>1. v \in Vserver /\ ConnectionCreate(p, v)
  BY LookupFinds DEF ClientPacket
<1> HIDE DEF v
<1>2. /\ next' \in [Procs -> [Pools -> Nat]]
      /\ \A q \in Procs, l \in Pools : next'[q][l] < Len(pool[q][l]) \/ next'[q][l] = 0
  <2>1. v.pool \in Pools
    BY <1>1 DEF Vserver
  <2>2. CASE UNCHANGED next
    BY <2>2 DEF TypeOK
  <2>3. CASE pool[p][v.pool] # <<>> /\ GetServer(p, v.pool)
    BY <2>1, <2>3, GetServerType
  <2> QED BY <1>1, <2>2, <2>3, CreateSends
<1>3. out' \in Out
  <2>1. CASE out' = None
    BY <2>1 DEF Out
  <2>2. ASSUME NEW m \in DOMAIN pool[p][v.pool], NEW re \in routes[p], NEW src \in LocalIps \cup {None},
               out' = [kind |-> "packet", proc |-> p, pool |-> v.pool, src |-> src,
                       server |-> pool[p][v.pool][m].ip, nic |-> re.nic,
                       mac |-> pool[p][v.pool][m].mac]
        PROVE  out' \in Out
    <3>1. v.pool \in Pools
      BY <1>1 DEF Vserver
    <3>2. pool[p][v.pool] \in Seq(Server)
      BY <3>1 DEF TypeOK
    <3>3. pool[p][v.pool][m] \in Server
      BY <3>2
    <3>4. pool[p][v.pool][m].ip \in Hosts /\ pool[p][v.pool][m].mac \in Hosts \cup {None}
      BY <3>3 DEF Server
    <3>5. re \in Route
      BY DEF TypeOK
    <3>6. re.nic \in Nics
      BY <3>5 DEF Route
    <3> QED BY <2>2, <3>1, <3>4, <3>6 DEF Out
  <2> QED BY <1>1, <2>1, <2>2, CreateSends
<1> QED BY <1>2, <1>3 DEF ClientPacket, TypeOK

LEMMA TypeStep ==
  ASSUME TypeOK, VserverInv, [Next]_vars
  PROVE  TypeOK'
<1>1. CASE UNCHANGED vars
  BY <1>1 DEF vars, tables, TypeOK
<1>2. CASE Next
  <2>1. PICK p \in Procs : Step(p)
    BY <1>2 DEF Next
  <2>2. CASE Configure(p)
    BY <2>2, ConfigureType
  <2>3. CASE FindServerRoute(p)
    BY <2>3, FindServerRouteType
  <2>4. ASSUME NEW r \in requests \cap Lan, ArpReply(p, r[2], r[1]) PROVE TypeOK'
    <3>1. r = <<r[1], r[2]>>
      BY DEF TypeOK
    <3> QED BY <2>4, <3>1, ArpReplyType
  <2>5. CASE \E ip \in LocalIps \cup Hosts, n \in Nics : ArpRequest(p, ip, n)
    BY <2>5, ArpRequestType
  <2>6. CASE \E ip \in LocalIps, port \in VsPorts : ClientPacket(p, ip, port)
    BY <2>6, ClientPacketType
  <2> QED BY <2>1, <2>2, <2>3, <2>4, <2>5, <2>6 DEF Step
<1> QED BY <1>1, <1>2

-----------------------------------------------------------------------------
(* Local ips and their routes. *)
LEMMA Disjoint ==
  /\ \A ip \in Hosts : ip \notin LocalIps /\ ip # None
  /\ \A ip \in LocalIps : ip # None
  BY NetworkAssumption DEF NetworkAssumption

(* Which calls lie before at[p]. *)
LEMMA CallsBefore ==
  ASSUME TypeOK, NEW p \in Procs, NEW op, NEW k \in Calling(op)
  PROVE  /\ k \in DOMAIN Config /\ k \in Nat /\ at[p] \in Nat /\ Config[k].op = op
         /\ at[p] >= Asking => k < at[p]
         /\ k < at[p] + 1 => k < at[p] \/ k = at[p]
  BY ConfigLength DEF Calling, TypeOK, Asking, Looping

LEMMA ConfigureLocal ==
  ASSUME TypeOK, LocalInv, NEW p \in Procs, Configure(p)
  PROVE  LocalInv'
<1> DEFINE c == Config[at[p]]
<1>1. at[p] \in DOMAIN Config /\ at' = [at EXCEPT ![p] = at[p] + 1]
  BY ConfigLength DEF Configure, Asking, Looping, TypeOK
<1>2. CASE AddIp(p, c)
  <2> DEFINE l == [ip |-> c.ip, type |-> c.type, nic |-> c.nic]
             r == [ip |-> c.ip, nic |-> c.nic]
  <2>1. at[p] \in Calling("ip")
    BY <1>1, <1>2 DEF AddIp, Calling
  <2>2. Binds(at[p], l.ip, l.nic) /\ Binds(at[p], r.ip, r.nic) /\ l.ip = c.ip /\ r.ip = c.ip
    BY <2>1 DEF Binds
  <2>3. lips' = [lips EXCEPT ![p] = lips[p] \cup {l}]
    BY <1>2 DEF AddIp
  <2>4. routes' = IF RoutesTo(p, c.ip) # {} THEN routes ELSE [routes EXCEPT ![p] = routes[p] \cup {r}]
    BY <1>2 DEF AddIp
  <2> HIDE DEF l, r, c
  <2>5. lips'[p] = lips[p] \cup {l} /\ \A q \in Procs \ {p} : lips'[q] = lips[q]
    BY <2>3 DEF TypeOK
  <2>6. /\ routes'[p] = IF RoutesTo(p, c.ip) # {} THEN routes[p] ELSE routes[p] \cup {r}
        /\ \A q \in Procs \ {p} : routes'[q] = routes[q]
    BY <2>4 DEF TypeOK
  <2>7. ASSUME NEW q \in Procs, q # p
        PROVE  /\ \A m \in lips'[q] : \E k \in Calling("ip") : Binds(k, m.ip, m.nic)
               /\ \A k \in Calling("ip") : k < at'[q] => \E m \in lips'[q] : m.ip = Config[k].ip
               /\ \A m \in lips'[q] : RoutesTo(q, m.ip)' # {}
               /\ \A re \in routes'[q] : re.ip \in LocalIps => \E k \in Calling("ip") : Binds(k, re.ip, re.nic)
    <3>1. lips'[q] = lips[q] /\ routes'[q] = routes[q] /\ at'[q] = at[q]
      BY <1>1, <2>5, <2>6, <2>7 DEF TypeOK
    <3> QED BY <3>1 DEF LocalInv, RoutesTo
  <2>8. \A m \in lips'[p] : \E k \in Calling("ip") : Binds(k, m.ip, m.nic)
    BY <2>1, <2>2, <2>5 DEF LocalInv
  <2>9. ASSUME NEW k \in Calling("ip"), k < at'[p] PROVE \E m \in lips'[p] : m.ip = Config[k].ip
    <3>1. k < at[p] \/ k = at[p]
      BY <1>1, <2>9, CallsBefore DEF TypeOK
    <3>2. CASE k < at[p]
      BY <2>5, <3>2 DEF LocalInv
    <3>3. CASE k = at[p]
      BY <2>2, <2>5, <3>3 DEF c
    <3> QED BY <3>1, <3>2, <3>3
  <2>10. \A m \in lips'[p] : RoutesTo(p, m.ip)' # {}
    <3>1. routes[p] \subseteq routes'[p]
      BY <2>6
    <3>2. \A m \in lips[p] : RoutesTo(p, m.ip)' # {}
      BY <3>1 DEF LocalInv, RoutesTo
    <3>3. CASE RoutesTo(p, c.ip) # {}
      <4>1. \A re \in RoutesTo(p, c.ip) : re \in routes'[p] /\ re.ip = l.ip
        BY <2>2, <3>1 DEF RoutesTo
      <4>2. \E re \in routes'[p] : re.ip = l.ip
        BY <3>3, <4>1
      <4> QED BY <2>5, <3>2, <4>2 DEF RoutesTo
    <3>4. CASE RoutesTo(p, c.ip) = {}
      <4>1. r \in routes'[p] /\ r.ip = l.ip
        BY <2>2, <2>6, <3>4
      <4> QED BY <2>5, <3>2, <4>1 DEF RoutesTo
    <3> QED BY <3>3, <3>4
  <2>11. \A re \in routes'[p] : re.ip \in LocalIps => \E k \in Calling("ip") : Binds(k, re.ip, re.nic)
    BY <2>1, <2>2, <2>6 DEF LocalInv
  <2> QED BY <2>7, <2>8, <2>9, <2>10, <2>11 DEF LocalInv
<1>3. CASE c.op # "ip" /\ UNCHANGED <<lips, routes>>
  <2>1. ASSUME NEW q \in Procs, NEW k \in Calling("ip"), k < at'[q] PROVE k < at[q]
    <3>1. CASE q # p
      BY <1>1, <2>1, <3>1 DEF TypeOK
    <3>2. CASE q = p
      <4>1. k < at[p] \/ k = at[p]
        BY <1>1, <2>1, <3>2, CallsBefore DEF TypeOK
      <4>2. k # at[p]
        BY <1>3, CallsBefore
      <4> QED BY <3>2, <4>1, <4>2
    <3> QED BY <3>1, <3>2
  <2> QED BY <1>3, <2>1 DEF LocalInv, RoutesTo
<1>4. AddIp(p, c) \/ (c.op # "ip" /\ UNCHANGED <<lips, routes>>)
  BY DEF Configure, AddServer, CreateVserver, AddVserverIp
<1> QED BY <1>2, <1>3, <1>4

LEMMA FindServerRouteLocal ==
  ASSUME TypeOK, LocalInv, NEW p \in Procs, FindServerRoute(p)
  PROVE  LocalInv'
<1>1. at' = [at EXCEPT ![p] = Looping] /\ at[p] = Asking /\ lips' = lips /\ routes' = routes
  BY DEF FindServerRoute, tables
<1>2. ASSUME NEW q \in Procs, NEW k \in Calling("ip"), k < at'[q] PROVE k < at[q]
  <2>1. CASE q = p
    <3>1. at[p] >= Asking
      BY <1>1, ConfigLength DEF Asking
    <3> QED BY <2>1, <3>1, CallsBefore
  <2>2. CASE q # p
    BY <1>1, <1>2, <2>2 DEF TypeOK
  <2> QED BY <2>1, <2>2
<1> QED BY <1>1, <1>2 DEF LocalInv, RoutesTo

LEMMA ArpReplyLocal ==
  ASSUME TypeOK, LocalInv, NEW p \in Procs, NEW ip \in Hosts, NEW n, ArpReply(p, ip, n)
  PROVE  LocalInv'
<1> DEFINE r == [ip |-> ip, nic |-> n]
<1>1. routes' = routes \/ routes' = [routes EXCEPT ![p] = routes[p] \cup {r}]
  BY ServerRouteWays DEF ArpReply
<1>2. r.ip \notin LocalIps
  BY Disjoint
<1> HIDE DEF r
<1>3. \A q \in Procs : routes[q] \subseteq routes'[q] /\ routes'[q] \subseteq routes[q] \cup {r}
  BY <1>1 DEF TypeOK
<1>4. lips' = lips /\ at' = at
  BY DEF ArpReply
<1>5. \A q \in Procs : \A l \in lips[q] : RoutesTo(q, l.ip)' # {}
  BY <1>3 DEF LocalInv, RoutesTo
<1>6. \A q \in Procs : \A re \in routes'[q] :
        re.ip \in LocalIps => \E k \in Calling("ip") : Binds(k, re.ip, re.nic)
  BY <1>2, <1>3 DEF LocalInv
<1> QED BY <1>4, <1>5, <1>6 DEF LocalInv

-----------------------------------------------------------------------------
(* Servers, their addresses and routes. *)

(* Nothing changes for a process whose tables do not. *)
LEMMA ServerFrame ==
  ASSUME NEW p \in Procs, RoutesInv(p), PlacesInv(p), SharedInv(p),
         routes'[p] = routes[p], pool'[p] = pool[p], at'[p] = at[p]
  PROVE  RoutesInv(p)' /\ PlacesInv(p)' /\ SharedInv(p)'
  BY DEF RoutesInv, PlacesInv, SharedInv, AddedBy, RoutesTo, Running

LEMMA ConfigureServer ==
  ASSUME TypeOK, ServerInv, NEW p \in Procs, Configure(p)
  PROVE  ServerInv'
<1> DEFINE c == Config[at[p]]
<1>1. at[p] \in DOMAIN Config /\ at' = [at EXCEPT ![p] = at[p] + 1] /\ at[p] \in Nat
  BY ConfigLength DEF Configure, Asking, Looping, TypeOK
<1>2. RoutesInv(p) /\ PlacesInv(p) /\ SharedInv(p)
  BY DEF ServerInv
<1>3. \A re \in routes[p] : re.ip \notin Hosts
  <2>1. ~Running(p)
    BY <1>1, ConfigLength DEF Running, Looping
  <2> QED BY <1>2, <2>1 DEF RoutesInv
<1>4. \A re \in routes'[p] : re.ip \notin Hosts
  <2>1. CASE routes' = routes
    BY <1>3, <2>1
  <2>2. CASE AddIp(p, c)
    <3>1. c.ip \notin Hosts
      BY <1>1, <2>2, CallTypes, Disjoint DEF AddIp
    <3> DEFINE r == [ip |-> c.ip, nic |-> c.nic]
    <3>2. r.ip \notin Hosts
      BY <3>1
    <3> HIDE DEF c
    <3>3. routes' = routes \/ routes' = [routes EXCEPT ![p] = routes[p] \cup {r}]
      BY <2>2 DEF AddIp
    <3> HIDE DEF r
    <3> QED BY <1>3, <3>2, <3>3 DEF TypeOK
  <2> QED BY <2>1, <2>2 DEF Configure, AddServer, CreateVserver, AddVserverIp
<1>5. \A q \in Procs \ {p} : routes'[q] = routes[q] /\ pool'[q] = pool[q] /\ at'[q] = at[q]
  <2>1. \A q \in Procs \ {p} : at'[q] = at[q]
    BY <1>1 DEF TypeOK
  <2>2. CASE AddIp(p, c)
    BY <2>1, <2>2 DEF AddIp, TypeOK
  <2>3. CASE AddServer(p, c)
    BY <2>1, <2>3 DEF AddServer, TypeOK
  <2> QED BY <2>1, <2>2, <2>3 DEF Configure, CreateVserver, AddVserverIp
<1>6. RoutesInv(p)'
  BY <1>4 DEF RoutesInv
<1>7. ASSUME pool'[p] = pool[p] PROVE PlacesInv(p)' /\ SharedInv(p)'
  <2>1. \A k \in Pools : \A m \in DOMAIN pool[p][k] : \A d \in Calling("server") :
          AddedBy(p, k, m, d) => AddedBy(p, k, m, d)'
    BY <1>1, <1>7, CallsBefore DEF AddedBy, TypeOK
  <2>2. \A k \in Pools : \A m \in DOMAIN pool[p][k] : RoutesTo(p, pool[p][k][m].ip)' = {}
    <3>1. ASSUME NEW k \in Pools, NEW m \in DOMAIN pool[p][k] PROVE pool[p][k][m].ip \in Hosts
      <4>1. pool[p][k] \in Seq(Server)
        BY DEF TypeOK
      <4>2. pool[p][k][m] \in Server
        BY <4>1
      <4> QED BY <4>2 DEF Server
    <3> QED BY <1>4, <1>7, <3>1 DEF RoutesTo
  <2> QED BY <1>2, <1>7, <2>1, <2>2 DEF PlacesInv, SharedInv
<1>8. ASSUME AddServer(p, c) PROVE PlacesInv(p)' /\ SharedInv(p)'
  <2> DEFINE new == [ip |-> c.ip, mac |-> IF c.known THEN c.ip ELSE None]
             end == Len(pool[p][c.pool]) + 1
  <2>1. at[p] \in Calling("server") /\ c.pool \in Pools /\ c.ip \in Hosts
    BY <1>1, <1>8, CallTypes DEF AddServer, Calling
  <2>2. new.ip = c.ip /\ new.mac \in {None, c.ip} /\ (c.known => new.mac = c.ip)
    OBVIOUS
  <2>3. pool' = [pool EXCEPT ![p] = [pool[p] EXCEPT ![c.pool] = Append(pool[p][c.pool], new)]]
    BY <1>8, <2>1 DEF AddServer, TypeOK
  <2>4. \A k \in Pools : pool[p][k] \in Seq(Server)
    BY DEF TypeOK
  <2> HIDE DEF new, c
  <2>5. ASSUME NEW k \in Pools
        PROVE  /\ \A m \in DOMAIN pool[p][k] : m \in DOMAIN pool'[p][k] /\ pool'[p][k][m] = pool[p][k][m]
               /\ \A m \in DOMAIN pool'[p][k] :
                    \/ m \in DOMAIN pool[p][k]
                    \/ k = c.pool /\ m = end /\ pool'[p][k][m] = new
    <3>1. CASE k = c.pool
      <4>1. pool'[p][k] = Append(pool[p][k], new)
        BY <2>1, <2>3, <3>1 DEF TypeOK
      <4> QED BY <2>4, <3>1, <4>1
    <3>2. CASE k # c.pool
      BY <2>3, <3>2 DEF TypeOK
    <3> QED BY <3>1, <3>2
  <2>6. at'[p] = at[p] + 1
    BY <1>1 DEF TypeOK
  <2>7. ASSUME NEW k \in Pools, NEW m \in DOMAIN pool'[p][k]
        PROVE  /\ \E d \in Calling("server") : AddedBy(p, k, m, d)'
               /\ pool'[p][k][m].mac \in {None, pool'[p][k][m].ip}
               /\ RoutesTo(p, pool[p][k][m].ip)' = {}
    <3>1. CASE m \in DOMAIN pool[p][k]
      <4>1. PICK d \in Calling("server") : AddedBy(p, k, m, d)
        BY <1>2, <3>1 DEF PlacesInv
      <4>2. d \in Nat
        BY CallsBefore
      <4>3. AddedBy(p, k, m, d)'
        BY <1>1, <2>5, <2>6, <3>1, <4>1, <4>2 DEF AddedBy
      <4>4. pool[p][k][m].ip \in Hosts
        <5>1. pool[p][k][m] \in Server
          BY <2>4, <3>1
        <5> QED BY <5>1 DEF Server
      <4> QED BY <1>2, <1>4, <2>5, <3>1, <4>3, <4>4 DEF PlacesInv, RoutesTo
    <3>2. CASE m \notin DOMAIN pool[p][k]
      <4>1. pool'[p][k][m] = new
        BY <2>5, <3>2
      <4>2. PICK d \in Calling("server") : d = at[p]
        BY <2>1
      <4>3. AddedBy(p, k, m, d)'
        BY <1>1, <2>1, <2>2, <2>6, <4>1, <4>2 DEF AddedBy, c
      <4> QED BY <1>4, <2>1, <2>2, <4>1, <4>3 DEF RoutesTo
    <3> QED BY <3>1, <3>2
  <2>8. ASSUME NEW k \in Pools, NEW m \in DOMAIN pool[p][k], pool[p][k][m].ip = c.ip
        PROVE  pool[p][k][m].mac = c.ip /\ new.mac = c.ip
    <3>1. PICK d \in Calling("server") : AddedBy(p, k, m, d)
      BY <1>2 DEF PlacesInv
    <3>2. d # at[p] /\ Config[d].ip = Config[at[p]].ip
      BY <1>1, <2>8, <3>1 DEF AddedBy, c
    <3>3. Config[d].known /\ c.known
      BY <2>1, <3>2, ConfigAssumption, Zenon DEF ConfigAssumption, c
    <3> QED BY <2>2, <2>8, <3>1, <3>3 DEF AddedBy
  <2>9. SharedInv(p)'
    <3> SUFFICES ASSUME NEW k \in Pools, NEW l \in Pools,
                        NEW m \in DOMAIN pool'[p][k], NEW n \in DOMAIN pool'[p][l],
                        <<k, m>> # <<l, n>>, pool'[p][k][m].ip = pool'[p][l][n].ip
                 PROVE  pool'[p][k][m].mac = pool'[p][k][m].ip
      BY DEF SharedInv
    <3>1. CASE m \in DOMAIN pool[p][k] /\ n \in DOMAIN pool[p][l]
      BY <1>2, <2>5, <3>1 DEF SharedInv
    <3>2. CASE m \in DOMAIN pool[p][k] /\ n \notin DOMAIN pool[p][l]
      BY <2>2, <2>5, <2>8, <3>2
    <3>3. CASE m \notin DOMAIN pool[p][k] /\ n \in DOMAIN pool[p][l]
      BY <2>2, <2>5, <2>8, <3>3
    <3>4. CASE m \notin DOMAIN pool[p][k] /\ n \notin DOMAIN pool[p][l]
      BY <2>5, <3>4
    <3> QED BY <3>1, <3>2, <3>3, <3>4
  <2>10. PlacesInv(p)'
    BY <2>7 DEF PlacesInv
  <2> QED BY <2>9, <2>10
<1>9. PlacesInv(p)' /\ SharedInv(p)'
  BY <1>7, <1>8 DEF Configure, AddIp, CreateVserver, AddVserverIp
<1> QED BY <1>5, <1>6, <1>9, ServerFrame DEF ServerInv

LEMMA FindServerRouteServer ==
  ASSUME TypeOK, ServerInv, NEW p \in Procs, FindServerRoute(p)
  PROVE  ServerInv'
<1>1. at' = [at EXCEPT ![p] = Looping] /\ at[p] = Asking /\ routes' = routes /\ pool' = pool
  BY DEF FindServerRoute, tables
<1>2. Asking \in Nat /\ Looping = Asking + 1
  BY ConfigLength DEF Asking, Looping
<1>3. RoutesInv(p) /\ PlacesInv(p) /\ SharedInv(p)
  BY DEF ServerInv
<1>4. at'[p] = Looping /\ \A q \in Procs \ {p} : at'[q] = at[q]
  BY <1>1 DEF TypeOK
<1>5. RoutesInv(p)' /\ SharedInv(p)'
  BY <1>1, <1>3, <1>4 DEF RoutesInv, SharedInv, Running
<1>6. PlacesInv(p)'
  <2>1. \A k \in Pools : \A m \in DOMAIN pool[p][k] : \A c \in Calling("server") :
          AddedBy(p, k, m, c) => AddedBy(p, k, m, c)'
    BY <1>1, <1>2, <1>4, CallsBefore DEF AddedBy
  <2> QED BY <1>1, <1>3, <2>1 DEF PlacesInv, RoutesTo
<1> QED BY <1>1, <1>4, <1>5, <1>6, ServerFrame DEF ServerInv

(* Giving some servers of host ip its address disturbs nothing. *)
LEMMA SetMacsKeeps ==
  ASSUME TypeOK, NEW p \in Procs, PlacesInv(p), SharedInv(p), NEW ip \in Hosts,
         NEW which, which \subseteq ServersWith(p, ip), SetMacs(p, which, ip), at' = at
  PROVE  /\ SharedInv(p)'
         /\ \A q \in Procs \ {p} : pool'[q] = pool[q]
         /\ \A k \in Pools : DOMAIN pool'[p][k] = DOMAIN pool[p][k]
         /\ \A k \in Pools : \A m \in DOMAIN pool[p][k] :
              /\ \E c \in Calling("server") : AddedBy(p, k, m, c)'
              /\ pool'[p][k][m].ip = pool[p][k][m].ip
              /\ pool'[p][k][m].mac \in {None, pool[p][k][m].ip}
              /\ <<k, m>> \in which => pool'[p][k][m].mac = pool[p][k][m].ip
              /\ <<k, m>> \notin which => pool'[p][k][m].mac = pool[p][k][m].mac
<1>1. \A k \in Pools :
        /\ DOMAIN pool'[p][k] = DOMAIN pool[p][k]
        /\ \A m \in DOMAIN pool[p][k] :
             /\ pool'[p][k][m].ip = pool[p][k][m].ip
             /\ pool'[p][k][m].mac = IF <<k, m>> \in which THEN ip ELSE pool[p][k][m].mac
  BY SetMacsPools
<1>2. \A k \in Pools : \A m \in DOMAIN pool[p][k] : <<k, m>> \in which => pool[p][k][m].ip = ip
  BY ServersWithPlaces
<1>3. \A q \in Procs \ {p} : pool'[q] = pool[q]
  BY DEF SetMacs, TypeOK
<1>4. ASSUME NEW k \in Pools, NEW m \in DOMAIN pool[p][k]
      PROVE  /\ \E c \in Calling("server") : AddedBy(p, k, m, c)'
             /\ pool'[p][k][m].mac \in {None, pool[p][k][m].ip}
             /\ <<k, m>> \in which => pool'[p][k][m].mac = pool[p][k][m].ip
             /\ <<k, m>> \notin which => pool'[p][k][m].mac = pool[p][k][m].mac
  <2>1. PICK c \in Calling("server") : AddedBy(p, k, m, c)
    BY DEF PlacesInv
  <2>2. AddedBy(p, k, m, c)'
    BY <1>1, <1>2, <2>1 DEF AddedBy
  <2> QED BY <1>1, <1>2, <2>2 DEF PlacesInv
<1>5. SharedInv(p)'
  <2> SUFFICES ASSUME NEW k \in Pools, NEW l \in Pools,
                      NEW m \in DOMAIN pool'[p][k], NEW n \in DOMAIN pool'[p][l],
                      <<k, m>> # <<l, n>>, pool'[p][k][m].ip = pool'[p][l][n].ip
               PROVE  pool'[p][k][m].mac = pool'[p][k][m].ip
    BY Zenon DEF SharedInv
  <2>1. /\ m \in DOMAIN pool[p][k] /\ n \in DOMAIN pool[p][l]
        /\ pool'[p][k][m].ip = pool[p][k][m].ip /\ pool'[p][l][n].ip = pool[p][l][n].ip
    BY <1>1
  <2>2. pool[p][k][m].mac = pool[p][k][m].ip
    BY <2>1, Zenon DEF SharedInv
  <2> QED BY <1>4, <2>1, <2>2
<1> QED BY <1>1, <1>3, <1>4, <1>5

LEMMA ArpReplyServer ==
  ASSUME TypeOK, ServerInv, NEW p \in Procs, NEW ip \in Hosts, NEW n, <<n, ip>> \in Lan,
         ArpReply(p, ip, n)
  PROVE  ServerInv'
<1>1. RoutesInv(p) /\ PlacesInv(p) /\ SharedInv(p) /\ Running(p) /\ at' = at
  BY DEF ServerInv, ArpReply
<1>2. CASE UNCHANGED <<routes, pool>>
  BY <1>1, <1>2, ServerFrame DEF ServerInv
<1>3. CASE SetMacs(p, ServersWith(p, ip), ip) /\ UNCHANGED routes
  <2>1. RoutesInv(p)'
    BY <1>1, <1>3 DEF RoutesInv, Running
  <2>2. PlacesInv(p)' /\ SharedInv(p)' /\ \A q \in Procs \ {p} : pool'[q] = pool[q]
    <3>1. /\ SharedInv(p)' /\ \A q \in Procs \ {p} : pool'[q] = pool[q]
          /\ \A k \in Pools : DOMAIN pool'[p][k] = DOMAIN pool[p][k]
          /\ \A k \in Pools : \A m \in DOMAIN pool[p][k] :
               /\ \E c \in Calling("server") : AddedBy(p, k, m, c)'
               /\ pool'[p][k][m].ip = pool[p][k][m].ip
               /\ pool'[p][k][m].mac \in {None, pool[p][k][m].ip}
               /\ \/ pool'[p][k][m].mac = pool[p][k][m].ip
                  \/ pool'[p][k][m].mac = pool[p][k][m].mac
      BY <1>1, <1>3, SetMacsKeeps
    <3>2. \A k \in Pools : \A m \in DOMAIN pool[p][k] : pool[p][k][m].ip # None
      <4> SUFFICES ASSUME NEW k \in Pools, NEW m \in DOMAIN pool[p][k] PROVE pool[p][k][m].ip # None
        OBVIOUS
      <4>1. pool[p][k] \in Seq(Server)
        BY DEF TypeOK
      <4>2. pool[p][k][m] \in Server
        BY <4>1
      <4> QED BY <4>2, Disjoint DEF Server
    <3> QED BY <1>1, <1>3, <3>1, <3>2 DEF PlacesInv, RoutesTo
  <2> QED BY <1>1, <1>3, <2>1, <2>2, ServerFrame DEF ServerInv
<1>4. ASSUME RoutesTo(p, ip) = {}, NEW first \in ServersWith(p, ip), SetMacs(p, {first}, ip),
             routes' = [routes EXCEPT ![p] = @ \cup {[ip |-> ip, nic |-> n]}]
      PROVE  ServerInv'
  <2> DEFINE r == [ip |-> ip, nic |-> n]
  <2>1. routes'[p] = routes[p] \cup {r} /\ \A q \in Procs \ {p} : routes'[q] = routes[q]
    BY <1>4 DEF TypeOK
  <2>2. r.ip = ip /\ r.nic = n
    OBVIOUS
  <2> HIDE DEF r
  <2>3. RoutesInv(p)'
    BY <1>1, <2>1, <2>2 DEF RoutesInv, Running
  <2>4. PICK k0 \in Pools : \E m \in DOMAIN pool[p][k0] : first = <<k0, m>> /\ pool[p][k0][m].ip = ip
    BY <1>4, ServersWithPlaces
  <2>5. PICK m0 \in DOMAIN pool[p][k0] : first = <<k0, m0>> /\ pool[p][k0][m0].ip = ip
    BY <2>4
  <2>6. /\ SharedInv(p)' /\ \A q \in Procs \ {p} : pool'[q] = pool[q]
        /\ \A k \in Pools : DOMAIN pool'[p][k] = DOMAIN pool[p][k]
        /\ \A k \in Pools : \A m \in DOMAIN pool[p][k] :
             /\ \E c \in Calling("server") : AddedBy(p, k, m, c)'
             /\ pool'[p][k][m].ip = pool[p][k][m].ip
             /\ pool'[p][k][m].mac \in {None, pool[p][k][m].ip}
             /\ <<k, m>> = first => pool'[p][k][m].mac = pool[p][k][m].ip
             /\ <<k, m>> # first => pool'[p][k][m].mac = pool[p][k][m].mac
    <3> DEFINE which == {first}
    <3>1. which \subseteq ServersWith(p, ip) /\ SetMacs(p, which, ip)
      BY <1>4
    <3>2. \A k, m : <<k, m>> \in which <=> <<k, m>> = first
      OBVIOUS
    <3> HIDE DEF which
    <3>3. /\ SharedInv(p)' /\ \A q \in Procs \ {p} : pool'[q] = pool[q]
          /\ \A k \in Pools : DOMAIN pool'[p][k] = DOMAIN pool[p][k]
          /\ \A k \in Pools : \A m \in DOMAIN pool[p][k] :
               /\ \E c \in Calling("server") : AddedBy(p, k, m, c)'
               /\ pool'[p][k][m].ip = pool[p][k][m].ip
               /\ pool'[p][k][m].mac \in {None, pool[p][k][m].ip}
               /\ <<k, m>> \in which => pool'[p][k][m].mac = pool[p][k][m].ip
               /\ <<k, m>> \notin which => pool'[p][k][m].mac = pool[p][k][m].mac
      BY <1>1, <3>1, SetMacsKeeps
    <3> QED BY <3>2, <3>3, Zenon
  <2>7. ASSUME NEW k \in Pools, NEW m \in DOMAIN pool[p][k], pool'[p][k][m].mac = None
        PROVE  RoutesTo(p, pool[p][k][m].ip)' = {}
    <3>1. pool[p][k][m].ip # None
      <4>1. pool[p][k] \in Seq(Server)
        BY DEF TypeOK
      <4>2. pool[p][k][m] \in Server
        BY <4>1
      <4> QED BY <4>2, Disjoint DEF Server
    <3>2. <<k, m>> # first /\ pool[p][k][m].mac = None
      BY <2>6, <2>7, <3>1
    <3>3. pool[p][k][m].ip # ip
      BY <1>1, <2>5, <3>1, <3>2 DEF SharedInv
    <3>4. RoutesTo(p, pool[p][k][m].ip) = {}
      BY <1>1, <3>2 DEF PlacesInv
    <3>5. pool'[p][k][m].ip = pool[p][k][m].ip
      BY <2>6
    <3> QED BY <2>1, <2>2, <3>3, <3>4, <3>5 DEF RoutesTo
  <2>8. PlacesInv(p)'
    BY <2>6, <2>7 DEF PlacesInv
  <2> QED BY <1>1, <2>1, <2>3, <2>6, <2>8, ServerFrame DEF ServerInv
<1> QED BY <1>2, <1>3, <1>4, ServerRouteWays DEF ArpReply

-----------------------------------------------------------------------------
(* What frames say of local ips. *)
LEMMA FindServerRouteTold ==
  ASSUME TypeOK, LocalInv, ToldInv, NEW p \in Procs, FindServerRoute(p)
  PROVE  ToldInv'
<1> DEFINE asks == {a \in ServerIps(p) \X Nics : Sources(p, a[2]) # {}}
<1>1. PICK src \in [asks -> lips[p]] :
        /\ \A a \in asks : src[a] \in Sources(p, a[2])
        /\ told' = told \cup {<<src[a].ip, a[2]>> : a \in asks}
  BY DEF FindServerRoute
<1>2. \A a \in asks : src[a] \in lips[p] /\ src[a].nic = a[2]
  BY <1>1 DEF Sources, Bound
<1> HIDE DEF asks
<1>3. \A a \in asks : \E k \in Calling("ip") : Binds(k, src[a].ip, a[2])
  BY <1>2 DEF LocalInv
<1>4. \A t \in told' : t \in told \/ \E a \in asks : t[1] = src[a].ip /\ t[2] = a[2]
  BY <1>1
<1> QED BY <1>3, <1>4 DEF ToldInv

(* arp_response() answers with the NIC of the configuration, or not at     *)
(* all if the ip is not a local one.                                       *)
LEMMA ArpRequestAnswer ==
  ASSUME TypeOK, LocalInv, NEW p \in Procs, NEW ip, NEW n, ArpRequest(p, ip, n)
  PROVE  \/ /\ told' = told /\ out' = [kind |-> "arp", ip |-> ip, nic |-> None]
            /\ \A k \in Calling("ip") : Config[k].ip # ip
         \/ \E nic \in Nics : /\ told' = told \cup {<<ip, nic>>}
                              /\ out' = [kind |-> "arp", ip |-> ip, nic |-> nic]
                              /\ \E k \in Calling("ip") : Binds(k, ip, nic)
<1>1. Running(p) /\ Looping >= Asking
  BY ConfigLength DEF ArpRequest, Looping, Asking
<1>2. CASE \E l \in lips[p] : l.ip = ip
  <2>1. ip \in LocalIps /\ RoutesTo(p, ip) # {}
    BY <1>2 DEF TypeOK, LocalIp, LocalInv
  <2>2. PICK re \in RoutesTo(p, ip) : out' = [kind |-> "arp", ip |-> ip, nic |-> re.nic]
                                      /\ told' = told \cup {<<ip, re.nic>>}
    BY <1>2, <2>1 DEF ArpRequest
  <2>3. re \in routes[p] /\ re.ip = ip
    BY DEF RoutesTo
  <2>4. re.nic \in Nics
    BY <2>3 DEF TypeOK, Route
  <2>5. \E k \in Calling("ip") : Binds(k, ip, re.nic)
    BY <2>1, <2>3 DEF LocalInv
  <2> QED BY <2>2, <2>4, <2>5
<1>3. CASE ~\E l \in lips[p] : l.ip = ip
  <2>1. \A k \in Calling("ip") : k < at[p]
    BY <1>1, CallsBefore DEF Running
  <2>2. \A k \in Calling("ip") : Config[k].ip # ip
    BY <1>3, <2>1 DEF LocalInv
  <2> QED BY <1>3, <2>2 DEF ArpRequest
<1> QED BY <1>2, <1>3

LEMMA ArpRequestKeeps ==
  ASSUME TypeOK, LocalInv, ToldInv, NEW p \in Procs, NEW ip, NEW n, ArpRequest(p, ip, n)
  PROVE  ToldInv' /\ LocalIpsAnswered' /\ ForwardedReachesServer'
<1>1. CASE /\ told' = told /\ out' = [kind |-> "arp", ip |-> ip, nic |-> None]
           /\ \A k \in Calling("ip") : Config[k].ip # ip
  BY <1>1 DEF ToldInv, LocalIpsAnswered, ForwardedReachesServer
<1>2. ASSUME NEW nic \in Nics, told' = told \cup {<<ip, nic>>},
             out' = [kind |-> "arp", ip |-> ip, nic |-> nic],
             NEW k \in Calling("ip"), Binds(k, ip, nic)
      PROVE  ToldInv' /\ LocalIpsAnswered' /\ ForwardedReachesServer'
  <2>1. ToldInv'
    BY <1>2 DEF ToldInv
  <2>2. \A l \in Calling("ip") : Config[l].ip = ip => l = k
    BY <1>2, ConfigAssumption, Zenon DEF ConfigAssumption, Binds
  <2>3. LocalIpsAnswered'
    BY <1>2, <2>2 DEF LocalIpsAnswered, Binds
  <2> QED BY <1>2, <2>1, <2>3 DEF ForwardedReachesServer
<1> QED BY <1>1, <1>2, ArpRequestAnswer

-----------------------------------------------------------------------------
(* Virtual servers. *)

(* The calls that process p has made. *)
Made(p) == IF at[p] <= Len(Config) THEN at[p] - 1 ELSE Len(Config)

LEMMA ConfigureVserver ==
  ASSUME TypeOK, VserverInv, NEW p \in Procs, Configure(p)
  PROVE  VserverInv'
<1> DEFINE c == Config[at[p]]
<1>1. at[p] \in DOMAIN Config /\ at' = [at EXCEPT ![p] = at[p] + 1]
  BY ConfigLength DEF Configure, Asking, Looping, TypeOK
<1>2. Made(p) = at[p] - 1 /\ Made(p)' = at[p]
  <2>1. Len(Config) \in Nat /\ at[p] \in 1..Len(Config)
    BY <1>1, ConfigLength
  <2>2. at'[p] = at[p] + 1
    BY <1>1 DEF TypeOK
  <2> QED BY <2>1, <2>2 DEF Made
<1>3. Len(vservers[p]) = Cardinality(Created(at[p] - 1))
  BY <1>2 DEF VserverInv, Made
<1>4. /\ Cardinality(Created(at[p] - 1)) \in Nat
      /\ Cardinality(Created(at[p])) = IF c.op = "vserver" THEN Cardinality(Created(at[p] - 1)) + 1
                                       ELSE Cardinality(Created(at[p] - 1))
  BY <1>1, CreatedNext
<1>5. /\ Len(vservers'[p]) = Cardinality(Created(at[p]))
      /\ \A k \in DOMAIN nodes'[p] : nodes'[p][k][1] \in 1..Len(vservers'[p])
      /\ \A q \in Procs \ {p} : vservers'[q] = vservers[q] /\ nodes'[q] = nodes[q]
  <2>1. CASE CreateVserver(p, c)
    <3> DEFINE v == [pool |-> c.pool, port |-> c.port, fullnat |-> c.fullnat]
    <3>1. v \in Vserver
      BY <1>1, <2>1, CallTypes DEF CreateVserver, Vserver
    <3> HIDE DEF v
    <3>2. vservers' = [vservers EXCEPT ![p] = Append(vservers[p], v)]
      BY <2>1 DEF CreateVserver, v
    <3>3. vservers[p] \in Seq(Vserver)
      BY DEF TypeOK
    <3>4. Len(vservers'[p]) = Len(vservers[p]) + 1 /\ Len(vservers[p]) \in Nat
      BY <3>1, <3>2, <3>3 DEF TypeOK
    <3>5. c.op = "vserver" /\ nodes' = nodes
      BY <2>1 DEF CreateVserver
    <3>6. \A q \in Procs \ {p} : vservers'[q] = vservers[q]
      BY <3>2 DEF TypeOK
    <3> QED BY <1>3, <1>4, <3>4, <3>5, <3>6 DEF VserverInv
  <2>2. CASE AddVserverIp(p, c)
    <3>1. c.op = "vserver ip" /\ vservers' = vservers
      BY <2>2 DEF AddVserverIp
    <3>2. c.vs \in 1..Len(vservers[p]) /\ c.ip \in LocalIps
      <4>1. c.vs \in Nat \ {0} /\ c.ip \in LocalIps
        BY <1>1, <3>1, CallTypes
      <4>2. at[p] \in Calling("vserver ip")
        BY <1>1, <3>1 DEF Calling
      <4>3. c.vs <= Cardinality(Created(at[p] - 1))
        BY <4>2, ConfigAssumption, Zenon DEF ConfigAssumption
      <4> QED BY <1>3, <1>4, <4>1, <4>3
    <3> DEFINE N == (Nat \ {0}) \X LocalIps
               x == <<c.vs, c.ip>>
    <3>3. nodes \in [Procs -> Seq(N)] /\ x \in N
      BY <3>2 DEF TypeOK
    <3>4. nodes' = nodes \/ nodes' = [nodes EXCEPT ![p] = <<x>> \o nodes[p]]
      BY <2>2 DEF AddVserverIp
    <3>5. x[1] \in 1..Len(vservers[p])
      BY <3>2
    <3> HIDE DEF N, x, c
    <3>6. \A k \in DOMAIN nodes'[p] : nodes'[p][k] = x \/ \E l \in DOMAIN nodes[p] : nodes'[p][k] = nodes[p][l]
      <4>1. CASE nodes' = nodes
        BY <4>1
      <4>2. CASE nodes' = [nodes EXCEPT ![p] = <<x>> \o nodes[p]]
        <5>1. nodes'[p] = <<x>> \o nodes[p] /\ nodes[p] \in Seq(N)
          BY <3>3, <4>2
        <5>2. ASSUME NEW k \in DOMAIN nodes'[p], k # 1
              PROVE  k - 1 \in DOMAIN nodes[p] /\ nodes'[p][k] = nodes[p][k - 1]
          BY <3>3, <5>1, <5>2
        <5>3. nodes'[p][1] = x
          BY <3>3, <5>1
        <5> QED BY <5>2, <5>3
      <4> QED BY <3>4, <4>1, <4>2
    <3>7. \A k \in DOMAIN nodes'[p] : nodes'[p][k][1] \in 1..Len(vservers'[p])
      BY <3>1, <3>5, <3>6 DEF VserverInv
    <3>8. \A q \in Procs \ {p} : nodes'[q] = nodes[q]
      BY <3>3, <3>4
    <3> QED BY <1>3, <1>4, <3>1, <3>7, <3>8
  <2>3. CASE c.op # "vserver" /\ UNCHANGED <<vservers, nodes>>
    BY <1>3, <1>4, <2>3 DEF VserverInv
  <2> QED BY <2>1, <2>2, <2>3 DEF Configure, AddIp, AddServer
<1>6. \A q \in Procs \ {p} : Made(q)' = Made(q)
  BY <1>1 DEF Made, TypeOK
<1>7. \A q \in Procs : Len(vservers'[q]) = Cardinality(Created(Made(q)'))
  BY <1>2, <1>5, <1>6 DEF VserverInv, Made
<1> QED BY <1>5, <1>7 DEF VserverInv, Made

(* No other step makes a call or changes a virtual server. *)
LEMMA VserverFrame ==
  ASSUME TypeOK, VserverInv, UNCHANGED <<vservers, nodes>>,
         \/ at' = at
         \/ \E p \in Procs : at[p] = Asking /\ at' = [at EXCEPT ![p] = Looping]
  PROVE  VserverInv'
<1>1. \A q \in Procs : Made(q)' = Made(q)
  <2>1. CASE at' = at
    BY <2>1 DEF Made
  <2>2. ASSUME NEW p \in Procs, at[p] = Asking, at' = [at EXCEPT ![p] = Looping], NEW q \in Procs
        PROVE  Made(q)' = Made(q)
    <3>1. Len(Config) \in Nat /\ Asking = Len(Config) + 1 /\ Looping = Len(Config) + 2
      BY ConfigLength DEF Asking, Looping
    <3>2. at'[q] = IF q = p THEN Looping ELSE at[q]
      BY <2>2 DEF TypeOK
    <3> QED BY <2>2, <3>1, <3>2 DEF Made
  <2> QED BY <2>1, <2>2
<1>2. \A q \in Procs : Len(vservers'[q]) = Cardinality(Created(Made(q)'))
  BY <1>1 DEF VserverInv, Made
<1> QED BY <1>2 DEF VserverInv, Made


-----------------------------------------------------------------------------
(* A route to a server is the route of its host, and its MAC is known. *)
LEMMA ClientPacketForwards ==
  ASSUME TypeOK, ServerInv, VserverInv, NEW p \in Procs, NEW ip, NEW port, ClientPacket(p, ip, port)
  PROVE  ForwardedReachesServer' /\ LocalIpsAnswered'
<1> DEFINE v == VserverLookup(p, ip, port)
<1>1. v \in Vserver /\ ConnectionCreate(p, v)
  BY LookupFinds DEF ClientPacket
<1>2. lips' = lips
  BY DEF ClientPacket
<1> HIDE DEF v
<1>3. CASE out' = None
  BY <1>3 DEF ForwardedReachesServer, LocalIpsAnswered
<1>4. ASSUME NEW m \in DOMAIN pool[p][v.pool], NEW re \in routes[p], NEW src \in LocalIps \cup {None},
             re.ip = pool[p][v.pool][m].ip,
             src # None => \E l \in lips[p] : /\ l.ip = src /\ l.type = "self"
                                              /\ l.nic = re.nic,
             out' = [kind |-> "packet", proc |-> p, pool |-> v.pool, src |-> src,
                     server |-> pool[p][v.pool][m].ip, nic |-> re.nic,
                     mac |-> pool[p][v.pool][m].mac]
      PROVE  ForwardedReachesServer' /\ LocalIpsAnswered'
  <2>1. v.pool \in Pools /\ pool[p][v.pool] \in Seq(Server)
    BY <1>1 DEF Vserver, TypeOK
  <2>2. pool[p][v.pool][m] \in Server
    BY <2>1
  <2>3. re.ip \in Hosts
    BY <1>4, <2>2 DEF Server
  <2>4. <<re.nic, re.ip>> \in Lan
    BY <2>3 DEF ServerInv, RoutesInv
  <2>5. RoutesTo(p, re.ip) # {}
    BY DEF RoutesTo
  <2>6. pool[p][v.pool][m].mac = re.ip
    BY <1>4, <2>1, <2>5 DEF ServerInv, PlacesInv
  <2> QED BY <1>2, <1>4, <2>4, <2>6 DEF ForwardedReachesServer, LocalIpsAnswered
<1> QED BY <1>1, <1>3, <1>4, CreateSends

(* What was sent stays right, as the configuration only adds ips. *)
LEMMA SentFrame ==
  ASSUME TypeOK, LocalIpsAnswered, ForwardedReachesServer, UNCHANGED out,
         \A p \in Procs : lips[p] \subseteq lips'[p]
  PROVE  LocalIpsAnswered' /\ ForwardedReachesServer'
<1>1. LocalIpsAnswered'
  BY DEF LocalIpsAnswered
<1>2. out # None /\ out.kind = "packet" => out.proc \in Procs
  BY DEF TypeOK, Out
<1> QED BY <1>1, <1>2 DEF ForwardedReachesServer

-----------------------------------------------------------------------------
LEMMA ConfigureOK ==
  ASSUME IInv, NEW p \in Procs, Configure(p)
  PROVE  IInv'
<1> USE DEF IInv
<1>1. TypeOK' /\ LocalInv' /\ ServerInv' /\ VserverInv'
  BY ConfigureType, ConfigureLocal, ConfigureServer, ConfigureVserver
<1>2. UNCHANGED <<told, out>>
  BY DEF Configure
<1>3. ToldInv'
  BY <1>2 DEF ToldInv
<1>4. \A q \in Procs : lips[q] \subseteq lips'[q]
  BY DEF Configure, AddIp, AddServer, CreateVserver, AddVserverIp, TypeOK
<1> QED BY <1>1, <1>2, <1>3, <1>4, SentFrame

LEMMA FindServerRouteOK ==
  ASSUME IInv, NEW p \in Procs, FindServerRoute(p)
  PROVE  IInv'
<1> USE DEF IInv
<1>1. TypeOK' /\ LocalInv' /\ ServerInv' /\ ToldInv'
  BY FindServerRouteType, FindServerRouteLocal, FindServerRouteServer, FindServerRouteTold
<1>2. UNCHANGED <<lips, vservers, nodes, out>> /\ at[p] = Asking /\ at' = [at EXCEPT ![p] = Looping]
  BY DEF FindServerRoute, tables
<1>3. VserverInv'
  BY <1>2, VserverFrame
<1> QED BY <1>1, <1>2, <1>3, SentFrame

LEMMA ArpReplyOK ==
  ASSUME IInv, NEW p \in Procs, NEW ip, NEW n, <<n, ip>> \in requests \cap Lan, ArpReply(p, ip, n)
  PROVE  IInv'
<1> USE DEF IInv
<1>1. ip \in Hosts
  BY DEF TypeOK
<1>2. TypeOK' /\ LocalInv' /\ ServerInv'
  BY <1>1, ArpReplyType, ArpReplyLocal, ArpReplyServer
<1>3. UNCHANGED <<at, lips, vservers, nodes, told, out>>
  BY DEF ArpReply
<1>4. ToldInv' /\ VserverInv'
  BY <1>3, VserverFrame DEF ToldInv
<1> QED BY <1>2, <1>3, <1>4, SentFrame

LEMMA ArpRequestOK ==
  ASSUME IInv, NEW p \in Procs, NEW ip \in LocalIps \cup Hosts, NEW n \in Nics, ArpRequest(p, ip, n)
  PROVE  IInv'
<1> USE DEF IInv
<1>1. TypeOK' /\ ToldInv' /\ LocalIpsAnswered' /\ ForwardedReachesServer'
  BY ArpRequestType, ArpRequestKeeps
<1>2. UNCHANGED <<at, lips, routes, pool, vservers, nodes>>
  BY DEF ArpRequest, tables
<1>3. LocalInv' /\ VserverInv'
  BY <1>2, VserverFrame DEF LocalInv, RoutesTo
<1>4. ServerInv'
  BY <1>2, ServerFrame DEF ServerInv
<1> QED BY <1>1, <1>3, <1>4

LEMMA ClientPacketOK ==
  ASSUME IInv, NEW p \in Procs, NEW ip \in LocalIps, NEW port \in VsPorts, ClientPacket(p, ip, port)
  PROVE  IInv'
<1> USE DEF IInv
<1>1. TypeOK' /\ LocalIpsAnswered' /\ ForwardedReachesServer'
  BY ClientPacketType, ClientPacketForwards
<1>2. UNCHANGED <<at, lips, routes, pool, vservers, nodes, told>>
  BY DEF ClientPacket
<1>3. LocalInv' /\ VserverInv' /\ ToldInv'
  BY <1>2, VserverFrame DEF LocalInv, RoutesTo, ToldInv
<1>4. ServerInv'
  BY <1>2, ServerFrame DEF ServerInv
<1> QED BY <1>1, <1>3, <1>4

LEMMA StutterOK == IInv /\ UNCHANGED vars => IInv'
<1> SUFFICES ASSUME IInv, UNCHANGED vars PROVE IInv'
  OBVIOUS
<1> USE DEF IInv, vars, tables
<1>1. TypeOK' /\ LocalInv' /\ ToldInv' /\ VserverInv'
  BY TypeStep, VserverFrame DEF LocalInv, RoutesTo, ToldInv
<1>2. ServerInv'
  BY ServerFrame DEF ServerInv
<1>3. LocalIpsAnswered' /\ ForwardedReachesServer'
  BY SentFrame
<1> QED BY <1>1, <1>2, <1>3

LEMMA StepOK == IInv /\ [Next]_vars => IInv'
<1> SUFFICES ASSUME IInv, Next PROVE IInv'
  BY StutterOK
<1>1. PICK p \in Procs : Step(p)
  BY DEF Next
<1>2. CASE Configure(p)
  BY <1>2, ConfigureOK
<1>3. CASE FindServerRoute(p)
  BY <1>3, FindServerRouteOK
<1>4. ASSUME NEW r \in requests \cap Lan, ArpReply(p, r[2], r[1]) PROVE IInv'
  <2>1. r = <<r[1], r[2]>>
    BY DEF IInv, TypeOK
  <2> QED BY <1>4, <2>1, ArpReplyOK
<1>5. CASE \E ip \in LocalIps \cup Hosts, n \in Nics : ArpRequest(p, ip, n)
  BY <1>5, ArpRequestOK
<1>6. CASE \E ip \in LocalIps, port \in VsPorts : ClientPacket(p, ip, port)
  BY <1>6, ClientPacketOK
<1> QED BY <1>1, <1>2, <1>3, <1>4, <1>5, <1>6 DEF Step

-----------------------------------------------------------------------------
(* The tables of every process agree with the configuration and with each  *)
(* other at any time: after any number of its calls, questions, answers    *)
(* and packets (ng_add_ip, arp_server_route, arp_response).                *)
THEOREM Invariance == Spec => []IInv
<1>1. Init => IInv
  BY InitOK
<1>2. IInv /\ [Next]_vars => IInv'
  BY StepOK
<1> QED BY <1>1, <1>2, PTL DEF Spec

(* Every variable keeps to its type; the turn of a pool (server_pool.next) *)
(* never passes the end of its array of servers.                           *)
THEOREM TypeCorrect == Spec => []TypeOK
<1>1. IInv => TypeOK
  BY DEF IInv
<1> QED BY <1>1, Invariance, PTL

(* arp_send_request() and arp_response(), in all processes, tell one MAC   *)
(* address of a local ip, however many NICs and ips there are.             *)
THEOREM OneMac == Spec => []OneMacPerIp
<1>1. IInv => OneMacPerIp
  <2> SUFFICES ASSUME IInv, NEW t \in told, NEW u \in told, t[1] = u[1] PROVE t[2] = u[2]
    BY DEF OneMacPerIp
  <2>1. PICK k \in Calling("ip") : Binds(k, t[1], t[2])
    BY DEF IInv, ToldInv
  <2>2. PICK l \in Calling("ip") : Binds(l, u[1], u[2])
    BY DEF IInv, ToldInv
  <2>3. k = l
    BY <2>1, <2>2, ConfigAssumption, Zenon DEF ConfigAssumption, Binds
  <2> QED BY <2>1, <2>2, <2>3 DEF Binds
<1> QED BY <1>1, Invariance, PTL

(* arp_response() answers for every ip of the configuration, with the NIC  *)
(* that ng_add_ip() bound it to.                                           *)
THEOREM LocalAnswered == Spec => []LocalIpsAnswered
<1>1. IInv => LocalIpsAnswered
  BY DEF IInv
<1> QED BY <1>1, Invariance, PTL

(* connection_create() sends through a NIC behind which the server is, to  *)
(* its MAC address and from a self ip of this NIC: arp_server_route()      *)
(* never leaves a route to a server whose address nobody set.              *)
THEOREM ForwardedReaches == Spec => []ForwardedReachesServer
<1>1. IInv => ForwardedReachesServer
  BY DEF IInv
<1> QED BY <1>1, Invariance, PTL

-----------------------------------------------------------------------------
(***************************************************************************)
(* A range of ports of a local ip, for every finite set of ports: the ring *)
(* is a pool of ports.  What has to be shown is that there is always room  *)
(* for the port that comes back.  The ring has one entry more than there   *)
(* are ports, so it would have to hold all of them to be full, and then    *)
(* none could come back: this needs that the counter counts the free ports *)
(* (RangeInv).                                                             *)
(***************************************************************************)
(* The counter counts the ports in the ring. *)
Counted == IsFiniteSet(Free) /\ Cardinality(Free) = avail

(* The inductive invariant. *)
RangeInv == RangeTypeOK /\ RingOK /\ Counted

-----------------------------------------------------------------------------
LEMMA NumType == Num \in Nat /\ Size = Num + 1
BY PortsAssumption, FS_CardinalityType DEF Num, Size

LEMMA FreeArePorts ==
  ASSUME RangeTypeOK, RingOK
  PROVE  Free \subseteq Ports
BY DEF RangeTypeOK, RingOK, Free, Between

(* Taking the first entry of a ring that is not empty. *)
LEMMA BetweenNext ==
  ASSUME NEW g \in Slot, NEW p \in Slot, g # p
  PROVE  /\ NextSlot(g) \in Slot
         /\ g \in Between(g, p)
         /\ Between(NextSlot(g), p) = Between(g, p) \ {g}
BY NumType DEF Slot, NextSlot, Between

(* Adding an entry to a ring that is not full. *)
LEMMA BetweenPut ==
  ASSUME NEW g \in Slot, NEW p \in Slot, NextSlot(p) # g
  PROVE  /\ NextSlot(p) \in Slot
         /\ p \notin Between(g, p)
         /\ Between(g, NextSlot(p)) = Between(g, p) \cup {p}
BY NumType DEF Slot, NextSlot, Between

(* A port that is not in the ring finds room in it. *)
LEMMA RoomForMissing ==
  ASSUME RangeInv, NEW port \in Ports \ Free
  PROVE  avail < Num /\ NextSlot(put) # get
<1>1. Free \subseteq Ports
  BY FreeArePorts DEF RangeInv
<1>2. Free \cup {port} \subseteq Ports
  BY <1>1
<1>3. Cardinality(Free \cup {port}) = avail + 1
  BY FS_AddElement DEF RangeInv, Counted
<1>4. Cardinality(Free \cup {port}) <= Num
  BY <1>2, PortsAssumption, FS_Subset DEF Num
<1>5. avail < Num
  BY <1>3, <1>4, NumType DEF RangeInv, RangeTypeOK
<1>6. NextSlot(put) # get
  BY <1>5, NumType DEF RangeInv, RangeTypeOK, RingOK, Slot, NextSlot
<1> QED BY <1>5, <1>6

-----------------------------------------------------------------------------
(* What each operation does to the set of free ports. *)
LEMMA GetPort1Takes ==
  ASSUME RangeInv, GetPort1
  PROVE  /\ get # put /\ arr[get] \in Free /\ ret' = arr[get]
         /\ Free' = Free \ {ret'}
<1>1. get \in Slot /\ put \in Slot /\ get # put
  BY NumType DEF RangeInv, RangeTypeOK, RingOK, GetPort1, Slot
<1>2. get \in Between(get, put) /\ Between(get', put') = Between(get, put) \ {get}
  BY <1>1, BetweenNext DEF GetPort1
<1>3. \A i, j \in Between(get, put) : arr[i] = arr[j] => i = j
  BY DEF RangeInv, RingOK
<1> QED BY <1>1, <1>2, <1>3 DEF GetPort1, Free

LEMMA GetPort2Takes ==
  ASSUME RangeInv, NEW port \in Ports, GetPort2(port)
  PROVE  /\ get # put /\ port \in Free \cap Reserved /\ ret' = port
         /\ Free' = Free \ {port}
<1>1. PICK i \in Between(get, put) :
        /\ arr[i] = port
        /\ arr' = [arr EXCEPT ![i] = arr[get]]
        /\ get' = NextSlot(get)
  BY DEF GetPort2
<1>2. get \in Slot /\ put \in Slot /\ get # put /\ i \in Slot /\ port \in Reserved
      /\ put' = put /\ ret' = port
  BY <1>1, NumType DEF RangeInv, RangeTypeOK, Between, Slot, GetPort2
<1>3. get \in Between(get, put) /\ Between(get', put') = Between(get, put) \ {get}
  BY <1>1, <1>2, BetweenNext
<1>4. \A k, l \in Between(get, put) : arr[k] = arr[l] => k = l
  BY DEF RangeInv, RingOK
<1>5. \A k \in Between(get, put) : arr'[k] = IF k = i THEN arr[get] ELSE arr[k]
  BY <1>1, <1>2 DEF RangeInv, RangeTypeOK, Between
<1>6. Free' \subseteq Free \ {port}
  BY <1>1, <1>3, <1>4, <1>5 DEF Free
<1>7. ASSUME NEW q \in Free \ {port} PROVE q \in Free'
  <2>1. PICK k \in Between(get, put) : arr[k] = q /\ k # i
    BY <1>1, <1>7 DEF Free
  <2>2. CASE k = get
    <3>1. i \in Between(get', put') /\ arr'[i] = q
      BY <1>3, <1>5, <2>1, <2>2
    <3> QED BY <3>1 DEF Free
  <2>3. CASE k # get
    <3>1. k \in Between(get', put') /\ arr'[k] = q
      BY <1>3, <1>5, <2>1, <2>3
    <3> QED BY <3>1 DEF Free
  <2> QED BY <2>2, <2>3
<1>8. port \in Free
  BY <1>1 DEF Free
<1> QED BY <1>2, <1>6, <1>7, <1>8

LEMMA PutPortGives ==
  ASSUME RangeInv, NEW port \in Ports, PutPort(port)
  PROVE  Free' = Free \cup {port}
<1>1. NextSlot(put) # get
  BY RoomForMissing DEF PutPort
<1>2. get \in Slot /\ put \in Slot
  BY DEF RangeInv, RangeTypeOK
<1>3. put \notin Between(get, put) /\ Between(get', put') = Between(get, put) \cup {put}
  BY <1>1, <1>2, BetweenPut DEF PutPort
<1>4. arr'[put] = port /\ \A k \in Between(get, put) : arr'[k] = arr[k]
  BY <1>2, <1>3 DEF PutPort, RangeInv, RangeTypeOK, Between
<1> QED BY <1>3, <1>4 DEF Free

-----------------------------------------------------------------------------
THEOREM RangeInitial == RangeInit => RangeInv /\ Free = Ports
<1> SUFFICES ASSUME RangeInit PROVE RangeInv /\ Free = Ports
  OBVIOUS
<1> USE NumType
<1>1. RangeTypeOK
  BY DEF RangeInit, RangeTypeOK, Slot, Bijection, Injection
<1>2. Between(get, put) = 0..(Num - 1)
  BY DEF RangeInit, Between, Slot
<1>3. PICK order \in Bijection(0..(Num - 1), Ports) :
        \A k \in 0..(Num - 1) : arr[k] = order[k]
  BY DEF RangeInit, Slot
<1>4. Free = Ports
  BY <1>2, <1>3 DEF Free, Bijection, Injection, Surjection
<1>5. \A k, l \in Between(get, put) : arr[k] = arr[l] => k = l
  BY <1>2, <1>3 DEF Bijection, Injection, IsInjective
<1>6. RingOK
  BY <1>4, <1>5, PortsAssumption DEF RangeInit, RingOK
<1>7. Counted
  BY <1>4, PortsAssumption DEF RangeInit, Counted, Num
<1> QED BY <1>1, <1>4, <1>6, <1>7 DEF RangeInv

THEOREM RangeInductive == RangeInv /\ [RangeNext]_rangeVars => RangeInv'
<1> SUFFICES ASSUME RangeInv, [RangeNext]_rangeVars PROVE RangeInv'
  OBVIOUS
<1> USE NumType
<1>1. CASE GetPort1
  <2>1. get # put /\ Free' = Free \ {ret'} /\ ret' \in Free /\ Free \subseteq Ports
    BY <1>1, GetPort1Takes, FreeArePorts DEF RangeInv
  <2>2. get' \in Slot /\ Between(get', put') \subseteq Between(get, put)
    BY <1>1, <2>1, BetweenNext DEF RangeInv, RangeTypeOK, GetPort1
  <2>3. RangeTypeOK'
    BY <1>1, <2>1, <2>2 DEF RangeInv, RangeTypeOK, GetPort1
  <2>4. avail' = IF get' <= put' THEN put' - get' ELSE put' - get' + Size
    BY <1>1, <2>1 DEF RangeInv, RangeTypeOK, RingOK, GetPort1, NextSlot, Slot
  <2>5. RingOK'
    BY <1>1, <2>1, <2>2, <2>4 DEF RangeInv, RingOK, GetPort1
  <2>6. Counted'
    BY <1>1, <2>1, FS_RemoveElement DEF RangeInv, Counted, GetPort1
  <2> QED BY <2>3, <2>5, <2>6 DEF RangeInv
<1>2. ASSUME NEW p \in Ports, GetPort2(p) PROVE RangeInv'
  <2>1. get # put /\ Free' = Free \ {p} /\ p \in Free /\ ret' = p
    BY <1>2, GetPort2Takes
  <2>2. PICK i \in Between(get, put) :
          /\ arr' = [arr EXCEPT ![i] = arr[get]]
          /\ get' = NextSlot(get) /\ avail' = avail - 1
    BY <1>2 DEF GetPort2
  <2>3. put' = put /\ get \in Slot /\ put \in Slot /\ avail \in Int
    BY <1>2 DEF RangeInv, RangeTypeOK, GetPort2
  <2>4. get' \in Slot /\ Between(get', put') = Between(get, put) \ {get}
        /\ get \in Between(get, put)
    BY <2>1, <2>2, <2>3, BetweenNext
  <2>5. avail' = IF get' <= put' THEN put' - get' ELSE put' - get' + Size
    BY <2>1, <2>2, <2>3 DEF RangeInv, RingOK, NextSlot, Slot
  <2>6. avail' \in 0..Num
    BY <2>2, <2>3, <2>4, <2>5 DEF RangeInv, RangeTypeOK, Slot
  <2>7. RangeTypeOK'
    BY <2>1, <2>2, <2>3, <2>4, <2>6 DEF RangeInv, RangeTypeOK
  <2>8. \A k, l \in Between(get, put) \ {get} : arr'[k] = arr'[l] => k = l
    BY <2>2, <2>4 DEF RangeInv, RangeTypeOK, RingOK, Between
  <2>9. RingOK'
    BY <2>1, <2>4, <2>5, <2>8 DEF RangeInv, RingOK
  <2>10. Counted'
    BY <2>1, <2>2, FS_RemoveElement DEF RangeInv, Counted
  <2> QED BY <2>7, <2>9, <2>10 DEF RangeInv
<1>3. ASSUME NEW p \in Ports, PutPort(p) PROVE RangeInv'
  <2>1. Free' = Free \cup {p} /\ p \notin Free /\ p # NoPort
    BY <1>3, PutPortGives, PortsAssumption DEF PutPort
  <2>2. avail < Num /\ NextSlot(put) # get
    BY <1>3, RoomForMissing DEF PutPort
  <2>3. /\ arr' = [arr EXCEPT ![put] = p] /\ get' = get /\ ret' = ret
        /\ put' = NextSlot(put) /\ avail' = avail + 1
        /\ get \in Slot /\ put \in Slot
    BY <1>3 DEF RangeInv, RangeTypeOK, PutPort
  <2>4. /\ put' \in Slot /\ put \notin Between(get, put)
        /\ Between(get', put') = Between(get, put) \cup {put}
    BY <2>2, <2>3, BetweenPut
  <2>5. RangeTypeOK'
    BY <2>2, <2>3, <2>4 DEF RangeInv, RangeTypeOK
  <2>6. avail' = IF get' <= put' THEN put' - get' ELSE put' - get' + Size
    BY <2>2, <2>3 DEF RangeInv, RangeTypeOK, RingOK, NextSlot, Slot
  <2>7. arr'[put] = p /\ \A k \in Between(get, put) : arr'[k] = arr[k] /\ arr[k] # p
    BY <2>1, <2>3, <2>4 DEF RangeInv, RangeTypeOK, Between, Free
  <2>8. RingOK'
    BY <2>1, <2>4, <2>6, <2>7 DEF RangeInv, RingOK
  <2>9. Counted'
    BY <2>1, <2>3, FS_AddElement DEF RangeInv, Counted
  <2> QED BY <2>5, <2>8, <2>9 DEF RangeInv
<1>4. CASE GetNone
  BY <1>4 DEF GetNone, RangeInv, RangeTypeOK, RingOK, Counted, Free, Between
<1>5. ASSUME NEW p \in Ports, GetPort2None(p) PROVE RangeInv'
  BY <1>5 DEF GetPort2None, RangeInv, RangeTypeOK, RingOK, Counted, Free, Between
<1>6. CASE UNCHANGED rangeVars
  BY <1>6 DEF rangeVars, RangeInv, RangeTypeOK, RingOK, Counted, Free, Between
<1> QED BY <1>1, <1>2, <1>3, <1>4, <1>5, <1>6 DEF RangeNext

THEOREM RangeInvariance == RangeSpec => []RangeInv
<1>1. RangeInit => RangeInv
  BY RangeInitial
<1> QED BY <1>1, RangeInductive, PTL DEF RangeSpec

(* Positions, the counter and the answer keep their types, however ports   *)
(* are taken, by number or by name, and given back.                        *)
THEOREM RangeTypeCorrect == RangeSpec => []RangeTypeOK
<1>1. RangeInv => RangeTypeOK
  BY DEF RangeInv
<1> QED BY RangeInvariance, <1>1, PTL

(* The counter and the positions of port_range_get_port1(), of             *)
(* port_range_get_port2() and of port_range_put_port() agree: a full ring  *)
(* is never taken for an empty one.                                        *)
THEOREM RingCorrect == RangeSpec => []RingOK
<1>1. RangeInv => RingOK
  BY DEF RangeInv
<1> QED BY RangeInvariance, <1>1, PTL

-----------------------------------------------------------------------------
(* Every operation of the range is one of the pool, or changes nothing. *)
LEMMA RangeSimulation == RangeInv /\ [RangeNext]_rangeVars => [Pool!Next]_(Pool!vars)
<1> SUFFICES ASSUME RangeInv, [RangeNext]_rangeVars PROVE [Pool!Next]_(Pool!vars)
  OBVIOUS
<1>1. CASE GetPort1
  BY <1>1, GetPort1Takes DEF Pool!Next, Pool!Any
<1>2. CASE GetNone
  <2>1. get = put
    BY <1>2, NumType DEF RangeInv, RangeTypeOK, RingOK, GetNone, Slot
  <2>2. Free = {}
    BY <2>1, NumType DEF RangeInv, RangeTypeOK, Free, Between, Slot
  <2>3. Free' = Free /\ ret' = NoPort
    BY <1>2 DEF GetNone, Free, Between
  <2> QED BY <2>2, <2>3 DEF Pool!Next, Pool!Any
<1>3. ASSUME NEW p \in Ports, GetPort2(p) PROVE Pool!Next
  <2>1. Pool!Named(p)
    BY <1>3, GetPort2Takes DEF Pool!Named
  <2> QED BY <2>1 DEF Pool!Next
<1>4. ASSUME NEW p \in Ports, GetPort2None(p) PROVE Pool!Next
  <2>1. p \notin Free \cap Reserved
    BY <1>4 DEF GetPort2None, Free
  <2>2. Free' = Free /\ ret' = NoPort
    BY <1>4 DEF GetPort2None, Free, Between
  <2>3. Pool!Named(p)
    BY <2>1, <2>2 DEF Pool!Named
  <2> QED BY <2>3 DEF Pool!Next
<1>5. ASSUME NEW p \in Ports, PutPort(p) PROVE Pool!Next
  <2>1. Pool!Give(p)
    BY <1>5, PutPortGives DEF Pool!Give, PutPort
  <2> QED BY <2>1 DEF Pool!Next
<1>6. CASE UNCHANGED rangeVars
  BY <1>6 DEF rangeVars, Pool!vars, Free, Between
<1> QED BY <1>1, <1>2, <1>3, <1>4, <1>5, <1>6 DEF RangeNext

(* The ring of port_range.c is a pool of ports, for every finite set of    *)
(* ports: no port is given out while somebody has it, asking by name       *)
(* included, none is lost, and a caller is refused only when there is none. *)
THEOREM RangeImplementsPool == RangeSpec => ImplementsPool
<1>1. RangeInit => Pool!Init
  BY RangeInitial DEF Pool!Init, RangeInit
<1> QED
  BY <1>1, RangeInvariance, RangeSimulation, PTL DEF RangeSpec, ImplementsPool, Pool!Spec
=============================================================================
