----------------------------- MODULE PortRange -----------------------------
(***************************************************************************)
(* A range of ports of a local ip, uspace/src/port_range.c: an array used  *)
(* as a ring, with one entry more than there are ports.  Whoever has taken *)
(* a port gives it back once (connection_free() for a connection); the     *)
(* model lets any taken port come back at any time.                        *)
(***************************************************************************)
EXTENDS Integers, FiniteSets, Functions

CONSTANTS
  Ports,      (* the ports that port_range_init() puts into the range    *)
  Reserved,   (* ports up to RESERVED_PORTS_MAX                          *)
  NoPort      (* 0                                                       *)

ASSUME PortsAssumption == IsFiniteSet(Ports) /\ NoPort \notin Ports

VARIABLES
  arr,              (* range->ports                                      *)
  get, put, avail,  (* range->get, range->put, range->avail              *)
  ret               (* what port_range_get_port() returned last          *)

rangeVars == <<arr, get, put, avail, ret>>

(* port_range_create: n++ *)
Num == Cardinality(Ports)
Size == Num + 1
Slot == 0..(Size - 1)

(* Mutant of NextSlot: the ring is as long as there are ports. *)
NextSlotShort(i) == IF i + 1 >= Num THEN 0 ELSE i + 1

NextSlot(i) == IF i + 1 >= Size THEN 0 ELSE i + 1

(* port_range_init puts each port into the empty range, in some order. *)
RangeInit ==
  /\ \E order \in Bijection(0..(Num - 1), Ports) :
       arr = [k \in Slot |-> IF k < Num THEN order[k] ELSE NoPort]
  /\ get = 0 /\ put = Num /\ avail = Num
  /\ ret = NoPort

(* port_range_get_port1, when there is a port, and when there is none. *)
GetPort1 ==
  /\ avail # 0
  /\ ret' = arr[get]
  /\ get' = NextSlot(get)
  /\ avail' = avail - 1
  /\ UNCHANGED <<arr, put>>

GetNone ==
  /\ avail = 0
  /\ ret' = NoPort
  /\ UNCHANGED <<arr, get, put, avail>>

(* The entries from i up to, but without, j, going round. *)
Between(i, j) ==
  IF i <= j THEN {s \in Slot : i <= s /\ s < j} ELSE {s \in Slot : i <= s \/ s < j}

(* Mutant of GetPort2: the port is left where it is, the first one goes. *)
GetPort2NoSwap(port) ==
  /\ port \in Reserved
  /\ \E i \in Between(get, put) :
       /\ arr[i] = port
       /\ get' = NextSlot(get)
       /\ avail' = avail - 1
       /\ ret' = port
  /\ UNCHANGED <<arr, put>>

(* port_range_get_port2: the first free port goes where the wanted one     *)
(* was.  (The wanted one is there once, so that the first match is the     *)
(* only one.)                                                              *)
GetPort2(port) ==
  /\ port \in Reserved
  /\ \E i \in Between(get, put) :
       /\ arr[i] = port
       /\ arr' = [arr EXCEPT ![i] = arr[get]]
       /\ get' = NextSlot(get)
       /\ avail' = avail - 1
       /\ ret' = port
  /\ UNCHANGED put

GetPort2None(port) ==
  /\ port \in Reserved => \A i \in Between(get, put) : arr[i] # port
  /\ ret' = NoPort
  /\ UNCHANGED <<arr, get, put, avail>>

Free == {arr[i] : i \in Between(get, put)}

(* port_range_put_port *)
PutPort(port) ==
  /\ port \in Ports \ Free
  /\ arr' = [arr EXCEPT ![put] = port]
  /\ avail' = avail + 1
  /\ put' = NextSlot(put)
  /\ UNCHANGED <<get, ret>>

RangeNext ==
  \/ GetPort1 \/ GetNone
  \/ \E p \in Ports : GetPort2(p) \/ GetPort2None(p) \/ PutPort(p)

RangeSpec == RangeInit /\ [][RangeNext]_rangeVars

-----------------------------------------------------------------------------
RangeTypeOK ==
  /\ arr \in [Slot -> Ports \cup {NoPort}]
  /\ get \in Slot /\ put \in Slot
  /\ avail \in 0..Num
  /\ ret \in Ports \cup {NoPort}

(* The counter, by which port_range_get_port1() goes, and the positions,   *)
(* by which port_range_get_port2() goes, agree, and no port is twice in    *)
(* the range.                                                              *)
RingOK ==
  /\ avail = IF get <= put THEN put - get ELSE put - get + Size
  /\ \A i, j \in Between(get, put) : arr[i] = arr[j] => i = j
  /\ NoPort \notin Free

(* The range is a pool of ports: what it gives out was free, and is not    *)
(* given out again before it was given back, by number or by name.         *)
Pool == INSTANCE PortPool WITH free <- Free, ret <- ret
ImplementsPool == Pool!Spec
=============================================================================
