# ustack in TLA+

ustack is a layer-4 load balancer in user space. One process per core polls the
queues of Intel NICs (igb), keeps the connections of clients to virtual servers
and passes packets on to real servers, in full-NAT or in transparent mode. The
processes share packet memory and exchange packets through lock-free queues.
This directory holds its specification: TLA+ modules translated from
`uspace/src` and from the kernel modules in `modules/`, TLC runs on small
instances and TLAPS proofs. Paths below are relative to `uspace/`, except
those of `modules/`.

Run one with `tlc -config LfQueue_channel.cfg MCLfQueue`, check the proofs with
`tlapm LfQueueProofs.tla`. `PROJECT.json` lists all runs, what each definition
translates, and for every property a mutant of the model that violates it.

## 1. Inventory

| Component | State it keeps | Operations | Hard about it | What makes it correct |
|---|---|---|---|---|
| Lock-free queue, `src/lf_queue.c` | a ring in shared memory with `head`, `tail`, `desc[]`; a list of buffered packets per queue | `lfq_module_init`, `lfq_send`, `lfq_send_flush`, `lfq_recv` | two processes without a lock; wrap-around; a full ring; initialisation by both sides | packets arrive once and in order; nothing unread is overwritten; the compare-and-swaps never fail |
| Dispatch, `src/dispatch.c`, `src/hashtable.c` | number of processes, port slice, `hash_rand` | `dispatch_module_init`, `dispatch_packet`, `dispatch_reclaim`, `dispatch_flush` | three rules that must agree for the two directions of a connection; byte order; division | all packets of a connection get to the process that has it; slices do not overlap |
| Main loop, `src/main.c` | four packet lists | `spawn`, `init`, `main_loop` | twelve calls that move the same buffers between lists; no barrier after `fork` | every buffer is in one place and comes back to its owner |
| Packet buffers, `src/packet.c`, `include/packet.h` | zones, free pools, owner and `lfq_state` of a buffer | init and filter, pool get and put | ownership across processes | the same |
| Driver, `src/driver.c` | rx and tx rings, pools of packets to send | alloc, recv, send, reclaim | the NIC runs concurrently; ring boundaries | a ring never holds a buffer twice; transmitted buffers return |
| Connections, `src/connection.c`, `src/tcp.c` | two hash tables, memory, TCP state | lookup, create, free, time-out | collisions; a timer against a close; two ways to end | one connection per client and protocol; ports, memory, tables and timers agree |
| Packet processing, `src/process.c` | none of its own | `process_ip_packet`, `process_packets` | direction and mode of a packet | a packet of a client goes to a server of the addressed virtual server, an answer to the client |
| Timer, `src/timer.c` | wheel, current second, unused rest | add, del, expire | a wheel that turns over; a handler that deletes what is walked | every timer fires once, in time |
| Port ranges, `src/port_range.c` | a ring of free ports per ip and protocol | get, get a given port, put | byte order; swap in the ring; full and empty | a port is free or used, never both |
| Local ips and interfaces, `src/local_ip.c`, `src/interface.c`, `src/net_global.c` | ip sets, lists per NIC | add, lookup, round robin | several tables of the same ips; partial failure of `ng_add_ip` | sets, lists and routes agree; an ip has one MAC address, whoever tells it |
| Routes and ARP, `src/route.c`, `src/arp.c` | route table, MAC of each server | lookup (round robin), add, ARP request and reply, both ways | several NICs and servers per ip; answers late, doubled, at any process; tables per process | a server with a route has a MAC address; what is sent to it arrives |
| Virtual servers and pools, `src/vserver.c`, `src/server_pool.c` | tables of virtual servers, server arrays, the turn of a pool | create, add ip, lookup, next server | the bound of the arrays; servers that cannot be used take their turns | lookup agrees with the configuration; a pool goes on serving |
| Memory pool, `src/mem_pool.c` | chunks, free list, counter | create, alloc, free | memory is used again at once | nothing is given out twice or lost |
| Lists, `include/common/list.h` | two pointers in every node | add, delete, move, replace, splice | no function knows the list of a node | every list is one ring, both ways |
| Checksums, `src/checksum.c` | none | sums of TCP, UDP and IPv4 headers | carries; two versions of IP | who receives a packet accepts it |
| Kernel module, `modules/ukmem.c` | table of adapters, each with its registers, MAC address and rings; number of queues | what igb registers, `read`, `mmap` | nothing is locked or ever taken out; what to map is told by the size alone | what a process maps are the rings of its own queues |
| igb, life of a NIC, `igb_main.c`, `igb_ethtool.c` | rings, NAPI instances, interrupts, timer, two work items | probe, open, close, reset, new settings, suspend, resume, shutdown, PCI errors, removal | each may fail half way, and all of them, the interrupt, the timer and the work items interleave | nothing is enabled twice, a running device works, nothing runs on freed memory |
| igb, link and flow control, `e1000_82575.c`, `e1000_mac.c`, `e1000_phy.c` | registers of MAC and PHY, marks shared with the firmware | reset, set-up, watchdog, settings | registers are read one by one while the link changes; any access fails | the PHY is used by one at a time; pauses are sent as negotiated |
| igb, EEPROM, `e1000_nvm.c` | the EEPROM, semaphores, mark, grant | read, write, checksum, check | two ports and the firmware; pages; every time-out | what is written lands where it was meant for |
| igb, virtual functions, `igb_main.c`, `e1000_mbx.c` | mailbox, address, multicast and VLAN filters | requests, resets, administration, ping | guest, stack, administrator and resets write the same tables | a guest hears what it was promised, in its VLAN |
| igb, vectors and moderation, `igb_main.c` | queues, registers of rings, vector table, intervals | probe, open, MSI fallback, suspend, moderation | many combinations of NIC, queues, VFs and failures | each ring raises the vector that polls it |
| igb, PHY information, wake on LAN, time stamps | cable length, state of receivers; who may wake the system; filters | `igb_get_phy_info`, power saving, wol settings, `igb_hwtstamp_ioctl` | accesses that fail; answers that promise more than was done | what is reported is what is |

Interaction: `main_loop` calls driver, packet, dispatch, process and timer in
this order, for ever. A received packet is initialised or filtered, dispatched
to the process it concerns through a lock-free queue, processed there (which
looks up, creates or frees a connection and puts the packet into the pool of a
tx ring), transmitted, and its buffer returned through the queue in the other
direction, because a buffer belongs to one process for ever. Connections call
timers, port ranges, routes and server pools; a timer calls
`connection_free()` back. Every process has tables of ips, routes, servers and
virtual servers of its own, configured alike after `fork()`, and learns from
the ARP replies that come to its queue. The rings are shared with the kernel:
igb allocates and registers them in ukmem, a process maps them from there. igb
itself is Intel's driver with small changes: it still brings the NIC and its
link up and down, resets it, sets its filters and its vectors and serves
`ethtool`, while packets are received and sent in user space.

Not modelled. Of igb: its transmit and receive paths, which are dead in this
program (`igb_poll()` returns at once, `ndo_start_xmit` is
`igb_xmit_frame_adv_fake()`, and `ukmem_skb_alloc()` returns NULL at
`ukmem.c:213`, so that the loopback self test always ends with 11), its
statistics, the register and interrupt self tests, fibre and SGMII links, and
the reading of time stamps and of the clock behind them. `modules/pagefault.c`
(an experiment that is not part of the build), `jhash.h` and the hash lists of
`list.h` (hash values are any values), the headers of protocols, `src/debug.c`,
`src/rss.c` (not part of the build), `tmp/` (old files), `lfq_reclaim_filter()`
and the other functions that nobody calls (`rt_del_entry`, `vserver_free`,
`server_pool_free`, `interface_del_lip`, ...). The rewriting of header fields in
`src/process.c` and the parsing of packets in `src/packet.c` are abstracted to
where a packet goes. `spawn()` and `init()` are modelled only as far as the
queues go.

## 2. The modules

    PacketChannel  <--implements--  LfQueue  <--EXTENDS--  LfQueueBoot
          :                                                    ^
          : (its queues, as <pending> and <chan>)        LfQueueProofs
    PacketFlow  <--EXTENDS--  PacketFlowProofs
    Connection  <--EXTENDS--  ConnectionProofs
       :  (a range, as the sequence <ports>; the wheel, by whole seconds)
    PortPool  <--implements--  PortRange
    Network, PortRange  <--EXTENDS--  NetworkProofs
       :  (what Connection's packets need)
    Lists, MemPool, Checksum, Dispatch, Timer  <--EXTENDS--  UspaceProofs
    Adapters, IgbNvm  <--EXTENDS--  IgbMemoryProofs
       :  (what PacketFlow's rings are)
    IgbLink, IgbVf  <--EXTENDS--  IgbSharedProofs
    IgbVectors, IgbItr, IgbPhy, IgbWake, IgbStamp, IgbDevice  <--EXTENDS--  IgbProofs

`MC<module>` instantiates a module for TLC.

**PacketChannel** promises what a queue between two processes does: packets
are buffered, published in order, taken all at once, processed.

**LfQueue** is one queue. One action is one access to shared memory:
`__put_packet_to_queue()` is `PutReadHead`, `PutReadTail`, `PutPacket` (one
turn of its loop) and `PutCommit`; `__get_packet_from_queue()` likewise. The C
locals are variables (`sndHead`, `rcvI`, ...), a failed compare-and-swap leads
to the control state "exited". Stores become visible in program order: the
code runs on x86 and has `wmb()` before the compare-and-swap. `ImplementsChannel`
maps it to PacketChannel: what is published is between the receiver's cursor
and `tail`, what is pending is what the sender has written beyond `tail` and
its list.

**LfQueueBoot** adds the start: both processes run `lfq_queue_create_init()`,
store by store, at any time, over arbitrary indexes. (The two stores of
`INIT_LIST_HEAD` are one step.)

**Dispatch** has the rule `Target` of `__dispatch_ip_packet()`, the slices of
`dispatch_module_init()` with their C arithmetic (bytes, truncating division),
and connections as far as they take ports. `hash[i]` is the hash function of
process i modulo the number of processes, any function: each process draws
`hash_rand` for itself. `rss` is the NIC's choice of an rx queue, any choice.

**PacketFlow** is `main_loop()`, one action per call, in all processes, with
the NIC in between. Lists are sets (their order is of no consequence there),
rings and queues are sequences. Which packets are filtered, dispatched where,
transmitted or dropped is any choice, so that no property depends on what
packets contain. The queues are those of PacketChannel with at most
`QueueSize - 1` published packets, as LfQueue has them.

**Connection** is one process: what a packet or a second of time does to
connections, hash tables (`linked`), ports, timer wheel and memory, and to whom
the packet is passed (`out`). A handler is one step, since a process is
single-threaded. Errors of `connection_create()` (no memory, port or route)
leave everything as it was; the model then takes no step. `Bucket` is the hash
function, a parameter: with `OwnBucket`, in the run, nothing collides. `protocol` is the field that the
comparison in `connection_client_eq()` overwrites, `hashed` its value when the
connection was linked. TCP state of a UDP connection is not initialised in the
code: any value.

**Timer** is the wheel with the clock that drives it: `Expire` may be called
after any time, advances by the full seconds in what has passed since
`last_expire` and in `fill`, and handles what is in the entries it comes past.
`left` is a history variable, the time for which a timer was armed. That time
runs from the last full second: `timer_add()` counts from `next_clock_second`,
which stands still while a turn of the main loop takes long, so that a timer
goes off earlier than asked by what has passed since. Connection has the same
wheel with one second between two calls.

**PortRange** is one range of ports: the array used as a ring, taking the first
port (`GetPort1`) or one by its number (`GetPort2`, which moves the first free
port to where that one was), giving back (`PutPort`). Its users are reduced to
giving back what they have taken, once. `ImplementsPool` maps it to
**PortPool**, a set of free ports: what lies between `get` and `put` is free.
Connection works with the simpler picture, a sequence of free ports, Dispatch
with a set.

**Network** is what the processes know of the net. `Config`, a parameter, is
the sequence of calls that `test_arp()` in `src/test.c` makes, any sequence of
them: `Configure` is the next one (`AddIp`, `AddServer`, `CreateVserver`,
`AddVserverIp`), in each process at its own pace. Then `FindServerRoute` asks
for every server through every NIC that has an ip, and the loop handles ARP
replies (`ServerRoute`), ARP requests of other hosts and the first packet of a
client (`ConnectionCreate`: the next server of the pool, a route, a self ip).
The net loses, delays and repeats as it likes: a reply comes, if at all, at any
time after some process has asked, to any process, as often as it may. `Lan`
says which hosts are behind which NIC; `told` collects what ARP frames have
said of local ips. Tables are sets, an entry that the code finds by a key or in
turn is any entry with this key, except the servers of a pool, whose order
`PoolServes` is about.

**Adapters** is how a process comes by its rings. On one side the table of
`ukmem.c` and the driver that fills it, `modules/igb/igb_main.c`, from
`igb_probe()` to `igb_remove()` with whatever fails in between, and the change
of ring sizes in `igb_ethtool.c`; on the other `driver_open()`, whose `read()`
and two `mmap64()` meet the table as it is at that time. A ring is the page
<<NIC, direction, queue, allocation>>, so that a page of a ring which was freed
is not taken for a new one. `RingAt` is the address computed in `driver.c`,
`AllDescs` the order in which `ukmem.c` maps. `calm` is a history variable: the
process found the table complete, and as large, each time.

**IgbDevice** is the life of one NIC. A call of the driver is a sequence of
steps, `todo`, which its thread takes one by one: "user" holds the rtnl lock,
"task" is `igb_reset_task()`, "device" is the driver core and the PCI layer,
which do not take that lock. Beside them are the interrupt handler, the timer
and the watchdog. One NAPI instance stands for all, as they are enabled and
disabled in the same loops; it stays busy after the first interrupt, since
`igb_poll()` returns without `napi_complete()`. `raced` is a history variable:
a removal or a suspend has been overtaken by something that it had stopped.

**IgbLink** is the link of a copper port: the PHY with its partner, the flow
control that is negotiated and the one that is forced on the MAC, and
SW_FW_SYNC, in which driver and firmware mark what they use. Every register
that the outcome depends on is a step of its own, and every access may fail.
Modes of flow control are sets of "rx" and "tx". `missed` is a history
variable: an access that nothing repeats has failed.

**IgbVf** is a NIC shared with guests. A handler of the driver is one step on
the registers `nic`, one operator per function (`VlvfSet`, `UpdateMcAddrList`,
`SetRxMode`, ...); `MsgTask`, `Check`, `CheckRst`, `RcvMsg`, `RcvAck` are
`igb_msg_task()` as it goes from VF to VF. The guest's driver, which is not in
the repository, is modelled from what the mailbox answers and marked external:
it resets, asks, gives up and asks again.

**IgbNvm** is the EEPROM with two ports of a NIC and the firmware: `ethtool`'s
write from the bytes at the edges to the checksum, each semaphore, mark and
grant with its time-outs, and the chip, which obeys commands when it is
deselected, wraps in a page and is busy for a while. `clean` is a history
variable (see WriteLands).

The parts of a module that is proved about together with others have names of
their own: TimerSpec, RangeSpec, VfSpec, NvmSpec and VectorsSpec are the
specifications of Timer, PortRange, IgbVf, IgbNvm and IgbVectors, and so on.

**IgbVectors** has queues, rings, q_vectors and the NIC's vector table for any
model of NIC, `queue_num` and `max_vfs`, with the failure of any step.
**IgbItr** is interrupt moderation, **IgbPhy** what `igb_get_phy_info()` stores
for three kinds of PHY and the power saving settings, **IgbWake** wake on LAN,
**IgbStamp** the filters of `igb_hwtstamp_ioctl()`. **Lists** is `list.h`: the
functions on two pointers per node, with `owner`, what the callers take a node
to be in; **MemPool** the chunks and the free list of `mem_pool.c`;
**Checksum** the sums of `checksum.c`, a packet being the sums of its words.
These eight are sequential, with more combinations than interleavings: they
are proved for all of them and have no run.

## 3. The runs

| Run | Instance | Shows |
|---|---|---|
| lfq | 3 packets, 3 descriptors, fair | NoExit, NoOverrun, ImplementsChannel, Delivery |
| dispatch_ports | 3 processes | SelfPortsDiffer |
| flow | 2 processes with a buffer each, fair | Conservation, OwnBuffersOnly, QueuedStates, DispatchedArrives, ReclaimedIsFreed, TransmittedIsReclaimed |
| conn | 2 clients, 3 virtual servers, 2 ports, 2 connections, fair | PortsConserved, OneConnection, TimersArmed, AnswersReachOwner, ConnectionsEnd |
| timer | 2 timers, 3 entries, 3 units a second, delays up to 10, fair | FiresOnTime, Fires |
| port_range | 4 ports, 2 of them reserved | ImplementsPool |
| network | 2 processes, 2 NICs, 3 local ips, 2 servers in 2 pools, fair | OneMacPerIp, LocalIpsAnswered, ForwardedReachesServer, PoolServes |
| adapters | 2 NICs, 2 queues, 2 processes, 1 failure | RightRings, Agree |
| igb_life | 1 NIC | NapiPaired, UpWorks, RingsQuiet, NoLateWork |
| igb_link | 1 port, 3 partners, 1 mode set by users | Exclusive, Returned, PauseAgrees, LinkLooked |
| igb_vf | 1 guest, 3 VLANs, 2 addresses, 1 multicast hash | FilterKept, HashesHeard, HearsOwnMac, VlanIsolated |
| igb_nvm | 2 ports, 6 words in 3 pages | WriteLands, GivenBack, OneWriter |

`TypeOK` of a module is proved where the module has proofs, and is there for
the reader, and for `tlc` by hand, elsewhere.

Bounds, and why they are enough. A packet of LfQueue comes back after it was
processed, so indexes wrap without limit; with as many packets as descriptors
the ring gets full (one descriptor stays free) and something is left in the
list, and with a ring of three every distance of the indexes occurs. Dispatch has the real constants
(1024, 256) and takes its ports from `BoundaryPorts`, the ends of the slices of
two and three processes and numbers whose bytes matter when they are swapped.
PacketFlow has a queue with room for one packet, a tx ring of three, and a
buffer for each process: both processes send to, give back to and transmit for
each other at the same time, and the NIC may have anything of it in hand. Connection has fewer memory and ports than clients and virtual servers want,
and a timer of two seconds on a wheel of three slots, so that it turns over in
the life of a connection. PortRange has every filling of a ring of five, which
turns over as well. Timer has delays (`MaxPass`) longer than a whole turn of
the wheel, every rest of a second, and requests below, at and above the size of
the wheel; overdue timers all have -1 left. Network has a server behind both NICs, so that a reply over one
meets a route over the other, and one without a configured MAC address behind
the second NIC only; one is in the pools of a full-NAT and of a transparent
virtual server; the last call of its configuration finds a virtual server full
(`VsIpMax`). Adapters has one failure, closing, resizing or removal of a NIC
anywhere (`MaxFaults`, which also bounds the table); two of them add nothing
but a longer table. Since NICs and processes may all be done there, it may
stop, and deadlock is not checked. IgbDevice needs no bound but `raced`, after
which no new call is made: everything in it is a flag or a place. It may stop as
well, for the reason given below (closing in the middle of a recovery waits for
ever). IgbLink is finite as it is. Its partners are one that heeds and sends
pauses, one that only sends them and one on a half duplex link, and the EEPROM
asks for tx pause, so that every row of the table of 802.3 that leads to a
different result occurs; the PHY is an igp_3 in the run, the others take the
same steps. In IgbVf everybody changes only the filters in `subject` in one
behaviour (addresses, multicast or VLANs: no handler relates two of them but
resets, which concern all), the table of VLANs has one entry, so that it is
full, and the addresses are as many as guest and stack want plus none. In IgbNvm
words have two bytes of two values; the writes of `Places` begin and end in
the middle of a word or not, cross pages, the middle of the EEPROM and the
checksum, and memory that was never written may hold what `Garbage` has.
Nothing is counted without end: no run needs a constraint. Symmetry permutes clients
(Dispatch), NICs and their memory (Adapters) or the ports of a NIC (IgbNvm), none
of which any definition tells apart, and is used for invariants and, in igb_nvm, a
property of single steps.

Fairness. LfQueue: the sender flushes and the receiver receives in an endless
loop, so every Put and Get step is weakly fair, and received packets are
processed. Nobody has to send. PacketFlow: each process makes its next call
(weak fairness for each process: they are separate processes on separate
cores), and the NIC ends transmissions; no frame has to arrive. Connection:
`timer_expire()` is called in every turn of the loop, so Tick is weakly fair.
Timer: for the same reason Expire is, and Pass because time goes on; nobody has
to delete a timer. Network: clients that get no answer try again, so a packet
for a pool that has an address comes to every process again and again (weak
fairness of PacketForPool, for each process and pool); no host has to answer an
ARP request. The runs of igb need none: calls may stay away, accesses may fail for
ever, and what should follow is stated of the states where nobody is at work
(UpWorks, Returned, GivenBack, LinkLooked).

### What was found

Two things in `src/` contradict what the program's documents promise, and the
model has them as the code does.

1. Nothing keeps a process from using a queue that another has yet to
   initialise: both ends run `lfq_queue_create_init()` after `fork()`, without a
   barrier. If `tail` is reset between the sender's reading it and its
   compare-and-swap, that fails and the process exits (`lf_queue.c:214`).
   NoExit of LfQueue does not hold under `BootSpec` of LfQueueBoot (`tlc` finds
   it with the constants of `LfQueue_channel.cfg`); what does hold is
   StartInventsNothing.
2. `dispatch_port_to_id()` is given ports in network order and computes with
   them as they are, while the slices are in host order. `doc/multi-core.txt:17`
   says that replies are dispatched by the port to the process that has the
   connection; with two processes port 65279, which is 0xFEFF and becomes 0xFFFE,
   yields process 2, which does not exist. `ReplyReachesOwner` of Dispatch says
   that it should; HostOrderDispatch proves that the byte order is all that is
   wrong.

Two things that Connection shows with other parameters have no run of their
own. With a hash function by which the TCP and the UDP key of an address share
a bucket, AnswersReachOwner fails: the comparison of protocols is an assignment
(`connection.c:125`, `connection.c:134`: `=` for `==`), so that an answer by
UDP is passed to the client that has the port for TCP. And with a transparent
virtual server an answer (`ToRemoteClient`) is passed to the server again, since
`is_client` says both which table to search and which way the packet goes
(`process.c:272`). `src/test.c`, with which the program runs, configures full-NAT
virtual servers only, and with one process these work: SingleProcessDispatch
(below) and conn, as long as no two protocols collide.

Some more things the models show are as the code has them and promised nowhere
otherwise, or of no consequence. Requests and replies in transparent mode are
hashed by different addresses and by functions that differ between processes
(`Target` in Dispatch); no run is about it, since the answer would go back to
the server in any process. The last transmitted buffer of a tx ring stays there until another is
sent (`driver.c:583`), so that TransmittedIsReclaimed excepts it. Connections
are looked up by the client's ip:port without the virtual server
(`process.c:261`), so that a packet to a second virtual server from the same
port is passed to a server of the first. ARP replies are not dispatched: the
processes they do not come to have no route to the server (`arp.c:265`), and
drop the packets of its clients until one comes. Of several servers with the
same ip only the first in the list gets its MAC address from the first reply,
and none gets a new one over the same NIC (`arp.c:107`). A NIC whose probe
failed, or that was closed, stays in the table of ukmem: processes that start
after that count it and the rings it had (`calm` is FALSE for them).
`server_pool_add_server()` does not keep to MAX_SERVER (`server_pool.c:70`).
`spawn()` reduces its own copy of the number of processes to that of the CPUs,
`init()` is given the other one (`main.c:132`). The checksum of an IPv6 packet is
computed with byte 9 of the header as its protocol, which is a byte of the source
address, and a UDP checksum of 0 is not replaced by 0xFFFF (`checksum.c:153`).

What igb does in the models and a reader may not expect, by module:

- IgbDevice. A plain `igb_open()` leaves interrupts masked; after `igb_up()` they
  are not, and as `igb_poll()` never completes, the next `napi_disable()` waits for
  ever. Closing in the middle of a PCI recovery, or after a resume that failed,
  disables what is disabled, and waits as well. The watchdog may arm the timer
  after `igb_remove()` has deleted it, against the comment at `igb_main.c:2076`;
  a reset queued by the NIC's DRSTA interrupt is not waited for by close and
  suspend; `igb_msix_other()` unmasks its cause after `igb_irq_disable()`.
  `raced` sets aside what overtakes a removal or a suspend; nothing else breaks
  the properties.
- IgbLink. `igb_check_for_copper_link()` clears `get_link_status` before the flow
  control is settled, so that a register that could not be read is not read again
  (`e1000_mac.c:499`), and a change of the link that comes before it does so is
  lost. Setting flow control without negotiation changes the MAC and does not
  tell the partner. `igb_read_nvm_eerd()` takes no semaphore.
- IgbVf. `igb_clear_vf_vfta()` sets `reg` to 0 before it takes the VLAN from it
  (`igb_main.c:4850`), and so removes VLAN 0; FilterKept is about the others.
  `igb_set_vf_promisc()` sets all flags but one (`flags |= ~...`), so that
  the guest counts as clear to send and as given its address by the
  administrator. The table of VLANs being full is not reported. A guest that is given another VLAN keeps
  the entry of the old one, and those that it asked for itself until it is
  reset. A guest that is being spoken to misses the ping.
- IgbNvm. `igb_set_eeprom()` does not notice that a read of the words at the edges
  failed (`igb_ethtool.c:697`), and writes what was in memory; the address bit in
  the opcode is taken from where a write begins; the words at the edges are read
  before the EEPROM is marked, so that two ports may undo each other's writes.
  WriteLands sets these three aside with `clean`.
- IgbVectors and IgbItr. Rings are numbered for `max_vfs` before that is cut to 7
  (`igb_main.c:2143`): two rings may then share a cell of the vector table; and
  when the VFs cannot be started, RSS spreads over queues without rings. The
  fallback to MSI (`igb_main.c:1231`) does not map the rings again, which
  `igb_set_itr()` then uses. The intermediate steps that `igb_set_itr()` speaks of
  are never taken. `igb_set_coalesce()` accepts 10000 microseconds, of which the
  register holds less than 8192.
- IgbPhy. `igb_set_d0_lplu_state_82575()` forgets an access that failed; the
  cable length of an 82580 is stored before it is found invalid.
- IgbWake. Port A is found by counting: removing a NIC and binding it again, or a
  probe that fails after the counter moved, makes another port the one.
- IgbStamp. The filters for all events of version 2 leave the UDP filter off, but
  on an 82580, though the comment has them "regardless of level 2 or 4"
  (`igb_main.c:5926`).

## 4. The proofs

**LfQueueProofs**, for every ring size and every set of packets. NoOverrun is
not inductive: it says nothing of the copies of `head` and `tail` that both
processes work with. The invariant IInv adds to TypeOK and NoExit

- SenderInv: while putting, `sndTail = tail` and the stale `sndHead` is not
  past `head`, so that the room the sender sees is room there is;
- ReceiverInv: while getting, `rcvHead = head` and the stale `rcvTail` is
  between its cursor and `tail`;
- WrittenInv: what is between `head` and the sender's write position holds
  packets.

All are stated with `Dist`, the distance on the ring; the lemma CyclicOrder has
the arithmetic. Theorems: Initial, Inductive and Invariance, from which
TypeCorrect, NeverExits, NeverOverruns and NeverUnderruns follow. NeverExits is
about processes that have both been initialised, which is needed (3., What was
found).

Implementation: the queue is a PacketChannel, by step simulation. What the
channel has published is what the ring holds between the receiver's cursor and
`tail`, read from there on (RingIn), and the rest of it, up to the sender's
write position, is still pending with the sender's list. RingJoined and its
neighbours say how this sequence is cut at `tail`; a step that moves none of
the three positions is a stutter, PutCommit is the flush, and GetPacket takes
the sequence from the front. It needs WrittenInv: a descriptor between the
positions holds a packet and never the mark for none.

It also has, for the same queue from its start, whatever its memory holds, and however late and often the two sides initialise it while the other
uses it: StartInventsNothing. A packet that comes out was sent, and comes out
once: losses there may be, inventions not. The invariant follows a packet through the places it may be in, and
says of each descriptor between the cursors whose packet it may hold.

**PacketFlowProofs**, for any number of processes and buffers and all sizes of
rings and queues. NothingLost, OwnersKept and QueuedOnTheWay are Conservation,
OwnBuffersOnly and QueuedStates. Conservation counts, and counting says nothing
of a step; the invariant names the place of each buffer instead: there are
functions on the buffers (the kind of place, the process there, and the process
it goes to), with which every list, ring and queue agrees. That no foreign
buffer gets into a free pool is not inductive either, for it comes out of a
queue: it needs the states of what is in the queues, a buffer to be reclaimed
being on its way to its owner. The rest is about sequences without repetitions:
how they are joined and cut (ConcatElements, Cut), and that a list put into an
order is one (SeqOfSet).

**ConnectionProofs**, for any clients, virtual servers, ports, memory, timeout
and size of the wheel. OneForEachClient and TablesAgree hold for any hash
function. Their invariant: what is in use is what the tables hold, once
(LinkedUsed); a connection has one timer, in a slot that is still to come
(OneTimer), without which a wheel that turns over could free what was given to
another client meanwhile; a client has one connection for each protocol
(OneEach). PortsKept and AnswersReach (PortsConserved and AnswersReachOwner) are
proved for hash functions that keep the two protocols of an address in different
buckets (ProtocolsApart, which the hash function of the run does). Without it they
do not hold, since the comparison of protocols assigns (3., What was found);
with it PortInv says that the protocol of a connection is still the one under
which it took its port, and that each port is free once or held once.

**UspaceProofs**, first for Dispatch, every number of processes and every instance.
SelfPortsAlwaysDiffer: processes that never talk about ports never give out the
same one. IInv says that the ports of a process's connections are from its
slice and differ; the slices are disjoint (SlicesDisjoint, by uniqueness of
division, DivModUnique) and swapping the bytes is injective
(SwapBytesInjective). HostOrderDispatch: for every port in host order,
`dispatch_port_to_id()` yields the process in whose slice it is. Together with
Dispatch as it is, this says that the byte order is all that is wrong there.

SingleProcessDispatch: with one process, and a base port smaller than the rest
of the port numbers, every reply gets to its connection in spite of it. (A port
in network order is less than 65535 because one in host order is, by
SwapBytesRange, and a negative difference is divided towards 0.)

Then for Timer, every size of the wheel, every frequency and every delay.
FiringOnTime: each call of `timer_expire()` handles exactly the timers whose
time is over. TimerInv says that a timer which is r entries ahead, 1 <= r <=
WheelSize, has r seconds left less what has passed since the last full second
(WheelInv); FiresOnTime alone says nothing of where timers are. TurnsCount is
about the loop, which takes the seconds that end before now (a full second with
nothing beyond it waits); PassedIffDue is the step from positions to time: two
timers less than a turn apart are not in the same entry (ModDiffers).

Last for Lists, MemPool and Checksum. AlwaysLinked and AlwaysOneRing, for any
nodes and heads: both pointers of a node in a list lead to nodes of that list
which point back, and a list is one ring with its head (no set of its nodes without the head is closed
under `next`). Neither is inductive without the types of `owner`, and splicing
moves a whole list at once. PoolKeepsAll: no object is given that is in use, none
is lost. ChecksumFits, HeaderAccepted and Ipv4Accepted: folding keeps a sum
modulo 65535 (FoldKeeps, FoldedKeeps), so that a packet with its checksum sums
to 65535. Ipv6AcceptedByChance: for IPv6 it does only if two bytes of the packet
are equal by chance.

**NetworkProofs**, for every configuration, every number of processes and NICs
and every net. OneMacPerIp and LocalIpsAnswered follow from LocalInv: a
process's ips and the routes to them are those of the calls that it has made,
each ip with the NIC of its call; what a reply adds is a route to a host, which
is no local ip. ToldInv says that what frames have told of an ip is the NIC in
Config, and does not depend on which process told it. ForwardedReachesServer
needs ServerInv: routes to hosts go where the host is (RoutesInv); a server
without a MAC address has no route (PlacesInv), which the first reply keeps
true because only one server of its ip is without an address (SharedInv, from
ConfigAssumption). VserverInv, that virtual servers are numbered as they were
created, is for the types.

Then for PortRange, every finite set of ports. RangeImplementsPool: the ring is
a pool of ports, by step simulation (RangeInitial, RangeSimulation). RingOK,
that the counter and the positions agree and no port is there twice, is not
inductive: a port that comes back needs room. RangeInv adds that the counter is
the number of different ports in the ring (Counted), so that a ring without
room would hold all ports, and none could come back (RoomForMissing).

**IgbProofs**, for every NIC that the driver knows. VectorsAlwaysFit: no more than
eight q_vectors, and no register that is not there. RingsAlwaysHeard: when the
NIC is open, the vector in the table for a ring is that of the q_vector which
polls it. Its invariant describes, for each model of NIC, what
`igb_map_ring_to_vector()` and `igb_assign_vector()` have made of the numbers,
provided that those are the numbers which the rings were made for;
PfAlwaysApart, RssAlwaysLands and MsiAlwaysPaired follow from it under the same
proviso. CoalesceKept, IntervalWritten, RingIntervalBounded, LevelStepwise and
NoIntermediateStep are about IgbItr; CableInRange, InfoBelongsTogether,
D3Exclusive and D0PassesOver about IgbPhy (the last shows a defect);
ExcludedAlwaysSilent and PortAByCounting about IgbWake, the second under
ProbedInOrder; StampsWhatIsAsked, V2EventsMissUdp and AnswerAcceptedAgain about
IgbStamp.

Then for IgbDevice, which has no constants: its run shows the four properties
already, and the proof says why they hold. NapiAlwaysPaired,
UpAlwaysWorks, RingsAlwaysQuiet and NothingLate follow from DeviceInv
(DeviceInvariance). None of the properties is inductive: they speak of one place
in a call, or of states without any, and what has to be said is what the calls of
three threads, in the middle of which they overtake each other, have done and
will do. TodoInv therefore is the grammar of the calls (Follows, for every step
what may be left after it), so that what is left of a call (Left) tells where it
is. The other parts relate it to the device. HoldInv: a thread between its
`napi_disable()` and its `napi_enable()` holds the instance, alone; and so does,
for ever, who closed the device, failed to open it or stopped it for a recovery.
AgainInv: as long as a device that runs and is attached is disabled, somebody
has still to enable it and to clear `__IGB_DOWN`. IrqInv and RingInv: handlers and
rings are there whenever the instance is enabled or is going to be, and the
rings are exchanged and freed after a reset. PlaceInv and VectorInv: which calls may be
under way when the device is asleep, detached, closed or gone. EndInv: what
`igb_remove()` has ended stays ended, as long as no race was lost (`raced`).
There is a lemma for each kind of step; steps that touch nothing the parts
speak of are taken together (QuietSteps), and those that become several
(`dev_open()`, a recovery) or give up (a failed `igb_open()`) have lemmas about
the sequence that they leave (DevOpenGoes, FailGoes, ...). DeviceInv was checked by TLC
in the run's instance before it was proved.

**IgbMemoryProofs**, first for IgbNvm, any number of ports, any memory and any
requests. AllGivenBack and OneWriterAtATime: NvmInv says of the semaphore, the
marks and the grant in which part of its call the port is that has each
(SemaphoreInv, MarkInv, GrantInv), whatever times out or fails on the way.
GivenBack alone is about ports that do nothing, and says nothing of one that is
about to stop. WritesLand is WriteLands: LandsInv follows a write from page to
page. What the chip will hold once it is deselected (Effective) has the words
that were shifted out so far, and otherwise the words it had when the call
began; that a page does not wrap before its words are out, and that the bits of the
address suffice, are facts about remainders. The checksum is right because the
sum that the driver adds up word by word is the sum of what is in the chip, and
a sum does not depend on the words behind it (SumToIs, SumToAgrees).

Then for Adapters, any number of NICs, queues and processes, any addresses, and
any number of failures. OwnRingsTaken and RingsNotShared are RightRings and
Agree. EntryInv: of the entries with one address the first is about the NIC
that has the address, and the others never get a ring. A table is thus complete
(all NICs up, `calm` for the process that looks) only if its addresses differ. It
also only grows, so that what a process has read of a complete table is still
there, unless the table can never be complete again (LooksInv, Twin): processes
that found it complete number the NICs alike (NumbersInv), and what they have
mapped is where they count it to be (MapsInv). For the last, `AllDescs` puts the
rings of one adapter behind those of the one before, and where the pages of an
adapter begin is shown from one adapter to the next (AllDescsIs, RingPlaces).

**IgbSharedProofs**, for IgbLink with every kind of PHY and any partners, and for
IgbVf with any number of VFs, VLANs, addresses and entries. OneAtATime and
AllReleased follow from SyncInv: a thread inside an access has marked what it
uses, alone, and a mark of the driver has such a thread. AlwaysLooked follows
from WatchInv, that a run of the watchdog ends with its report whatever fails
before, and that as long as the device is up a run is under way or will be.
PausesAgree is PauseAgrees, which speaks of states in which nobody is at work
and so is far from inductive. PauseInv speaks of the others. What is left of a
call is either a set-up of the link that still ends in `igb_up()`, whatever it
gives up, or one of ten sequences (TodoInv). As long as nobody has been told to
look at the link again (Fresh), the mode in the NIC is one the partner agrees
to, or some call has still to read what was negotiated, or it has been read and
some call has still to force it, or a set-up will ask for the link to be looked
at (Covered). Two calls may be in the middle of that at once: because
`fc.current_mode` is shared, the later one does not force what the earlier one
has read.

VlansPass, MulticastsPass, KeptToItsVlan and OwnAddressPasses are the four
properties of IgbVf. The tables (Tables) are kept by each function of the driver
by itself: a lemma about registers for each (VlvfSetKeeps, SetRxModeKeeps,
VfResetKeeps, ...), then one for each handler (QuietTables ... VlanTables).
HearsOwnMac is not inductive, for a guest is told its address by a message
and may take it late. VfInv adds what an answer promises (Promised): that an address
in the mailbox, or one that the guest has asked for and is about to be granted,
is the one in the NIC's table; that a request in the mailbox is the one which
the guest waits for, unless it has given up; and that an answer which clears a
guest to send never answers a reset (Dialog). VlanIsolated is about the step in which
a guest becomes clear to send, which is VfResetMsg alone (VfIsolates).

Assumptions: `PortsAssumption` (port 0 is not in a range), `SizeAssumption` of
LfQueue (`lfq_module_init()` refuses other sizes), `NoPacketAssumption`,
`NumAssumption` (the slice is not empty: otherwise `dispatch_port_to_id()`
divides by 0), `AddressAssumption`, `SizeAssumption` of Timer (`main.c` asks
for 300 seconds; with a wheel of none `timer_add()` divides by 0),
`RequestsAssumption` (nobody adds a timer for 0 seconds, which would go off
after a whole turn), `NetworkAssumption` (local ips are not those of other
hosts), `ConfigAssumption` (what `test_arp()` keeps to: a virtual server exists
before it gets an ip, an ip is added once, and servers that share an ip have
their MAC address configured), `AdaptersAssumption` (a NIC has fewer rings of
descriptors than pages of registers, by whose number `ukmem_mmap()` tells them
apart: at most 16 of the former, 128 of the latter), `NvmAssumption` of IgbNvm
(pages divide the EEPROM; the stack refuses writes of nothing, and beyond its end),
`FlowAssumption` (buffers are finitely many, each in the zone of a process),
`TimeAssumption` and `VsAssumption` of Connection (the timeout is 60 seconds, the
wheel has 300; a virtual server has one protocol) and its
`PortsAssumption` (a port is no address), `NoneAssumption` and `UnarmedAssumption`
(the values that stand for NULL are nothing else), `PhyAssumption`,
`PauseAssumption` and `PartnerAssumption` of IgbLink (what the driver and 802.3
know), and `VfAssumption` (at most 7 VFs, which `igb_probe_vfs()` sees to, and an
address table with more entries than VFs; the value that stands for a list of
more than 30 addresses is none of the addresses).
TLC evaluates them in the runs. The part of UspaceProofs about Lists states what it assumes in the theorems
(HeadsGiven: the heads are nodes, and no node is None); IgbVectors has in VectorsInit what
it takes for granted of its parameters, among them that `queue_num` is at least 1,
since the driver divides by it.

Only model-checked: liveness (Delivery, Fires, DispatchedArrives,
ReclaimedIsFreed, TransmittedIsReclaimed, ConnectionsEnd, PoolServes), which is
out of the prover's reach as ENABLED is. Every other property of a run is proved.
Recursive operators are out of
reach too, and there are none in the modules that are proved about; recursive
functions on the naturals (the sum in IgbNvm, `AllDescs`) are proved about
through the least number for which a claim would fail (Smallest).

## 5. Plan

In this order; each with its runs, and proofs where named.

1. Start: `spawn()` and `init()`, composed with Dispatch, for the number of
   processes.
2. What is left of igb: fibre and SGMII links, the statistics with their wrapping
   counters, the self tests of registers and interrupts.
3. The headers of packets in `src/packet.c` and their rewriting in `src/process.c`.
