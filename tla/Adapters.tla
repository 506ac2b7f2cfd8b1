------------------------------ MODULE Adapters ------------------------------
(***************************************************************************)
(* How the processes come by the descriptor rings of the NICs.  The igb    *)
(* driver (modules/igb/igb_main.c) registers every adapter that it probes  *)
(* and every ring that it sets up in a table of ukmem.c; a process of      *)
(* ustack (uspace/src/driver.c) reads how many adapters and queues there   *)
(* are, maps the registers and the rings of all adapters and takes from    *)
(* them queue number <process id> of every adapter.  The table is never    *)
(* cleared, nothing locks it, and the two sides agree on an order only.    *)
(*                                                                         *)
(* Abstracted: a ring is one page (256 descriptors of 16 bytes), named by  *)
(* its NIC, direction, queue and by the allocation, so that a page which   *)
(* was freed is not the page of a later ring; pages beyond the end of a    *)
(* mapping are not mapped.  The rest of the igb driver does not touch the  *)
(* table; suspend and resume do what Close and Open do, and when there is  *)
(* no MSI-X the memory for the interrupt vector is always granted.         *)
(***************************************************************************)
EXTENDS Integers, Sequences, FiniteSets

CONSTANTS
  Nics,        (* PCI devices of the driver                              *)
  Addrs,       (* addresses of struct igb_adapter, used again when freed *)
  Queues,      (* the module parameter queue_num, at most the CPUs       *)
  NumProcs,    (* the processes, numbered by their id                    *)
  RegsPages,   (* pages of a NIC's registers, 128: more than descriptor  *)
               (* rings, for no NIC has more than 8 queues               *)
  MaxFaults,   (* bound on what goes wrong or is undone: failures, NICs  *)
               (* closed or removed, rings resized.  It bounds the table *)
               (* (MAX_ADAPTER_NUM, MAX_DESC_NUM are not checked) too    *)
  None         (* nothing: zeroed or unmapped memory                     *)

Procs == 0..(NumProcs - 1)
Dirs == {"tx", "rx"}

ASSUME AdaptersAssumption ==
  /\ Queues \in Nat \ {0} /\ NumProcs \in Nat
  /\ RegsPages \in Nat /\ MaxFaults \in Nat
  /\ 2 * Queues < RegsPages
  /\ None \notin Nics \cup Addrs

VARIABLES
  table,       (* ukmmap.adapter[0..adapter_num - 1]                     *)
  queueNum,    (* ukmmap.queue_num                                       *)
  nic,         (* nic[a]: what igb knows of a                            *)
  proc,        (* proc[p]: what struct driver of process p knows         *)
  faults,      (* history: how much went wrong or was undone             *)
  calm         (* history: calm[p] says that each time p looked the      *)
               (* table was complete and as large as the first time      *)

vars == <<table, queueNum, nic, proc, faults, calm>>

NoNic == [state |-> "absent", addr |-> None, n |-> 0, gen |-> [d \in Dirs |-> 0],
          done |-> [d \in Dirs |-> 0]]
NoArea == [kind |-> "none", of |-> <<>>]
NoProc == [stage |-> "read", num |-> 0, queues |-> 0, macs |-> <<>>,
           regs |-> NoArea, descs |-> NoArea]

Init ==
  /\ table = <<>> /\ queueNum = 0 /\ faults = 0
  /\ nic = [a \in Nics |-> NoNic]
  /\ proc = [p \in Procs |-> NoProc]
  /\ calm = [p \in Procs |-> TRUE]

-----------------------------------------------------------------------------
(* ukmem.c, called by igb. *)

(* ukmem_find_adapter: the first entry with this address, or none. *)
Entry(addr) ==
  LET found == {i \in DOMAIN table : table[i].addr = addr} IN
  {i \in found : \A j \in found : i <= j}

(* ukmem_add_tx_desc and ukmem_add_rx_desc. *)
AddDesc(addr, d, page) ==
  table' = [i \in DOMAIN table |->
    IF i \in Entry(addr) THEN [table[i] EXCEPT ![d] = Append(@, page)] ELSE table[i]]

(* ukmem_add_mac: NIC a's. *)
AddMac(addr, a) ==
  table' = [i \in DOMAIN table |->
    IF i \in Entry(addr) THEN [table[i] EXCEPT !.mac = a] ELSE table[i]]

(* ukmem_alloc_adapter and ukmem_add_regs: a new entry, but the registers  *)
(* go to the first one with this address.                                  *)
AllocAdapter(addr, a) ==
  LET first == IF Entry(addr) = {} THEN {Len(table) + 1} ELSE Entry(addr)
      new == Append(table, [addr |-> addr, regs |-> None, mac |-> None, tx |-> <<>>, rx |-> <<>>])
  IN table' = [i \in DOMAIN new |-> IF i \in first THEN [new[i] EXCEPT !.regs = a] ELSE new[i]]

-----------------------------------------------------------------------------
(* igb.  Probes follow one another; igb_open, igb_close and ethtool hold   *)
(* the rtnl lock.                                                          *)
Probing == {"allocated", "initialised"}
Opening == {"opening", "retrying"}
Become(a, state) == nic' = [nic EXCEPT ![a].state = state]
Freed(a) == nic' = [nic EXCEPT ![a] = [NoNic EXCEPT !.gen = nic[a].gen]]
Fault == faults < MaxFaults /\ faults' = faults + 1
RtnlFree == \A a \in Nics : nic[a].state \notin Opening

(* igb_probe, up to the mapping of the registers. *)
ProbeStart(a) ==
  /\ nic[a].state = "absent"
  /\ \A b \in Nics : nic[b].state \notin Probing
  /\ \E addr \in Addrs \ {nic[b].addr : b \in Nics} :
       /\ nic' = [nic EXCEPT ![a] = [NoNic EXCEPT !.state = "allocated", !.addr = addr,
                                                  !.gen = nic[a].gen]]
       /\ AllocAdapter(addr, a)
  /\ UNCHANGED <<queueNum, proc, faults, calm>>

(* igb_set_interrupt_capability: the queues there are interrupts for.      *)
Granted == {Queues, 1}

(* igb_sw_init: ukmem hears of the number of queues before it is known     *)
(* whether there are interrupts for all of them.                           *)
ProbeInit(a) ==
  /\ nic[a].state = "allocated"
  /\ queueNum' = Queues
  /\ \E n \in Granted :
       /\ IF n = Queues THEN UNCHANGED faults ELSE Fault
       /\ nic' = [nic EXCEPT ![a].state = "initialised", ![a].n = n]
  /\ UNCHANGED <<table, proc, calm>>

(* The MAC address is read, and a becomes a network device. *)
ProbeMac(a) ==
  /\ nic[a].state = "initialised"
  /\ AddMac(nic[a].addr, a)
  /\ \/ Become(a, "down") /\ UNCHANGED faults
     \/ Freed(a) /\ Fault
  /\ UNCHANGED <<queueNum, proc, calm>>

(* A step after the mapping of the registers fails (for the ones after the *)
(* MAC address see above): the adapter is freed and its entry stays.       *)
ProbeFail(a) ==
  /\ nic[a].state \in Probing
  /\ Freed(a) /\ Fault
  /\ UNCHANGED <<table, queueNum, proc, calm>>

(* All rings of a are to be set up. *)
NewRings(a, state, n) ==
  [nic[a] EXCEPT !.state = state, !.n = n, !.gen = [d \in Dirs |-> @[d] + 1],
                 !.done = [d \in Dirs |-> 0]]

(* igb_open. *)
Open(a) ==
  /\ nic[a].state = "down" /\ RtnlFree
  /\ nic' = [nic EXCEPT ![a] = NewRings(a, "opening", nic[a].n)]
  /\ UNCHANGED <<table, queueNum, proc, faults, calm>>

(* The next ring of this direction is allocated and registered, or         *)
(* igb_open fails, frees all rings and leaves the registered ones behind.  *)
(* The fallback to one queue ignores the result.                           *)
SetupRing(a, d) ==
  /\ nic[a].state \in Opening
  /\ nic[a].done[d] < nic[a].n
  /\ \/ /\ AddDesc(nic[a].addr, d, <<a, d, nic[a].done[d], nic[a].gen[d]>>)
        /\ nic' = [nic EXCEPT ![a].done[d] = @ + 1] /\ UNCHANGED faults
     \/ /\ nic[a].state = "opening"
        /\ Become(a, "down") /\ UNCHANGED table /\ Fault
     \/ /\ nic[a].state = "retrying"
        /\ nic' = [nic EXCEPT ![a].done[d] = @ + 1] /\ UNCHANGED table /\ Fault
  /\ UNCHANGED <<queueNum, proc, calm>>

(* One turn of igb_setup_all_tx_resources, and after all of them of        *)
(* igb_setup_all_rx_resources.                                             *)
SetupTx(a) == SetupRing(a, "tx")
SetupRx(a) == nic[a].done["tx"] = nic[a].n /\ SetupRing(a, "rx")

(* igb_request_irq, when all rings are set up: the NIC is up, or opening   *)
(* fails, or the MSI-X interrupts are not granted, all rings are freed and *)
(* a single queue is set up instead.                                       *)
RequestIrq(a) ==
  /\ nic[a].state \in Opening
  /\ \A d \in Dirs : nic[a].done[d] = nic[a].n
  /\ \/ Become(a, "up") /\ UNCHANGED faults
     \/ Become(a, "down") /\ Fault
     \/ /\ nic[a].state = "opening"
        /\ nic' = [nic EXCEPT ![a] = NewRings(a, "retrying", 1)] /\ Fault
  /\ UNCHANGED <<table, queueNum, proc, calm>>

(* igb_close frees the rings. *)
Close(a) ==
  /\ nic[a].state = "up" /\ RtnlFree
  /\ Become(a, "down") /\ Fault
  /\ UNCHANGED <<table, queueNum, proc, calm>>

(* igb_set_ringparam: new rings of one or both directions, that take the   *)
(* place of the old ones.                                                  *)
Resize(a) ==
  /\ nic[a].state = "up" /\ RtnlFree
  /\ \E new \in (SUBSET Dirs) \ {{}} :
       nic' = [nic EXCEPT ![a].gen = [d \in Dirs |-> IF d \in new THEN @[d] + 1 ELSE @[d]]] /\ Fault
  /\ UNCHANGED <<table, queueNum, proc, calm>>

(* Mutant of IgbRemove: the entry is taken out of the table. *)
IgbRemoveWithEntry(a) ==
  /\ nic[a].state \in {"down", "up"} /\ RtnlFree
  /\ Freed(a) /\ Fault
  /\ table' = SelectSeq(table, LAMBDA e : e.addr # nic[a].addr)
  /\ UNCHANGED <<queueNum, proc, calm>>

(* igb_remove, which closes the device first. *)
IgbRemove(a) ==
  /\ nic[a].state \in {"down", "up"} /\ RtnlFree
  /\ Freed(a) /\ Fault
  /\ UNCHANGED <<table, queueNum, proc, calm>>

-----------------------------------------------------------------------------
(* A process.  Each of its three calls meets the table as it is then.      *)

(* NIC a is up, and an entry holds the rings that it uses and no others.   *)
RingsOf(a, d) == [k \in 1..nic[a].n |-> <<a, d, k - 1, nic[a].gen[d]>>]
Describes(e, a) ==
  /\ nic[a].state = "up" /\ nic[a].addr = e.addr /\ nic[a].n = queueNum
  /\ \A d \in Dirs : e[d] = RingsOf(a, d)
Complete == \A i \in DOMAIN table : \E a \in Nics : Describes(table[i], a)

Look(p, num) == calm' = [calm EXCEPT ![p] = @ /\ Complete /\ num = Len(table)]

(* ukmem_read, the number of adapters and queues and the MAC addresses. *)
Read(p) ==
  /\ proc[p].stage = "read"
  /\ proc' = [proc EXCEPT ![p].stage = "regs", ![p].num = Len(table), ![p].queues = queueNum,
                          ![p].macs = [i \in DOMAIN table |-> table[i].mac]]
  /\ Look(p, Len(table))
  /\ UNCHANGED <<table, queueNum, nic, faults>>

(* Mutant of DescArea: the rx rings of an adapter come first. *)
DescAreaRxFirst(i) == table[i].rx \o table[i].tx
DescArea(i) == table[i].tx \o table[i].rx

(* ukmem_mmap_desc: all pages of the first adapter, tx before rx, then     *)
(* those of the next.                                                      *)
AllDescs ==
  LET upTo[i \in 0..Len(table)] == IF i = 0 THEN <<>> ELSE upTo[i - 1] \o DescArea(i)
  IN upTo[Len(table)]

(* ukmem_mmap: only the size says what is to be mapped, and memory for     *)
(* packets is mapped when it is neither the size of all registers nor the  *)
(* one of all rings, as far as the first adapter tells.  mmap of nothing   *)
(* fails.                                                                  *)
Mmap(pages) ==
  IF pages = 0 THEN NoArea
  ELSE IF pages = Len(table) * RegsPages
    THEN [kind |-> "regs", of |-> [i \in DOMAIN table |-> table[i].regs]]
  ELSE IF table # <<>> /\ pages = Len(table) * Len(table[1].rx) * 2
    THEN [kind |-> "descs",
          of |-> [i \in 1..pages |-> IF i <= Len(AllDescs) THEN AllDescs[i] ELSE None]]
  ELSE [kind |-> "buffers", of |-> <<>>]

(* The first two mmap64() of driver_open. *)
MapRegs(p) ==
  /\ proc[p].stage = "regs"
  /\ proc' = [proc EXCEPT ![p].stage = "descs", ![p].regs = Mmap(proc[p].num * RegsPages)]
  /\ Look(p, proc[p].num)
  /\ UNCHANGED <<table, queueNum, nic, faults>>

MapDescs(p) ==
  /\ proc[p].stage = "descs"
  /\ proc' = [proc EXCEPT ![p].stage = "open",
                          ![p].descs = Mmap(proc[p].num * proc[p].queues * 2)]
  /\ Look(p, proc[p].num)
  /\ UNCHANGED <<table, queueNum, nic, faults>>

(* driver_open, adapter_create: where process p takes its ring of adapter  *)
(* i to be, queue number p of this direction.                              *)
RingAt(p, i, d) ==
  LET k == (i - 1) * 2 * proc[p].queues + (IF d = "rx" THEN proc[p].queues ELSE 0) + p + 1 IN
  IF k \in DOMAIN proc[p].descs.of THEN proc[p].descs.of[k] ELSE None

RegsAt(p, i) == IF i \in DOMAIN proc[p].regs.of THEN proc[p].regs.of[i] ELSE None

Next ==
  \/ \E a \in Nics :
       \/ ProbeStart(a) \/ ProbeInit(a) \/ ProbeMac(a) \/ ProbeFail(a)
       \/ Open(a) \/ SetupTx(a) \/ SetupRx(a) \/ RequestIrq(a)
       \/ Close(a) \/ Resize(a) \/ IgbRemove(a)
  \/ \E p \in Procs : Read(p) \/ MapRegs(p) \/ MapDescs(p)

Spec == Init /\ [][Next]_vars

-----------------------------------------------------------------------------
Some == Nics \cup {None}
Pages == Nics \X Dirs \X (0..Queues) \X (1..(MaxFaults + 1))
EntryType == [addr : Addrs, regs : Some, mac : Some, tx : Seq(Pages), rx : Seq(Pages)]
NicType == [state : {"absent", "down", "up"} \cup Probing \cup Opening,
            addr : Addrs \cup {None}, n : {0, 1, Queues},
            gen : [Dirs -> 0..(MaxFaults + 1)], done : [Dirs -> 0..Queues]]
AreaType == [kind : {"none", "regs", "descs", "buffers"}, of : Seq(Some \cup Pages)]
ProcType == [stage : {"read", "regs", "descs", "open"}, num : Nat, queues : {0, Queues},
             macs : Seq(Some), regs : AreaType, descs : AreaType]

TypeOK ==
  /\ table \in Seq(EntryType) /\ faults \in 0..MaxFaults
  /\ queueNum \in {0, Queues}
  /\ nic \in [Nics -> NicType]
  /\ \A a \in Nics : \A d \in Dirs : nic[a].done[d] <= nic[a].n
  /\ \A a, b \in Nics : nic[a].addr = nic[b].addr /\ a # b => nic[a].addr = None
  /\ proc \in [Procs -> ProcType]
  /\ \A p \in Procs : Len(proc[p].macs) = proc[p].num
  /\ calm \in [Procs -> BOOLEAN]

Ready(p) == calm[p] /\ proc[p].stage = "open" /\ p < proc[p].queues

(* A process that starts when all NICs are up works on its own queue of    *)
(* every NIC, with the registers and the MAC address of this very NIC: the *)
(* order in which ukmem maps pages is the one in which driver.c counts     *)
(* them, and both look at the same table.                                  *)
RightRings ==
  \A p \in Procs : Ready(p) =>
    /\ \A i \in 1..proc[p].num :
         /\ RegsAt(p, i) # None /\ proc[p].macs[i] = RegsAt(p, i)
         /\ \A d \in Dirs : \E g \in 1..(MaxFaults + 1) :
              RingAt(p, i, d) = <<RegsAt(p, i), d, p, g>>
    /\ \A i, j \in 1..proc[p].num : RegsAt(p, i) = RegsAt(p, j) => i = j

(* The processes may start one after the other, with NICs that come and go *)
(* in between: those that found the NICs up number them alike - routes and *)
(* buffers passed on say "NIC i" - and no two of them work on one ring.    *)
Agree ==
  \A p, q \in Procs : p # q /\ Ready(p) /\ Ready(q) =>
    \A i \in 1..proc[p].num : i <= proc[q].num =>
      /\ RegsAt(p, i) = RegsAt(q, i)
      /\ \A j \in 1..proc[q].num, d, e \in Dirs : RingAt(p, i, d) # RingAt(q, j, e)
=============================================================================
