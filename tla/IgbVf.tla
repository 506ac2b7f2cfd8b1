-------------------------------- MODULE IgbVf --------------------------------
(***************************************************************************)
(* A NIC that is shared with virtual machines (SR-IOV), in modules/igb:    *)
(* igb_main.c, e1000_mbx.c and e1000_mac.c.  A virtual function (VF) of    *)
(* the NIC belongs to a guest, whose driver asks the driver of the         *)
(* physical function (PF) through a mailbox for addresses and VLANs;       *)
(* igb_msg_task() answers.  The stack, the administrator and the resets of *)
(* the NIC change the same filters at the same time.                       *)
(*                                                                         *)
(* A handler is one step and works on the registers `nic', one operator    *)
(* per function of the driver.  A pool is who a frame is delivered to: a   *)
(* VF or, with the highest number, the PF.  A multicast address is its     *)
(* hash value.  Left out: the frame sizes (RLPML, and `vlans_enabled',     *)
(* which only these depend on), unicast promiscuous mode, priorities, and  *)
(* the word by word transfer of a message: the mailbox holds the last      *)
(* message that was put there and not yet read, as PFU and VFU see to.     *)
(*                                                                         *)
(* Bound: in one behaviour everybody changes only what is in `subject', a  *)
(* member of Subjects; resets concern all of it.                           *)
(***************************************************************************)
EXTENDS Naturals, FiniteSets

CONSTANTS
  NumVfs,    \* adapter->vfs_allocated_count
  Vids,      \* VLAN ids
  VlvfSize,  \* E1000_VLVF_ARRAY_SIZE
  RarCount,  \* mac.rar_entry_count
  Hashes,    \* hash values of multicast addresses
  Macs,      \* addresses that a VF may have
  MaxUc,     \* bound: secondary unicast addresses of the PF
  Subjects   \* bound: sets of "mac", "multicast" and "vlan"

VFs == 0..(NumVfs - 1)
Pf == NumVfs
Pools == 0..NumVfs

\* The loop of igb_msg_task() has ended
Resting == <<NumVfs, "rst">>

\* What is kept of a list with more than 30 multicast addresses
Many == {"many"}

\* igb_probe_vfs() cuts the number to 7; the table of addresses has room for them
ASSUME VfAssumption ==
  /\ NumVfs \in 1..7
  /\ Vids \subseteq 0..4095 /\ 0 \in Vids
  /\ {VlvfSize, RarCount, MaxUc} \subseteq Nat /\ RarCount > NumVfs
  /\ Macs # {} /\ Many \intersect Hashes = {}
  /\ Subjects \subseteq SUBSET {"mac", "multicast", "vlan"}

VARIABLES
  nic,     \* registers: vlvf, vfta, rar, mta, vmolr, vmvir, enabled
  pf,      \* what the stack wants: up, vlans, mc, uc, mode
  vfd,     \* adapter->vf_data: cts, pfMac, mac, mc, pfVlan
  task,    \* where igb_msg_task() is: VF and check
  rst,     \* VFLRE: VFs that were reset
  box,     \* the mailbox of each VF
  acks,    \* VFs whose bit in MBVFICR says that a message was taken
  guest,   \* the driver in the guest: st, mac, req
  moved,   \* history: VFs whose address the administrator changed under them
  subject  \* what this behaviour is about

vfVars == <<nic, pf, vfd, task, rst, box, acks, guest, moved, subject>>

Clear == [mac |-> "none", pool |-> 0]
Nothing == [from |-> "nobody"]
Modes == {"listed", "allmulti", "promisc"}

(***************************************************************************)
(* VLANs.  VLVF is a function from the VLANs with an entry to their pools; *)
(* VFTA is the set of VLANs that the NIC accepts at all.                   *)
(***************************************************************************)
VftaSet(n, vid, add) == [n EXCEPT !.vfta = IF add THEN @ \union {vid} ELSE @ \ {vid}]

\* Mutant of VlvfRemove: the filter goes with the first pool that leaves
VlvfRemoveAtOnce(n, vid, p) ==
  LET left == n.vlvf[vid] \ {p}
      m == [n EXCEPT !.vlvf = [v \in DOMAIN @ \ {w \in {vid} : left = {}} |->
                                 IF v = vid THEN left ELSE @[v]]]
  IN VftaSet(m, vid, FALSE)

\* The last pool that leaves takes the entry and the filter with it
VlvfRemove(n, vid, p) ==
  LET left == n.vlvf[vid] \ {p} IN
  IF left # {} THEN [n EXCEPT !.vlvf[vid] = left]
  ELSE VftaSet([n EXCEPT !.vlvf = [v \in DOMAIN @ \ {vid} |-> @[v]]], vid, FALSE)

\* When the table is full nothing happens, and 0 is returned as well
VlvfAdd(n, vid, p) ==
  IF vid \in DOMAIN n.vlvf THEN [n EXCEPT !.vlvf[vid] = @ \union {p}]
  ELSE IF Cardinality(DOMAIN n.vlvf) < VlvfSize
  THEN VftaSet([n EXCEPT !.vlvf = [v \in DOMAIN @ \union {vid} |->
                                     IF v = vid THEN {p} ELSE @[v]]], vid, TRUE)
  ELSE n

VlvfSet(n, vid, add, p) ==
  IF add THEN VlvfAdd(n, vid, p)
  ELSE IF vid \in DOMAIN n.vlvf THEN VlvfRemove(n, vid, p) ELSE n

\* "reg = 0; vid = reg & ...": the filter of VLAN 0 goes, whichever is meant
ClearVfVfta(n, vf) ==
  LET emptied == {v \in DOMAIN n.vlvf : n.vlvf[v] \ {vf} = {}} IN
  [n EXCEPT !.vlvf = [v \in DOMAIN @ \ emptied |-> @[v] \ {vf}],
            !.vfta = IF emptied = {} THEN @ ELSE @ \ {0}]

SetVmolr(n, p, aupe) == [n EXCEPT !.vmolr[p].aupe = aupe]
SetVmvir(n, vid, vf) == [n EXCEPT !.vmvir[vf] = vid]

\* igb_ndo_set_vf_vlan, of the registers; `prio' if qos is not 0
NdoSetVfVlan(n, vf, old, vlan, prio) ==
  LET m == IF vlan # 0 \/ prio THEN VlvfSet(n, vlan, vlan # 0, vf)
           ELSE VlvfSet(n, old, FALSE, vf)
  IN SetVmolr(SetVmvir(m, vlan, vf), vf, vlan = 0)

RxAddVid(n, vid) == VftaSet(VlvfSet(n, vid, TRUE, Pf), vid, TRUE)
\* "if vid was not present in VLVF just remove it from table": err is always 0
RxKillVid(n, vid) == VlvfSet(n, vid, FALSE, Pf)

\* RxAddVid for all of `vlans', the lowest first: those get the room that is left
RestoreVlan(n, vlans) ==
  LET missing == vlans \ DOMAIN n.vlvf
      Before(v) == Cardinality(DOMAIN n.vlvf) + Cardinality({w \in missing : w < v})
      entered == {v \in missing : Before(v) < VlvfSize}
  IN [n EXCEPT !.vlvf = [v \in DOMAIN @ \union entered |->
                           IF v \in entered THEN {Pf}
                           ELSE @[v] \union (IF v \in vlans THEN {Pf} ELSE {})],
               !.vfta = @ \union vlans]

(***************************************************************************)
(* Addresses.  The entries of the VFs are at the end of the table.         *)
(***************************************************************************)
VfRar(vf) == RarCount - (vf + 1)
RarSetQsel(n, mac, index, p) == [n EXCEPT !.rar[index] = [mac |-> mac, pool |-> p]]

\* Mutant of UcEntries: one entry too many
UcEntriesToEnd == RarCount - Pf

\* Where secondary addresses go, from the last entry down to entry 1
UcEntries == RarCount - (Pf + 1)

WriteUcAddrList(n, count) ==
  IF count > UcEntries THEN n
  ELSE [n EXCEPT !.rar = [i \in DOMAIN @ |->
          IF i = 0 \/ i > UcEntries THEN @[i]
          ELSE IF i > UcEntries - count THEN [mac |-> "uc", pool |-> Pf] ELSE Clear]]

MtaSet(n, mc) == [n EXCEPT !.mta = @ \union (mc \ Many)]

\* IGB_VF_FLAG_MULTI_PROMISC is never set, so that it is not asked for here
VfModes(n, d) ==
  [n EXCEPT !.vmolr = [p \in Pools |->
     IF p = Pf THEN @[p]
     ELSE [@[p] EXCEPT !.mpme = d[p].mc = Many, !.rompe = d[p].mc \notin {Many, {}}]]]

\* Mutant of RestoreVfMulticasts: the table is left as the PF has written it
RestoreVfModes(n, d) == VfModes(n, d)

RestoreVfMulticasts(n, d) == MtaSet(VfModes(n, d), UNION {d[vf].mc : vf \in VFs})

\* The whole table is replaced.  Without memory for the list nothing is written.
UpdateMcAddrList(n, mc) == [n EXCEPT !.mta = mc]
WriteMcAddrList(n, mc, mem) == IF mem \/ mc = {} THEN UpdateMcAddrList(n, mc) ELSE n

SetRxMode(n, p, d, mem) ==
  LET listed == p.mode = "listed" /\ (mem \/ p.mc = {})
      o == IF p.mode = "listed" THEN WriteMcAddrList(n, p.mc, mem) ELSE n
      m == [o EXCEPT !.vmolr[Pf].mpme = ~listed, !.vmolr[Pf].rompe = listed /\ p.mc # {}]
  IN RestoreVfMulticasts(IF p.mode = "promisc" THEN m ELSE WriteUcAddrList(m, p.uc), d)

(***************************************************************************)
(* The NIC is reset and set up.                                            *)
(***************************************************************************)
NoModes == [aupe |-> FALSE, rompe |-> FALSE, mpme |-> FALSE]

InitRxAddrs == [i \in 0..(RarCount - 1) |-> IF i = 0 THEN [mac |-> "pf", pool |-> 0] ELSE Clear]

\* mac.ops.init_hw, after a reset of the NIC has cleared the other registers
ResetRegisters ==
  [vlvf |-> [v \in {} |-> {}], vfta |-> {}, mta |-> {}, enabled |-> {}, rar |-> InitRxAddrs,
   vmolr |-> [p \in Pools |-> NoModes], vmvir |-> [vf \in VFs |-> 0]]

Configured(n, p, d, mem) ==
  SetVmolr(RarSetQsel(RestoreVlan(SetRxMode(n, p, d, mem), p.vlans), "pf", 0, Pf), Pf, TRUE)

(***************************************************************************)
(* Messages.  The guest asks, the PF answers or speaks up by itself.       *)
(***************************************************************************)
About(s, requests) == IF s \in subject THEN requests ELSE {}

GuestRequests ==
  {<<"reset">>} \union About("mac", {<<"mac", m>> : m \in Macs})
    \union About("multicast", {<<"multicast", mc>> : mc \in {Many} \union SUBSET Hashes}
                             \union {<<"promisc", on>> : on \in BOOLEAN})
    \union About("vlan", {<<"vlan", vid, add>> : vid \in Vids, add \in BOOLEAN})

Asks(r) == [from |-> "guest", req |-> r]
Answer(r, ok, cts, mac) == [from |-> "pf", req |-> r, ok |-> ok, cts |-> cts, mac |-> mac]
Off == [st |-> "off", mac |-> "none", req |-> <<>>]
Control(cts) == Answer(<<"control">>, TRUE, cts, "none")
\* What igb_check_for_msg(), igb_check_for_ack() and igb_check_for_rst() find
Asked(vf) == box[vf].from = "guest"
Acked(vf) == vf \in acks
WasReset(vf) == vf \in rst
Told(vf) == box[vf].from = "pf"

\* igb_ping_all_vfs: the message replaces what is in the mailbox, unless the guest is
\* just putting a request there and igb_obtain_mbx_lock_pf() fails
PingAllVfs(d) ==
  \E busy \in SUBSET {vf \in VFs : Asked(vf)} :
    /\ box' = [vf \in VFs |-> IF vf \in busy THEN box[vf] ELSE Control(d[vf].cts)]
    /\ acks' = acks \intersect busy

(***************************************************************************)
(* igb_probe(): igb_probe_vfs() draws the addresses, igb_reset(); the      *)
(* guests come later.                                                      *)
(***************************************************************************)
VfInit ==
  /\ nic = ResetRegisters
  /\ pf = [up |-> FALSE, vlans |-> {}, mc |-> {}, uc |-> 0, mode |-> "listed"]
  /\ vfd \in [VFs -> [cts : {FALSE}, mac : Macs, mc : {{}}, pfVlan : {0}, pfMac : {FALSE}]]
  /\ task = Resting
  /\ rst = {}
  /\ box = [vf \in VFs |-> Control(FALSE)]
  /\ acks = {}
  /\ guest = [vf \in VFs |-> Off]
  /\ moved = {}
  /\ subject \in Subjects

(***************************************************************************)
(* The stack, the administrator and resets.                                *)
(***************************************************************************)
\* igb_down() and the reset in it: VFs lose their clearance and are told
PfDown ==
  LET d == [vf \in VFs |-> [vfd[vf] EXCEPT !.cts = FALSE, !.pfMac = FALSE]] IN
  /\ pf.up /\ task = Resting
  /\ vfd' = d
  /\ PingAllVfs(d)
  /\ nic' = ResetRegisters
  /\ pf' = [pf EXCEPT !.up = FALSE]
  /\ UNCHANGED <<task, rst, guest, moved>>

\* igb_configure(), from igb_open() or igb_up()
PfUp ==
  /\ ~pf.up
  /\ \E mem \in BOOLEAN : nic' = Configured(nic, pf, vfd, mem)
  /\ pf' = [pf EXCEPT !.up = TRUE]
  /\ UNCHANGED <<vfd, task, rst, box, acks, guest, moved>>

\* The stack has changed the lists of addresses or the flags of the net device
ChangeRxMode ==
  \E mc \in SUBSET Hashes, uc \in 0..MaxUc, mode \in Modes, mem \in BOOLEAN :
    /\ "mac" \notin subject => uc = pf.uc
    /\ "multicast" \notin subject => mc = pf.mc /\ mode = pf.mode
    /\ pf' = [pf EXCEPT !.mc = mc, !.uc = uc, !.mode = mode]
    /\ nic' = SetRxMode(nic, pf', vfd, mem)
    /\ UNCHANGED <<vfd, task, rst, box, acks, guest, moved>>

ChangeVlans(vid) ==
  /\ "vlan" \in subject
  /\ \/ vid \notin pf.vlans /\ nic' = RxAddVid(nic, vid)
                            /\ pf' = [pf EXCEPT !.vlans = @ \union {vid}]
     \/ vid \in pf.vlans /\ nic' = RxKillVid(nic, vid)
                         /\ pf' = [pf EXCEPT !.vlans = @ \ {vid}]
  /\ UNCHANGED <<vfd, task, rst, box, acks, guest, moved>>

\* igb_ndo_set_vf_mac
AdminSetsMac(vf, mac) ==
  /\ "mac" \in subject
  /\ vfd' = [vfd EXCEPT ![vf].mac = mac, ![vf].pfMac = TRUE]
  /\ nic' = RarSetQsel(nic, mac, VfRar(vf), vf)
  /\ moved' = moved \union {vf}
  /\ UNCHANGED <<pf, task, rst, box, acks, guest>>

\* igb_ndo_set_vf_vlan
AdminSetsVlan(vf, vlan, prio) ==
  /\ "vlan" \in subject
  /\ nic' = NdoSetVfVlan(nic, vf, vfd[vf].pfVlan, vlan, prio)
  /\ vfd' = [vfd EXCEPT ![vf].pfVlan = vlan]
  /\ UNCHANGED <<pf, task, rst, box, acks, guest, moved>>

\* igb_watchdog_task(), when the link has come or gone
LinkChanged ==
  /\ pf.up
  /\ PingAllVfs(vfd)
  /\ UNCHANGED <<nic, pf, vfd, task, rst, guest, moved>>

(***************************************************************************)
(* igb_msg_task(), in the interrupt: for every VF resets, messages, acks.  *)
(***************************************************************************)
MsgTask ==
  /\ pf.up /\ task = Resting
  /\ task' = <<0, "rst">>
  /\ UNCHANGED <<nic, pf, vfd, rst, box, acks, guest, moved>>

Check(vf, what) == task = <<vf, what>>
NextVf(vf) == <<vf + 1, "rst">>

Forget(d, vf, mac) == [d EXCEPT ![vf].mac = mac, ![vf].mc = {}, ![vf].pfMac = FALSE]

\* Mutant of VfReset: the VLANs that the VF had are not given up
VfResetKeepsVlans(d, vf, mem) ==
  LET m == SetVmolr(nic, vf, TRUE)
      vlan == d[vf].pfVlan
  IN SetRxMode(IF vlan # 0 THEN NdoSetVfVlan(m, vf, vlan, vlan, FALSE) ELSE m, pf, d, mem)

\* igb_vf_reset, of the registers
VfReset(d, vf, mem) ==
  LET m == ClearVfVfta(SetVmolr(nic, vf, TRUE), vf)
      vlan == d[vf].pfVlan
      o == IF vlan # 0 THEN NdoSetVfVlan(m, vf, vlan, vlan, FALSE) ELSE ClearVfVfta(m, vf)
  IN SetRxMode(o, pf, d, mem)

\* igb_vf_reset_event
CheckRst(vf) ==
  /\ Check(vf, "rst")
  /\ task' = <<vf, "msg">>
  /\ rst' = rst \ {vf}
  /\ IF ~WasReset(vf) THEN UNCHANGED <<nic, vfd>>
     ELSE \E mac \in IF vfd[vf].pfMac THEN {vfd[vf].mac} ELSE Macs, mem \in BOOLEAN :
            /\ vfd' = Forget(vfd, vf, mac)
            /\ nic' = VfReset(vfd', vf, mem)
  /\ UNCHANGED <<pf, box, acks, guest, moved>>

\* A request was read, and no answer is written
NoReply(vf) == box' = [box EXCEPT ![vf] = Nothing] /\ UNCHANGED acks

\* igb_write_mbx: requests and acks are flushed.  igb_obtain_mbx_lock_pf() fails, and
\* nobody looks, when the guest has given up and holds the mailbox.
WriteMbx(vf, message) == box' = [box EXCEPT ![vf] = message] /\ acks' = acks \ {vf}
Reply(vf, message) == WriteMbx(vf, message) \/ NoReply(vf)

VfResetMsg(vf) ==
  \E mem \in BOOLEAN :
    LET d == Forget(vfd, vf, vfd[vf].mac)
        n == RarSetQsel(VfReset(d, vf, mem), d[vf].mac, VfRar(vf), vf)
    IN /\ vfd' = [d EXCEPT ![vf].cts = TRUE]
       /\ nic' = [n EXCEPT !.enabled = @ \union {vf}]
       /\ Reply(vf, Answer(<<"reset">>, TRUE, FALSE, d[vf].mac))
       /\ moved' = moved \ {vf}

\* The request cannot be read, since the guest has given up and holds the mailbox, or
\* the VF is not clear to send: a NACK, or nothing within two seconds of the last one
Refuse(vf) ==
  /\ vfd' = [vfd EXCEPT ![vf].cts = FALSE]
  /\ Reply(vf, Answer(box[vf].req, FALSE, FALSE, "none"))
  /\ UNCHANGED <<nic, moved>>

SetVfMac(vf, mac) ==
  /\ vfd' = [vfd EXCEPT ![vf].mac = mac]
  /\ nic' = RarSetQsel(nic, mac, VfRar(vf), vf)

SetVfMulticasts(vf, mc) ==
  /\ vfd' = [vfd EXCEPT ![vf].mc = mc]
  /\ \E mem \in BOOLEAN : nic' = SetRxMode(nic, pf, vfd', mem)

\* "flags |= ~(...)" sets all other flags, IGB_VF_FLAG_PF_SET_MAC among them
SetVfPromisc(vf, on) ==
  LET mc == vfd[vf].mc IN
  /\ vfd' = [vfd EXCEPT ![vf].pfMac = TRUE]
  /\ nic' = [MtaSet(nic, IF on THEN {} ELSE mc) EXCEPT
                        !.vmolr[vf].mpme = on \/ mc = Many,
                        !.vmolr[vf].rompe = ~on /\ mc \notin {Many, {}}]

SetVfVlan(vf, vid, add) ==
  /\ nic' = VlvfSet(nic, vid, add, vf)
  /\ UNCHANGED vfd

\* The VF may not choose VLANs when the administrator has
Handle(vf, r) ==
  LET granted == ~(r[1] = "vlan" /\ vfd[vf].pfVlan # 0) IN
  /\ \/ r[1] = "mac" /\ SetVfMac(vf, r[2])
     \/ r[1] = "multicast" /\ SetVfMulticasts(vf, r[2])
     \/ r[1] = "promisc" /\ SetVfPromisc(vf, r[2])
     \/ r[1] = "vlan" /\ granted /\ SetVfVlan(vf, r[2], r[3])
     \/ ~granted /\ UNCHANGED <<nic, vfd>>
  /\ Reply(vf, Answer(r, granted, TRUE, "none"))
  /\ UNCHANGED moved

\* igb_rcv_msg_from_vf
RcvMsg(vf) ==
  /\ Check(vf, "msg")
  /\ task' = <<vf, "ack">>
  /\ IF ~Asked(vf) THEN UNCHANGED <<nic, vfd, box, acks, moved>>
     ELSE LET r == box[vf].req IN
          \/ Refuse(vf)
          \/ r[1] = "reset" /\ VfResetMsg(vf)
          \/ r[1] # "reset" /\ vfd[vf].cts /\ Handle(vf, r)
  /\ UNCHANGED <<pf, rst, guest>>

\* igb_rcv_ack_from_vf
RcvAck(vf) ==
  /\ Check(vf, "ack")
  /\ task' = NextVf(vf)
  /\ \/ Acked(vf) /\ ~vfd[vf].cts /\ Reply(vf, Answer(<<"none">>, FALSE, FALSE, "none"))
     \/ acks' = acks \ {vf} /\ UNCHANGED box
  /\ UNCHANGED <<nic, pf, vfd, rst, guest, moved>>

(***************************************************************************)
(* The driver in the guest, which is not part of this repository: it asks  *)
(* one thing at a time, waits for the answer or gives up, and starts anew  *)
(* when it is told that it is no longer clear to send.                     *)
(***************************************************************************)
GuestResets(vf) ==
  /\ rst' = rst \union {vf}
  /\ guest' = [guest EXCEPT ![vf] = Off]
  /\ box' = [box EXCEPT ![vf] = Nothing]
  /\ UNCHANGED <<nic, pf, vfd, task, acks, moved>>

GuestAsks(vf, r) ==
  /\ guest[vf].st = (IF r = <<"reset">> THEN "off" ELSE "ready")
  /\ guest' = [guest EXCEPT ![vf].st = "wait", ![vf].req = r]
  /\ box' = [box EXCEPT ![vf] = Asks(r)]
  /\ UNCHANGED <<nic, pf, vfd, task, rst, acks, moved>>

GuestGivesUp(vf) ==
  /\ guest[vf].st = "wait"
  /\ guest' = [guest EXCEPT ![vf] = Off]
  /\ UNCHANGED <<nic, pf, vfd, task, rst, box, acks, moved>>

\* What the guest knows after message m
Informed(g, m) ==
  LET answered == g.st = "wait" /\ g.req = m.req
      ready(mac) == [st |-> "ready", mac |-> mac, req |-> <<>>]
  IN IF answered /\ m.ok /\ m.req = <<"reset">> THEN ready(m.mac)
     ELSE IF answered /\ m.ok /\ m.req[1] = "mac" THEN ready(m.req[2])
     ELSE IF answered /\ m.cts THEN ready(g.mac)
     ELSE IF m.cts \/ g.req = <<"reset">> THEN g ELSE Off

GuestTakes(vf) ==
  /\ Told(vf)
  /\ guest' = [guest EXCEPT ![vf] = Informed(@, box[vf])]
  /\ box' = [box EXCEPT ![vf] = Nothing]
  /\ acks' = acks \union {vf}
  /\ UNCHANGED <<nic, pf, vfd, task, rst, moved>>

-----------------------------------------------------------------------------
VfNext ==
  \/ PfDown \/ PfUp \/ ChangeRxMode \/ LinkChanged \/ MsgTask
  \/ \E vid \in Vids : ChangeVlans(vid)
  \/ \E vf \in VFs :
       \/ \E mac \in Macs : AdminSetsMac(vf, mac)
       \/ \E vlan \in Vids, prio \in BOOLEAN : AdminSetsVlan(vf, vlan, prio)
       \/ CheckRst(vf) \/ RcvMsg(vf) \/ RcvAck(vf)
       \/ GuestResets(vf) \/ GuestGivesUp(vf) \/ GuestTakes(vf)
       \/ \E r \in GuestRequests : GuestAsks(vf, r)

VfSpec == VfInit /\ [][VfNext /\ UNCHANGED subject]_vfVars

-----------------------------------------------------------------------------
Entries(n, vf) == {v \in DOMAIN n.vlvf : vf \in n.vlvf[v]}

\* A VLAN that some pool is registered for passes the filter of the NIC, whoever joins
\* or leaves it, and whenever the NIC or a VF is reset.  (VLAN 0 does not:
\* igb_clear_vf_vfta() takes its filter away with any entry that becomes empty.)
FilterKept == \A v \in DOMAIN nic.vlvf \ {0} : v \in nic.vfta

\* A guest that starts is in the VLAN that the administrator has given it and in no
\* other, and as long as it is clear to send, that VLAN is what its frames are tagged
\* with and untagged ones do not reach it.
VlanIsolated ==
  /\ [](\A vf \in VFs : vfd[vf].cts /\ vfd[vf].pfVlan # 0 =>
          nic.vmvir[vf] = vfd[vf].pfVlan /\ ~nic.vmolr[vf].aupe)
  /\ [][\A vf \in VFs : (vfd'[vf].cts /\ ~vfd[vf].cts) =>
          Entries(nic', vf) \subseteq {vfd'[vf].pfVlan}]_vfVars

\* What a VF wants to hear reaches it, however often the PF, other VFs and resets
\* write the tables that all of them share.
HashesHeard ==
  pf.up => \A vf \in VFs :
    \/ nic.vmolr[vf].mpme
    \/ vfd[vf].mc = {}
    \/ vfd[vf].mc # Many /\ nic.vmolr[vf].rompe /\ vfd[vf].mc \subseteq nic.mta

\* A guest that works and is clear to send receives what is sent to the address it was
\* told, unless the administrator has changed it since: "a collision should not be
\* possible" with the addresses of the PF.
HearsOwnMac ==
  \A vf \in VFs : guest[vf].st = "ready" /\ vfd[vf].cts /\ vf \notin moved =>
    /\ nic.rar[VfRar(vf)] = [mac |-> guest[vf].mac, pool |-> vf]
    /\ vf \in nic.enabled
=============================================================================
