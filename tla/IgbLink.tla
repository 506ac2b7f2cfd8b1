-------------------------------- MODULE IgbLink --------------------------------
(****************************************************************************)
(* The link of one port in the driver, modules/igb: igb_main.c and          *)
(* igb_ethtool.c ask for it, e1000_82575.c, e1000_mac.c and e1000_phy.c set *)
(* it up and look after it.  The registers of the PHY, and the EEPROM, are  *)
(* shared with the firmware: who wants one marks it in SW_FW_SYNC, uses it, *)
(* and removes the mark.  SW_FW_SYNC is read and written under two          *)
(* semaphores, so that marking is one step; what is read or written under   *)
(* the mark is one more, which ends with its removal.                       *)
(*                                                                          *)
(* A call is a sequence of steps, `todo'; those in Accesses are such turns, *)
(* those in Always are taken whatever has failed before: "watchdog" is      *)
(* igb_watchdog_task(), "user" whoever holds the rtnl lock and resets the   *)
(* NIC, changes its flow control, asks for the link, reads a register or    *)
(* writes the EEPROM.  Several reads and writes whose results the link does *)
(* not depend on are one access; igb_check_downshift(), whose failure does  *)
(* not matter, is left out.                                                 *)
(*                                                                          *)
(* Modes of flow control are sets: e1000_fc_none is {}, e1000_fc_rx_pause   *)
(* {"rx"}, e1000_fc_full {"rx", "tx"}.  The link is copper, without SGMII;  *)
(* speeds are left out, the duplex mode is not.                             *)
(****************************************************************************)
EXTENDS Naturals, Sequences

CONSTANTS
  PhyType,    \* the PHY of the NIC: hw->phy.type
  NvmPause,   \* the mode that word 0x0F of the EEPROM asks for
  Requests,   \* modes that users ask for
  Partners    \* what link partners advertise: records of `pause' and `full'

VARIABLES
  call,     \* for every thread, the call it makes, see CallType
  sync,     \* SW_FW_SYNC: what is marked, and by whom
  phy,      \* the PHY and the partner, see PhyState
  mac,      \* struct e1000_hw and the NIC's registers, see MacType
  dev,      \* what the net device and the watchdog know, see DevType
  missed    \* history: the flow control of this link could not be settled

vars == <<call, sync, phy, mac, dev, missed>>

Threads == {"watchdog", "user"}
Pauses == SUBSET {"rx", "tx"}
Full == {"rx", "tx"}
Default == {"default"}      \* e1000_fc_default
Abilities == SUBSET {"pause", "asm"}
Resources == {"phy", "nvm"}
Marks == Resources \X {"sw", "fw"}

ASSUME PhyAssumption == PhyType \in {"m88", "igp_3", "82580"}
ASSUME PauseAssumption ==
  NvmPause \in {{}, {"tx"}, Full} /\ Requests \subseteq Pauses
ASSUME PartnerAssumption ==
  Partners # {} /\ Partners \subseteq [pause : Abilities, full : BOOLEAN]

Accesses ==
  {"phy_reset", "soft_reset", "config", "advertise", "restart", "force_phy",
   "status", "complete", "abilities", "info", "mii", "nvm"}
Always == {"info", "up", "report", "end"}
Steps == Accesses \union Always \union {"down", "reset", "reset_blocked", "note", "force"}

CallType == [todo : Seq(Steps), in : BOOLEAN]   \* `in': it has marked what it uses

PhyState ==
  [auto : BOOLEAN,              \* MII_CR_AUTO_NEG_EN
   adv : Abilities,             \* PHY_AUTONEG_ADV
   lp : Partners,               \* PHY_LP_ABILITY, and the duplex mode
   link : BOOLEAN]              \* MII_SR_LINK_STATUS

MacType ==
  [auto : BOOLEAN,                       \* mac.autoneg
   requested : Pauses \union {Default},  \* fc.requested_mode
   current : Pauses \union {Default},    \* fc.current_mode
   fc : Pauses,                          \* CTRL.RFCE and CTRL.TFCE
   getlink : BOOLEAN,                    \* mac.get_link_status
   lsc : BOOLEAN]                        \* ICR.LSC

DevType ==
  [down : BOOLEAN,       \* __IGB_DOWN
   queued : BOOLEAN,     \* watchdog_timer or watchdog_task is pending
   carrier : BOOLEAN]    \* netif_carrier_ok()

Idle(t) == call[t].todo = <<>>
At(t, step) == ~Idle(t) /\ Head(call[t].todo) = step
Accessing(t) == ~Idle(t) /\ Head(call[t].todo) \in Accesses
Missed(t) == missed \/ Head(call[t].todo) \notin {"info", "mii", "nvm"}
Wants(t) == IF At(t, "nvm") THEN "nvm" ELSE "phy"

Begin(t, steps) == call' = [call EXCEPT ![t] = [todo |-> steps, in |-> FALSE]]
Done(t) == Begin(t, Tail(call[t].todo))
Expand(t, steps) == Begin(t, steps \o Tail(call[t].todo))

\* Nothing is done before the first step that is always taken
GiveUp(t) ==
  LET todo == call[t].todo IN
  \E n \in 2..(Len(todo) + 1) :
    /\ \A k \in 2..(n - 1) : todo[k] \notin Always
    /\ n <= Len(todo) => todo[n] \in Always
    /\ Begin(t, SubSeq(todo, n, Len(todo)))

(****************************************************************************)
(* The pauses.                                                              *)
(****************************************************************************)
\* igb_phy_setup_autoneg(): receiving alone cannot be advertised
Advertised(mode) ==
  IF "rx" \in mode THEN {"pause", "asm"} ELSE IF "tx" \in mode THEN {"asm"} ELSE {}

\* igb_config_fc_after_link_up()
Resolved(adv, lp, requested) ==
  CASE "pause" \in adv /\ "pause" \in lp -> IF requested = Full THEN Full ELSE {"rx"}
    [] adv = {"asm"} /\ lp = {"pause", "asm"} -> {"tx"}
    [] adv = {"pause", "asm"} /\ lp = {"asm"} -> {"rx"}
    [] OTHER -> IF requested \in {{}, {"tx"}} THEN {} ELSE {"rx"}

\* IEEE 802.3: whether one who advertises `own' heeds the pauses of one who
\* advertises `other'
Heeds(own, other) ==
  \/ "pause" \in own /\ "pause" \in other
  \/ own = {"pause", "asm"} /\ other = {"asm"}

(****************************************************************************)
(* The calls.                                                               *)
(****************************************************************************)
\* Mutant of ConfigFc: what was negotiated is not forced
ConfigFcEarly(auto) ==
  <<"force">> \o (IF auto THEN <<"complete", "abilities">> ELSE <<>>)

\* igb_config_fc_after_link_up(), without and with autonegotiation
ConfigFc(auto) ==
  <<"force">> \o (IF auto THEN <<"complete", "abilities", "force">> ELSE <<>>)

\* igb_copper_link_setup_m88(), _igp() and _82580()
SetupM88 == <<"config", "soft_reset">>
SetupIgp == <<"phy_reset", "config">>
Setup82580 == <<"phy_reset", "config">>

SetupPhy ==
  CASE PhyType = "m88" -> SetupM88
    [] PhyType = "igp_3" -> SetupIgp
    [] PhyType = "82580" -> Setup82580

\* igb_phy_force_speed_duplex_m88(), _igp() and _82580()
ForceM88 == <<"config", "force_phy", "soft_reset", "config">>
ForceIgp == <<"force_phy", "config">>
Force82580 == <<"force_phy", "config">>

ForcePhy ==
  CASE PhyType = "m88" -> ForceM88
    [] PhyType = "igp_3" -> ForceIgp
    [] PhyType = "82580" -> Force82580

\* igb_setup_copper_link_82575(), igb_setup_copper_link()
SetupLink(auto) ==
  SetupPhy \o (IF auto THEN <<"advertise", "restart">> ELSE ForcePhy)
    \o <<"status">> \o ConfigFc(auto)

\* igb_down(), igb_reset(), igb_up().  During a SoL or IDER session the
\* firmware forbids that the PHY is reset, and the link is left as it is.
Reinit(auto, blocked) ==
  <<"down">> \o (IF blocked THEN <<"reset_blocked">> ELSE <<"reset">> \o SetupLink(auto))
    \o <<"info", "up">>

\* igb_has_link(), igb_check_for_copper_link()
HasLink(getlink) == IF getlink THEN <<"status", "note">> ELSE <<>>

Init ==
  /\ call = [t \in Threads |-> [todo |-> <<>>, in |-> FALSE]]
  /\ sync = {}
  /\ \E p \in Partners : phy = [auto |-> TRUE, adv |-> {}, lp |-> p, link |-> FALSE]
  /\ mac = [auto |-> TRUE, requested |-> Default, current |-> Default, fc |-> {},
            getlink |-> FALSE, lsc |-> FALSE]
  /\ dev = [down |-> TRUE, queued |-> FALSE, carrier |-> FALSE]
  /\ missed = FALSE

(****************************************************************************)
(* igb_acquire_swfw_sync_82575(): who waits for a semaphore, or for what is *)
(* marked by another, may time out.  igb_release_swfw_sync_82575() does not *)
(* give up.                                                                 *)
(****************************************************************************)
\* Mutant of Acquire: only the marks of software are looked at
AcquireFromSw(t) ==
  /\ Accessing(t) /\ ~call[t].in
  /\ \/ /\ <<Wants(t), "sw">> \notin sync
        /\ sync' = sync \union {<<Wants(t), "sw">>}
        /\ call' = [call EXCEPT ![t].in = TRUE]
        /\ missed' = missed
     \/ GiveUp(t) /\ sync' = sync /\ missed' = Missed(t)
  /\ UNCHANGED <<phy, mac, dev>>

Acquire(t) ==
  /\ Accessing(t) /\ ~call[t].in
  /\ \/ /\ {<<Wants(t), "sw">>, <<Wants(t), "fw">>} \cap sync = {}
        /\ sync' = sync \union {<<Wants(t), "sw">>}
        /\ call' = [call EXCEPT ![t].in = TRUE]
        /\ missed' = missed
     \/ GiveUp(t) /\ sync' = sync /\ missed' = Missed(t)
  /\ UNCHANGED <<phy, mac, dev>>

Released(t) == sync' = sync \ {<<Wants(t), "sw">>}

(****************************************************************************)
(* What is done while the mark is set.  The MDI and the EEPROM report       *)
(* errors of their own.                                                     *)
(****************************************************************************)
In(t, step) == call[t].in /\ At(t, step)
Ends(t) == Done(t) /\ Released(t)

\* Mutant of UseFails: igb_read_phy_reg_igp() forgets to release
UseFailsMarked(t) ==
  /\ call[t].in
  /\ GiveUp(t) /\ sync' = sync /\ missed' = Missed(t)
  /\ UNCHANGED <<phy, mac, dev>>

UseFails(t) ==
  /\ call[t].in
  /\ GiveUp(t) /\ Released(t) /\ missed' = Missed(t)
  /\ UNCHANGED <<phy, mac, dev>>

\* igb_phy_hw_reset(), igb_phy_sw_reset(): the link is lost
PhyReset(t) ==
  /\ call[t].in /\ Head(call[t].todo) \in {"phy_reset", "soft_reset"}
  /\ Ends(t)
  /\ phy' = [phy EXCEPT !.link = FALSE, !.adv = IF At(t, "phy_reset") THEN {} ELSE @]
  /\ mac' = [mac EXCEPT !.lsc = @ \/ phy.link]
  /\ UNCHANGED <<dev, missed>>

\* Registers that the link does not depend on
UseQuietly(t) ==
  /\ call[t].in /\ Head(call[t].todo) \in {"config", "info", "mii", "nvm"}
  /\ Ends(t)
  /\ UNCHANGED <<phy, mac, dev, missed>>

Advertise(t) ==
  /\ In(t, "advertise") /\ mac.current # Default
  /\ Ends(t)
  /\ phy' = [phy EXCEPT !.adv = Advertised(mac.current)]
  /\ UNCHANGED <<mac, dev, missed>>

\* igb_copper_link_autoneg()
Restart(t) ==
  /\ In(t, "restart")
  /\ Ends(t)
  /\ phy' = [phy EXCEPT !.link = FALSE, !.auto = TRUE]
  /\ mac' = [mac EXCEPT !.getlink = TRUE, !.lsc = @ \/ phy.link]
  /\ UNCHANGED <<dev, missed>>

\* igb_phy_force_speed_duplex_setup() turns flow control off
ForceSpeed(t) ==
  /\ In(t, "force_phy")
  /\ Ends(t)
  /\ phy' = [phy EXCEPT !.link = FALSE, !.auto = FALSE]
  /\ mac' = [mac EXCEPT !.current = {}, !.lsc = @ \/ phy.link]
  /\ UNCHANGED <<dev, missed>>

\* igb_phy_has_link(), MII_SR_AUTONEG_COMPLETE: without a link that is all
ReadStatus(t) ==
  /\ call[t].in /\ Head(call[t].todo) \in {"status", "complete"}
  /\ Released(t)
  /\ IF phy.link /\ (At(t, "complete") => phy.auto) THEN Done(t) ELSE GiveUp(t)
  /\ UNCHANGED <<phy, mac, dev, missed>>

ReadAbilities(t) ==
  /\ In(t, "abilities")
  /\ Ends(t)
  /\ mac' = [mac EXCEPT !.current =
               IF phy.lp.full THEN Resolved(phy.adv, phy.lp.pause, mac.requested) ELSE {}]
  /\ UNCHANGED <<phy, dev, missed>>

(****************************************************************************)
(* The steps between.                                                       *)
(****************************************************************************)
\* igb_down().  A queued work item is not cancelled.
Down(t) ==
  /\ At(t, "down")
  /\ \E queued \in {FALSE, dev.queued} :
       dev' = [down |-> TRUE, queued |-> queued, carrier |-> FALSE]
  /\ Done(t)
  /\ UNCHANGED <<sync, phy, mac, missed>>

\* igb_reset(), igb_setup_link(): CTRL.RST clears what was forced; what the
\* EEPROM asks for may be unreadable
ResetTo(mode) ==
  mac' = [mac EXCEPT !.fc = {}, !.lsc = FALSE, !.requested = mode, !.current = mode]

ResetMac(t) ==
  /\ At(t, "reset")
  /\ \/ mac.requested # Default /\ ResetTo(mac.requested) /\ Done(t)
     \/ mac.requested = Default /\ ResetTo(NvmPause) /\ Done(t)
     \/ mac.requested = Default /\ ResetTo(Default) /\ GiveUp(t)
  /\ UNCHANGED <<sync, phy, dev, missed>>

ResetBlocked(t) ==
  /\ At(t, "reset_blocked")
  /\ ResetTo(mac.requested) /\ Done(t)
  /\ UNCHANGED <<sync, phy, dev, missed>>

\* igb_check_for_copper_link() has seen the link
Note(t) ==
  /\ At(t, "note")
  /\ mac' = [mac EXCEPT !.getlink = FALSE]
  /\ Expand(t, IF mac.auto THEN ConfigFc(TRUE) ELSE <<>>)
  /\ UNCHANGED <<sync, phy, dev, missed>>

\* igb_force_mac_fc()
ForceMacFc(t) ==
  /\ At(t, "force")
  /\ IF mac.current = Default
     THEN GiveUp(t) /\ mac' = mac
     ELSE Done(t) /\ mac' = [mac EXCEPT !.fc = mac.current]
  /\ UNCHANGED <<sync, phy, dev, missed>>

\* igb_up(), igb_open()
Up(t) ==
  /\ At(t, "up")
  /\ mac' = [mac EXCEPT !.getlink = TRUE, !.lsc = FALSE]
  /\ dev' = [dev EXCEPT !.down = FALSE, !.queued = TRUE]
  /\ Done(t)
  /\ UNCHANGED <<sync, phy, missed>>

\* Mutant of Report: without a link nobody looks again
ReportOnce(t) ==
  /\ At(t, "report")
  /\ dev' = [dev EXCEPT !.carrier = ~mac.getlink, !.queued = @ \/ (~dev.down /\ ~mac.getlink)]
  /\ Done(t)
  /\ UNCHANGED <<sync, phy, mac, missed>>

\* igb_watchdog_task() tells the kernel, and arms its timer
Report(t) ==
  /\ At(t, "report")
  /\ dev' = [dev EXCEPT !.carrier = ~mac.getlink, !.queued = @ \/ ~dev.down]
  /\ Done(t)
  /\ UNCHANGED <<sync, phy, mac, missed>>

End(t) == At(t, "end") /\ Done(t) /\ UNCHANGED <<sync, phy, mac, dev, missed>>

(****************************************************************************)
(* Who calls.                                                               *)
(****************************************************************************)
\* igb_open(), igb_set_settings(), which does not while the link must be left
\* as it is, and igb_set_pauseparam() with autonegotiation
CallReinit ==
  /\ Idle("user")
  /\ \E auto, blocked \in BOOLEAN, mode \in {mac.requested, Default} :
       /\ blocked => auto = mac.auto
       /\ Begin("user", Reinit(auto, blocked))
       /\ mac' = [mac EXCEPT !.auto = auto, !.requested = mode]
  /\ UNCHANGED <<sync, phy, dev, missed>>

\* igb_set_pauseparam() without it: what the partner was told does not matter
CallPause ==
  /\ Idle("user")
  /\ \E mode \in Requests :
       mac' = [mac EXCEPT !.requested = mode, !.current = mode, !.fc = mode]
  /\ missed' = TRUE
  /\ UNCHANGED <<call, sync, phy, dev>>

\* igb_get_link()
CallGetLink ==
  /\ Idle("user")
  /\ LET getlink == mac.getlink \/ ~dev.carrier
     IN  /\ Begin("user", HasLink(getlink) \o <<"end">>)
         /\ mac' = [mac EXCEPT !.getlink = getlink]
  /\ UNCHANGED <<sync, phy, dev, missed>>

\* igb_mii_ioctl(), igb_set_eeprom()
CallAccess ==
  /\ Idle("user")
  /\ \E step \in {"mii", "nvm"} : Begin("user", <<step, "end">>)
  /\ UNCHANGED <<sync, phy, mac, dev, missed>>

WatchdogTask ==
  /\ Idle("watchdog") /\ dev.queued
  /\ Begin("watchdog", HasLink(mac.getlink) \o <<"report">>)
  /\ dev' = [dev EXCEPT !.queued = FALSE]
  /\ UNCHANGED <<sync, phy, mac, missed>>

\* igb_msix_other()
Interrupt ==
  /\ mac.lsc
  /\ mac' = [mac EXCEPT !.lsc = FALSE, !.getlink = TRUE]
  /\ dev' = [dev EXCEPT !.queued = @ \/ ~dev.down]
  /\ UNCHANGED <<call, sync, phy, missed>>

(****************************************************************************)
(* The cable and the firmware, which may use the PHY for itself.            *)
(****************************************************************************)
LinkComes ==
  /\ ~phy.link
  /\ \E p \in Partners : phy' = [phy EXCEPT !.link = TRUE, !.lp = p]
  /\ mac' = [mac EXCEPT !.lsc = TRUE]
  /\ missed' = FALSE
  /\ UNCHANGED <<call, sync, dev>>

LinkGoes ==
  /\ phy.link
  /\ phy' = [phy EXCEPT !.link = FALSE]
  /\ mac' = [mac EXCEPT !.lsc = TRUE]
  /\ UNCHANGED <<call, sync, dev, missed>>

Firmware ==
  /\ \/ <<"phy", "sw">> \notin sync /\ sync' = sync \union {<<"phy", "fw">>}
     \/ sync' = sync \ {<<"phy", "fw">>}
  /\ UNCHANGED <<call, phy, mac, dev, missed>>

Access(t) ==
  \/ Acquire(t) \/ UseFails(t) \/ PhyReset(t) \/ UseQuietly(t) \/ Advertise(t)
  \/ Restart(t) \/ ForceSpeed(t) \/ ReadStatus(t) \/ ReadAbilities(t)

Step(t) ==
  \/ Access(t) \/ Down(t) \/ ResetMac(t) \/ ResetBlocked(t) \/ Note(t) \/ ForceMacFc(t)
  \/ Up(t) \/ Report(t) \/ End(t)

Next ==
  \/ \E t \in Threads : Step(t)
  \/ CallReinit \/ CallPause \/ CallGetLink \/ CallAccess \/ WatchdogTask \/ Interrupt
  \/ LinkComes \/ LinkGoes \/ Firmware

Spec == Init /\ [][Next]_vars

(****************************************************************************)
(* Properties.                                                              *)
(****************************************************************************)
\* Every value is one the code gives it.
TypeOK ==
  /\ call \in [Threads -> CallType] /\ sync \subseteq Marks
  /\ phy \in PhyState /\ mac \in MacType /\ dev \in DevType /\ missed \in BOOLEAN

\* The PHY and the EEPROM are used by one at a time: two threads of the driver
\* do not interleave the several registers of an access, nor do they with the
\* firmware.
Exclusive ==
  /\ \A t \in Threads : call[t].in => <<Wants(t), "fw">> \notin sync
  /\ \A t, u \in Threads : call[t].in /\ call[u].in /\ Wants(t) = Wants(u) => t = u

\* A mark that is left in SW_FW_SYNC locks everybody out for ever: whatever
\* fails, who has ended has removed it.
Returned ==
  \A res \in Resources :
    <<res, "sw">> \in sync => \E t \in Threads : call[t].in /\ Wants(t) = res

Settled ==
  /\ Idle("user") /\ Idle("watchdog") /\ ~mac.getlink /\ ~mac.lsc /\ ~missed
  /\ mac.auto /\ phy.auto /\ phy.link /\ ~dev.down

\* Once the watchdog has looked after a negotiated link the NIC sends pause
\* frames only to a partner that heeds them, and none on a half duplex link:
\* changes of settings, of the partner and of the link, each in the middle of
\* the other, leave nothing of an earlier negotiation.
PauseAgrees ==
  Settled => /\ "tx" \in mac.fc => phy.lp.full /\ Heeds(phy.lp.pause, phy.adv)
             /\ ~phy.lp.full => mac.fc = {}

\* A link that the kernel has not been told of is looked for: the watchdog
\* runs, or will.
LinkLooked ==
  phy.link /\ ~dev.down /\ Idle("user") /\ ~dev.carrier => dev.queued \/ ~Idle("watchdog")
================================================================================
