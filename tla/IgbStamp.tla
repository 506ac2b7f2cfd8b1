------------------------------ MODULE IgbStamp ------------------------------
(***************************************************************************)
(* Which packets the NIC puts a time stamp on: igb_hwtstamp_ioctl() of     *)
(* igb_main.c, as registers and as what it tells the caller.               *)
(*                                                                         *)
(* A packet of the precision time protocol has a version, is sent by UDP   *)
(* ("l4") or in an Ethernet frame of its own ("l2"), and is of some type;  *)
(* only some types are events.  Version 1 knows UDP only.                  *)
(***************************************************************************)
EXTENDS Integers

\* The NICs that have time stamps; the 82575 refuses
StampMacs == {"82576", "82580", "i350"}
Upscaled == {"v1_l4_event", "v2_l4_event", "v2_l2_event", "all"}
V1Filters == {"v1_l4_sync", "v1_l4_delay"}
V2Single == {"v2_l2_sync", "v2_l4_sync", "v2_l2_delay", "v2_l4_delay"}
V2Both == {"v2_event", "v2_sync", "v2_delay"}
\* HWTSTAMP_FILTER_SOME is for answers
Known == {"none"} \cup Upscaled \cup V1Filters \cup V2Single \cup V2Both
Filters == Known \cup {"some"}

SyncFilters == {"v1_l4_sync", "v2_l2_sync", "v2_l4_sync", "v2_sync"}
DelayFilters == {"v1_l4_delay", "v2_l2_delay", "v2_l4_delay", "v2_delay"}

Ptp == {p \in [version : {1, 2}, layer : {"l2", "l4"}, type : {"sync", "delay", "other", "general"}] :
          p.version = 1 => p.layer = "l4"}

\* TSYNCRXCTL.Type or "off", TSYNCRXCFG, and whether the filters for the Ethernet type and
\* for the UDP port are on
Rx(mac, filter) ==
  [type |->
     IF filter = "none" THEN "off"
     ELSE IF mac = "82580" \/ filter \in Upscaled THEN "all"
     ELSE IF filter \in V1Filters THEN "l4_v1"
     ELSE IF filter \in V2Single THEN "l2_l4_v2"
     ELSE "event_v2",
   message |->
     IF filter \notin V1Filters \cup V2Single THEN "sync"
     ELSE IF filter \in SyncFilters THEN "sync" ELSE "delay",
   l2 |-> filter \in V2Single \cup V2Both,
   l4 |-> filter \in V1Filters \cup V2Single]

\* config.rx_filter as it is returned
Answer(filter) ==
  IF filter \in Upscaled THEN "all"
  ELSE IF filter \in V2Single THEN "some"
  ELSE IF filter \in V2Both THEN "v2_event"
  ELSE filter

\* The value returned
Ret(mac, on, filter) ==
  IF filter \notin Known THEN "ERANGE"
  ELSE IF mac = "82575" /\ (on \/ filter # "none") THEN "EINVAL"
  ELSE "ok"

\* What the NIC makes of the registers
Stamped(rx) ==
  CASE rx.type = "off" -> {}
    [] rx.type = "all" -> Ptp
    [] OTHER ->
       {p \in Ptp : /\ IF p.layer = "l2" THEN rx.l2 ELSE rx.l4
                    /\ CASE rx.type = "l4_v1" -> p.version = 1 /\ p.type = rx.message
                         [] rx.type = "l2_l4_v2" -> p.version = 2 /\ p.type = rx.message
                         [] OTHER -> p.version = 2 /\ p.type # "general"}

\* What a filter stands for: linux/net_tstamp.h
Asked(filter) ==
  CASE filter = "none" -> {}
    [] filter = "all" -> Ptp
    [] OTHER ->
       {p \in Ptp :
          /\ p.version = (IF filter \in {"v1_l4_event"} \cup V1Filters THEN 1 ELSE 2)
          /\ filter \in {"v2_l2_event", "v2_l2_sync", "v2_l2_delay"} => p.layer = "l2"
          /\ filter \in {"v2_l4_event", "v2_l4_sync", "v2_l4_delay"} => p.layer = "l4"
          /\ IF filter \in SyncFilters THEN p.type = "sync"
             ELSE IF filter \in DelayFilters THEN p.type = "delay"
             ELSE p.type # "general"}
=============================================================================
