------------------------------- MODULE IgbWake -------------------------------
(***************************************************************************)
(* Wake on LAN: igb_set_wol() and igb_get_wol() of igb_ethtool.c, and what *)
(* igb_probe() and __igb_shutdown() of igb_main.c do about it.             *)
(*                                                                         *)
(* A NIC with four ports supports it on port A only.  The driver does not  *)
(* ask a port which it is: it counts the ports that it probes, of all such *)
(* NICs, from 0 to 3 and again.                                            *)
(***************************************************************************)
EXTENDS Integers

CONSTANTS
  Nic,       \* the ports, each a network device of its own
  Device,    \* Device[n]: one of Devices, by the device id
  Func       \* Func[n]: the function number, 0 for port A

Devices == {"quad_82575", "fiber", "quad_82576", "other"}

Events == {"ucast", "mcast", "bcast", "magic", "phy"}
Options == Events \cup {"arp", "secure"}

VARIABLES
  counter,      \* global_quad_port_a
  bound,        \* the ports that have been probed
  portA,        \* those with IGB_FLAG_QUAD_PORT_A
  eepromWol,    \* adapter->eeprom_wol
  wol,          \* adapter->wol
  armed         \* the register WUFC

wake == <<counter, bound, portA, eepromWol, wol, armed>>

WakeInit ==
  /\ counter = 0 /\ bound = {} /\ portA = {}
  /\ eepromWol = [n \in Nic |-> {}] /\ wol = [n \in Nic |-> {}]
  /\ armed \in [Nic -> SUBSET Events]

\* igb_wol_exclusion
Excluded(n) ==
  CASE Device[n] = "quad_82575" -> TRUE
    [] Device[n] = "fiber" -> Func[n] % 2 = 1
    [] Device[n] = "quad_82576" -> n \notin portA
    [] OTHER -> Func[n] # 0 /\ eepromWol[n] = {}

\* What the EEPROM says and where it may be wrong
EepromWol(n, apme) ==
  IF \/ ~apme \/ Device[n] = "quad_82575"
     \/ Device[n] = "fiber" /\ Func[n] % 2 = 1
     \/ Device[n] = "quad_82576" /\ counter # 0
  THEN {} ELSE {"magic"}

\* igb_probe, from where it knows the NIC; a port whose registration fails has been counted
Counted(n) ==
  counter' = IF Device[n] = "quad_82576" THEN (counter + 1) % 4 ELSE counter

ProbeWake(n, apme) ==
  /\ n \notin bound
  /\ Counted(n)
  /\ bound' = bound \cup {n}
  /\ portA' = IF Device[n] = "quad_82576" /\ counter = 0 THEN portA \cup {n} ELSE portA
  /\ eepromWol' = [eepromWol EXCEPT ![n] = EepromWol(n, apme)]
  /\ wol' = [wol EXCEPT ![n] = EepromWol(n, apme)]
  /\ UNCHANGED armed

RegisterFails(n) ==
  /\ n \notin bound /\ Counted(n)
  /\ UNCHANGED <<bound, portA, eepromWol, wol, armed>>

\* igb_remove frees the adapter
RemoveWake(n) ==
  /\ n \in bound
  /\ bound' = bound \ {n} /\ portA' = portA \ {n}
  /\ eepromWol' = [eepromWol EXCEPT ![n] = {}] /\ wol' = [wol EXCEPT ![n] = {}]
  /\ UNCHANGED <<counter, armed>>

\* igb_get_wol; capable is whether the device can wake the system
GetWol(n, capable) == IF Excluded(n) \/ ~capable THEN {} ELSE wol[n]

\* igb_set_wol, when it returns 0
SetWol(n, opts, capable) ==
  /\ n \in bound /\ opts \subseteq Events
  /\ IF Excluded(n) \/ ~capable THEN opts = {} /\ UNCHANGED wol
     ELSE wol' = [wol EXCEPT ![n] = opts]
  /\ UNCHANGED <<counter, bound, portA, eepromWol, armed>>

\* __igb_shutdown: a link that is up does not wake
ShutdownWake(n, up) ==
  /\ n \in bound
  /\ armed' = [armed EXCEPT ![n] = IF up THEN wol[n] \ {"phy"} ELSE wol[n]]
  /\ UNCHANGED <<counter, bound, portA, eepromWol, wol>>

WakeNext ==
  \E n \in Nic :
    \/ \E apme \in BOOLEAN : ProbeWake(n, apme)
    \/ RegisterFails(n) \/ RemoveWake(n)
    \/ \E opts \in SUBSET Options, capable \in BOOLEAN : SetWol(n, opts, capable)
    \/ \E up \in BOOLEAN : ShutdownWake(n, up)

WakeSpec == WakeInit /\ [][WakeNext]_wake

-----------------------------------------------------------------------------
\* A port that cannot wake the system is not told to, whether its EEPROM asks for it or the
\* administrator does, and what is reported of any port is what it will do.
ExcludedNeverWakes ==
  \A n \in bound : /\ Excluded(n) => wol[n] = {}
                   /\ GetWol(n, TRUE) = wol[n]

\* Four ports are probed one after the other, from port A on, and stay
ProbedInOrder ==
  counter' # counter => \E n \in Nic : n \in bound' \ bound /\ Func[n] = counter
OnlyPortA == \A n \in portA : Func[n] = 0
=============================================================================
