------------------------------- MODULE IgbPhy -------------------------------
(***************************************************************************)
(* What the driver knows of the cable and the partner of a copper port,    *)
(* modules/igb: igb_get_phy_info() for three kinds of PHY, which is called *)
(* when a NIC is reset and two seconds after its link has come up, and     *)
(* what it sets of the PHY's power saving.                                 *)
(*                                                                         *)
(* r has the value of every register in the order in which they are read;  *)
(* one that is read twice is in r twice, as the link may change in between.*)
(***************************************************************************)
EXTENDS Integers

Failed == -1         \* the register could not be read
Undefined == 255     \* E1000_CABLE_LENGTH_UNDEFINED
Kinds == {"m88", "igp", "82580"}
Least(a, b) == IF a < b THEN a ELSE b
Most(a, b) == IF a < b THEN b ELSE a

\* What a PHY can answer.  For igp `length' is what igb_get_cable_length_igp_2() finds in
\* its table for each channel: the table goes up to 124.
Registers(kind) ==
  [copper  : BOOLEAN,
   link    : {Failed, 0, 1},
   control : {Failed, 0, 1},                                \* polarity correction
   status1 : [read : BOOLEAN, speed : {10, 100, 1000}, reversed : BOOLEAN],
   pcs     : {Failed, 0, 1},                                \* polarity at 1000 Mbit/s
   status2 : [read : BOOLEAN, speed : {10, 100, 1000}, mdix : BOOLEAN],
   length  : IF kind = "igp" THEN [1..4 -> {Failed} \cup 0..124]
             ELSE IF kind = "m88" THEN {Failed} \cup 0..7 ELSE {Failed} \cup 0..255,
   gigabit : [read : BOOLEAN, local : {"ok", "not_ok"}, remote : {"ok", "not_ok"}]]

\* struct e1000_phy_info
PhyInfo ==
  [polarity_correction : BOOLEAN, cable_polarity : {"normal", "reversed"},
   is_mdix : BOOLEAN, min_cable_length : Nat, max_cable_length : Nat, cable_length : Nat,
   local_rx : {"ok", "not_ok", "undefined"}, remote_rx : {"ok", "not_ok", "undefined"}]

(***************************************************************************)
(* igb_get_cable_length_m88, _igp_2 and _82580                             *)
(***************************************************************************)
TableM88 == <<0, 50, 80, 110, 140, 140, Undefined>>

\* The mean of the channels without the shortest and the longest
Agc(length) ==
  LET sum == length[1] + length[2] + length[3] + length[4]
      least == Least(Least(length[1], length[2]), Least(length[3], length[4]))
      most == Most(Most(length[1], length[2]), Most(length[3], length[4]))
  IN (sum - (least + most)) \div 2

CableRead(kind, length) ==
  IF kind = "igp" THEN \A i \in 1..4 : length[i] # Failed
  ELSE IF kind = "m88" THEN length \in 0..5
  ELSE length \notin {Failed, Undefined}

MinLength(kind, length) ==
  IF kind = "igp" THEN Most(Agc(length) - 10, 0) ELSE TableM88[length + 1]
MaxLength(kind, length) ==
  IF kind = "igp" THEN Agc(length) + 10 ELSE TableM88[length + 2]

\* An 82580 tells the length itself; one that it does not know is stored all the same
GetCableLength(kind, phy, length) ==
  IF kind = "82580"
  THEN [phy EXCEPT !.cable_length = IF length = Failed THEN @ ELSE length]
  ELSE IF ~CableRead(kind, length) THEN phy
  ELSE [phy EXCEPT !.min_cable_length = MinLength(kind, length),
                   !.max_cable_length = MaxLength(kind, length),
                   !.cable_length = (MinLength(kind, length) + MaxLength(kind, length)) \div 2]

(***************************************************************************)
(* igb_check_polarity_m88, _igp and _82580                                 *)
(***************************************************************************)
PolarityRead(kind, r) ==
  r.status1.read /\ (kind = "igp" /\ r.status1.speed = 1000 => r.pcs # Failed)
Reversed(kind, r) ==
  IF kind = "igp" /\ r.status1.speed = 1000 THEN r.pcs = 1 ELSE r.status1.reversed

(***************************************************************************)
(* igb_get_phy_info_m88, _igp and _82580.  Each reads a register when it   *)
(* could read those before; what has been stored by then stays stored.     *)
(***************************************************************************)
HasLink(kind, r) == (kind = "m88" => r.copper) /\ r.link = 1
Corrected(kind, r) == HasLink(kind, r) /\ (kind = "m88" => r.control # Failed)
Polarised(kind, r) == Corrected(kind, r) /\ PolarityRead(kind, r)
SpeedRead(kind, r) == Polarised(kind, r) /\ r.status2.read
Gigabit(kind, r) == SpeedRead(kind, r) /\ r.status2.speed = 1000
Received(kind, r) == Gigabit(kind, r) /\ CableRead(kind, r.length) /\ r.gigabit.read

\* Whether the function returns 0
InfoRead(kind, r) == IF Gigabit(kind, r) THEN Received(kind, r) ELSE SpeedRead(kind, r)

GetPhyInfo(kind, phy, r) ==
  LET cable == IF Gigabit(kind, r) THEN GetCableLength(kind, phy, r.length)
               ELSE IF SpeedRead(kind, r) THEN [phy EXCEPT !.cable_length = Undefined]
               ELSE phy
      Rx(old, status) == IF Received(kind, r) THEN status
                         ELSE IF SpeedRead(kind, r) /\ ~Gigabit(kind, r) THEN "undefined" ELSE old
  IN [cable EXCEPT
        !.polarity_correction =
           IF Corrected(kind, r) THEN (IF kind = "m88" THEN r.control = 1 ELSE TRUE) ELSE @,
        !.cable_polarity = IF ~Polarised(kind, r) THEN @
                           ELSE IF Reversed(kind, r) THEN "reversed" ELSE "normal",
        !.is_mdix = IF SpeedRead(kind, r) THEN r.status2.mdix ELSE @,
        !.local_rx = Rx(@, r.gigabit.local),
        !.remote_rx = Rx(@, r.gigabit.remote)]

(***************************************************************************)
(* igb_check_downshift, igb_get_speed_and_duplex_copper                    *)
(***************************************************************************)
\* `bit' is of the register that a PHY has for it; an 82580 has none
CheckDownshift(kind, downgraded, bit) ==
  IF kind = "82580" THEN FALSE ELSE IF bit = Failed THEN downgraded ELSE bit = 1

SpeedAndDuplex(status) ==
  [speed |-> IF status.speed1000 THEN 1000 ELSE IF status.speed100 THEN 100 ELSE 10,
   full |-> status.fd]

(***************************************************************************)
(* igb_set_d0_lplu_state_82575 and igb_set_d3_lplu_state.  p has the bit   *)
(* for low power link up (lplu) of the power management register, and of   *)
(* the port configuration SmartSpeed and whether the rest of it is as it   *)
(* was (kept).  a tells which accesses succeed.                            *)
(***************************************************************************)
Port == [lplu : BOOLEAN, smart : BOOLEAN, kept : BOOLEAN]
Accesses == [read1 : BOOLEAN, write1 : BOOLEAN, read2 : BOOLEAN, write2 : BOOLEAN]
SmartSpeeds == {"default", "on", "off"}

\* The port configuration is read and written after the power management
SetSmart(p, on, a) == IF a.read2 /\ a.write2 THEN [p EXCEPT !.smart = on] ELSE p
\* SmartSpeed as it is set when lplu is not wanted
RestoreSmart(p, smartSpeed, a) ==
  IF smartSpeed = "default" THEN p ELSE SetSmart(p, smartSpeed = "on", a)

SetD3(p, active, advertised, smartSpeed, a) ==
  IF ~a.read1 THEN p
  ELSE IF ~active
  THEN IF a.write1 THEN RestoreSmart([p EXCEPT !.lplu = FALSE], smartSpeed, a) ELSE p
  ELSE IF advertised /\ a.write1 THEN SetSmart([p EXCEPT !.lplu = TRUE], FALSE, a) ELSE p

SetD3Returns0(active, advertised, smartSpeed, a) ==
  /\ a.read1
  /\ (active => advertised) => a.write1
  /\ (IF active THEN advertised ELSE smartSpeed # "default") => a.read2 /\ a.write2

\* A failed read of the port configuration is passed over: it is written with what was read
\* from the power management.  A failed write of the power management is passed over when
\* lplu is cleared.
SetD0(p, active, smartSpeed, a) ==
  IF ~a.read1 THEN p
  ELSE IF active
  THEN IF ~a.write1 THEN p
       ELSE IF ~a.write2 THEN [p EXCEPT !.lplu = TRUE]
       ELSE [lplu |-> TRUE, smart |-> FALSE, kept |-> p.kept /\ a.read2]
  ELSE RestoreSmart([p EXCEPT !.lplu = IF a.write1 THEN FALSE ELSE @], smartSpeed, a)

SetD0Returns0(active, smartSpeed, a) ==
  /\ a.read1
  /\ active => a.write1 /\ a.write2
  /\ ~active => IF smartSpeed = "default" THEN a.write1 ELSE a.read2 /\ a.write2
=============================================================================
