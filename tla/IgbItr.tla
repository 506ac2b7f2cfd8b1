------------------------------- MODULE IgbItr -------------------------------
(***************************************************************************)
(* How long a NIC waits between two interrupts of a vector, modules/igb:   *)
(* igb_main.c, and what the user sets with igb_ethtool.c.  A setting is 0, *)
(* 1 or 3 (the driver chooses from what it has received and sent), or an   *)
(* interval in quarters of a microsecond.                                  *)
(***************************************************************************)
EXTENDS Integers

IGB_MIN_ITR_USECS == 10
IGB_MAX_ITR_USECS == 10000
IGB_START_ITR == 648

Less(a, b) == IF a < b THEN a ELSE b
Larger(a, b) == IF a < b THEN b ELSE a

(***************************************************************************)
(* igb_set_coalesce and igb_get_coalesce                                   *)
(***************************************************************************)
Accepted(usecs) == usecs \in {0, 1, 3} \cup IGB_MIN_ITR_USECS..IGB_MAX_ITR_USECS
BothAccepted(pairs, rxUsecs, txUsecs) ==
  Accepted(rxUsecs) /\ Accepted(txUsecs) /\ (pairs => txUsecs = 0)
SettingOf(usecs) == IF usecs <= 3 THEN usecs ELSE 4 * usecs
UsecsOf(setting) == IF setting <= 3 THEN setting ELSE setting \div 4

\* With queue pairs the interval of the tx rings is that of the rx rings
TxSetting(pairs, rxUsecs, txUsecs) == SettingOf(IF pairs THEN rxUsecs ELSE txUsecs)

\* The interval that a q_vector starts from
FirstInterval(setting) == IF setting \in 1..3 THEN IGB_START_ITR ELSE setting

\* igb_ring_irq_enable: setting & 3
Dynamic(setting) == setting % 4 # 0

(***************************************************************************)
(* igb_update_ring_itr, with MSI-X                                         *)
(***************************************************************************)
\* The average packet of a ring since last time; an absent ring has none
AverageSize(ring) == IF ring.packets = 0 THEN 0 ELSE ring.bytes \div ring.packets

UpdateRingItr(interval, gigabit, setting, rx, tx) ==
  LET average == Larger(AverageSize(rx), AverageSize(tx))
      size == Less(average + 24, 3000)
      next == IF 300 < size /\ size < 1200 THEN size \div 3 ELSE size \div 2
  IN IF ~gigabit THEN 976
     ELSE IF average = 0 THEN interval
     ELSE IF setting = 3 THEN Larger(next, 196) ELSE next

(***************************************************************************)
(* igb_update_itr and igb_set_itr, without MSI-X                           *)
(***************************************************************************)
lowest_latency == 0
low_latency == 1
bulk_latency == 2
Levels == {lowest_latency, low_latency, bulk_latency}

UpdateItr(level, packets, bytes) ==
  LET large(size) == bytes \div packets > size IN
  IF packets = 0 THEN level
  ELSE CASE level = lowest_latency ->
              IF large(8000) THEN bulk_latency
              ELSE IF packets < 5 /\ bytes > 512 THEN low_latency ELSE level
         [] level = low_latency ->
              IF bytes > 10000
              THEN IF large(8000) \/ packets < 10 \/ large(1200) THEN bulk_latency
                   ELSE IF packets > 35 THEN lowest_latency ELSE level
              ELSE IF large(2000) THEN bulk_latency
              ELSE IF packets <= 2 /\ bytes < 512 THEN lowest_latency ELSE level
         [] level = bulk_latency ->
              IF bytes > 25000
              THEN IF packets > 35 THEN low_latency ELSE level
              ELSE IF bytes < 1500 THEN low_latency ELSE level

\* What is asked for: `level' is the larger of that of the rx and that of the tx ring
Wanted(gigabit, setting, level) ==
  LET l == IF setting = 3 THEN Larger(level, low_latency) ELSE level IN
  IF ~gigabit THEN 4000
  ELSE CASE l = lowest_latency -> 56 [] l = low_latency -> 196 [] l = bulk_latency -> 980

\* "This attempts to bias the interrupt rate towards bulk by adding intermediate steps when
\* interrupt rate is increasing"
Biased(interval, wanted) ==
  IF wanted > interval
  THEN Larger((wanted * interval) \div (wanted + (interval \div 4)), wanted)
  ELSE wanted

SetItr(interval, gigabit, setting, level) == Biased(interval, Wanted(gigabit, setting, level))

\* igb_write_itr: itr_val & 0x7FFC, where a NIC with 0 would not wait at all
WriteItr(interval) ==
  LET field == ((interval % 32768) \div 4) * 4 IN IF field = 0 THEN 4 ELSE field
=============================================================================
