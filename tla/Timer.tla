------------------------------- MODULE Timer -------------------------------
(***************************************************************************)
(* The timer wheel of one process, uspace/src/timer.c: timer_expire() is   *)
(* called in every turn of the main loop, however long a turn takes, and   *)
(* advances the wheel by the whole seconds that have passed; the rest is   *)
(* carried over in <fill>.                                                 *)
(*                                                                         *)
(* Only CLOCK() - last_expire matters of the two: <since>.  A timer is in  *)
(* one list at most, <slot>; the order in a list is left out.  Handlers    *)
(* delete their timer: connection_timeout() frees the connection.          *)
(***************************************************************************)
EXTENDS Integers

CONSTANTS
  Timers,
  Frequency,   (* cpu_frequency: what CLOCK() counts in a second         *)
  WheelSize,   (* total_clock_seconds                                    *)
  Requests,    (* seconds that timers are added for; nobody asks for 0,  *)
               (* which the code takes for a turn of the wheel           *)
  MaxPass,     (* bound: what passes between two advances of the wheel   *)
  Unarmed      (* in no list, not armed                                  *)

ASSUME SizeAssumption == Frequency \in Nat \ {0} /\ WheelSize \in Nat \ {0} /\ MaxPass \in Nat
ASSUME RequestsAssumption == Requests \subseteq Int \ {0}
ASSUME UnarmedAssumption == Unarmed \notin Int

VARIABLES
  since,    (* CLOCK() - last_expire                                     *)
  fill,     (* the time before last_expire that no second was made of    *)
  second,   (* next_clock_second                                         *)
  slot,     (* slot[t]: the entry of timer_table t is in, or Unarmed     *)
  left      (* left[t]: what is left of the time t was armed for, from   *)
            (* the last full second on, or -1 when it is over.  The code *)
            (* has no such variable.                                     *)

timerVars == <<since, fill, second, slot, left>>

Slots == 0..(WheelSize - 1)
Armed == {t \in Timers : slot[t] # Unarmed}

TimerInit ==
  /\ since = 0 /\ fill = 0 /\ second = 0
  /\ slot = [t \in Timers |-> Unarmed]
  /\ left = [t \in Timers |-> Unarmed]

Rest(time) == IF time < 0 THEN -1 ELSE time

(* The time stamp counter goes on. *)
Pass ==
  /\ since < MaxPass
  /\ since' = since + 1
  /\ left' = [t \in Timers |-> IF t \in Armed THEN Rest(left[t] - 1) ELSE Unarmed]
  /\ UNCHANGED <<fill, second, slot>>

(* The seconds that timer_add grants, and returns. *)
Granted(seconds) ==
  IF seconds > WheelSize THEN WheelSize ELSE IF seconds < 0 THEN 1 ELSE seconds

(* timer_add, of a timer that is in no list. *)
Add(t, seconds) ==
  /\ t \notin Armed
  /\ slot' = [slot EXCEPT ![t] = (second + Granted(seconds)) % WheelSize]
  /\ left' = [left EXCEPT ![t] = Rest(Granted(seconds) * Frequency - (since + fill))]
  /\ UNCHANGED <<since, fill, second>>

(* timer_del *)
Del(t) ==
  /\ slot' = [slot EXCEPT ![t] = Unarmed]
  /\ left' = [left EXCEPT ![t] = Unarmed]
  /\ UNCHANGED <<since, fill, second>>

(* elapse, and how often the loop of timer_expire takes a second from it:  *)
(* a full second with nothing beyond it is left alone.                     *)
Elapse == since + fill
Turns == IF Elapse = 0 THEN 0 ELSE (Elapse - 1) \div Frequency

(* next_clock_second after j steps *)
After(j) == (second + j) % WheelSize

(* Mutants of Expire: the rest of a second is lost; last_expire is set     *)
(* also when no second has passed.                                         *)
ExpireNoFill ==
  LET due == {t \in Armed : \E j \in 1..Turns : slot[t] = After(j)} IN
  /\ second' = After(Turns)
  /\ slot' = [t \in Timers |-> IF t \in due THEN Unarmed ELSE slot[t]]
  /\ left' = [t \in Timers |-> IF t \in due THEN Unarmed ELSE left[t]]
  /\ fill' = 0
  /\ since' = IF Turns > 0 THEN 0 ELSE since

ExpireEarlyReset ==
  LET due == {t \in Armed : \E j \in 1..Turns : slot[t] = After(j)} IN
  /\ second' = After(Turns)
  /\ slot' = [t \in Timers |-> IF t \in due THEN Unarmed ELSE slot[t]]
  /\ left' = [t \in Timers |-> IF t \in due THEN Unarmed ELSE left[t]]
  /\ fill' = IF Turns > 0 THEN Elapse - Turns * Frequency ELSE fill
  /\ since' = 0

(* timer_expire: the timers in the entries that the wheel comes past are   *)
(* handled.                                                                *)
Expire ==
  LET due == {t \in Armed : \E j \in 1..Turns : slot[t] = After(j)} IN
  /\ second' = After(Turns)
  /\ slot' = [t \in Timers |-> IF t \in due THEN Unarmed ELSE slot[t]]
  /\ left' = [t \in Timers |-> IF t \in due THEN Unarmed ELSE left[t]]
  /\ IF Turns > 0
       THEN fill' = Elapse - Turns * Frequency /\ since' = 0
       ELSE UNCHANGED <<fill, since>>

TimerNext ==
  \/ Pass \/ Expire
  \/ \E t \in Timers : Del(t) \/ \E s \in Requests : Add(t, s)

TimerSpec == TimerInit /\ [][TimerNext]_timerVars

(* Time passes, and the main loop calls timer_expire in every turn. *)
TimerFairSpec == TimerSpec /\ WF_timerVars(Pass) /\ WF_timerVars(Expire)

-----------------------------------------------------------------------------
TimerTypeOK ==
  /\ since \in 0..MaxPass /\ fill \in 0..Frequency /\ second \in Slots
  /\ slot \in [Timers -> Slots \cup {Unarmed}]
  /\ left \in [Timers -> Int \cup {Unarmed}]

(* However late timer_expire is called, and whatever rests it has carried  *)
(* over, it handles the timers whose time is over and no others: none is   *)
(* kept for another turn of the wheel, none goes off with a neighbour.     *)
FiresOnTime ==
  [][Expire => \A t \in Armed : slot'[t] = Unarmed <=> left[t] = -1]_timerVars

(* Every timer goes off, or is deleted. *)
Fires == \A t \in Timers : t \in Armed ~> t \notin Armed
=============================================================================
