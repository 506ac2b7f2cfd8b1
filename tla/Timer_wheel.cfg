SPECIFICATION TimerFairSpec
CONSTANTS
  t1 = t1
  t2 = t2
  Timers = {t1, t2}
  Frequency = 3
  WheelSize = 3
  Requests <- Asked
  MaxPass = 10
  Unarmed = Unarmed
PROPERTIES FiresOnTime Fires
