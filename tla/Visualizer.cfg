SPECIFICATION Spec
CONSTANTS
  MaxTime = 3
  Periods = {1, 2}
  MaxEvents = 3
  TimerIds = {1, 2, 3, 4}
INVARIANTS OnlyUnlockedOverlap NotAheadOfView PlayingHasTimer
PROPERTIES QuitTerminates PauseDelivered TimeAdvances
CHECK_DEADLOCK FALSE
