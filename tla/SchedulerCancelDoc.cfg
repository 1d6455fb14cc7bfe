SPECIFICATION Spec
CONSTANTS
  once = once
  again = again
  Nobody = Nobody
  Schedules = {once, again}
  Recurring = {again}
  Interval <- EverySecondTick
  TimeoutMax = 5
  MaxTime = 5
CHECK_DEADLOCK FALSE
PROPERTIES
  CancelStops
