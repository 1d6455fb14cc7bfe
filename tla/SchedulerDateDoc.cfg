SPECIFICATION Spec
CONSTANTS
  once = once
  again = again
  Nobody = Nobody
  Schedules = {once, again}
  Recurring = {again}
  Interval <- EverySecondTick
  TimeoutMax = 3
  MaxTime = 6
CHECK_DEADLOCK FALSE
PROPERTIES
  NotEarly
