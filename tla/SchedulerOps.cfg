SPECIFICATION FairSpec
CONSTANTS
  once = once
  again = again
  Nobody = Nobody
  Schedules = {once, again}
  Recurring = {again}
  Interval <- EverySecondTick
  TimeoutMax = 6
  MaxTime = 6
CHECK_DEADLOCK FALSE
INVARIANTS
  PendingIsOwed
PROPERTIES
  NotEarly
  KeepsInterval
  KeepsScheduleContract
  EventuallyDelivered
