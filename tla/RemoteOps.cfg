SPECIFICATION FairSpec
CONSTANTS
  r1 = r1
  r2 = r2
  Posts = {r1}
  Others = {r2}
  MaxAttempts = 2
  Layers = 1
  Dispatches <- MCDispatches
CHECK_DEADLOCK FALSE
INVARIANTS
  RepliedOnce
PROPERTIES
  ServerCloses
