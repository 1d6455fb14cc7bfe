SPECIFICATION FairSpec
CONSTANTS
  s1 = s1
  s2 = s2
  r1 = r1
  r2 = r2
  r3 = r3
  Streams = {s1, s2}
  Readers = {r1, r2, r3}
  ReadsFrom <- TwoAndOne
  MaxRuns = 2
  MaxChunks = 2
CHECK_DEADLOCK FALSE
INVARIANTS
  NobodyWaitsInVain
  ClosedOnce
  ActiveIsTracked
PROPERTIES
  IsChannel
  SoleReaderFinishes
