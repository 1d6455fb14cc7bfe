SPECIFICATION TraceSpec
CONSTANTS
  s1 = s1
  s2 = s2
  s3 = s3
  p1 = p1
  p2 = p2
  t1 = t1
  t2 = t2
  r1 = r1
  NoSend = NoSend
  ResultIds = {p1}
  Sends = {s1, s2, s3}
  Packets = {p1, p2}
  Tasks = {t1, t2}
  Roles = {r1}
  TaskOf <- OwnTasks
  PacketOf <- SamePacket
  TargetOf <- OneRole
  Mode <- EveryEntryPoint
  WellFormed = {p1}
  HasTimeout = {}
  MaxAttempts = 2
INVARIANTS
  Ledger
  DeadLettersKept
  PendingIsWaiting
  TraceIsAudit
  InFlightIsVisible
  TaskCompletions
