SPECIFICATION Spec
CONSTANTS
  s1 = s1
  s2 = s2
  s3 = s3
  p1 = p1
  p2 = p2
  t1 = t1
  t2 = t2
  r1 = r1
  NoSend = NoSend
  Sends = {s1, s2}
  Packets = {p1, p2}
  Tasks = {t1, t2}
  Roles = {r1}
  TaskOf <- SharedTasks
  PacketOf <- TwoPackets
  TargetOf <- OneRole
  Mode <- BothAck
  WellFormed = {p1, p2}
  HasTimeout = {}
  MaxAttempts = 2
INVARIANTS
  DeliveredResultArrives
