SPECIFICATION LiveSpec
CONSTANTS
  s1 = s1
  s2 = s2
  s3 = s3
  p1 = p1
  p2 = p2
  t1 = t1
  t2 = t2
  r1 = r1
  NoSend = NoSend
  Sends = {s1, s2}
  Packets = {p1, p2}
  Tasks = {t1, t2}
  Roles = {r1}
  TaskOf <- OwnTasks
  PacketOf <- TwoPackets
  TargetOf <- OneRole
  Mode <- AckAndCapability
  WellFormed = {p1, p2}
  HasTimeout = {p1}
  MaxAttempts = 2
INVARIANTS
  OwnPromise
  AnswerOfLastAttempt
PROPERTIES
  Final
  TimeoutBoundsCall
  FulfilsContract
