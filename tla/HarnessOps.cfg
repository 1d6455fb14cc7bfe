SPECIFICATION FairSpec
CONSTANTS
  t1 = t1
  t2 = t2
  Tasks = {t1}
  Idempotent = {t1}
  AgentKinds = {"accept", "progress", "failed"}
  MaxRetries = 1
  MaxCalls = 1
  MaxCopies = 1
  MaxRestarts = 1
CHECK_DEADLOCK FALSE
INVARIANTS
  EndIsTold
  HandlerOnce
  BoundedAttempts
  EventPerEnvelope
PROPERTIES
  CancelStopsRetries
  KeepsTaskContract
  EveryTaskEnds
