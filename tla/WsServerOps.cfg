SPECIFICATION FairSpec
CONSTANTS
  h1 = h1
  c1 = c1
  c2 = c2
  Handlers = {h1}
  Conns = {c1, c2}
  Topics <- FamilyTopics
  Types <- TwoTypes
  MaxSerial = 3
  MaxPublish = 2
  MaxDepth = 2
CHECK_DEADLOCK FALSE
INVARIANTS
  NothingLeftBehind
  EveryStayerIsCalled
PROPERTIES
  PublishReturns
