SPECIFICATION FairSpec
CONSTANTS
  s1 = s1
  s2 = s2
  a1 = a1
  d1 = d1
  Sends = {s1}
  Answers = {a1}
  Disconnects = {d1}
  Faulty = {s1}
  MaxCopies = 1
  MaxLinks = 5
CHECK_DEADLOCK FALSE
INVARIANTS
  NoneForgotten
  AnswersFindTheLink
  LostOnlyWhenDisturbed
PROPERTIES
  CallsReturn
  CloseReturns
