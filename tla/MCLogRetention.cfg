SPECIFICATION FairSpec
CONSTANTS
  q1 = q1  q2 = q2
  Request = {q1, q2}
  Ranges <- OneRange
  MaxAttempts = 1
  Batch = 1
  Keep = 1
  MaxTime = 3
  MaxFaults = 1
INVARIANTS
  HandlersKeepRows
  PrunedIsWhole
PROPERTIES
  CutoffToTheSecond
  OldPayloadsGo
CHECK_DEADLOCK FALSE
