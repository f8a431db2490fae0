SPECIFICATION FairSpec
CONSTANTS
  c1 = c1  c2 = c2  k1 = k1  k2 = k2  k3 = k3
  Request = {q1}
  Order <- PlainFirst
  KindOf <- PlainKind
  KeysOf <- TwoKeys
  Streams = {TRUE, FALSE}
  Edited = {}
  Threshold = 1
  Cooldown = 1
  MaxRequests = 1
  MaxTime = 1
  MaxRevision = 1
  MaxKeyRevision = 2
INVARIANT RequestSafety
PROPERTY EveryRequestEnds
