SPECIFICATION Spec
CONSTANTS
  c1 = c1  c2 = c2  k1 = k1  k2 = k2  k3 = k3
  Request = {q1}
  Order <- Single
  KindOf <- SinglePlain
  KeysOf <- OneKey
  Streams = {FALSE}
  Edited = {}
  Threshold = 1
  Cooldown = 1
  MaxRequests = 3
  MaxTime = 3
  MaxRevision = 1
  MaxKeyRevision = 1
INVARIANTS
  ProbingHasProbe
