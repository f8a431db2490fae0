SPECIFICATION Spec
CONSTANTS
  c1 = c1  c2 = c2  k1 = k1  k2 = k2  k3 = k3
  Request = {q1, q2}
  Order <- Single
  KindOf <- SinglePlain
  KeysOf <- OneKey
  Streams = {FALSE}
  Edited = {}
  Threshold = 2
  Cooldown = 1
  MaxRequests = 4
  MaxTime = 2
  MaxRevision = 2
  MaxKeyRevision = 1
SYMMETRY Symmetry
INVARIANT BreakerHolds
PROPERTY ImplementsBreaker
