SPECIFICATION Spec
CONSTANTS
  c1 = c1  c2 = c2  k1 = k1  k2 = k2  k3 = k3
  Request = {q1}
  Order <- PlainFirst
  KindOf <- BothCodex
  KeysOf <- SharedAccount
  Streams = {TRUE, FALSE}
  Edited = {k1}
  Threshold = 1
  Cooldown = 1
  MaxRequests = 1
  MaxTime = 1
  MaxRevision = 2
  MaxKeyRevision = 3
INVARIANTS
  LogIsClosed
  NoSplicedResponses
  ResendUsesNewCredential
  LateResultsIgnored
