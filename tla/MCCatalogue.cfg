SPECIFICATION Spec
CONSTANTS
  AccessKey = {a1}
  Provider = {p1, p2}
  UpstreamKey = {k1, k2}
  Model = {m1}
  Candidate = {c1, c2}
  Name = {n1, n2}
  Protocol = {chat, messages}
  Request = {r1}
  MaxRevision = 2
  MaxAttempts = 1
SYMMETRY Symmetry
INVARIANTS
  RoutesAreWhole
  ReferencesHold
  RouteMatchesRevision
