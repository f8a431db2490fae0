SPECIFICATION FairSpec
CONSTANTS
  p1 = p1
  p2 = p2
  Caller = {p1, p2}
  Login = login
  MaxRevision = 3
  MaxToken = 2
INVARIANT NoTokenReplayed
INVARIANT InvalidMeansStoredToken
PROPERTY NoStaleOverwrite
PROPERTY CooldownSurvivesRefresh
PROPERTY EveryCallIsServed
