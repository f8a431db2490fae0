SPECIFICATION FairSpec
CONSTANTS
  Total = 4
INVARIANTS
  RelayIsFaithful
  ClosedMeansCancelled
PROPERTIES
  NothingLeaks
  EveryCallEnds
CHECK_DEADLOCK FALSE
