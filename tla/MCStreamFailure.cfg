SPECIFICATION Spec
CONSTANTS
  MaxDeltas = 1
  MaxBlocks = 1
INVARIANT FailureIsReported
CHECK_DEADLOCK FALSE
