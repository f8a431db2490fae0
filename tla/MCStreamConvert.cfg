SPECIFICATION ExchangeSpec
CONSTANTS
  MaxDeltas = 2
  MaxBlocks = 3
  MaxTurns = 2
INVARIANTS
  RequestKept
  BufferedAgrees
  ContentKept
  BlocksWellFormed
  EndMatches
  CommitsAtContent
  SavedBeforeShown
  CodexAggregates
  SummariesAgree
CHECK_DEADLOCK FALSE
