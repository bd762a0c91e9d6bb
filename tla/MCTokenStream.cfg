SPECIFICATION Spec
CONSTANTS
  r1 = r1
  r2 = r2
  Requests = {r1, r2}
  MaxTokens <- MCMaxTokens
  PoolSize = 2
  MaxCommands = 1
  MaxFaults = 1
INVARIANTS TypeOK StreamWellFormed DoneMeansSuffix ClosedMeansAnswered GaugeExact
  PoolAccounted
CHECK_DEADLOCK FALSE
