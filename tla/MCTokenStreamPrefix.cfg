SPECIFICATION Spec
CONSTANTS
  r1 = r1
  r2 = r2
  Requests = {r1}
  MaxTokens <- MCMaxTokens
  PoolSize = 1
  MaxCommands = 0
  MaxFaults = 0
INVARIANT DoneMeansAll
CHECK_DEADLOCK FALSE
