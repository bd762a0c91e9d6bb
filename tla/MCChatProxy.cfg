SPECIFICATION FairProxySpec
CONSTANTS
  r1 = r1
  a = a
  sp = sp
  Characters = {a, sp}
  Space = sp
  MaxLength = 3
  Requests = {r1}
  MaxTokens <- MCTokens
  PoolSize = 1
  MaxCommands = 1
  MaxFaults = 2
  MaxBreaks = 1
INVARIANTS ProxyTypeOK EndIsMarked UnavailableMeansUnsent TextArrives
PROPERTIES RefinesResponse ResponseEnds StreamEnds
CHECK_DEADLOCK FALSE
