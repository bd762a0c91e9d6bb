SPECIFICATION FairSpec
CONSTANTS
  w1 = w1
  w2 = w2
  Workers = {w1, w2}
  Default = w1
  Interval = 2
  CheckTime = 1
  MaxFaults = 1
INVARIANTS TypeOK HealthyIsRecent GhostsAreRaced
PROPERTY DownIsReported
CHECK_DEADLOCK FALSE
