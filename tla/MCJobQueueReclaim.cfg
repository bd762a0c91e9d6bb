SPECIFICATION FairSpec
CONSTANTS
  r1 = r1
  r2 = r2
  r3 = r3
  w1 = w1
  w2 = w2
  None = None
  Requests = {r1}
  Premium = {r1}
  Workers = {w1}
  MaxQueueLength = 1
  MaxFaults = 1
PROPERTY RestartRecovers
CHECK_DEADLOCK FALSE
