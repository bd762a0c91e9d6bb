SPECIFICATION Spec
CONSTANTS
  r1 = r1
  r2 = r2
  r3 = r3
  w1 = w1
  w2 = w2
  None = None
  Requests = {r1, r2}
  Premium = {}
  Workers = {w1}
  MaxQueueLength = 1
  MaxFaults = 0
PROPERTY RejectsOnlyWhenBusy
CHECK_DEADLOCK FALSE
