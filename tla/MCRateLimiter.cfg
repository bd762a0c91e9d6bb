SPECIFICATION Spec
CONSTANTS
  c1 = c1
  c2 = c2
  c3 = c3
  Clients = {c1, c2, c3}
  Limit = 2
  W = 3
  MaxTime = 9
  MaxExtra = 2
SYMMETRY Symmetry
INVARIANTS TypeOK WindowBound SlidingBound RetriesSuffice
PROPERTY RefusedOnlyBusy
CHECK_DEADLOCK FALSE
