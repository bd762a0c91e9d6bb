SPECIFICATION Spec
CONSTANTS
  t1 = t1
  t2 = t2
  k1 = k1
  k2 = k2
  c1 = c1
  c2 = c2
  r1 = r1
  r2 = r2
  None = None
  Tenants = {t1, t2}
  Keys = {k1, k2}
  Configs = {c1, c2}
  Seeds <- MCSeeds
  Requests = {r1, r2}
  MaxFaults = 1
SYMMETRY Symmetry
INVARIANTS TypeOK NothingFromBefore StuckForGood
PROPERTY StartsSeeded
CHECK_DEADLOCK FALSE
