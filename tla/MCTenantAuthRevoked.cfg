SPECIFICATION FairSpec
CONSTANTS
  t1 = t1
  t2 = t2
  k1 = k1
  k2 = k2
  c1 = c1
  c2 = c2
  r1 = r1
  r2 = r2
  None = None
  Tenants = {t1}
  Keys = {k1}
  Configs = {c1}
  Seeds <- MCOneSeed
  Requests = {r1}
  MaxFaults = 0
PROPERTY RevokedKeyLeavesCache
CHECK_DEADLOCK FALSE
