SPECIFICATION Spec
CONSTANTS
  t1 = t1
  k1 = k1
  p1 = p1
  p2 = p2
  r1 = r1
  r2 = r2
  r3 = r3
  x = x
  None = None
  Nothing = Nothing
  NoPrompt <- MCNoPrompt
  Tenants = {t1}
  Keys = {k1}
  Configs <- MCConfigs
  Seeds <- MCSeeds
  Requests = {r1, r2, r3}
  Sayings <- MCSayings
  Conversations <- MCConversations
  TTL = 2
  FetchTime = 1
  MaxFaults = 1
SYMMETRY Symmetry
INVARIANT TypeOK
PROPERTIES FreshWhenServed TenantInstructs
CHECK_DEADLOCK FALSE
