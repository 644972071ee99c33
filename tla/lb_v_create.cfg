SPECIFICATION Spec
CONSTANTS
  Members = {1}
  MaxScore = 9
  Requests = {q1, q2}
  TopLimit = 5
  DimensionLimit = 2
  Retries = 1
  Faults = FALSE
  Traffic <- CreateTraffic
  Seed <- NoPlayers
  Tenants <- MCTenants
  Industries <- MCIndustries
  Regions <- MCRegions
  Sizes <- MCSizes
  tenant1 = tenant1
  tenant2 = tenant2
  finance = finance
  retail = retail
  apac = apac
  small = small
  Absent = Absent
  BadName = BadName
  Unknown = Unknown
  None = None
INVARIANT NoIncrementLost
CHECK_DEADLOCK FALSE
