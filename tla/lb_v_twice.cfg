SPECIFICATION Spec
CONSTANTS
  Members = {1, 2}
  MaxScore = 20
  Requests = {q1, q2}
  TopLimit = 5
  DimensionLimit = 2
  Retries = 1
  Faults = TRUE
  Traffic <- CreateTraffic
  Seed <- OnePlayer
  Tenants <- MCTenants
  Industries <- MCIndustries
  Regions <- MCRegions
  Sizes <- MCSizes
  tenant1 = tenant1
  tenant2 = tenant2
  finance = finance
  retail = retail
  apac = apac
  small = small
  Absent = Absent
  BadName = BadName
  Unknown = Unknown
  None = None
INVARIANT IncrementAddedOnce
CHECK_DEADLOCK FALSE
