SPECIFICATION Spec
CONSTANTS
  Members = {1, 2, 3}
  MaxScore = 20
  Requests = {q1, q2, q3}
  TopLimit = 5
  DimensionLimit = 2
  Retries = 1
  Faults = FALSE
  Traffic <- AtomicTraffic
  Seed <- OnePlayer
  Tenants <- MCTenants
  Industries <- MCIndustries
  Regions <- MCRegions
  Sizes <- MCSizes
  tenant1 = tenant1
  tenant2 = tenant2
  finance = finance
  retail = retail
  apac = apac
  small = small
  Absent = Absent
  BadName = BadName
  Unknown = Unknown
  None = None
PROPERTY ImplementsAtomicBoard
CHECK_DEADLOCK FALSE
