SPECIFICATION Spec
CONSTANTS
  Members = {1, 2}
  MaxScore = 6
  Requests = {q1, q2, q3}
  TopLimit = 5
  DimensionLimit = 2
  Retries = 1
  Faults = TRUE
  Traffic <- WritersTraffic
  Seed <- OnePlayer
  Tenants <- MCTenants
  Industries <- MCIndustries
  Regions <- MCRegions
  Sizes <- MCSizes
  tenant1 = tenant1
  tenant2 = tenant2
  finance = finance
  retail = retail
  apac = apac
  small = small
  Absent = Absent
  BadName = BadName
  Unknown = Unknown
  None = None
INVARIANTS
  TenantMirror
  AcknowledgedIncrementsCount
SYMMETRY RequestSymmetry
CHECK_DEADLOCK FALSE
