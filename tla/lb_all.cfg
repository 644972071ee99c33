SPECIFICATION FairSpec
CONSTANTS
  Members = {1, 2}
  MaxScore = 4
  Requests = {q1, q2}
  TopLimit = 5
  DimensionLimit = 2
  Retries = 1
  Faults = TRUE
  Traffic <- EveryOperation
  Seed <- OnePlayer
  Tenants <- MCTenants
  Industries <- MCIndustries
  Regions <- MCRegions
  Sizes <- MCSizes
  tenant1 = tenant1
  tenant2 = tenant2
  finance = finance
  retail = retail
  apac = apac
  small = small
  Absent = Absent
  BadName = BadName
  Unknown = Unknown
  None = None
INVARIANTS
  TypeOK
  AcknowledgedWriteTookEffect
  RefusedRequestNeverWrites
  OnceUnlessRepeated
  TwoLooksDifferByWrites
  DimensionMembers
  InfinityOnlyAdded
PROPERTY EveryRequestAnswered
CHECK_DEADLOCK FALSE
