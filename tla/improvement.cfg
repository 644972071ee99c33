SPECIFICATION FairSpec
CONSTANTS
  Members = {1, 2, 3}
  MaxScore = 4
  Requests = {q1, q2}
  ListLimit = 2
  Retries = 1
  Faults = TRUE
  Seed <- MCSeed
  Traffic <- MCTraffic
  Industries <- MCIndustries
  Regions <- MCRegions
  Sizes <- MCSizes
  finance = finance
  retail = retail
  apac = apac
  small = small
  Absent = Absent
  Unknown = Unknown
  None = None
INVARIANTS
  TypeOK
  SegmentsWithinGlobal
  OnlyRivalsOverwrite
  ListingIsRanked
PROPERTY EveryRequestEnds
CHECK_DEADLOCK FALSE
