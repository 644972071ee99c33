SPECIFICATION FairSpec
CONSTANTS
  Day = 2
  Times <- MCTimes
  Streaks = {0, 3}
  BadgeDefinitions <- MCBadges
  Hidden <- MCHidden
  NoTime = NoTime
  Calls = {c1, c2, c3}
  Users <- MCUsers
  Profiles <- MCProfiles
  NoRow = NoRow
  Breaks = TRUE
  Clients = {ip1, ip2}
  Slots = {r1, r2}
  RATE_LIMIT_PER_MINUTE = 2
  Minute = 2
  LastMinute = 1
  MaxAsked = 4
  Aggregates <- MCAggregates
  Histories <- MCHistories
  Cohorts <- MCCohorts
  Tenants <- MCTenants
  Noises <- MCNoises
  Blank = Blank
  Null = Null
INVARIANTS
  TypeOK
  StreakPaced
  BadgesEarned
  LoneSavesAreWhole
  OneInsertPerUser
  MinuteBound
  RefusalIsEarned
  LeakOnlyByCut
  SmallCohortsUndisclosed
  TrendIsComplete
PROPERTY EveryCallEnds
CHECK_DEADLOCK FALSE
