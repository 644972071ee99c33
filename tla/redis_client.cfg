SPECIFICATION FairSpec
CONSTANTS
  Main = main
  Requests = {t1, t2}
  None = None
INVARIANTS
  TypeOK
  OneClient
  NoRequestWithoutClient
  HealthIsTrue
  MadeUpOnlyInRace
PROPERTIES
  Starts
  EveryRequestAnswered
CHECK_DEADLOCK FALSE
