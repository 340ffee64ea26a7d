SPECIFICATION FairSpec
CONSTANTS
  Url = {"u"}
  Key = {"k"}
  UrlOf <- Paths
  Route = {"r1","r2"}
  Bundled <- Bundles
  Window = 1
  MaxGets = 3
  MaxWrites = 1
  MaxRuns = 2
  MaxAsks = 4
  MaxClock = 1
  MaxFailures = 1
INVARIANTS TypeOK OneRide
PROPERTIES AnswersFresh EverySettles
CHECK_DEADLOCK FALSE
