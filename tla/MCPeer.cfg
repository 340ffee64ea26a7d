SPECIFICATION FairSpec
CONSTANTS
  Call = {c1, c2, c3}
  Type = {deref}
  Result = {ok}
  NoCall = NoCall
  MaxId = 2
INVARIANTS TypeOK Correlated PendingIsWaiting
PROPERTIES SettledOnce EverySettles
CHECK_DEADLOCK FALSE
