SPECIFICATION FairSpec
CONSTANTS
  Session = {s1, s2}
  Home <- Opposite
  Casts <- AllCasts
INVARIANTS TypeOK OneContinuation ReleasedAtEnd
PROPERTIES KeepsPromise EverySessionEnds
CHECK_DEADLOCK FALSE
