SPECIFICATION FairSpec
CONSTANTS
  c1 = c1
  c2 = c2
  c3 = c3
  r1 = r1
  r2 = r2
  p1 = p1
  p2 = p2
  Call = {c1, c2, c3}
  Route = {r1, r2}
  Principal = {p1, p2}
  Settings <- FaultyOrTimed
  MaxCalls = 1
  Window = 2
INVARIANTS TypeOK OwnAnswer JudgedAsItself Budget WindowsBounded
PROPERTIES EverySettles
CHECK_DEADLOCK FALSE
