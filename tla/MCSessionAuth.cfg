SPECIFICATION FairSpec
CONSTANTS
  Tab = {t1, t2}
  Crossings = 2
  Early = {t1}
  Options <- Deployed
  MaxRestarts = 1
  MaxFailures = 1
INVARIANTS TypeOK RefusedOnlyInDoubt
PROPERTIES NoLateRotation SettlesOnceOpen
CHECK_DEADLOCK FALSE
