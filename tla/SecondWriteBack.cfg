SPECIFICATION Spec
CONSTANTS
  Initial = 3
  MaxEdits = 3
PROPERTIES EveryWriteBackLands
CHECK_DEADLOCK FALSE
