SPECIFICATION Spec
CONSTANTS
  Site = {"a", "b", "c"}
  Owner <- OwnerOf
  Settings <- Ways
  MaxEvents = 5
INVARIANTS TypeOK InOrder SegmentsApart ProfileTrue
CHECK_DEADLOCK FALSE
