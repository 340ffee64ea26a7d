SPECIFICATION Spec
CONSTANTS
  Run = {r1, r2}
  Handle = {h1}
  Slot = {a, b}
  MaxWrites = 3
  MaxCopies = 2
SYMMETRY Symmetry
INVARIANTS TypeOK CacheCoherent
PROPERTIES NoLostUpdate FreshRead
CHECK_DEADLOCK FALSE
