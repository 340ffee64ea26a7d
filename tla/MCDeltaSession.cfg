SPECIFICATION DeltaSpec
CONSTANTS
  Modes = {"tracked", "exact", "rescan"}
  Width = 2
  MaxWrites = 2
  MaxHops = 6
  MaxFull = 1
INVARIANTS StoresOK Agree NamesAgree
CHECK_DEADLOCK FALSE
