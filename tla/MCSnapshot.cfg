SPECIFICATION Spec
CONSTANTS
  Initial = 3
  MaxEdits = 3
INVARIANT TypeOK
PROPERTIES FirstReshapeLands IdentityPreserved
CHECK_DEADLOCK FALSE
