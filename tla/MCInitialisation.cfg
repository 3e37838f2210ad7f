CONSTANTS
  Programs <- MCPrograms
  Null = Null
SPECIFICATION Spec
INVARIANTS InitInOrder LinkageDims
CHECK_DEADLOCK FALSE
