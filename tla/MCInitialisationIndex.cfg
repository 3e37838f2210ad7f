CONSTANTS
  Programs <- Elements
  Null = Null
SPECIFICATION Spec
INVARIANT InitInOrder
CHECK_DEADLOCK FALSE
