SPECIFICATION Spec
CONSTANTS
  Programs <- Calling
  Ident <- X
  Null = Null
INVARIANTS CallsKept
CHECK_DEADLOCK FALSE
