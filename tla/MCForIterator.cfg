SPECIFICATION Spec
CONSTANTS
  Programs <- MCPrograms
  Ident <- X
  Null = Null
INVARIANTS ShadowingKept LoopVarsOwn
CHECK_DEADLOCK FALSE
