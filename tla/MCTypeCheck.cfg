SPECIFICATION Spec
CONSTANTS
  Programs <- MCPossible
  Nodes <- MCNodes
  Null = Null
INVARIANTS ErrorsExact AnnotatedRight StaticsSound
CHECK_DEADLOCK FALSE
