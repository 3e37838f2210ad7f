SPECIFICATION Spec
CONSTANTS
  Global = "global"
  Sources <- MCPrograms
INVARIANTS MeaningKept FitsCodeGen
CHECK_DEADLOCK FALSE
