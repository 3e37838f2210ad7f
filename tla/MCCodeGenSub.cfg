CONSTANTS
  Sources <- Subtractions
  NodesOf <- MCNodesOf
  NoLabel = NoLabel
  Global = Global
  NotYet = NotYet
SPECIFICATION FairSpec
CHECK_DEADLOCK FALSE
INVARIANT CallsAsInSource
