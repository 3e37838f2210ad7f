CONSTANTS
  Sources <- Negatives
  NodesOf <- MCNodesOf
  NoLabel = NoLabel
  Global = Global
  NotYet = NotYet
SPECIFICATION FairSpec
CHECK_DEADLOCK FALSE
INVARIANT AssertsHold
