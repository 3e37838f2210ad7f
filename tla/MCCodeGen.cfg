CONSTANTS
  Sources <- MCPrograms
  NodesOf <- MCNodesOf
  NoLabel = NoLabel
  Global = Global
  NotYet = NotYet
SPECIFICATION FairSpec
INVARIANTS TypeOK FramesLinked StackBalanced CodeVerified JumpsLand CallsAsInSource
PROPERTIES Halts LabelsOnce
