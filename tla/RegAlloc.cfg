SPECIFICATION Spec
CONSTANTS
  NumInt = 2
  NumSse = 1
  VregCount <- MCVregCount
  PregMap <- MCPregMap
  Costs = {1, 2}
  Edges <- MCEdges
  PushedParams = {5}
  MaxLocals = 1
INVARIANTS
  NoSharedRegister
  NeverPanics
  UnconstrainedNeverSpill
  NoNeedlessSpill
  SpillSlotsDistinct
  EveryVregPlaced
