SPECIFICATION SpecAll
CONSTANTS
  NumInt = 5
  NumSse = 1
  VregCount = 25
  PregMap <- MCPregMap
  Costs = {}
  Edges = {}
  PushedParams = {}
  MaxLocals = 0
  RAX = 1
  RCX = 3
  RDX = 4
  ArgRegisters = {3, 4, 5}
  ResultRegisters = {1, 4, 6}
  CallerSaved = {1, 3, 4, 5, 6}
  Programs <- StructPrograms
INVARIANTS
  NoForcedSpill
