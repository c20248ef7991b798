CONSTANTS
  Offset <- MCOffset
  Size = 4
  NumInt = 3
  NumSse = 1
  RAX = 1
  RCX = 2
  RDX = 3
  ArgRegisters = {2, 3}
  ResultRegisters = {1, 3, 4}
  EnableCoalescing = FALSE
  Sources <- FlowSources
SPECIFICATION Spec
INVARIANTS
  DominatorsAreFound
  IdomIsNearest
  FrontierEndsDominance
  PhisAreLeast
  SingleAssignment
  ReadsFindTheirValues
PROPERTIES
  LeavesStackAsFound
  RunsAlongEdges
