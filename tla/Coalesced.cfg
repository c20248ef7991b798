CONSTANTS
  Offset <- MCOffset
  Size = 0
  NumInt = 3
  NumSse = 1
  RAX = 1
  RCX = 2
  RDX = 3
  ArgRegisters = {2, 3}
  ResultRegisters = {1, 3, 4}
  EnableCoalescing = TRUE
  Sources <- CopySources
SPECIFICATION Spec
INVARIANTS
  ReadsFindTheirValues
  OperandsStayApart
