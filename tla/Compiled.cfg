SPECIFICATION Spec
CONSTANTS
  Jobs <- Calls
INVARIANTS
  ArgumentsArrive
  ResultsArrive
  ObjectsKeepTheirValues
  CallsAreAligned
  ReturnsCleanly
