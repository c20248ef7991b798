SPECIFICATION FairSpec
CONSTANTS
  BlockCount = 3
  VregSet <- OneVreg
INVARIANTS
  SkippingIsSafe
  NothingMissing
  NothingSpurious
PROPERTIES
  Termination
