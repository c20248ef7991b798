SPECIFICATION FairSpec
CONSTANTS
  a = a
  b = b
  c = c
  d = d
  Keys <- FourKeys
  Values = {v1, v2}
  NoKey = NoKey
  Tombstone = Tombstone
  NoValue = NoValue
  Hash <- FourHashes
  InitialSize = 4
  MaxSize = 8
  RePuts = FALSE
INVARIANTS
  KeysDistinct
  CountsMatch
  SearchesEnd
  KeysReachable
PROPERTIES
  IsKeyValueMap
  PutsComplete
