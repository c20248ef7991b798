SPECIFICATION FairSpec
CONSTANTS
  a = a
  b = b
  c = c
  d = d
  Keys <- ThreeKeys
  Values = {v1, v2}
  NoKey = NoKey
  Tombstone = Tombstone
  NoValue = NoValue
  Hash <- ThreeHashes
  InitialSize = 4
  MaxSize = 8
  RePuts = TRUE
PROPERTIES
  DeletedIsGone
