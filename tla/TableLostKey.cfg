SPECIFICATION Spec
CONSTANTS
  Key = {1, 2, 3, 4, 5, 6, 7}
  EntrySize = {9, 60}
  BlockTarget = 80
  RestartInterval = 2
  BitsPerKey = 10
  Hash <- TwoHashes
  Tables <- AllTables
INVARIANTS
  GetIsExact
