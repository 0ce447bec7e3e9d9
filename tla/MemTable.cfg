SPECIFICATION FairSpec
CONSTANTS
  kBlockSize = 4096
  nullptr = nullptr
  Key = {1, 2, 3}
  KeySize <- SomeKeySizes
  ValueSizes <- SomeValueSizes
  kMaxHeight = 2
  Reader = {r}
  Ranges <- SomeRanges
  head = head
  Nil = Nil
  Uninit = Uninit
  NoView = NoView
  MaxPuts = 3
CHECK_DEADLOCK FALSE
INVARIANTS
  TypeOK
  ArenaIsSound
  LevelsAreSorted
  NoWildPointer
  GetIsRegular
  ScanIsRegular
  FlushSeesEveryPut
PROPERTIES
  ReadsReturn
