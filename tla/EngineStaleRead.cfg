SPECIFICATION Spec
CONSTANTS
  self = self
  peer = peer
  Node = {self, peer}
  Self = self
  Garbage = 2
  NoReg = NoReg
  NoTask = NoTask
  NoPut = NoPut
  Torn = Torn
  Del = Del
  Key = {1, 2}
  Value = {0, 1, 2}
  Written <- PutAll
  Incoming <- NothingIncoming
  Reader = {r}
  SyncWrites = FALSE
  NumLevels = 3
  MemLimit = 1
  L0Trigger = 2
  LnTrigger = 2
  NlCounters = {10}
  BarCounters = {124}
  MaxPuts = 4
  MaxKills = 0
  MaxPowerLosses = 0
  MaxFailures = 0
CHECK_DEADLOCK FALSE
INVARIANTS
  ReadsAreRegular
