SPECIFICATION FairSpec
CONSTANTS
  self = self
  peer = peer
  Node = {self, peer}
  Self = self
  Garbage = 2
  NoReg = NoReg
  NoTask = NoTask
  NoPut = NoPut
  Torn = Torn
  Del = Del
  Key = {1, 2}
  Value = {0, 1, 2}
  Written <- RemoveOne
  Incoming <- MixedIncoming
  Reader = {}
  SyncWrites = FALSE
  NumLevels = 3
  MemLimit = 0
  L0Trigger = 2
  LnTrigger = 2
  NlCounters = {10}
  BarCounters = {124}
  MaxPuts = 3
  MaxKills = 1
  MaxPowerLosses = 0
  MaxFailures = 0
CHECK_DEADLOCK FALSE
INVARIANTS
  MemoryIsLogged
  ScanAgreesWithGet
  FlushedIsReachable
PROPERTIES
  ImplementsStore
  AckedSurvives
  WorkerCatchesUp
