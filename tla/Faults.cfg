SPECIFICATION Spec
CONSTANTS
  A = A
  B = B
  Node = {A, B}
  Value = {0, 1, 2}
  Written = {0, 1}
  Key = {1, 2}
  Client <- OneClientEach
  Gossiper <- GossiperAtA
  Deliverer = {d1}
  Home <- HomeOfThread
  Peers <- TwoPeers
  Writer <- OneShared
  NoMsg = NoMsg
  NoKey = NoKey
  NoThread = NoThread
  NoScan = NoScan
  MaxSlow <- OnceAtA
  MaxPuts = 3
  MaxQueue = 1
  GossipAfter = 2
  MaxRestarts <- OnceAtA
  Unreachable = {}
CHECK_DEADLOCK FALSE
INVARIANTS
  TypeOK
  LocalClockCovers
  OwnCounterLeads
  CausalDelivery
PROPERTIES
  LiveNeverRegresses
  ImplementsGossip
