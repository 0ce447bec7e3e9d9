SPECIFICATION Spec
CONSTANTS
  A = A
  B = B
  Node = {A, B}
  Value = {0, 1, 2}
  Written = {0, 1, 2}
  Key = {1, 2}
  Client <- TwoAtAOneAtB
  Gossiper = {}
  Deliverer = {d1, d2}
  Home <- HomeOfThread
  Peers <- TwoPeers
  Writer <- OneShared
  NoMsg = NoMsg
  NoKey = NoKey
  NoThread = NoThread
  NoScan = NoScan
  MaxSlow <- OnceEach
  MaxPuts = 3
  MaxQueue = 0
  GossipAfter = 0
  MaxRestarts <- Never
  Unreachable = {}
CHECK_DEADLOCK FALSE
INVARIANTS
  QuiescentClocksAgree
  SoleWriterConverged
