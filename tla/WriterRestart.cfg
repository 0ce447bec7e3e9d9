SPECIFICATION Spec
CONSTANTS
  A = A
  B = B
  Node = {A, B}
  Value = {0, 1, 2}
  Written = {0, 1, 2}
  Key = {1}
  Client <- TwoClientsAtA
  Gossiper = {}
  Deliverer = {d1}
  Home <- HomeOfThread
  Peers <- TwoPeers
  Writer <- OneWriterEach
  NoMsg = NoMsg
  NoKey = NoKey
  NoThread = NoThread
  NoScan = NoScan
  MaxSlow <- Never
  MaxPuts = 3
  MaxQueue = 0
  GossipAfter = 0
  MaxRestarts <- OnceAtA
  Unreachable = {}
CHECK_DEADLOCK FALSE
INVARIANTS
  SoleWriterConverged
