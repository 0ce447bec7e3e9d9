SPECIFICATION FairSpec
CONSTANTS
  A = A
  B = B
  Node = {A, B}
  Value = {0, 1, 2}
  Written = {1, 2}
  Key = {1}
  Client <- OneClientEach
  Gossiper <- OneGossiperEach
  Deliverer = {d1}
  Home <- HomeOfThread
  Peers <- TwoPeers
  Writer <- AllWrite
  NoMsg = NoMsg
  NoKey = NoKey
  NoThread = NoThread
  NoScan = NoScan
  MaxSlow <- Never
  MaxPuts = 2
  MaxQueue = 1
  GossipAfter = 0
  MaxRestarts <- Never
  Unreachable = {B}
CHECK_DEADLOCK FALSE
PROPERTIES
  EventualClockAgreement
