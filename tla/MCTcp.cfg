CONSTANTS
  N = 1
  SeqMax = 6
  BufLen = 2
  InitialSeqs = {1}
  AnyAddr = AnyAddr
  Me = Me
  Peer = Peer
  Other = Other
  byte = byte
  Addrs <- MCAddrs
  Ports <- MCPorts
  Bytes <- MCBytes
  DynLo = 5
  DynHi = 6
  Swap <- MCSwap
  Mss = 1
  Segments <- ConnectionSegments
  Locals <- MeAt7
  Remotes <- PeerAt9
  Payloads <- OnePayload
  Sizes = {1, 2}
  Api = {"active", "passive", "send", "receive", "close"}
  MaxChan = 2
  MaxBuf = 3
  MaxQueue = 2
  MaxBacklog = 1
SPECIFICATION Spec
VIEW Internal
CONSTRAINT Bounded
INVARIANTS
  TypeOK
  NeverHalfClosed
  SendSpace
  QueueOrdered
  NoLostWakeup
  SendStarves
PROPERTIES
  AckMonotone
  ReceiveMonotone
  FollowsLifecycle
CHECK_DEADLOCK FALSE
