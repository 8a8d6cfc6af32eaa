CONSTANTS
  N = 2
  SeqMax = 6
  BufLen = 2
  InitialSeqs = {1}
  AnyAddr = AnyAddr
  Me = Me
  Peer = Peer
  Other = Other
  byte = byte
  Addrs <- MCAddrs
  Ports <- MCPorts
  Bytes <- MCBytes
  DynLo = 5
  DynHi = 6
  Swap <- MCSwap
  Mss = 1
  Segments <- SocketSegments
  Locals <- AnyAt7
  Remotes <- PeerAt9
  Payloads <- NoPayloads
  Sizes = {2}
  Api = {"active", "open", "bind", "listen", "accept", "connect", "close"}
  MaxChan = 2
  MaxBuf = 1
  MaxQueue = 1
  MaxBacklog = 2
SPECIFICATION Spec
VIEW Internal
CONSTRAINT Bounded
INVARIANTS
  NoLostWakeup
  ConnectStarves
  AcceptStarves
PROPERTY FollowsLifecycle
CHECK_DEADLOCK FALSE
