CONSTANTS
  N = 1
  AnyAddr = AnyAddr
  Me = Me
  Peer = Peer
  Addrs <- MCAddrs
  Ports <- MCPorts
  DynLo = 8
  DynHi = 9
  Datagrams <- MCDatagrams
  Locals <- MCLocals
  Remotes <- MCRemotes
  MaxQueue = 3
  Well <- MCWell
  Target <- MCTarget
  Command = "receive"
SPECIFICATION BoundedSpec
INVARIANT NothingStranded
CHECK_DEADLOCK FALSE
