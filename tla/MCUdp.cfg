CONSTANTS
  N = 3
  AnyAddr = AnyAddr
  Me = Me
  Peer = Peer
  Addrs <- MCAddrs
  Ports <- MCPorts
  DynLo = 8
  DynHi = 9
  Datagrams <- MCDatagrams
  Locals <- MCLocals
  Remotes <- MCRemotes
  MaxQueue = 2
SPECIFICATION Spec
CONSTRAINT Bounded
INVARIANTS
  TypeOK
  EndpointsDisjoint
  TokenHasDatagram
CHECK_DEADLOCK FALSE
