CONSTANTS
  Commands = {"tcp send", "tcp receive", "udp send", "udp receive"}
  MaxChan = 2
  MaxPuts = 2
SPECIFICATION Spec
INVARIANTS
  TypeOK
  DeadlockNeedsReversal
  HangsAreKnown
PROPERTY SleeperEnds
CHECK_DEADLOCK FALSE
