CONSTANTS
  Commands = {"tcp receive", "tcp send"}
  MaxChan = 2
  MaxPuts = 2
SPECIFICATION FairSpec
PROPERTY TransmitRecurs
CHECK_DEADLOCK FALSE
