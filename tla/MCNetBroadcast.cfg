CONSTANTS
  MyHw = MyHw
  GwHw = GwHw
  NewHw = NewHw
  HwBroadcast = HwBroadcast
  HwZero = HwZero
  Hws <- MCHws
  Frames <- BroadcastFrames
  Sendings <- NoSendings
  Slots = 2
  FirstId = 128
  IdMax = 131
  MaxPayload = 1500
  MaxFrames = 3
SPECIFICATION Spec
PROPERTY BroadcastEchoSurvives
CHECK_DEADLOCK FALSE
