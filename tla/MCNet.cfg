CONSTANTS
  MyHw = MyHw
  GwHw = GwHw
  NewHw = NewHw
  HwBroadcast = HwBroadcast
  HwZero = HwZero
  Hws <- MCHws
  Frames <- MCFrames
  Sendings <- MCSendings
  Slots = 2
  FirstId = 128
  IdMax = 130
  MaxPayload = 1500
  MaxFrames = 3
SPECIFICATION Spec
INVARIANTS
  NetTypeOK
  NoPacketStranded
  ReadFindsFrame
  ToAnnounced
  SentVerifies
PROPERTIES
  AnnouncementTaken
  FollowsInbox
CHECK_DEADLOCK FALSE
