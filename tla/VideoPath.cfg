CONSTANTS
  Client = {"android", "web"}
  Param <- Both
  First <- Quick
  Floor = 65536
  DeltaSize = 32768
  IdrSize = 98304
  AudioSize = 32768
  Segment = 32768
  SendBuffer = 400000
  MaxUnread = 3
  MaxControl = 2
  MaxChanges = 1
SPECIFICATION FairSpec
CHECK_DEADLOCK FALSE
INVARIANTS PictureNeverSmeared RecoversWithinGop
PROPERTIES BacklogBounded PictureRecovers
