SPECIFICATION Spec
CONSTANTS
  Requests <- MCAllRequests
  Frames <- MCAllFrames
  Texts <- MCTexts
  MaxShort = 2
  MaxUnits = 5
  MaxAhead = 1
  MaxData = 1
CHECK_DEADLOCK FALSE
INVARIANTS ForwardedWhole TextWithinUtf8 ClosedLast FramesAfterUpgrade
PROPERTIES PongsEcho Utf8IsTaken
