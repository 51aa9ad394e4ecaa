SPECIFICATION StreamSpec
CONSTANTS
  Requests <- MCRequests
  Frames <- MCFrames
  Texts <- MCTexts
  MaxShort = 1
  MaxUnits = 4
  MaxAhead = 4
  MaxData = 1
  MaskOctets = 2
  ExtOctets = 1
CHECK_DEADLOCK FALSE
INVARIANTS StreamTypeOK NothingWaits
PROPERTY ChunksDoNotMatter
