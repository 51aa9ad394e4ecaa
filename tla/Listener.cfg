SPECIFICATION FairSpec
CONSTANTS
  d1 = d1
  d2 = d2
  Null = Null
  Serial <- MCSerial
  Long <- MCLong
  Key <- MCKey
  Value <- Ids
  Hash <- MCHash
  NumBuckets = 1
  MaxNum = 2
  MaxOdd = 1
  LengthOctets = 2
  Inclusive = TRUE
CHECK_DEADLOCK FALSE
INVARIANTS TableSound TableIsCurrent ServedAreKnown OnlyOddMessagesClose
PROPERTY DevicesSeen
