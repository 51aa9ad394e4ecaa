SPECIFICATION FairSpec
CONSTANTS
  Messages <- MCMessages
  Contents <- MCContents
  Number <- MCNumber
  MaxUint = 2
  MaxRpc = 2
  MaxBody = 4
  MaxSent = 3
  LengthOctets = 2
  Inclusive = FALSE
CHECK_DEADLOCK FALSE
INVARIANTS ReceivedWhole FailsForLengthOnly CallsAsMeant ListedOnce
PROPERTY SentIsReceived
