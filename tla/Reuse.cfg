CONSTANTS
  Fd = {1, 2}
  Servers = {}
  Peers = {1, 2}
  MaxBytes = 1
  MaxGen = 2
SPECIFICATION FairSpec
CHECK_DEADLOCK FALSE
INVARIANTS
  ReadinessIsCurrent
  RecvFdsExact
PROPERTIES
  StreamsReliable
  EverythingSent
  InputResumes
  CleanupEnds
