CONSTANTS
  Fd = {1, 2, 3}
  Servers = {1}
  Peers = {2}
  MaxBytes = 2
  MaxGen = 1
SPECIFICATION Spec
CHECK_DEADLOCK FALSE
INVARIANTS
  TypeOK
  RemovedOnce
PROPERTIES
  StreamsReliable
