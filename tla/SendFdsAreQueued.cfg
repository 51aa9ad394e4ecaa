CONSTANTS
  Fd = {1, 2}
  Servers = {}
  Peers = {1, 2}
  MaxBytes = 2
  MaxGen = 1
SPECIFICATION Spec
CHECK_DEADLOCK FALSE
INVARIANT
  SendFdsAreQueued
