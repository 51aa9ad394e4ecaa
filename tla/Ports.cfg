CONSTANTS
  d1 = d1
  d2 = d2
  sim = sim
  Device = {d1, d2, sim}
  DeviceList = DeviceList
  Star = Star
  Garbage = Garbage
  Simulator = sim
  Client = {c1, c2}
  Fetch = {f1, f2}
  App = {}
  PageId = {}
  MaxPage = 0
  Port = {1, 2, 3}
  Busy = {2}
  Configs <- TwoConfigs
  None = None
  Gone = Gone
  Lost = Lost
SYMMETRY Symmetric
SPECIFICATION Spec
CHECK_DEADLOCK FALSE
INVARIANTS
  PortFollowsInspector
  PortsDistinct
  ClientsOnOpenPorts
  FetchOfClient
PROPERTIES
  StickyPort
  FailureIsLocal
