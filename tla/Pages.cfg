CONSTANTS
  d1 = d1
  d2 = d2
  sim = sim
  Device = {d1, sim}
  DeviceList = DeviceList
  Star = Star
  Garbage = Garbage
  Simulator = sim
  Client = {c1, c2}
  Fetch = {}
  App = {a1, a2}
  PageId = {i1, i2}
  MaxPage = 2
  Port = {1}
  Busy = {}
  Configs <- OneDevice
  None = None
  Gone = Gone
  Lost = Lost
SYMMETRY Symmetric
VIEW View
SPECIFICATION Spec
CHECK_DEADLOCK FALSE
INVARIANTS
  TypeOK
  ClientsOwnTheirPage
  PagesIdentified
  SessionsAccounted
PROPERTIES
  PageNumbersStable
  PagesTakenForAReason
