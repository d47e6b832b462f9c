SPECIFICATION ServicesFairSpec
CONSTANTS
  Fleet = {p1, p2}
  Powered = TRUE
  Probes = {"nozzle", "bed"}
  MaxEpisodes = 2
  Machines = {p1, p2}
  Waiting = 2
  Screens = {"s"}
  Healths = {"h", "k"}
  Joins = {"h"}
  Texts <- MCTexts
  Blank = ""
  AliasNames = {"S", "T", "X"}
  BareHosts = {"h"}
  FullAddress <- MCFullAddress
  Configured <- MCConfigured
  Apps = {a1, a2}
  Anyone = FALSE
  PrinterForms <- MCPrinterForms
  PlateForms <- MCPlateForms
  HandFiles <- MCHandFiles
  Modules = {m1, m2, m3}
  CameraOn = TRUE
  Calls = {c1, c2}
  Slots = 1
  Sockets = {s1, s2}
  Budget = 2
  FreshFor = 2
  SampleEvery = 2
  TrendMinSpan = 5
  TrendWindow = 9
  Printers = {p1, p2}
  Serials = {p1, p2, other}
  Writers = {w1, w2}
  Readers = {r1}
  Capacity = 2
  MaxClock = 5
INVARIANTS
  Answered
  Notified
  ProblemsRight
  OnePrinterPerName
  PageKeeps
  Orderly
  CamerasReturned
  NoSocketLeft
  TrendHolds
  NoLostWakeup
  CursorsBehind
PROPERTIES
  KeepsNewest
  EveryWaitAnswered
CHECK_DEADLOCK FALSE
