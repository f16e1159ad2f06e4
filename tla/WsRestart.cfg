SPECIFICATION Spec
CONSTANTS
  Handles = {h1}
  NoHandle = null
  AppCalls = {"init", "deinit", "set_url", "connect"}
  ConnectOnce = FALSE
  Overlap = FALSE
  Faults = {}
  MaxEvents = 3
  MaxLost = 1
INVARIANTS
  WifiCanStart
CHECK_DEADLOCK FALSE
