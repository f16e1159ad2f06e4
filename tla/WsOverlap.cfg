SPECIFICATION Spec
CONSTANTS
  Handles = {h1, h2}
  NoHandle = null
  AppCalls = {"init", "set_url", "connect"}
  ConnectOnce = FALSE
  Overlap = TRUE
  Faults = {"wifi_loss", "http_status"}
  MaxEvents = 3
  MaxLost = 1
SYMMETRY Symmetry
INVARIANTS
  TypeOK
  ReconnectCountBounded
