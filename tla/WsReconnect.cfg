SPECIFICATION FairSpec
CONSTANTS
  Handles = {h1}
  NoHandle = null
  AppCalls = {"init", "set_url", "connect"}
  ConnectOnce = TRUE
  Overlap = TRUE
  Faults = {"wifi_loss"}
  MaxEvents = 3
  MaxLost = 1
PROPERTIES
  RecoversFromWifiLoss
CHECK_DEADLOCK FALSE
