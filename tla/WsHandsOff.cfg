SPECIFICATION FairSpec
CONSTANTS
  Handles = {h1, h2}
  NoHandle = null
  AppCalls = {"init", "set_url", "register", "connect", "send"}
  ConnectOnce = TRUE
  Overlap = TRUE
  Faults = {"timer_create", "wifi_init_early", "wifi_init_late", "wifi_assoc", "wifi_loss", "http_init", "http_open", "http_status", "peer_close", "peer_disconnect", "peer_dead"}
  MaxEvents = 3
  MaxLost = 1
INVARIANTS
  HandlesInUseAreLive
  SingleHandshake
PROPERTIES
  CallsReturn
  ConnectSettles
CHECK_DEADLOCK FALSE
