SPECIFICATION Spec
CONSTANTS
  Handles = {h1, h2}
  NoHandle = null
  AppCalls = {"init", "deinit", "set_url", "register", "connect", "disconnect", "send"}
  ConnectOnce = FALSE
  Overlap = FALSE
  Faults = {"timer_create", "wifi_init_early", "wifi_init_late", "wifi_assoc", "wifi_loss", "http_init", "http_open", "http_status", "peer_close", "peer_disconnect", "peer_dead"}
  MaxEvents = 3
  MaxLost = 1
INVARIANTS
  SettledState
  NoHandleLeak
  PingOnlyWhenConnected
  ConnectedIsLive
PROPERTY
  FollowsSession
