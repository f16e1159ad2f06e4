------------------------------ MODULE WsSession ------------------------------
(***************************************************************************)
(* What ws_client.h shows an application, without tasks, timers, WiFi and  *)
(* HTTP clients: ws_client_get_state, ws_client_is_connected and the last  *)
(* connection event of the callback.  A session begins with a handshake of *)
(* its own, is announced once, and once lost never comes back: the next    *)
(* one begins after the application was told that this one is over.        *)
(***************************************************************************)
VARIABLES
  state,      \* ws_client_get_state
  connected,  \* ws_client_is_connected
  hears,      \* a callback is registered
  told,       \* what it heard last: "none", "connected" or "disconnected"
  due         \* a session is up and the application is about to be told

vars == <<state, connected, hears, told, due>>

Init ==
  /\ state = "IDLE" /\ connected = FALSE /\ hears = FALSE /\ told = "none"
  /\ due = FALSE

Show == <<state, connected>>
Told == <<hears, told, due>>

Tell(event) == told' = (IF hears THEN event ELSE told) /\ UNCHANGED hears

Register == hears' = TRUE /\ ~due /\ UNCHANGED <<Show, told, due>>

\* A handshake, which ends in ERROR, or in a session that is then announced.
Begin ==
  /\ state \in {"IDLE", "ERROR"} /\ ~connected /\ told # "connected"
  /\ state' = "CONNECTING"
  /\ UNCHANGED <<connected, Told>>

Fail == state = "CONNECTING" /\ ~connected /\ state' = "ERROR" /\ UNCHANGED <<connected, Told>>

Accept == state = "CONNECTING" /\ ~connected /\ connected' = TRUE /\ UNCHANGED <<state, Told>>

Up ==
  /\ state = "CONNECTING" /\ connected
  /\ state' = "CONNECTED" /\ due' = TRUE
  /\ UNCHANGED <<connected, hears, told>>

\* Nothing else happens to a session before it has been announced.
Announce == due /\ due' = FALSE /\ Tell("connected") /\ UNCHANGED Show

\* The session is lost, which the application may be told; the state stays.
Lose ==
  /\ state = "CONNECTED" /\ ~due
  /\ connected' = FALSE
  /\ UNCHANGED <<hears, told>> \/ Tell("disconnected")
  /\ UNCHANGED <<state, due>>

\* ws_client_disconnect: it always tells.
Disconnect ==
  /\ state \in {"CONNECTED", "ERROR"} /\ ~due
  /\ state' = "DISCONNECTING"
  /\ UNCHANGED <<connected, Told>>

Close == state = "DISCONNECTING" /\ connected' = FALSE /\ UNCHANGED <<state, Told>>

Closed == state = "DISCONNECTING" /\ ~connected /\ state' = "IDLE" /\ UNCHANGED <<connected, Told>>

TellClosed == state = "IDLE" /\ Tell("disconnected") /\ UNCHANGED <<Show, due>>

\* The end of ws_client_deinit: not from within a handshake.
Deinit ==
  /\ state \in {"IDLE", "CONNECTED", "ERROR"} /\ ~connected /\ ~due
  /\ state' = "IDLE" /\ hears' = FALSE /\ told' = "none"
  /\ UNCHANGED <<connected, due>>

Next ==
  \/ Register \/ Begin \/ Fail \/ Accept \/ Up \/ Announce \/ Lose
  \/ Disconnect \/ Close \/ Closed \/ TellClosed \/ Deinit

Spec == Init /\ [][Next]_vars

=============================================================================
