------------------------------ MODULE WsClient ------------------------------
(***************************************************************************)
(* The connection life cycle of components/ws_client: WiFi bring-up, the   *)
(* WebSocket handshake, the ping and reconnect timers and the API calls.   *)
(*                                                                         *)
(* Nothing in ws_client.c is locked.  Its code runs in three FreeRTOS      *)
(* tasks: the application's task (the API), the default event-loop task    *)
(* (wifi_event_handler) and the esp_timer task (both timer callbacks, one  *)
(* at a time).  ws_client_connect can be entered from all three.  The      *)
(* fourth, Net, delivers HTTP client events that come from no call of      *)
(* these.  A step is one store to s_ctx, one call of a driver with the     *)
(* store of its result, or one condition.  The exceptions take several     *)
(* calls or stores at once: InitContext, InitTimers, AppDeinit, DeinitEnd, *)
(* InitWifi, and the end of a close in HandlerReturns.                     *)
(*                                                                         *)
(* The WiFi driver, the HTTP client and the peer are external: they do     *)
(* what ws_client.c relies on, and fail in the ways listed in Faults.      *)
(***************************************************************************)
EXTENDS Naturals, Sequences

CONSTANTS
  Handles,      \* the memory blocks esp_http_client_init can return
  NoHandle,     \* the null handle
  AppCalls,     \* the API functions this application uses
  ConnectOnce,  \* TRUE: the application calls ws_client_connect only once
  Overlap,      \* FALSE: no two tasks are inside ws_client.c at once
  Faults,       \* the failures the environment may produce
  MaxEvents,    \* capacity of the event-loop queue; posting waits when full
  MaxLost       \* bound on lost, for TLC

\* Without set_wifi, which copies strings no step reads, and the two getters,
\* which only read: they show ctx.state and ctx.ws_connected.
AllCalls == {"init", "deinit", "set_url", "register", "connect",
             "disconnect", "send"}

AllFaults == {"timer_create", "wifi_init_early", "wifi_init_late",
              "wifi_assoc", "wifi_loss", "http_init", "http_open",
              "http_status", "peer_close", "peer_disconnect", "peer_dead"}

ASSUME ConstantsAssumption ==
  /\ NoHandle \notin Handles
  /\ AppCalls \subseteq AllCalls
  /\ ConnectOnce \in BOOLEAN
  /\ Overlap \in BOOLEAN
  /\ Faults \subseteq AllFaults
  /\ MaxEvents \in Nat \ {0}
  /\ MaxLost \in Nat

VARIABLES
  ctx,               \* s_ctx, without the receive buffer
  pc,                \* where each task is; "idle" is outside ws_client.c
  hnd,               \* the handle a task has passed to a blocking HTTP call
  handler,           \* what a task in HTTP_EVENT_DISCONNECTED does next
  http,              \* what each handle is: "free", "created" or "open"
  ping, reconnect,   \* the timers: "null", "stopped" or "armed"
  loaded,            \* what reconnect_count++ has read and not yet written
  lost,              \* history: resets of the count that it has overwritten
  wifi_initialized,  \* s_wifi_initialized
  drv,               \* the WiFi driver: "absent", "inited" or "started"
  link,              \* the association: "down", "trying" or "up"
  events,            \* the event-loop queue
  view,              \* the last connection event the callback was given
  up,                \* the application is between init and deinit
  started,           \* the application has called ws_client_connect
  peer               \* the server: "alive" or "dead"

wifi == <<wifi_initialized, drv, link, events>>
calls == <<hnd, handler>>
retry == <<reconnect, loaded, lost>>
timers == <<ping, retry>>
app == <<view, up, started>>
vars == <<ctx, pc, calls, http, timers, wifi, app, peer>>

App == "app"
Evt == "evt"
Tmr == "tmr"
Net == "net"
Tasks == {App, Evt, Tmr, Net}

WsStates == {"IDLE", "CONNECTING", "CONNECTED", "DISCONNECTING", "ERROR"}

\* What memset(&s_ctx, 0, sizeof(s_ctx)) leaves.
ZeroCtx == [state           |-> "IDLE",
            wifi_connected  |-> FALSE,
            ws_connected    |-> FALSE,
            handshake_done  |-> FALSE,
            reconnect_count |-> 0,
            client          |-> NoHandle,
            url             |-> FALSE,
            callback        |-> FALSE]

ContextType == [state           : WsStates,
                wifi_connected  : BOOLEAN,
                ws_connected    : BOOLEAN,
                handshake_done  : BOOLEAN,
                reconnect_count : Nat,
                client          : Handles \cup {NoHandle},
                url             : BOOLEAN,
                callback        : BOOLEAN]

\* The program points of the four places that give up the HTTP client:
\* close it (which reports HTTP_EVENT_DISCONNECTED), clean it up, and forget
\* the pointer.
AfterClose == [close        |-> "cleanup",
               fail_close   |-> "fail_cleanup",
               disc_close   |-> "disc_cleanup",
               deinit_close |-> "deinit_cleanup"]
AfterCleanup == [cleanup        |-> "forget",
                 fail_cleanup   |-> "fail_forget",
                 disc_cleanup   |-> "disc_forget",
                 deinit_cleanup |-> "deinit_forget"]
AfterForget == [forget        |-> "create",
                fail_forget   |-> "fail",
                disc_forget   |-> "disc_idle",
                deinit_forget |-> "deinit_end"]

Labels == {"idle", "init", "init_timers", "connect", "no_wifi", "check", "claim",
           "create", "open", "opening", "status", "accepted", "ready", "upgraded",
           "ping_start", "announce", "fail", "sending", "write",
           "disc_ping", "disc_reconnect", "disc_frame", "disc_sending", "disc_write",
           "disc_flag", "disc_shake", "disc_idle", "disc_notify", "deinit_end",
           "bump", "bump_store", "got_ip", "lost_ws", "lost_ping", "lost",
           "rearm", "arm", "peer_close", "peer_tell", "peer_gone"}
          \cup DOMAIN AfterClose \cup DOMAIN AfterCleanup \cup DOMAIN AfterForget

\* Where ws_client_connect is while the state it set is CONNECTING.
Handshaking == {"close", "cleanup", "forget", "create", "open", "opening", "status",
                "accepted", "ready", "upgraded",
                "fail_close", "fail_cleanup", "fail_forget", "fail"}

\* The statements of HTTP_EVENT_DISCONNECTED, and "none" outside of it.
HandlerPoints == {"none", "ws_connected", "handshake_done", "ping"}

-----------------------------------------------------------------------------
(* Helpers.                                                                *)

Goto(t, from, to) ==
  /\ pc[t] = from
  /\ pc' = [pc EXCEPT ![t] = to]

\* A task enters ws_client.c, at label to.
Enter(t, to) ==
  /\ \A u \in Tasks : (u = t \/ ~Overlap) => pc[u] = "idle"
  /\ pc' = [pc EXCEPT ![t] = to]

\* A handler that returns without a blocking call.
Handle(t) == Enter(t, "idle")

\* A blocking call of the HTTP client takes the handle s_ctx has now, and
\* works on it until it returns.
Hold(t) == hnd' = [hnd EXCEPT ![t] = ctx.client] /\ UNCHANGED handler
Release(t) == hnd' = [hnd EXCEPT ![t] = NoHandle] /\ UNCHANGED handler

Calls(f) == f \in AppCalls /\ (up <=> f # "init")

StopTimer(timer) == IF timer = "null" THEN "null" ELSE "stopped"
StartTimer(timer) == IF timer = "null" THEN "null" ELSE "armed"

Notify(event) == view' = IF ctx.callback THEN event ELSE view

\* esp_wifi_connect
WifiConnect(l) == IF drv = "started" /\ l = "down" THEN "trying" ELSE l

-----------------------------------------------------------------------------
(* ws_client_init, ws_client_set_url, ws_client_register_callback.         *)

\* init_timers: either esp_timer_create may fail, and init ignores it.
CreateTimers ==
  LET Created(timer) ==
        IF timer # "null" THEN {timer}
        ELSE {"stopped"} \cup (IF "timer_create" \in Faults THEN {"null"} ELSE {})
  IN  /\ ping' \in Created(ping)
      /\ reconnect' \in (IF ping' = "null" THEN {reconnect} ELSE Created(reconnect))

AppInit ==
  /\ Calls("init")
  /\ \/ ctx.state = "IDLE" /\ Enter(App, "init") /\ UNCHANGED up
     \/ ctx.state # "IDLE" /\ Handle(App) /\ up' = TRUE
  /\ UNCHANGED <<ctx, calls, http, timers, wifi, view, started, peer>>

InitContext ==
  /\ Goto(App, "init", "init_timers")
  /\ ctx' = ZeroCtx
  /\ UNCHANGED <<calls, http, timers, wifi, app, peer>>

InitTimers ==
  /\ Goto(App, "init_timers", "idle")
  /\ CreateTimers
  /\ ctx' = [ctx EXCEPT !.state = "IDLE"]
  /\ up' = TRUE
  /\ UNCHANGED <<calls, http, loaded, lost, wifi, view, started, peer>>

AppSetUrl ==
  /\ Calls("set_url") /\ ~ctx.url
  /\ Handle(App)
  /\ ctx' = [ctx EXCEPT !.url = TRUE]
  /\ UNCHANGED <<calls, http, timers, wifi, app, peer>>

AppRegister ==
  /\ Calls("register") /\ ~ctx.callback
  /\ Handle(App)
  /\ ctx' = [ctx EXCEPT !.callback = TRUE]
  /\ UNCHANGED <<calls, http, timers, wifi, app, peer>>

-----------------------------------------------------------------------------
(* ws_client_connect, in whichever task t runs it.                         *)

AppConnect ==
  /\ Calls("connect") /\ (ConnectOnce => ~started)
  /\ Enter(App, "connect")
  /\ started' = TRUE
  /\ UNCHANGED <<ctx, calls, http, timers, wifi, view, up, peer>>

\* init_wifi.  "early" is any failure before esp_wifi_init has succeeded,
\* "late" one after it: the driver then exists but is not started.
InitWifi ==
  \/ wifi_initialized /\ UNCHANGED wifi
  \/ /\ ~wifi_initialized /\ drv # "absent"
     /\ wifi_initialized' = TRUE
     /\ UNCHANGED <<drv, link, events>>
  \/ /\ ~wifi_initialized /\ drv = "absent"
     /\ \/ "wifi_init_early" \in Faults /\ UNCHANGED wifi
        \/ /\ "wifi_init_late" \in Faults
           /\ drv' = "inited"
           /\ UNCHANGED <<wifi_initialized, link, events>>
        \/ /\ drv' = "started"
           /\ wifi_initialized' = TRUE
           /\ events' = Append(events, "STA_START")
           /\ UNCHANGED link

ConnectNoWifi(t) ==
  /\ ~ctx.wifi_connected
  /\ Goto(t, "connect", "no_wifi")
  /\ UNCHANGED <<ctx, calls, http, timers, wifi, app, peer>>

BringUpWifi(t) ==
  /\ Goto(t, "no_wifi", "idle")
  /\ \/ ctx.state = "IDLE" /\ InitWifi
     \/ ctx.state # "IDLE" /\ UNCHANGED wifi
  /\ UNCHANGED <<ctx, calls, http, timers, app, peer>>

MayHandshake == ctx.state \notin {"CONNECTED", "CONNECTING"} /\ ctx.url

ConnectWifiUp(t) ==
  /\ ctx.wifi_connected
  /\ Goto(t, "connect", "check")
  /\ UNCHANGED <<ctx, calls, http, timers, wifi, app, peer>>

ConnectChecked(t) ==
  /\ Goto(t, "check", IF MayHandshake THEN "claim" ELSE "idle")
  /\ UNCHANGED <<ctx, calls, http, timers, wifi, app, peer>>

ConnectClaim(t) ==
  /\ Goto(t, "claim", "close")
  /\ ctx' = [ctx EXCEPT !.state = "CONNECTING"]
  /\ UNCHANGED <<calls, http, timers, wifi, app, peer>>

HttpCreate(t) ==
  \/ \E h \in Handles :
       /\ http[h] = "free"
       /\ Goto(t, "create", "open")
       /\ http' = [http EXCEPT ![h] = "created"]
       /\ ctx' = [ctx EXCEPT !.client = h]
       /\ UNCHANGED <<calls, timers, wifi, app, peer>>
  \/ /\ "http_init" \in Faults \/ \A h \in Handles : http[h] # "free"
     /\ Goto(t, "create", "fail")
     /\ ctx' = [ctx EXCEPT !.client = NoHandle]
     /\ UNCHANGED <<calls, http, timers, wifi, app, peer>>

OpenCall(t) ==
  /\ Goto(t, "open", "opening")
  /\ Hold(t)
  /\ UNCHANGED <<ctx, http, timers, wifi, app, peer>>

\* Mutant: ready to send before the upgrade was answered.
OpenSucceedsReady(t) ==
  /\ peer = "alive" /\ link = "up" /\ hnd[t] # NoHandle
  /\ Goto(t, "opening", "status")
  /\ http' = [http EXCEPT ![hnd[t]] = IF @ = "free" THEN "free" ELSE "open"]
  /\ Release(t)
  /\ ctx' = [ctx EXCEPT !.ws_connected = TRUE]
  /\ UNCHANGED <<timers, wifi, app, peer>>

OpenSucceeds(t) ==
  /\ peer = "alive" /\ link = "up" /\ hnd[t] # NoHandle
  /\ Goto(t, "opening", "status")
  /\ http' = [http EXCEPT ![hnd[t]] = IF @ = "free" THEN "free" ELSE "open"]
  /\ Release(t)
  /\ UNCHANGED <<ctx, timers, wifi, app, peer>>

\* Mutant: no timeout_ms.
OpenFailsAtOnce(t) ==
  /\ "http_open" \in Faults /\ peer = "alive" /\ link = "up"
  /\ Goto(t, "opening", "fail_close")
  /\ Release(t)
  /\ UNCHANGED <<ctx, http, timers, wifi, app, peer>>

\* timeout_ms bounds the call: with no link or no peer it fails.
OpenFails(t) ==
  /\ \/ "http_open" \in Faults \/ peer = "dead" \/ link # "up"
     \/ hnd[t] = NoHandle
  /\ Goto(t, "opening", "fail_close")
  /\ Release(t)
  /\ UNCHANGED <<ctx, http, timers, wifi, app, peer>>

\* Status 101: the two flags, the count, the state and the ping timer are
\* written one after the other.
HandshakeDone(t) ==
  /\ Goto(t, "status", "accepted")
  /\ ctx' = [ctx EXCEPT !.handshake_done = TRUE]
  /\ UNCHANGED <<calls, http, timers, wifi, app, peer>>

SetConnected(t) ==
  /\ Goto(t, "accepted", "ready")
  /\ ctx' = [ctx EXCEPT !.ws_connected = TRUE]
  /\ UNCHANGED <<calls, http, timers, wifi, app, peer>>

ResetCount(t) ==
  /\ Goto(t, "ready", "upgraded")
  /\ ctx' = [ctx EXCEPT !.reconnect_count = 0]
  /\ UNCHANGED <<calls, http, timers, wifi, app, peer>>

SessionUp(t) ==
  /\ Goto(t, "upgraded", "ping_start")
  /\ ctx' = [ctx EXCEPT !.state = "CONNECTED"]
  /\ UNCHANGED <<calls, http, timers, wifi, app, peer>>

StartPings(t) ==
  /\ Goto(t, "ping_start", "announce")
  /\ ping' = StartTimer(ping)
  /\ UNCHANGED <<ctx, calls, http, retry, wifi, app, peer>>

Announce(t) ==
  /\ Goto(t, "announce", "idle")
  /\ Notify("connected")
  /\ UNCHANGED <<ctx, calls, http, timers, wifi, up, started, peer>>

HandshakeRefused(t) ==
  /\ "http_status" \in Faults \/ ctx.client = NoHandle
  /\ Goto(t, "status", "fail_close")
  /\ UNCHANGED <<ctx, calls, http, timers, wifi, app, peer>>

\* Mutant: an error path without its change_state.
ConnectFailKeepsState(t) ==
  /\ Goto(t, "fail", "idle")
  /\ UNCHANGED <<ctx, calls, http, timers, wifi, app, peer>>

ConnectFail(t) ==
  /\ Goto(t, "fail", "idle")
  /\ ctx' = [ctx EXCEPT !.state = "ERROR"]
  /\ UNCHANGED <<calls, http, timers, wifi, app, peer>>

-----------------------------------------------------------------------------
(* Giving up the HTTP client.                                              *)

\* Mutant: ws_connected is not cleared.
OnHttpDisconnectedStill(t) ==
  /\ handler[t] = "ws_connected"
  /\ handler' = [handler EXCEPT ![t] = "handshake_done"]
  /\ UNCHANGED <<ctx, pc, hnd, http, timers, wifi, app, peer>>

\* http_event_handler, HTTP_EVENT_DISCONNECTED, statement by statement.  It
\* does not ask which client the event is about.
OnHttpDisconnected(t) ==
  /\ handler[t] = "ws_connected"
  /\ handler' = [handler EXCEPT ![t] = "handshake_done"]
  /\ ctx' = [ctx EXCEPT !.ws_connected = FALSE]
  /\ UNCHANGED <<pc, hnd, http, timers, wifi, app, peer>>

ForgetHandshake(t) ==
  /\ handler[t] = "handshake_done"
  /\ handler' = [handler EXCEPT ![t] = "ping"]
  /\ ctx' = [ctx EXCEPT !.handshake_done = FALSE]
  /\ UNCHANGED <<pc, hnd, http, timers, wifi, app, peer>>

\* stop_ping_timer; then the event is over, the transport is closed, and the
\* call that reported it returns.
HandlerReturns(t) ==
  /\ handler[t] = "ping"
  /\ \/ Goto(t, "peer_gone", "idle")
     \/ \E l \in DOMAIN AfterClose : Goto(t, l, AfterClose[l])
  /\ handler' = [handler EXCEPT ![t] = "none"]
  /\ ping' = StopTimer(ping)
  /\ http' = [http EXCEPT ![hnd[t]] = IF @ = "open" THEN "created" ELSE @]
  /\ hnd' = [hnd EXCEPT ![t] = NoHandle]
  /\ UNCHANGED <<ctx, retry, wifi, app, peer>>

\* The event begins, about handle h.
ReportDisconnected(t, h) ==
  /\ hnd' = [hnd EXCEPT ![t] = h]
  /\ handler' = [handler EXCEPT ![t] = "ws_connected"]
  /\ UNCHANGED <<ctx, http, timers, wifi, app, peer>>

\* Where the code tests s_ctx.client before it gives the client up.
NothingToClose(t) ==
  \E l \in DOMAIN AfterClose \ {"fail_close"} :
    /\ ctx.client = NoHandle /\ handler[t] = "none"
    /\ Goto(t, l, AfterForget[AfterCleanup[AfterClose[l]]])
    /\ UNCHANGED <<ctx, calls, http, timers, wifi, app, peer>>

\* esp_http_client_close: an open transport reports its end from within
\* the call; one that failed to open may or may not, and no client does not.
HttpClose(t) ==
  /\ pc[t] \in DOMAIN AfterClose /\ handler[t] = "none"
  /\ \/ /\ ctx.client # NoHandle /\ http[ctx.client] # "free"
        /\ ReportDisconnected(t, ctx.client)
        /\ UNCHANGED pc
     \/ /\ IF ctx.client = NoHandle THEN pc[t] = "fail_close"
           ELSE http[ctx.client] # "open"
        /\ pc' = [pc EXCEPT ![t] = AfterClose[@]]
        /\ UNCHANGED <<ctx, calls, http, timers, wifi, app, peer>>

\* Mutant: the client is not cleaned up.
HttpKeep(t) ==
  \E l \in DOMAIN AfterCleanup :
    /\ Goto(t, l, AfterCleanup[l])
    /\ UNCHANGED <<ctx, calls, http, timers, wifi, app, peer>>

HttpCleanup(t) ==
  \E l \in DOMAIN AfterCleanup :
    /\ Goto(t, l, AfterCleanup[l])
    /\ http' = IF ctx.client = NoHandle THEN http
               ELSE [http EXCEPT ![ctx.client] = "free"]
    /\ UNCHANGED <<ctx, calls, timers, wifi, app, peer>>

HttpForget(t) ==
  \E l \in DOMAIN AfterForget :
    /\ Goto(t, l, AfterForget[l])
    /\ ctx' = [ctx EXCEPT !.client = NoHandle]
    /\ UNCHANGED <<calls, http, timers, wifi, app, peer>>

-----------------------------------------------------------------------------
(* Sending a frame: ws_client_send, the ping and the close frame of         *)
(* ws_client_disconnect test s_ctx.client and then read it again.          *)

Writable == ctx.ws_connected /\ ctx.client # NoHandle

BeginWrite(t) ==
  /\ \/ Goto(t, "sending", "write")
     \/ Goto(t, "disc_sending", "disc_write")
  /\ Hold(t)
  /\ UNCHANGED <<ctx, http, timers, wifi, app, peer>>

\* esp_http_client_write returns; its result is only logged.
EndWrite(t) ==
  /\ \/ Goto(t, "write", "idle")
     \/ Goto(t, "disc_write", "disc_flag")
  /\ Release(t)
  /\ UNCHANGED <<ctx, http, timers, wifi, app, peer>>

-----------------------------------------------------------------------------
(* ws_client_disconnect and ws_client_deinit.                              *)

AppDisconnect ==
  /\ Calls("disconnect") /\ ctx.state # "IDLE"
  /\ Enter(App, "disc_ping")
  /\ ctx' = [ctx EXCEPT !.state = "DISCONNECTING"]
  /\ UNCHANGED <<calls, http, timers, wifi, app, peer>>

\* Mutant: stop_ping_timer is missing.
DisconnectPinging ==
  /\ Goto(App, "disc_ping", "disc_reconnect")
  /\ UNCHANGED <<ctx, calls, http, timers, wifi, app, peer>>

DisconnectStopPing ==
  /\ Goto(App, "disc_ping", "disc_reconnect")
  /\ ping' = StopTimer(ping)
  /\ UNCHANGED <<ctx, calls, http, retry, wifi, app, peer>>

DisconnectStopReconnect ==
  /\ Goto(App, "disc_reconnect", "disc_frame")
  /\ reconnect' = StopTimer(reconnect)
  /\ UNCHANGED <<ctx, calls, http, ping, loaded, lost, wifi, app, peer>>

DisconnectFrame ==
  /\ Goto(App, "disc_frame", IF Writable THEN "disc_sending" ELSE "disc_flag")
  /\ UNCHANGED <<ctx, calls, http, timers, wifi, app, peer>>

\* The two flags, one after the other.
ClearConnected ==
  /\ Goto(App, "disc_flag", "disc_shake")
  /\ ctx' = [ctx EXCEPT !.ws_connected = FALSE]
  /\ UNCHANGED <<calls, http, timers, wifi, app, peer>>

ClearHandshake ==
  /\ Goto(App, "disc_shake", "disc_close")
  /\ ctx' = [ctx EXCEPT !.handshake_done = FALSE]
  /\ UNCHANGED <<calls, http, timers, wifi, app, peer>>

DisconnectIdle ==
  /\ Goto(App, "disc_idle", "disc_notify")
  /\ ctx' = [ctx EXCEPT !.state = "IDLE"]
  /\ UNCHANGED <<calls, http, timers, wifi, app, peer>>

\* Mutant: the callback is not told.
DisconnectSilent ==
  /\ Goto(App, "disc_notify", "idle")
  /\ UNCHANGED <<ctx, calls, http, timers, wifi, app, peer>>

DisconnectNotify ==
  /\ Goto(App, "disc_notify", "idle")
  /\ Notify("disconnected")
  /\ UNCHANGED <<ctx, calls, http, timers, wifi, up, started, peer>>

AppDeinit ==
  /\ Calls("deinit")
  /\ Enter(App, "deinit_close")
  /\ ping' = "null" /\ reconnect' = "null"
  /\ UNCHANGED <<ctx, calls, http, loaded, lost, wifi, app, peer>>

\* esp_wifi_disconnect, esp_wifi_stop and esp_wifi_deinit, then memset.
\* s_wifi_initialized is outside s_ctx and keeps its value.
DeinitEnd ==
  /\ Goto(App, "deinit_end", "idle")
  /\ \/ /\ ctx.state # "IDLE"
        /\ drv' = "absent" /\ link' = "down"
        /\ IF link = "up"
           THEN Len(events) < MaxEvents
                /\ events' = Append(events, "STA_DISCONNECTED")
           ELSE UNCHANGED events
     \/ ctx.state = "IDLE" /\ UNCHANGED <<drv, link, events>>
  /\ ctx' = ZeroCtx
  /\ view' = "none" /\ up' = FALSE /\ started' = FALSE
  /\ UNCHANGED <<calls, http, timers, wifi_initialized, peer>>

-----------------------------------------------------------------------------
(* ws_client_send and the timer callbacks.                                 *)

AppSend ==
  /\ Calls("send") /\ Writable
  /\ Enter(App, "sending")
  /\ UNCHANGED <<ctx, calls, http, timers, wifi, app, peer>>

TmrPing ==
  /\ ping = "armed" /\ Writable
  /\ Enter(Tmr, "sending")
  /\ UNCHANGED <<ctx, calls, http, timers, wifi, app, peer>>

MayReconnect == ctx.wifi_connected /\ ctx.state # "CONNECTED"

\* reconnect_timer_callback, to the log line before the increment.
TmrReconnect ==
  /\ reconnect = "armed"
  /\ Enter(Tmr, IF MayReconnect THEN "bump" ELSE "idle")
  /\ reconnect' = "stopped"
  /\ UNCHANGED <<ctx, calls, http, ping, loaded, lost, wifi, app, peer>>

\* reconnect_count++ without a lock: a load, then a store of what was loaded
\* plus one, whatever has been written in between.
ReconnectLoad ==
  /\ Goto(Tmr, "bump", "bump_store")
  /\ loaded' = ctx.reconnect_count
  /\ UNCHANGED <<ctx, calls, http, ping, reconnect, lost, wifi, app, peer>>

\* Mutant: attempts left are counted instead of attempts made.
ReconnectCountDown ==
  /\ Goto(Tmr, "bump_store", "connect")
  /\ ctx' = [ctx EXCEPT !.reconnect_count = loaded - 1]
  /\ loaded' = 0
  /\ UNCHANGED <<calls, http, ping, reconnect, lost, wifi, app, peer>>

ReconnectBump ==
  /\ loaded = ctx.reconnect_count \/ lost < MaxLost
  /\ Goto(Tmr, "bump_store", "connect")
  /\ ctx' = [ctx EXCEPT !.reconnect_count = loaded + 1]
  /\ lost' = IF loaded = ctx.reconnect_count THEN lost ELSE lost + 1
  /\ loaded' = 0
  /\ UNCHANGED <<calls, http, ping, reconnect, wifi, app, peer>>

-----------------------------------------------------------------------------
(* wifi_event_handler, in the event-loop task.                             *)

Receive(event) ==
  /\ events # <<>> /\ Head(events) = event
  /\ events' = Tail(events)

OnStaStart ==
  /\ Receive("STA_START")
  /\ Handle(Evt)
  /\ link' = WifiConnect(link)
  /\ UNCHANGED <<ctx, calls, http, timers, wifi_initialized, drv, app, peer>>

\* Mutant: every loss of WiFi arms the reconnect timer.
LosesAnything == TRUE

LosesSession == ctx.state \in {"CONNECTED", "CONNECTING"}

OnStaDisconnected ==
  /\ Receive("STA_DISCONNECTED")
  /\ Enter(Evt, "lost_ws")
  /\ ctx' = [ctx EXCEPT !.wifi_connected = FALSE]
  /\ UNCHANGED <<calls, http, timers, wifi_initialized, drv, link, app, peer>>

LostConnected ==
  /\ Goto(Evt, "lost_ws", "lost_ping")
  /\ ctx' = [ctx EXCEPT !.ws_connected = FALSE]
  /\ UNCHANGED <<calls, http, timers, wifi, app, peer>>

LostStopPing ==
  /\ Goto(Evt, "lost_ping", "lost")
  /\ ping' = StopTimer(ping)
  /\ UNCHANGED <<ctx, calls, http, retry, wifi, app, peer>>

LostSession ==
  /\ Goto(Evt, "lost", IF LosesSession THEN "rearm" ELSE "idle")
  /\ UNCHANGED <<ctx, calls, http, timers, wifi, app, peer>>

\* Mutant: the count is not reset.
RearmKeepsCount ==
  /\ Goto(Evt, "rearm", "arm")
  /\ link' = WifiConnect(link)
  /\ UNCHANGED <<ctx, calls, http, timers, wifi_initialized, drv, events, app, peer>>

Rearm ==
  /\ Goto(Evt, "rearm", "arm")
  /\ link' = WifiConnect(link)
  /\ ctx' = [ctx EXCEPT !.reconnect_count = 0]
  /\ UNCHANGED <<calls, http, timers, wifi_initialized, drv, events, app, peer>>

\* start_reconnect_timer; a timer that is already armed keeps its deadline.
ArmReconnect ==
  /\ Goto(Evt, "arm", "idle")
  /\ reconnect' = StartTimer(reconnect)
  /\ UNCHANGED <<ctx, calls, http, ping, loaded, lost, wifi, app, peer>>

OnGotIp ==
  /\ Receive("GOT_IP")
  /\ Enter(Evt, "got_ip")
  /\ ctx' = [ctx EXCEPT !.wifi_connected = TRUE]
  /\ UNCHANGED <<calls, http, timers, wifi_initialized, drv, link, app, peer>>

\* Mutant: the event that carries the IP address connects nothing.
GotIpOnly ==
  /\ Goto(Evt, "got_ip", "idle")
  /\ UNCHANGED <<ctx, calls, http, timers, wifi, app, peer>>

GotIpConnects ==
  /\ Goto(Evt, "got_ip", IF ctx.state = "IDLE" THEN "connect" ELSE "idle")
  /\ UNCHANGED <<ctx, calls, http, timers, wifi, app, peer>>

-----------------------------------------------------------------------------
(* The environment: WiFi driver, HTTP client events, server.               *)

LinkStep(from, to, event) ==
  /\ link = from /\ Len(events) < MaxEvents
  /\ link' = to
  /\ events' = Append(events, event)
  /\ UNCHANGED <<ctx, pc, calls, http, timers, wifi_initialized, drv, app, peer>>

WifiAssociates == LinkStep("trying", "up", "GOT_IP")
WifiRejected == "wifi_assoc" \in Faults
                /\ LinkStep("trying", "down", "STA_DISCONNECTED")
WifiLost == "wifi_loss" \in Faults /\ LinkStep("up", "down", "STA_DISCONNECTED")

\* An open client, not necessarily ctx.client, delivers an event.
Deliverable(h) == peer = "alive" /\ http[h] = "open"

\* ON_DATA with a CLOSE frame, or ON_FINISH: heard only after a handshake.
PeerCloses(h) ==
  /\ "peer_close" \in Faults /\ Deliverable(h) /\ ctx.handshake_done
  /\ Enter(Net, "peer_close")
  /\ UNCHANGED <<ctx, calls, http, timers, wifi, app, peer>>

PeerClosed ==
  /\ Goto(Net, "peer_close", "peer_tell")
  /\ ctx' = [ctx EXCEPT !.ws_connected = FALSE]
  /\ UNCHANGED <<calls, http, timers, wifi, app, peer>>

PeerTell ==
  /\ Goto(Net, "peer_tell", "idle")
  /\ Notify("disconnected")
  /\ UNCHANGED <<ctx, calls, http, timers, wifi, up, started, peer>>

PeerDisconnects(h) ==
  /\ "peer_disconnect" \in Faults /\ Deliverable(h)
  /\ Enter(Net, "peer_gone")
  /\ ReportDisconnected(Net, h)

\* The server stops answering without closing anything.
PeerDies ==
  /\ "peer_dead" \in Faults /\ peer = "alive"
  /\ peer' = "dead"
  /\ UNCHANGED <<ctx, pc, calls, http, timers, wifi, app>>

-----------------------------------------------------------------------------
Init ==
  /\ ctx = ZeroCtx
  /\ pc = [t \in Tasks |-> "idle"]
  /\ hnd = [t \in Tasks |-> NoHandle]
  /\ handler = [t \in Tasks |-> "none"]
  /\ http = [h \in Handles |-> "free"]
  /\ ping = "null" /\ reconnect = "null" /\ loaded = 0 /\ lost = 0
  /\ wifi_initialized = FALSE /\ drv = "absent" /\ link = "down"
  /\ events = <<>>
  /\ view = "none" /\ up = FALSE /\ started = FALSE
  /\ peer = "alive"

\* The rest of a call that task t has begun.
Continue(t) ==
  \/ ConnectNoWifi(t) \/ BringUpWifi(t) \/ ConnectWifiUp(t) \/ ConnectChecked(t)
  \/ ConnectClaim(t) \/ HttpCreate(t) \/ OpenCall(t) \/ OpenSucceeds(t)
  \/ OpenFails(t) \/ HandshakeDone(t) \/ SetConnected(t) \/ ResetCount(t)
  \/ SessionUp(t) \/ StartPings(t) \/ Announce(t) \/ HandshakeRefused(t)
  \/ ConnectFail(t)
  \/ NothingToClose(t) \/ HttpClose(t) \/ HttpCleanup(t) \/ HttpForget(t)
  \/ BeginWrite(t) \/ EndWrite(t)
  \/ OnHttpDisconnected(t) \/ ForgetHandshake(t) \/ HandlerReturns(t)

AppStep ==
  \/ AppInit \/ AppSetUrl \/ AppRegister \/ AppConnect \/ AppSend
  \/ AppDisconnect \/ AppDeinit

AppContinue ==
  \/ InitContext \/ InitTimers
  \/ DisconnectStopPing \/ DisconnectStopReconnect
  \/ DisconnectFrame \/ ClearConnected \/ ClearHandshake
  \/ DisconnectIdle \/ DisconnectNotify \/ DeinitEnd

EvtStep == OnStaStart \/ OnStaDisconnected \/ OnGotIp
EvtContinue ==
  \/ LostConnected \/ LostStopPing \/ LostSession \/ Rearm \/ ArmReconnect
  \/ GotIpConnects

TmrContinue == ReconnectLoad \/ ReconnectBump

NetContinue == PeerClosed \/ PeerTell

Environment ==
  \/ WifiAssociates \/ WifiRejected \/ WifiLost \/ PeerDies
  \/ \E h \in Handles : PeerCloses(h) \/ PeerDisconnects(h)

Next ==
  \/ \E t \in Tasks : Continue(t)
  \/ AppStep \/ AppContinue
  \/ EvtStep \/ EvtContinue
  \/ TmrPing \/ TmrReconnect \/ TmrContinue
  \/ NetContinue
  \/ Environment

Spec == Init /\ [][Next]_vars

\* FreeRTOS runs every ready task, a blocking call of the HTTP client ends
\* (timeout_ms), the event loop drains its queue, the timers fire, and the
\* WiFi driver gets an answer from the access point.  Nothing obliges the
\* application to call anything.
Fairness ==
  /\ \A t \in Tasks : WF_vars(Continue(t))
  /\ WF_vars(AppContinue)
  /\ WF_vars(EvtStep) /\ WF_vars(EvtContinue)
  /\ WF_vars(TmrPing) /\ WF_vars(TmrReconnect) /\ WF_vars(TmrContinue)
  /\ WF_vars(NetContinue)
  /\ WF_vars(WifiAssociates)

FairSpec == Spec /\ Fairness

-----------------------------------------------------------------------------
(* Properties of any program that uses the client.                         *)

\* Type correctness.
TypeOK ==
  /\ ctx \in ContextType
  /\ pc \in [Tasks -> Labels]
  /\ hnd \in [Tasks -> Handles \cup {NoHandle}]
  /\ handler \in [Tasks -> HandlerPoints]
  /\ http \in [Handles -> {"free", "created", "open"}]
  /\ ping \in {"null", "stopped", "armed"}
  /\ reconnect \in {"null", "stopped", "armed"}
  /\ loaded \in Nat /\ lost \in Nat
  /\ wifi_initialized \in BOOLEAN
  /\ drv \in {"absent", "inited", "started"}
  /\ link \in {"down", "trying", "up"}
  /\ events \in Seq({"STA_START", "STA_DISCONNECTED", "GOT_IP"})
  /\ view \in {"none", "connected", "disconnected"}
  /\ up \in BOOLEAN /\ started \in BOOLEAN
  /\ peer \in {"alive", "dead"}

\* start_reconnect_timer shifts 1 by reconnect_count.  However often WiFi
\* drops and whenever the timer fires, the count passes 2 only by resets that
\* fall between the load and the store of an increment, by one for each: no
\* other order of the tasks brings the shift nearer to overflow, and without
\* such a reset the delay never passes 4 times the interval.
ReconnectCountBounded == ctx.reconnect_count <= 2 + lost

-----------------------------------------------------------------------------
(* Properties when no two tasks are inside ws_client.c at once.            *)

Quiescent == \A t \in Tasks : pc[t] = "idle"

\* Whatever failed on the way, a call leaves the client in a resting state,
\* and it holds an HTTP client exactly when that state is CONNECTED.
SettledState ==
  Quiescent => /\ ctx.state \in {"IDLE", "CONNECTED", "ERROR"}
               /\ ctx.state = "CONNECTED" <=> ctx.client # NoHandle

\* Every error path and every way to end a session gives the HTTP client
\* back: no block is in use but the one s_ctx.client names.
NoHandleLeak == \A h \in Handles : http[h] # "free" => h = ctx.client

\* The ping timer runs in the CONNECTED state only: each path that leaves
\* the state has stopped it, and ws_client_disconnect, which changes the state
\* first, does it next.
PingOnlyWhenConnected ==
  ping = "armed" => ctx.state = "CONNECTED" \/ pc[App] = "disc_ping"

\* ws_connected is a promise that ws_client_send may write to s_ctx.client:
\* the client exists, its transport is open and speaks WebSocket.
ConnectedIsLive ==
  ctx.ws_connected => /\ ctx.handshake_done
                      /\ ctx.client # NoHandle /\ http[ctx.client] = "open"

\* An application that was last told "disconnected" is not connected: each
\* new session was announced after the end of the one before; it
\* follows from FollowsSession and SettledState.
NoSilentSession ==
  Quiescent /\ ctx.ws_connected => view # "disconnected"

\* A session is up that the callback has not been told of.
Due == \E t \in Tasks : pc[t] \in {"ping_start", "announce"}

\* What the header shows is a sequence of sessions (WsSession): whatever fails
\* and however one ends, a session once lost is not up again, and the next
\* begins with a handshake, after the callback has heard of the end of this.
Session == INSTANCE WsSession
             WITH state <- ctx.state, connected <- ctx.ws_connected,
                  hears <- ctx.callback, told <- view,
                  due <- Due

FollowsSession == Session!Spec

-----------------------------------------------------------------------------
(* Properties of an application that connects once and leaves the client   *)
(* alone: no disconnect, no deinit.  The tasks overlap freely.             *)

\* Task t is in a blocking call of the HTTP client.
InHttp(t) ==
  \/ pc[t] \in {"opening", "write", "disc_write"}
  \/ pc[t] \in DOMAIN AfterClose /\ handler[t] # "none"

\* A blocking call of the HTTP client works on memory that is still its
\* own: no other task has cleaned the client up under it.
HandlesInUseAreLive ==
  \A t \in Tasks : InHttp(t) => hnd[t] # NoHandle /\ http[hnd[t]] # "free"

\* The check of the state and the change to CONNECTING are separate steps;
\* still no two tasks are past the check at once.
SingleHandshake ==
  \A t, u \in Tasks :
    pc[t] \in {"claim"} \cup Handshaking /\ pc[u] \in {"claim"} \cup Handshaking
      => t = u

-----------------------------------------------------------------------------
(* Liveness.                                                               *)

\* A call of ws_client_connect made once the URL is known does not peter out
\* between the tasks: it ends in a session, in ERROR, or with WiFi down and
\* nothing left to do, through the event that carries the IP address when
\* WiFi had to be started first.
ConnectSettles ==
  (pc[App] = "connect" /\ ctx.url) ~>
    \/ ctx.ws_connected
    \/ ctx.state = "ERROR"
    \/ link = "down" /\ events = <<>> /\ Quiescent

\* No call into the client hangs: whatever fails, each task gets out.
CallsReturn == \A t \in Tasks : pc[t] # "idle" ~> pc[t] = "idle"

-----------------------------------------------------------------------------
(* What the comments and the header say, and the code does not do.         *)

\* ws_client.h:4, "with WiFi and reconnection support": when WiFi is back for
\* good after a session was lost with it, there is a session again.
RecoversFromWifiLoss ==
  <>[](link = "up") /\ <>(ctx.ws_connected) => []<>(ctx.ws_connected)

\* ws_client.c:755, "Initialize WiFi if not started": once ws_client_connect
\* has returned, WiFi is on its way or it can still be started.
WifiCanStart ==
  Quiescent /\ ctx.state = "IDLE" /\ wifi_initialized => drv = "started"

=============================================================================
