--------------------------- MODULE WsSerialProofs ---------------------------
(***************************************************************************)
(* Theorems about WsClient when no two tasks are inside ws_client.c at     *)
(* once: for any application, with disconnect, deinit and any number of    *)
(* connects, any number of HTTP client blocks and any set of failures.     *)
(***************************************************************************)
EXTENDS WsClientProofs

-----------------------------------------------------------------------------
(* The inductive invariant.                                                *)

\* Where a task is while the state, the client and the flags are as the last
\* call has left them, and the callback has heard of them.
AtRest == {"idle", "init", "init_timers", "connect", "no_wifi", "check", "claim",
           "sending", "write", "bump", "bump_store", "got_ip", "lost_ws", "lost_ping",
           "lost", "rearm", "arm", "peer_close", "peer_tell", "peer_gone"}

Disconnecting == {"disc_ping", "disc_reconnect", "disc_frame", "disc_sending",
                  "disc_write", "disc_flag", "disc_shake", "disc_close",
                  "disc_cleanup", "disc_forget", "disc_idle"}

GivingUp == DOMAIN AfterCleanup \cup DOMAIN AfterForget

\* One task at a time.
Alone == \A t, u \in Tasks : pc[t] # "idle" /\ pc[u] # "idle" => t = u

\* What the state is at each point of a call.
StateAt(c, label) ==
  /\ label \in AtRest => /\ c.state \in {"IDLE", "CONNECTED", "ERROR"}
                         /\ c.state = "CONNECTED" <=> c.client # NoHandle
  /\ label \in {"init", "init_timers", "disc_notify"} => c.state = "IDLE"
  /\ label = "claim" => c.state # "CONNECTED"
  /\ label \in Handshaking => c.state = "CONNECTING"
  /\ label \in {"ping_start", "announce", "peer_close", "peer_tell", "peer_gone"}
       => c.state = "CONNECTED"
  /\ label \in Disconnecting => c.state = "DISCONNECTING"

\* Whether there is a client at each point of a call.  Only a CONNECTED session
\* has one when a handshake begins, and then none begins.
ClientAt(c, label) ==
  /\ label \notin {"cleanup", "forget"}
  /\ label \in {"close", "create", "fail", "disc_idle", "disc_notify", "deinit_end"}
       => c.client = NoHandle
  /\ label \in {"open", "opening", "status", "accepted", "ready", "upgraded",
                "fail_close", "ping_start", "announce", "sending", "write",
                "disc_sending", "disc_write"} \cup GivingUp
       => c.client # NoHandle
  /\ label \in {"disc_shake", "disc_close", "peer_tell"} \cup GivingUp => ~c.ws_connected
  /\ label = "accepted" => c.handshake_done

\* ... what has become of it, and what the callback has heard.
HandleAt(t) ==
  /\ pc[t] \in {"opening", "write", "disc_write"} => hnd[t] = ctx.client
  /\ pc[t] \in {"status", "accepted", "ready", "upgraded"} => http[ctx.client] = "open"
  /\ pc[t] \in DOMAIN AfterForget => http[ctx.client] = "free"
  /\ pc[t] \notin DOMAIN AfterForget /\ ctx.client # NoHandle => http[ctx.client] # "free"
  /\ pc[t] \in {"deinit_close", "deinit_cleanup", "deinit_forget", "deinit_end"}
       => ping = "null"
  /\ pc[t] \in {"init", "init_timers"} => ~up
  /\ pc[t] \in AtRest /\ ctx.ws_connected => view # "disconnected"

\* The task in HTTP_EVENT_DISCONNECTED, which it heard about s_ctx.client.
HandlerAt(t) ==
  /\ handler[t] # "none" => /\ pc[t] \in DOMAIN AfterClose \cup {"peer_gone"}
                            /\ hnd[t] = ctx.client /\ ctx.client # NoHandle
  /\ handler[t] \in {"handshake_done", "ping"} => ~ctx.ws_connected

\* The task inside the client, or any one when all are outside.
Active(t) == pc[t] # "idle" \/ Quiescent

\* The state and the client, at the program point of the active task.
PointsInv ==
  \A t \in Tasks :
    /\ HandlerAt(t)
    /\ Active(t) => StateAt(ctx, pc[t]) /\ ClientAt(ctx, pc[t]) /\ HandleAt(t)

\* The active task t arrives at label l.
Lands(t, l) ==
  /\ Active(t)
  /\ pc' = [pc EXCEPT ![t] = l]
  /\ \A u \in Tasks : u # t => handler'[u] = handler[u]
  /\ StateAt(ctx', l) /\ ClientAt(ctx', l) /\ HandleAt(t)' /\ HandlerAt(t)'

\* An application that is not told of anything has heard nothing.
Announced ==
  /\ ~up => ~ctx.callback
  /\ ~ctx.callback => view = "none"

SessionInv == NoHandleLeak /\ PingOnlyWhenConnected /\ ConnectedIsLive /\ Announced

SerialInv == TypeOK /\ Alone /\ PointsInv /\ SessionInv

-----------------------------------------------------------------------------
(* One task at a time.                                                     *)

\* The active task is where its last step took it: what holds there is all
\* that is asked of the program points.
LEMMA Focus ==
  ASSUME TypeOK, Alone, PointsInv, NEW t \in Tasks, NEW l, Lands(t, l)
  PROVE  Alone' /\ PointsInv'
<1> USE DEF TypeOK, Alone, Active, Quiescent, Lands
<1>1. pc'[t] = l /\ \A u \in Tasks : u # t => pc[u] = "idle" /\ pc'[u] = "idle"
  OBVIOUS
<1>2. Alone'
  BY <1>1
<1>3. ASSUME NEW u \in Tasks, u # t PROVE handler'[u] = "none"
  BY <1>1, <1>3 DEF PointsInv, HandlerAt, AfterClose
<1>4. ASSUME NEW u \in Tasks PROVE HandlerAt(u)'
  BY <1>3 DEF HandlerAt
<1>5. ASSUME NEW u \in Tasks, Active(u)' PROVE pc'[u] = l /\ HandleAt(u)'
  <2>1. CASE u = t
    BY <1>1, <2>1
  <2>2. CASE u # t
    BY <1>1, <1>5, <2>2 DEF HandleAt
  <2> QED
    BY <2>1, <2>2
<1> QED
  BY <1>2, <1>4, <1>5 DEF PointsInv

\* What is known at the program point of the active task.
LEMMA Here ==
  ASSUME PointsInv, NEW t \in Tasks
  PROVE  HandlerAt(t) /\ (Active(t) => StateAt(ctx, pc[t]) /\ ClientAt(ctx, pc[t]) /\ HandleAt(t))
  BY DEF PointsInv

\* A task enters only when all are outside.
LEMMA EnterAlone ==
  ASSUME ~Overlap, NEW t \in Tasks, NEW l, Enter(t, l)
  PROVE  pc[t] = "idle" /\ Quiescent /\ Active(t) /\ pc' = [pc EXCEPT ![t] = l]
  BY DEF Enter, Quiescent, Active

\* The checks of ws_client_connect, and a handshake that fails.
LEMMA SerialConnect ==
  ASSUME SerialInv, NEW t \in Tasks,
         \/ ConnectNoWifi(t) \/ BringUpWifi(t) \/ ConnectWifiUp(t) \/ ConnectChecked(t)
         \/ ConnectClaim(t) \/ HandshakeRefused(t) \/ ConnectFail(t)
  PROVE  Alone' /\ PointsInv' /\ SessionInv'
<1> USE ConstantsAssumption
    DEF SerialInv, TypeOK, ContextType, Goto, Active, AtRest, Disconnecting, GivingUp,
        Handshaking, AfterClose, AfterCleanup, AfterForget, SessionInv, NoHandleLeak,
        PingOnlyWhenConnected, ConnectedIsLive, Announced, calls, retry, timers, wifi, app
<1>1. /\ HandlerAt(t)
      /\ Active(t) => StateAt(ctx, pc[t]) /\ ClientAt(ctx, pc[t]) /\ HandleAt(t)
  BY Here
<1>2. CASE ConnectNoWifi(t)
  <2>1. Lands(t, "no_wifi")
    BY <1>1, <1>2 DEF ConnectNoWifi, Lands, StateAt, ClientAt, HandleAt, HandlerAt
  <2>2. SessionInv'
    BY <1>1, <1>2 DEF ConnectNoWifi, StateAt, ClientAt, HandleAt, HandlerAt
  <2> QED
    BY <2>1, <2>2, Focus
<1>3. CASE BringUpWifi(t)
  <2>1. Lands(t, "idle")
    BY <1>1, <1>3 DEF BringUpWifi, Lands, StateAt, ClientAt, HandleAt, HandlerAt
  <2>2. SessionInv'
    BY <1>1, <1>3 DEF BringUpWifi, StateAt, ClientAt, HandleAt, HandlerAt
  <2> QED
    BY <2>1, <2>2, Focus
<1>4. CASE ConnectWifiUp(t)
  <2>1. Lands(t, "check")
    BY <1>1, <1>4 DEF ConnectWifiUp, Lands, StateAt, ClientAt, HandleAt, HandlerAt
  <2>2. SessionInv'
    BY <1>1, <1>4 DEF ConnectWifiUp, StateAt, ClientAt, HandleAt, HandlerAt
  <2> QED
    BY <2>1, <2>2, Focus
<1>5. CASE ConnectChecked(t)
  <2>1. Lands(t, pc'[t])
    BY <1>1, <1>5
       DEF ConnectChecked, MayHandshake, Lands, StateAt, ClientAt, HandleAt, HandlerAt
  <2>2. SessionInv'
    BY <1>1, <1>5
       DEF ConnectChecked, MayHandshake, StateAt, ClientAt, HandleAt, HandlerAt
  <2> QED
    BY <2>1, <2>2, Focus
<1>6. CASE ConnectClaim(t)
  <2>1. Lands(t, "close")
    BY <1>1, <1>6 DEF ConnectClaim, Lands, StateAt, ClientAt, HandleAt, HandlerAt
  <2>2. SessionInv'
    BY <1>1, <1>6 DEF ConnectClaim, StateAt, ClientAt, HandleAt, HandlerAt
  <2> QED
    BY <2>1, <2>2, Focus
<1>7. CASE HandshakeRefused(t)
  <2>1. Lands(t, "fail_close")
    BY <1>1, <1>7 DEF HandshakeRefused, Lands, StateAt, ClientAt, HandleAt, HandlerAt
  <2>2. SessionInv'
    BY <1>1, <1>7 DEF HandshakeRefused, StateAt, ClientAt, HandleAt, HandlerAt
  <2> QED
    BY <2>1, <2>2, Focus
<1>8. CASE ConnectFail(t)
  <2>1. Lands(t, "idle")
    BY <1>1, <1>8 DEF ConnectFail, Lands, StateAt, ClientAt, HandleAt, HandlerAt
  <2>2. SessionInv'
    BY <1>1, <1>8 DEF ConnectFail, StateAt, ClientAt, HandleAt, HandlerAt
  <2> QED
    BY <2>1, <2>2, Focus
<1> QED
  BY <1>2, <1>3, <1>4, <1>5, <1>6, <1>7, <1>8

\* A handshake that succeeds, to the callback.
LEMMA SerialSession ==
  ASSUME SerialInv, NEW t \in Tasks,
         \/ HandshakeDone(t) \/ SetConnected(t) \/ ResetCount(t)
         \/ SessionUp(t) \/ StartPings(t) \/ Announce(t)
  PROVE  Alone' /\ PointsInv' /\ SessionInv'
<1> USE ConstantsAssumption
    DEF SerialInv, TypeOK, ContextType, Goto, Active, AtRest, Disconnecting, GivingUp,
        Handshaking, AfterClose, AfterCleanup, AfterForget, SessionInv, NoHandleLeak,
        PingOnlyWhenConnected, ConnectedIsLive, Announced, calls, retry, timers, wifi, app
<1>1. /\ HandlerAt(t)
      /\ Active(t) => StateAt(ctx, pc[t]) /\ ClientAt(ctx, pc[t]) /\ HandleAt(t)
  BY Here
<1>2. CASE HandshakeDone(t)
  <2>1. Lands(t, "accepted")
    BY <1>1, <1>2 DEF HandshakeDone, Lands, StateAt, ClientAt, HandleAt, HandlerAt
  <2>2. SessionInv'
    BY <1>1, <1>2 DEF HandshakeDone, StateAt, ClientAt, HandleAt, HandlerAt
  <2> QED
    BY <2>1, <2>2, Focus
<1>3. CASE SetConnected(t)
  <2>1. Lands(t, "ready")
    BY <1>1, <1>3 DEF SetConnected, Lands, StateAt, ClientAt, HandleAt, HandlerAt
  <2>2. SessionInv'
    BY <1>1, <1>3 DEF SetConnected, StateAt, ClientAt, HandleAt, HandlerAt
  <2> QED
    BY <2>1, <2>2, Focus
<1>4. CASE ResetCount(t)
  <2>1. Lands(t, "upgraded")
    BY <1>1, <1>4 DEF ResetCount, Lands, StateAt, ClientAt, HandleAt, HandlerAt
  <2>2. SessionInv'
    BY <1>1, <1>4 DEF ResetCount, StateAt, ClientAt, HandleAt, HandlerAt
  <2> QED
    BY <2>1, <2>2, Focus
<1>5. CASE SessionUp(t)
  <2>1. Lands(t, "ping_start")
    BY <1>1, <1>5 DEF SessionUp, Lands, StateAt, ClientAt, HandleAt, HandlerAt
  <2>2. SessionInv'
    BY <1>1, <1>5 DEF SessionUp, StateAt, ClientAt, HandleAt, HandlerAt
  <2> QED
    BY <2>1, <2>2, Focus
<1>6. CASE StartPings(t)
  <2>1. Lands(t, "announce")
    BY <1>1, <1>6
       DEF StartPings, StartTimer, Lands, StateAt, ClientAt, HandleAt, HandlerAt
  <2>2. SessionInv'
    BY <1>1, <1>6 DEF StartPings, StartTimer, StateAt, ClientAt, HandleAt, HandlerAt
  <2> QED
    BY <2>1, <2>2, Focus
<1>7. CASE Announce(t)
  <2>1. Lands(t, "idle")
    BY <1>1, <1>7 DEF Announce, Notify, Lands, StateAt, ClientAt, HandleAt, HandlerAt
  <2>2. SessionInv'
    BY <1>1, <1>7 DEF Announce, Notify, StateAt, ClientAt, HandleAt, HandlerAt
  <2> QED
    BY <2>1, <2>2, Focus
<1> QED
  BY <1>2, <1>3, <1>4, <1>5, <1>6, <1>7

\* The calls of the HTTP client that a handshake or a sender makes.
LEMMA SerialHttp ==
  ASSUME SerialInv, NEW t \in Tasks,
         \/ HttpCreate(t) \/ OpenCall(t) \/ OpenSucceeds(t) \/ OpenFails(t)
         \/ BeginWrite(t) \/ EndWrite(t)
  PROVE  Alone' /\ PointsInv' /\ SessionInv'
<1> USE ConstantsAssumption
    DEF SerialInv, TypeOK, ContextType, Goto, Active, AtRest, Disconnecting, GivingUp,
        Handshaking, AfterClose, AfterCleanup, AfterForget, SessionInv, NoHandleLeak,
        PingOnlyWhenConnected, ConnectedIsLive, Announced, calls, retry, timers, wifi, app
<1>1. /\ HandlerAt(t)
      /\ Active(t) => StateAt(ctx, pc[t]) /\ ClientAt(ctx, pc[t]) /\ HandleAt(t)
  BY Here
<1>2. CASE HttpCreate(t)
  <2>1. Lands(t, pc'[t])
    BY <1>1, <1>2 DEF HttpCreate, Lands, StateAt, ClientAt, HandleAt, HandlerAt
  <2>2. /\ pc[t] = "create" /\ ctx.state = "CONNECTING" /\ ctx.client = NoHandle
        /\ ~ctx.ws_connected
    BY <1>1, <1>2 DEF HttpCreate, StateAt, ClientAt
  <2>3. ping # "armed" /\ ping' = ping
    BY <1>2, <2>2 DEF Tasks, HttpCreate, Alone
  <2>4. NoHandleLeak'
    BY <1>2, <2>2 DEF HttpCreate
  <2>5. ctx'.ws_connected = FALSE /\ ctx'.callback = ctx.callback /\ UNCHANGED <<view, up>>
    BY <1>2, <2>2 DEF HttpCreate
  <2> QED
    BY <2>1, <2>3, <2>4, <2>5, Focus
<1>3. CASE OpenCall(t)
  <2>1. Lands(t, "opening")
    BY <1>1, <1>3 DEF OpenCall, Hold, Lands, StateAt, ClientAt, HandleAt, HandlerAt
  <2>2. SessionInv'
    BY <1>1, <1>3 DEF OpenCall, Hold, StateAt, ClientAt, HandleAt, HandlerAt
  <2> QED
    BY <2>1, <2>2, Focus
<1>4. CASE OpenSucceeds(t)
  <2>1. Lands(t, "status")
    BY <1>1, <1>4
       DEF OpenSucceeds, Release, Lands, StateAt, ClientAt, HandleAt, HandlerAt
  <2>2. SessionInv'
    BY <1>1, <1>4 DEF OpenSucceeds, Release, StateAt, ClientAt, HandleAt, HandlerAt
  <2> QED
    BY <2>1, <2>2, Focus
<1>5. CASE OpenFails(t)
  <2>1. Lands(t, "fail_close")
    BY <1>1, <1>5 DEF OpenFails, Release, Lands, StateAt, ClientAt, HandleAt, HandlerAt
  <2>2. SessionInv'
    BY <1>1, <1>5 DEF OpenFails, Release, StateAt, ClientAt, HandleAt, HandlerAt
  <2> QED
    BY <2>1, <2>2, Focus
<1>6. CASE BeginWrite(t)
  <2>1. Lands(t, pc'[t])
    BY <1>1, <1>6 DEF BeginWrite, Hold, Lands, StateAt, ClientAt, HandleAt, HandlerAt
  <2>2. SessionInv'
    BY <1>6 DEF BeginWrite, Tasks
  <2> QED
    BY <2>1, <2>2, Focus
<1>7. CASE EndWrite(t)
  <2>1. Lands(t, pc'[t])
    BY <1>1, <1>7 DEF EndWrite, Release, Lands, StateAt, ClientAt, HandleAt, HandlerAt
  <2>2. SessionInv'
    BY <1>7 DEF EndWrite, Tasks
  <2> QED
    BY <2>1, <2>2, Focus
<1> QED
  BY <1>2, <1>3, <1>4, <1>5, <1>6, <1>7

\* Closing the client: one that is open reports its end, and one that is not
\* has no session to end.
LEMMA SerialClose ==
  ASSUME SerialInv, NEW t \in Tasks, NothingToClose(t) \/ HttpClose(t)
  PROVE  Alone' /\ PointsInv' /\ SessionInv'
<1> USE ConstantsAssumption
    DEF SerialInv, TypeOK, ContextType, Goto, Active, AtRest, Disconnecting, GivingUp,
        Handshaking, AfterClose, AfterCleanup, AfterForget, SessionInv, NoHandleLeak,
        PingOnlyWhenConnected, ConnectedIsLive, Announced, calls, retry, timers, wifi, app
<1>1. /\ HandlerAt(t)
      /\ Active(t) => StateAt(ctx, pc[t]) /\ ClientAt(ctx, pc[t]) /\ HandleAt(t)
  BY Here
<1>2. CASE NothingToClose(t)
  <2>1. PICK l \in {"close", "disc_close", "deinit_close"} :
          /\ pc[t] = l /\ pc' = [pc EXCEPT ![t] = AfterForget[AfterCleanup[AfterClose[l]]]]
          /\ ctx.client = NoHandle
          /\ UNCHANGED <<ctx, calls, http, timers, wifi, app, peer>>
    BY <1>2 DEF NothingToClose
  <2> DEFINE m == AfterForget[AfterCleanup[AfterClose[l]]]
  <2>2. m \in {"create", "disc_idle", "deinit_end"}
    OBVIOUS
  <2>3. StateAt(ctx', m) /\ ClientAt(ctx', m)
    BY <1>1, <2>1 DEF StateAt, ClientAt
  <2>4. HandleAt(t)' /\ HandlerAt(t)'
    BY <1>1, <2>1 DEF HandleAt, HandlerAt
  <2>5. Alone' /\ PointsInv'
    BY <2>1, <2>3, <2>4, Focus DEF Lands
  <2> QED
    BY <1>1, <2>1, <2>5 DEF StateAt
<1>3. CASE HttpClose(t)
  <2>1. PICK l \in {"close", "fail_close", "disc_close", "deinit_close"} : pc[t] = l
    BY <1>3 DEF HttpClose
  <2>2. CASE /\ ctx.client # NoHandle
             /\ ReportDisconnected(t, ctx.client) /\ UNCHANGED pc
    <3>1. /\ hnd' = [hnd EXCEPT ![t] = ctx.client]
          /\ handler' = [handler EXCEPT ![t] = "ws_connected"]
          /\ pc' = [pc EXCEPT ![t] = l]
          /\ UNCHANGED <<ctx, http, timers, wifi, app, peer>>
      BY <2>1, <2>2 DEF ReportDisconnected
    <3>2. StateAt(ctx', l) /\ ClientAt(ctx', l)
      BY <1>1, <2>1, <3>1
    <3>3. HandleAt(t)'
      BY <1>1, <2>1, <3>1 DEF HandleAt
    <3>4. HandlerAt(t)'
      BY <2>1, <2>2, <3>1 DEF HandlerAt
    <3>5. Alone' /\ PointsInv'
      BY <2>1, <3>1, <3>2, <3>3, <3>4, Focus DEF Lands
    <3> QED
      BY <2>1, <2>2, <3>1, <3>5
  <2>3. CASE /\ ctx.client # NoHandle => http[ctx.client] # "open"
             /\ ctx.client = NoHandle => l = "fail_close"
             /\ handler[t] = "none" /\ pc' = [pc EXCEPT ![t] = AfterClose[l]]
             /\ UNCHANGED <<ctx, calls, http, timers, wifi, app, peer>>
    <3>1. ctx.client # NoHandle
      BY <1>1, <2>1, <2>3 DEF ClientAt
    <3>2. ~ctx.ws_connected
      BY <2>3, <3>1
    <3> DEFINE m == AfterClose[l]
    <3>3. StateAt(ctx', m) /\ ClientAt(ctx', m)
      BY <1>1, <2>1, <2>3, <3>1, <3>2 DEF StateAt, ClientAt
    <3>4. HandleAt(t)' /\ HandlerAt(t)'
      BY <1>1, <2>1, <2>3, <3>2 DEF HandleAt, HandlerAt
    <3>5. Alone' /\ PointsInv'
      BY <2>1, <2>3, <3>3, <3>4, Focus DEF Lands
    <3> QED
      BY <2>1, <2>3, <3>5
  <2> QED
    BY <1>3, <2>1, <2>2, <2>3 DEF HttpClose
<1> QED
  BY <1>2, <1>3

\* HTTP_EVENT_DISCONNECTED, and the end of the close that reported it.
LEMMA SerialHandler ==
  ASSUME SerialInv, NEW t \in Tasks,
         OnHttpDisconnected(t) \/ ForgetHandshake(t) \/ HandlerReturns(t)
  PROVE  Alone' /\ PointsInv' /\ SessionInv'
<1> USE ConstantsAssumption
    DEF SerialInv, TypeOK, ContextType, Goto, Active, AtRest, Disconnecting, GivingUp,
        Handshaking, AfterClose, AfterCleanup, AfterForget, SessionInv, NoHandleLeak,
        PingOnlyWhenConnected, ConnectedIsLive, Announced, calls, retry, timers, wifi, app
<1>1. /\ HandlerAt(t)
      /\ Active(t) => StateAt(ctx, pc[t]) /\ ClientAt(ctx, pc[t]) /\ HandleAt(t)
  BY Here
<1>2. CASE OnHttpDisconnected(t) \/ ForgetHandshake(t)
  <2>1. /\ pc' = [pc EXCEPT ![t] = pc[t]] /\ Active(t)
        /\ pc[t] \in DOMAIN AfterClose \cup {"peer_gone"}
        /\ handler[t] \in {"ws_connected", "handshake_done"}
        /\ \E p \in {"handshake_done", "ping"} : handler' = [handler EXCEPT ![t] = p]
        /\ UNCHANGED <<pc, hnd, http, timers, wifi, app, peer>>
    BY <1>1, <1>2 DEF OnHttpDisconnected, ForgetHandshake, HandlerAt
  <2>2. /\ ctx'.state = ctx.state /\ ctx'.client = ctx.client /\ ctx'.callback = ctx.callback
        /\ ~ctx'.ws_connected
    BY <1>1, <1>2 DEF OnHttpDisconnected, ForgetHandshake, HandlerAt
  <2>3. StateAt(ctx', pc[t]) /\ ClientAt(ctx', pc[t])
    BY <1>1, <2>1, <2>2 DEF StateAt, ClientAt
  <2>4. HandleAt(t)' /\ HandlerAt(t)'
    BY <1>1, <2>1, <2>2 DEF HandleAt, HandlerAt
  <2>5. Alone' /\ PointsInv'
    BY <2>1, <2>3, <2>4, Focus DEF Lands
  <2> QED
    BY <2>1, <2>2, <2>5
<1>3. CASE HandlerReturns(t)
  <2>1. /\ hnd[t] = ctx.client /\ ctx.client # NoHandle /\ ~ctx.ws_connected
        /\ Active(t) /\ handler[t] = "ping"
    BY <1>1, <1>3 DEF HandlerReturns, HandlerAt
  <2>2. /\ handler' = [handler EXCEPT ![t] = "none"]
        /\ hnd' = [hnd EXCEPT ![t] = NoHandle]
        /\ ping' = StopTimer(ping)
        /\ http' = [http EXCEPT ![ctx.client] = IF @ = "open" THEN "created" ELSE @]
        /\ UNCHANGED <<ctx, retry, wifi, app, peer>>
    BY <1>3, <2>1 DEF HandlerReturns
  <2>3. /\ \A h \in Handles : http'[h] = "free" <=> http[h] = "free"
        /\ ping' # "armed" /\ (ping = "null" => ping' = "null")
    BY <2>1, <2>2 DEF StopTimer
  <2>4. PICK m \in {"idle"} \cup DOMAIN AfterCleanup :
          /\ pc' = [pc EXCEPT ![t] = m]
          /\ \/ pc[t] = "peer_gone" /\ m = "idle"
             \/ pc[t] \in DOMAIN AfterClose /\ m = AfterClose[pc[t]]
    BY <1>3 DEF HandlerReturns
  <2>5. StateAt(ctx', m) /\ ClientAt(ctx', m)
    BY <1>1, <2>1, <2>2, <2>4 DEF StateAt, ClientAt
  <2>6. HandleAt(t)'
    BY <1>1, <2>1, <2>2, <2>3, <2>4 DEF HandleAt
  <2>7. HandlerAt(t)'
    BY <2>2 DEF HandlerAt
  <2>8. Alone' /\ PointsInv'
    BY <2>1, <2>2, <2>4, <2>5, <2>6, <2>7, Focus DEF Lands
  <2> QED
    BY <2>1, <2>2, <2>3, <2>8
<1> QED
  BY <1>2, <1>3

\* Cleaning it up: the one block in use becomes free, then it is forgotten.
LEMMA SerialCleanup ==
  ASSUME SerialInv, NEW t \in Tasks, HttpCleanup(t) \/ HttpForget(t)
  PROVE  Alone' /\ PointsInv' /\ SessionInv'
<1> USE ConstantsAssumption
    DEF SerialInv, TypeOK, ContextType, Goto, Active, AtRest, Disconnecting, GivingUp,
        Handshaking, AfterClose, AfterCleanup, AfterForget, SessionInv, NoHandleLeak,
        PingOnlyWhenConnected, ConnectedIsLive, Announced, calls, retry, timers, wifi, app
<1>1. /\ HandlerAt(t)
      /\ Active(t) => StateAt(ctx, pc[t]) /\ ClientAt(ctx, pc[t]) /\ HandleAt(t)
  BY Here
<1>2. CASE HttpCleanup(t)
  <2>1. PICK l \in DOMAIN AfterCleanup :
          /\ pc[t] = l /\ pc' = [pc EXCEPT ![t] = AfterCleanup[l]]
          /\ UNCHANGED <<ctx, calls, timers, wifi, app, peer>>
    BY <1>2 DEF HttpCleanup
  <2>2. ctx.client \in Handles /\ ~ctx.ws_connected /\ l # "cleanup" /\ Active(t)
    BY <1>1, <2>1 DEF ClientAt
  <2>3. http' = [http EXCEPT ![ctx.client] = "free"]
    BY <1>2, <2>2 DEF HttpCleanup
  <2> DEFINE m == AfterCleanup[l]
  <2>4. StateAt(ctx', m) /\ ClientAt(ctx', m)
    BY <1>1, <2>1, <2>2 DEF StateAt, ClientAt
  <2>5. HandleAt(t)' /\ HandlerAt(t)'
    BY <1>1, <2>1, <2>2, <2>3 DEF HandleAt, HandlerAt
  <2>6. Alone' /\ PointsInv'
    BY <2>1, <2>2, <2>4, <2>5, Focus DEF Lands
  <2> QED
    BY <2>1, <2>2, <2>3, <2>6
<1>3. CASE HttpForget(t)
  <2>1. PICK l \in DOMAIN AfterForget :
          /\ pc[t] = l /\ pc' = [pc EXCEPT ![t] = AfterForget[l]]
          /\ ctx' = [ctx EXCEPT !.client = NoHandle]
          /\ UNCHANGED <<calls, http, timers, wifi, app, peer>>
    BY <1>3 DEF HttpForget
  <2>2. http[ctx.client] = "free" /\ ~ctx.ws_connected /\ l # "forget" /\ Active(t)
    BY <1>1, <2>1 DEF ClientAt, HandleAt
  <2> DEFINE m == AfterForget[l]
  <2>3. StateAt(ctx', m) /\ ClientAt(ctx', m)
    BY <1>1, <2>1, <2>2 DEF StateAt, ClientAt
  <2>4. HandleAt(t)' /\ HandlerAt(t)'
    BY <1>1, <2>1, <2>2 DEF HandleAt, HandlerAt
  <2>5. Alone' /\ PointsInv'
    BY <2>1, <2>2, <2>3, <2>4, Focus DEF Lands
  <2> QED
    BY <2>1, <2>2, <2>5
<1> QED
  BY <1>2, <1>3

\* The application enters the client, or sets what it is asked for there.
LEMMA SerialEnter ==
  ASSUME ~Overlap, SerialInv, AppStep
  PROVE  Alone' /\ PointsInv' /\ SessionInv'
<1> USE ConstantsAssumption
    DEF SerialInv, TypeOK, ContextType, Goto, Active, AtRest, Disconnecting, GivingUp,
        Handshaking, AfterClose, AfterCleanup, AfterForget, SessionInv, NoHandleLeak,
        PingOnlyWhenConnected, ConnectedIsLive, Announced, calls, retry, timers, wifi, app
<1>0. App \in Tasks
  BY DEF Tasks
<1>1. /\ HandlerAt(App)
      /\ Active(App) => StateAt(ctx, pc[App]) /\ ClientAt(ctx, pc[App]) /\ HandleAt(App)
  BY <1>0, Here
<1>2. \A l : Enter(App, l) => /\ pc[App] = "idle" /\ Active(App)
                              /\ pc' = [pc EXCEPT ![App] = l]
  BY <1>0, EnterAlone
<1>3. CASE AppInit
  <2>1. Lands(App, pc'[App])
    BY <1>1, <1>0, <1>2, <1>3
       DEF AppInit, Calls, Handle, Lands, StateAt, ClientAt, HandleAt, HandlerAt
  <2>2. SessionInv'
    BY <1>1, <1>0, <1>2, <1>3
       DEF AppInit, Calls, Handle, StateAt, ClientAt, HandleAt, HandlerAt
  <2> QED
    BY <1>0, <2>1, <2>2, Focus
<1>4. CASE AppSetUrl
  <2>1. Lands(App, "idle")
    BY <1>1, <1>0, <1>2, <1>4
       DEF AppSetUrl, Handle, Lands, StateAt, ClientAt, HandleAt, HandlerAt
  <2>2. SessionInv'
    BY <1>1, <1>0, <1>2, <1>4
       DEF AppSetUrl, Handle, StateAt, ClientAt, HandleAt, HandlerAt
  <2> QED
    BY <1>0, <2>1, <2>2, Focus
<1>5. CASE AppRegister
  <2>1. Lands(App, "idle")
    BY <1>1, <1>0, <1>2, <1>5
       DEF AppRegister, Calls, Handle, Lands, StateAt, ClientAt, HandleAt, HandlerAt
  <2>2. SessionInv'
    BY <1>1, <1>0, <1>2, <1>5
       DEF AppRegister, Calls, Handle, StateAt, ClientAt, HandleAt, HandlerAt
  <2> QED
    BY <1>0, <2>1, <2>2, Focus
<1>6. CASE AppConnect
  <2>1. Lands(App, "connect")
    BY <1>1, <1>0, <1>2, <1>6
       DEF AppConnect, Lands, StateAt, ClientAt, HandleAt, HandlerAt
  <2>2. SessionInv'
    BY <1>1, <1>0, <1>2, <1>6 DEF AppConnect, StateAt, ClientAt, HandleAt, HandlerAt
  <2> QED
    BY <1>0, <2>1, <2>2, Focus
<1>7. CASE AppSend
  <2>1. Lands(App, "sending")
    BY <1>1, <1>0, <1>2, <1>7
       DEF AppSend, Writable, Lands, StateAt, ClientAt, HandleAt, HandlerAt
  <2>2. SessionInv'
    BY <1>1, <1>0, <1>2, <1>7
       DEF AppSend, Writable, StateAt, ClientAt, HandleAt, HandlerAt
  <2> QED
    BY <1>0, <2>1, <2>2, Focus
<1>8. CASE AppDisconnect
  <2>1. Lands(App, "disc_ping")
    BY <1>1, <1>0, <1>2, <1>8
       DEF AppDisconnect, Lands, StateAt, ClientAt, HandleAt, HandlerAt
  <2>2. SessionInv'
    BY <1>1, <1>0, <1>2, <1>8 DEF AppDisconnect, StateAt, ClientAt, HandleAt, HandlerAt
  <2> QED
    BY <1>0, <2>1, <2>2, Focus
<1>9. CASE AppDeinit
  <2>1. Lands(App, "deinit_close")
    BY <1>1, <1>0, <1>2, <1>9
       DEF AppDeinit, Lands, StateAt, ClientAt, HandleAt, HandlerAt
  <2>2. SessionInv'
    BY <1>1, <1>0, <1>2, <1>9 DEF AppDeinit, StateAt, ClientAt, HandleAt, HandlerAt
  <2> QED
    BY <1>0, <2>1, <2>2, Focus
<1> QED
  BY <1>3, <1>4, <1>5, <1>6, <1>7, <1>8, <1>9 DEF AppStep

\* The rest of ws_client_init, ws_client_disconnect and ws_client_deinit.
LEMMA SerialLeave ==
  ASSUME SerialInv, AppContinue
  PROVE  Alone' /\ PointsInv' /\ SessionInv'
<1> USE ConstantsAssumption
    DEF SerialInv, TypeOK, ContextType, Goto, Active, AtRest, Disconnecting, GivingUp,
        Handshaking, AfterClose, AfterCleanup, AfterForget, SessionInv, NoHandleLeak,
        PingOnlyWhenConnected, ConnectedIsLive, Announced, calls, retry, timers, wifi, app
<1>0. App \in Tasks
  BY DEF Tasks
<1>1. /\ HandlerAt(App)
      /\ Active(App) => StateAt(ctx, pc[App]) /\ ClientAt(ctx, pc[App]) /\ HandleAt(App)
  BY <1>0, Here
<1>2. CASE InitContext
  <2>1. Lands(App, "init_timers")
    BY <1>1, <1>0, <1>2
       DEF InitContext, ZeroCtx, Lands, StateAt, ClientAt, HandleAt, HandlerAt
  <2>2. SessionInv'
    BY <1>1, <1>0, <1>2 DEF InitContext, ZeroCtx, StateAt, ClientAt, HandleAt, HandlerAt
  <2> QED
    BY <1>0, <2>1, <2>2, Focus
<1>3. CASE InitTimers
  <2>1. Lands(App, "idle")
    BY <1>1, <1>0, <1>3
       DEF InitTimers, CreateTimers, Lands, StateAt, ClientAt, HandleAt, HandlerAt
  <2>2. SessionInv'
    BY <1>1, <1>0, <1>3
       DEF InitTimers, CreateTimers, StateAt, ClientAt, HandleAt, HandlerAt
  <2> QED
    BY <1>0, <2>1, <2>2, Focus
<1>4. CASE DisconnectStopPing
  <2>1. Lands(App, "disc_reconnect")
    BY <1>1, <1>0, <1>4
       DEF DisconnectStopPing, StopTimer, Lands, StateAt, ClientAt, HandleAt, HandlerAt
  <2>2. SessionInv'
    BY <1>1, <1>0, <1>4
       DEF DisconnectStopPing, StopTimer, StateAt, ClientAt, HandleAt, HandlerAt
  <2> QED
    BY <1>0, <2>1, <2>2, Focus
<1>5. CASE DisconnectStopReconnect
  <2>1. Lands(App, "disc_frame")
    BY <1>1, <1>0, <1>5
       DEF DisconnectStopReconnect, Lands, StateAt, ClientAt, HandleAt, HandlerAt
  <2>2. SessionInv'
    BY <1>1, <1>0, <1>5
       DEF DisconnectStopReconnect, StateAt, ClientAt, HandleAt, HandlerAt
  <2> QED
    BY <1>0, <2>1, <2>2, Focus
<1>6. CASE DisconnectFrame
  <2>1. Lands(App, pc'[App])
    BY <1>1, <1>0, <1>6
       DEF DisconnectFrame, Writable, Lands, StateAt, ClientAt, HandleAt, HandlerAt
  <2>2. SessionInv'
    BY <1>1, <1>0, <1>6
       DEF DisconnectFrame, Writable, StateAt, ClientAt, HandleAt, HandlerAt
  <2> QED
    BY <1>0, <2>1, <2>2, Focus
<1>7. CASE ClearConnected
  <2>1. Lands(App, "disc_shake")
    BY <1>1, <1>0, <1>7
       DEF ClearConnected, Lands, StateAt, ClientAt, HandleAt, HandlerAt
  <2>2. SessionInv'
    BY <1>1, <1>0, <1>7 DEF ClearConnected, StateAt, ClientAt, HandleAt, HandlerAt
  <2> QED
    BY <1>0, <2>1, <2>2, Focus
<1>8. CASE ClearHandshake
  <2>1. Lands(App, "disc_close")
    BY <1>1, <1>0, <1>8
       DEF ClearHandshake, Lands, StateAt, ClientAt, HandleAt, HandlerAt
  <2>2. SessionInv'
    BY <1>1, <1>0, <1>8 DEF ClearHandshake, StateAt, ClientAt, HandleAt, HandlerAt
  <2> QED
    BY <1>0, <2>1, <2>2, Focus
<1>9. CASE DisconnectIdle
  <2>1. Lands(App, "disc_notify")
    BY <1>1, <1>0, <1>9
       DEF DisconnectIdle, Lands, StateAt, ClientAt, HandleAt, HandlerAt
  <2>2. SessionInv'
    BY <1>1, <1>0, <1>9 DEF DisconnectIdle, StateAt, ClientAt, HandleAt, HandlerAt
  <2> QED
    BY <1>0, <2>1, <2>2, Focus
<1>10. CASE DisconnectNotify
  <2>1. Lands(App, "idle")
    BY <1>1, <1>0, <1>10
       DEF DisconnectNotify, Notify, Lands, StateAt, ClientAt, HandleAt, HandlerAt
  <2>2. SessionInv'
    BY <1>1, <1>0, <1>10
       DEF DisconnectNotify, Notify, StateAt, ClientAt, HandleAt, HandlerAt
  <2> QED
    BY <1>0, <2>1, <2>2, Focus
<1>11. CASE DeinitEnd
  <2>1. Lands(App, "idle")
    BY <1>1, <1>0, <1>11
       DEF DeinitEnd, ZeroCtx, Lands, StateAt, ClientAt, HandleAt, HandlerAt
  <2>2. SessionInv'
    BY <1>1, <1>0, <1>11 DEF DeinitEnd, ZeroCtx, StateAt, ClientAt, HandleAt, HandlerAt
  <2> QED
    BY <1>0, <2>1, <2>2, Focus
<1> QED
  BY <1>2, <1>3, <1>4, <1>5, <1>6, <1>7, <1>8, <1>9, <1>10, <1>11 DEF AppContinue

\* The event handler.
LEMMA SerialEvents ==
  ASSUME ~Overlap, SerialInv, EvtStep \/ EvtContinue
  PROVE  Alone' /\ PointsInv' /\ SessionInv'
<1> USE ConstantsAssumption
    DEF SerialInv, TypeOK, ContextType, Goto, Active, AtRest, Disconnecting, GivingUp,
        Handshaking, AfterClose, AfterCleanup, AfterForget, SessionInv, NoHandleLeak,
        PingOnlyWhenConnected, ConnectedIsLive, Announced, calls, retry, timers, wifi, app
<1>0. Evt \in Tasks
  BY DEF Tasks
<1>1. /\ HandlerAt(Evt)
      /\ Active(Evt) => StateAt(ctx, pc[Evt]) /\ ClientAt(ctx, pc[Evt]) /\ HandleAt(Evt)
  BY <1>0, Here
<1>2. \A l : Enter(Evt, l) => /\ pc[Evt] = "idle" /\ Active(Evt)
                              /\ pc' = [pc EXCEPT ![Evt] = l]
  BY <1>0, EnterAlone
<1>3. CASE OnStaStart
  <2>1. Lands(Evt, "idle")
    BY <1>1, <1>0, <1>2, <1>3
       DEF OnStaStart, Handle, Lands, StateAt, ClientAt, HandleAt, HandlerAt
  <2>2. SessionInv'
    BY <1>1, <1>0, <1>2, <1>3
       DEF OnStaStart, Handle, StateAt, ClientAt, HandleAt, HandlerAt
  <2> QED
    BY <1>0, <2>1, <2>2, Focus
<1>4. CASE OnStaDisconnected
  <2>1. Lands(Evt, "lost_ws")
    BY <1>1, <1>0, <1>2, <1>4
       DEF OnStaDisconnected, Lands, StateAt, ClientAt, HandleAt, HandlerAt
  <2>2. SessionInv'
    BY <1>0, <1>4 DEF OnStaDisconnected, Enter
  <2> QED
    BY <1>0, <2>1, <2>2, Focus
<1>5. CASE LostConnected
  <2>1. Lands(Evt, "lost_ping")
    BY <1>1, <1>0, <1>2, <1>5
       DEF LostConnected, Lands, StateAt, ClientAt, HandleAt, HandlerAt
  <2>2. SessionInv'
    BY <1>1, <1>0, <1>2, <1>5 DEF LostConnected, StateAt, ClientAt, HandleAt, HandlerAt
  <2> QED
    BY <1>0, <2>1, <2>2, Focus
<1>6. CASE LostStopPing
  <2>1. Lands(Evt, "lost")
    BY <1>1, <1>0, <1>2, <1>6
       DEF LostStopPing, StopTimer, Lands, StateAt, ClientAt, HandleAt, HandlerAt
  <2>2. SessionInv'
    BY <1>1, <1>0, <1>2, <1>6
       DEF LostStopPing, StopTimer, StateAt, ClientAt, HandleAt, HandlerAt
  <2> QED
    BY <1>0, <2>1, <2>2, Focus
<1>7. CASE LostSession
  <2>1. Lands(Evt, pc'[Evt])
    BY <1>1, <1>0, <1>2, <1>7
       DEF LostSession, Lands, StateAt, ClientAt, HandleAt, HandlerAt
  <2>2. SessionInv'
    BY <1>1, <1>0, <1>2, <1>7 DEF LostSession, StateAt, ClientAt, HandleAt, HandlerAt
  <2> QED
    BY <1>0, <2>1, <2>2, Focus
<1>8. CASE Rearm
  <2>1. Lands(Evt, "arm")
    BY <1>1, <1>0, <1>2, <1>8 DEF Rearm, Lands, StateAt, ClientAt, HandleAt, HandlerAt
  <2>2. SessionInv'
    BY <1>1, <1>0, <1>2, <1>8 DEF Rearm, StateAt, ClientAt, HandleAt, HandlerAt
  <2> QED
    BY <1>0, <2>1, <2>2, Focus
<1>9. CASE ArmReconnect
  <2>1. Lands(Evt, "idle")
    BY <1>1, <1>0, <1>2, <1>9
       DEF ArmReconnect, Lands, StateAt, ClientAt, HandleAt, HandlerAt
  <2>2. SessionInv'
    BY <1>1, <1>0, <1>2, <1>9 DEF ArmReconnect, StateAt, ClientAt, HandleAt, HandlerAt
  <2> QED
    BY <1>0, <2>1, <2>2, Focus
<1>10. CASE OnGotIp
  <2>1. Lands(Evt, "got_ip")
    BY <1>1, <1>0, <1>2, <1>10
       DEF OnGotIp, Lands, StateAt, ClientAt, HandleAt, HandlerAt
  <2>2. SessionInv'
    BY <1>0, <1>10 DEF OnGotIp, Enter
  <2> QED
    BY <1>0, <2>1, <2>2, Focus
<1>11. CASE GotIpConnects
  <2>1. Lands(Evt, pc'[Evt])
    BY <1>1, <1>0, <1>2, <1>11
       DEF GotIpConnects, Lands, StateAt, ClientAt, HandleAt, HandlerAt
  <2>2. SessionInv'
    BY <1>1, <1>0, <1>2, <1>11 DEF GotIpConnects, StateAt, ClientAt, HandleAt, HandlerAt
  <2> QED
    BY <1>0, <2>1, <2>2, Focus
<1> QED
  BY <1>3, <1>4, <1>5, <1>6, <1>7, <1>8, <1>9, <1>10, <1>11 DEF EvtStep, EvtContinue

\* The timer callbacks.
LEMMA SerialTimers ==
  ASSUME ~Overlap, SerialInv, TmrPing \/ TmrReconnect \/ TmrContinue
  PROVE  Alone' /\ PointsInv' /\ SessionInv'
<1> USE ConstantsAssumption
    DEF SerialInv, TypeOK, ContextType, Goto, Active, AtRest, Disconnecting, GivingUp,
        Handshaking, AfterClose, AfterCleanup, AfterForget, SessionInv, NoHandleLeak,
        PingOnlyWhenConnected, ConnectedIsLive, Announced, calls, retry, timers, wifi, app
<1>0. Tmr \in Tasks
  BY DEF Tasks
<1>1. /\ HandlerAt(Tmr)
      /\ Active(Tmr) => StateAt(ctx, pc[Tmr]) /\ ClientAt(ctx, pc[Tmr]) /\ HandleAt(Tmr)
  BY <1>0, Here
<1>2. \A l : Enter(Tmr, l) => /\ pc[Tmr] = "idle" /\ Active(Tmr)
                              /\ pc' = [pc EXCEPT ![Tmr] = l]
  BY <1>0, EnterAlone
<1>3. CASE TmrPing
  <2>1. Lands(Tmr, "sending")
    BY <1>1, <1>0, <1>2, <1>3
       DEF TmrPing, Writable, Lands, StateAt, ClientAt, HandleAt, HandlerAt
  <2>2. SessionInv'
    BY <1>1, <1>0, <1>2, <1>3
       DEF TmrPing, Writable, StateAt, ClientAt, HandleAt, HandlerAt
  <2> QED
    BY <1>0, <2>1, <2>2, Focus
<1>4. CASE TmrReconnect
  <2>1. Lands(Tmr, pc'[Tmr])
    BY <1>1, <1>0, <1>2, <1>4
       DEF TmrReconnect, Lands, StateAt, ClientAt, HandleAt, HandlerAt
  <2>2. SessionInv'
    BY <1>0, <1>4 DEF TmrReconnect, Enter
  <2> QED
    BY <1>0, <2>1, <2>2, Focus
<1>5. CASE ReconnectLoad
  <2>1. Lands(Tmr, "bump_store")
    BY <1>1, <1>0, <1>2, <1>5
       DEF ReconnectLoad, Lands, StateAt, ClientAt, HandleAt, HandlerAt
  <2>2. SessionInv'
    BY <1>1, <1>0, <1>2, <1>5 DEF ReconnectLoad, StateAt, ClientAt, HandleAt, HandlerAt
  <2> QED
    BY <1>0, <2>1, <2>2, Focus
<1>6. CASE ReconnectBump
  <2>1. Lands(Tmr, "connect")
    BY <1>1, <1>0, <1>2, <1>6
       DEF ReconnectBump, Lands, StateAt, ClientAt, HandleAt, HandlerAt
  <2>2. SessionInv'
    BY <1>1, <1>0, <1>2, <1>6 DEF ReconnectBump, StateAt, ClientAt, HandleAt, HandlerAt
  <2> QED
    BY <1>0, <2>1, <2>2, Focus
<1> QED
  BY <1>3, <1>4, <1>5, <1>6 DEF TmrContinue

\* What leaves the program points, the context and the client as they are.
LEMMA SerialUnchanged ==
  ASSUME SerialInv, UNCHANGED <<ctx, pc, hnd, handler, http, ping, view, up>>
  PROVE  Alone' /\ PointsInv' /\ SessionInv'
  BY DEF SerialInv, Alone, PointsInv, SessionInv, NoHandleLeak, PingOnlyWhenConnected,
         ConnectedIsLive, Announced, Active, Quiescent, StateAt, ClientAt, HandleAt,
         HandlerAt

\* The environment: WiFi at any time, the server's events between two calls.
LEMMA SerialEnvironment ==
  ASSUME ~Overlap, SerialInv, Environment \/ NetContinue
  PROVE  Alone' /\ PointsInv' /\ SessionInv'
<1> USE ConstantsAssumption
    DEF SerialInv, TypeOK, ContextType, Goto, Active, AtRest, Disconnecting, GivingUp,
        Handshaking, AfterClose, AfterCleanup, AfterForget, SessionInv, NoHandleLeak,
        PingOnlyWhenConnected, ConnectedIsLive, Announced, calls, retry, timers, wifi, app
<1>0. Net \in Tasks
  BY DEF Tasks
<1>1. /\ HandlerAt(Net)
      /\ Active(Net) => StateAt(ctx, pc[Net]) /\ ClientAt(ctx, pc[Net]) /\ HandleAt(Net)
  BY <1>0, Here
<1>2. \A l : Enter(Net, l) => /\ pc[Net] = "idle" /\ Active(Net)
                              /\ pc' = [pc EXCEPT ![Net] = l]
  BY <1>0, EnterAlone
<1>3. CASE WifiAssociates \/ WifiRejected \/ WifiLost \/ PeerDies
  BY <1>3, SerialUnchanged
     DEF WifiAssociates, WifiRejected, WifiLost, LinkStep, PeerDies
<1>4. CASE \E h \in Handles : PeerCloses(h) \/ PeerDisconnects(h)
  <2>1. PICK h \in Handles : PeerCloses(h) \/ PeerDisconnects(h)
    BY <1>4
  <2>2. /\ pc[Net] = "idle" /\ Active(Net) /\ h = ctx.client /\ http[h] = "open"
        /\ UNCHANGED <<ctx, http, timers, wifi, app, peer>>
    BY <1>2, <2>1 DEF PeerCloses, PeerDisconnects, Deliverable, ReportDisconnected
  <2>3. ctx.state = "CONNECTED"
    BY <1>1, <2>2 DEF StateAt
  <2>4. PICK l \in {"peer_close", "peer_gone"} :
          /\ pc' = [pc EXCEPT ![Net] = l]
          /\ \/ l = "peer_close" /\ UNCHANGED calls
             \/ /\ l = "peer_gone" /\ hnd' = [hnd EXCEPT ![Net] = h]
                /\ handler' = [handler EXCEPT ![Net] = "ws_connected"]
    BY <1>2, <2>1 DEF PeerCloses, PeerDisconnects, ReportDisconnected
  <2>5. StateAt(ctx', l) /\ ClientAt(ctx', l)
    BY <1>1, <2>2, <2>3 DEF StateAt, ClientAt
  <2>6. HandleAt(Net)' /\ HandlerAt(Net)'
    BY <1>0, <1>1, <2>2, <2>4 DEF HandleAt, HandlerAt
  <2>7. Alone' /\ PointsInv'
    BY <1>0, <2>2, <2>4, <2>5, <2>6, Focus DEF Lands
  <2> QED
    BY <1>0, <2>2, <2>4, <2>7
<1>5. CASE PeerClosed
  <2>1. Lands(Net, "peer_tell")
    BY <1>1, <1>0, <1>5 DEF PeerClosed, Lands, StateAt, ClientAt, HandleAt, HandlerAt
  <2>2. SessionInv'
    BY <1>1, <1>0, <1>5 DEF PeerClosed, StateAt, ClientAt, HandleAt, HandlerAt
  <2> QED
    BY <1>0, <2>1, <2>2, Focus
<1>6. CASE PeerTell
  <2>1. Lands(Net, "idle")
    BY <1>1, <1>0, <1>6
       DEF PeerTell, Notify, Lands, StateAt, ClientAt, HandleAt, HandlerAt
  <2>2. SessionInv'
    BY <1>1, <1>0, <1>6 DEF PeerTell, Notify, StateAt, ClientAt, HandleAt, HandlerAt
  <2> QED
    BY <1>0, <2>1, <2>2, Focus
<1> QED
  BY <1>3, <1>4, <1>5, <1>6 DEF Environment, NetContinue

\* Nothing is in use at power on.
LEMMA SerialInitial == Init => SerialInv
<1> SUFFICES ASSUME Init PROVE SerialInv
  OBVIOUS
<1>1. TypeOK
  BY TypeInit
<1>2. Alone /\ PointsInv
  BY DEF Init, Alone, PointsInv, Active, StateAt, ClientAt, HandleAt, HandlerAt, AtRest,
         Disconnecting, GivingUp, Handshaking, AfterClose, AfterCleanup, AfterForget, ZeroCtx
<1>3. SessionInv
  BY ConstantsAssumption
     DEF Init, SessionInv, NoHandleLeak, PingOnlyWhenConnected, ConnectedIsLive, Announced,
         ZeroCtx
<1> QED
  BY <1>1, <1>2, <1>3 DEF SerialInv

\* Every step of the program preserves it.
LEMMA SerialStep ==
  ASSUME ~Overlap PROVE SerialInv /\ [Next]_vars => SerialInv'
<1> SUFFICES ASSUME SerialInv, [Next]_vars PROVE SerialInv'
  OBVIOUS
<1>1. TypeOK'
  BY TypeContinue, TypeApp, TypeOthers, TypeStutter DEF Next, SerialInv
<1>2. CASE UNCHANGED vars
  BY <1>1, <1>2, SerialUnchanged DEF vars, calls, timers, app, SerialInv
<1>3. CASE \E t \in Tasks : Continue(t)
  BY <1>1, <1>3, SerialConnect, SerialSession, SerialHttp, SerialClose, SerialHandler,
     SerialCleanup
     DEF Continue, SerialInv
<1>4. CASE AppStep \/ AppContinue
  BY <1>1, <1>4, SerialEnter, SerialLeave DEF SerialInv
<1>5. CASE EvtStep \/ EvtContinue \/ TmrPing \/ TmrReconnect \/ TmrContinue
  BY <1>1, <1>5, SerialEvents, SerialTimers DEF SerialInv
<1>6. CASE NetContinue \/ Environment
  BY <1>1, <1>6, SerialEnvironment DEF SerialInv
<1> QED
  BY <1>2, <1>3, <1>4, <1>5, <1>6 DEF Next

-----------------------------------------------------------------------------
(* What it shows.                                                          *)

\* The invariant, with the types.
THEOREM SerialInvariant ==
  ASSUME ~Overlap PROVE Spec => []SerialInv
<1>1. SerialInv /\ [Next]_vars => SerialInv'
  BY SerialStep
<1> QED
  BY <1>1, SerialInitial, PTL DEF Spec

\* Whatever fails in ws_client_connect, disconnect or deinit, the call ends in
\* IDLE, CONNECTED or ERROR, with an HTTP client exactly in CONNECTED.
THEOREM CallsSettle ==
  ASSUME ~Overlap PROVE Spec => []SettledState
<1>1. SerialInv => SettledState
  BY DEF SerialInv, PointsInv, Active, Quiescent, StateAt, AtRest, SettledState, Tasks
<1> QED
  BY <1>1, SerialInvariant, PTL

\* Each of the seven ends of a session and the four ends of a handshake gives
\* the HTTP client back.
THEOREM NoClientLeaks ==
  ASSUME ~Overlap PROVE Spec => []NoHandleLeak
<1>1. SerialInv => NoHandleLeak
  BY DEF SerialInv, SessionInv
<1> QED
  BY <1>1, SerialInvariant, PTL

\* The ping timer is stopped on every way out of CONNECTED.
THEOREM PingsInSessionsOnly ==
  ASSUME ~Overlap PROVE Spec => []PingOnlyWhenConnected
<1>1. SerialInv => PingOnlyWhenConnected
  BY DEF SerialInv, SessionInv
<1> QED
  BY <1>1, SerialInvariant, PTL

\* When ws_client_is_connected says yes, ws_client_send has an open client
\* that speaks WebSocket.
THEOREM ConnectedMayWrite ==
  ASSUME ~Overlap PROVE Spec => []ConnectedIsLive
<1>1. SerialInv => ConnectedIsLive
  BY DEF SerialInv, SessionInv
<1> QED
  BY <1>1, SerialInvariant, PTL

\* A session that is up was announced after the last one ended.
THEOREM SessionsAreAnnounced ==
  ASSUME ~Overlap PROVE Spec => []NoSilentSession
<1>1. SerialInv => NoSilentSession
  BY DEF SerialInv, PointsInv, Active, HandleAt, NoSilentSession, Quiescent, AtRest, Tasks
<1> QED
  BY <1>1, SerialInvariant, PTL

-----------------------------------------------------------------------------
(* What the header shows: the refinement of WsSession.                     *)

\* What an application is shown at each point of a call, in terms of the
\* context c and the last event v of its callback.
ShownAt(c, v, label) ==
  /\ label \in {"open", "opening", "status", "accepted", "fail_close"} => ~c.ws_connected
  /\ label \in {"ready", "upgraded"} => c.ws_connected
  /\ label \in {"deinit_close", "deinit_cleanup", "deinit_forget", "deinit_end"}
       => c.state \in {"IDLE", "CONNECTED", "ERROR"}
  /\ label = "deinit_close" /\ c.ws_connected => c.state = "CONNECTED"
  /\ v = "connected" => c.state \in {"CONNECTED", "DISCONNECTING"} \/ label = "disc_notify"

ShownInv == \A t \in Tasks : Active(t) => ShownAt(ctx, view, pc[t])

\* A session is due exactly at these points.
Announcing == {"ping_start", "announce"}

\* A step of the session, or none.
SessionStep == [Session!Next]_(Session!vars)

\* The active task t arrives at label l.
Arrives(t, l) ==
  /\ Active(t)
  /\ pc' = [pc EXCEPT ![t] = l]
  /\ ShownAt(ctx', view', l)

\* ... and the application is shown nothing new.
Quiet(t) ==
  /\ Arrives(t, pc'[t])
  /\ ctx'.state = ctx.state /\ ctx'.ws_connected = ctx.ws_connected
  /\ ctx'.callback = ctx.callback /\ view' = view
  /\ pc'[t] \in Announcing <=> pc[t] \in Announcing

\* What holds at the point the active task goes to is all that is asked.
LEMMA FocusShown ==
  ASSUME TypeOK, Alone, NEW t \in Tasks, NEW l, Arrives(t, l)
  PROVE  /\ ShownInv'
         /\ Due <=> pc[t] \in Announcing
         /\ Due' <=> l \in Announcing
<1> USE DEF TypeOK, Alone, Active, Quiescent, Arrives
<1>1. pc'[t] = l /\ \A u \in Tasks : u # t => pc[u] = "idle" /\ pc'[u] = "idle"
  OBVIOUS
<1>2. ASSUME NEW u \in Tasks, Active(u)' PROVE pc'[u] = l
  BY <1>1, <1>2
<1>3. ShownInv'
  BY <1>2 DEF ShownInv
<1>4. (Due <=> pc[t] \in Announcing) /\ (Due' <=> l \in Announcing)
  BY <1>1 DEF Due, Announcing
<1> QED
  BY <1>3, <1>4

LEMMA Quietly ==
  ASSUME TypeOK, Alone, NEW t \in Tasks, Quiet(t)
  PROVE  ShownInv' /\ SessionStep
<1>1. Arrives(t, pc'[t])
  BY DEF Quiet
<1>2. /\ ShownInv'
      /\ Due <=> pc[t] \in Announcing
      /\ Due' <=> pc'[t] \in Announcing
  BY <1>1, FocusShown
<1>3. Due' = Due
  BY <1>2 DEF Quiet, Due
<1> QED
  BY <1>2, <1>3 DEF Quiet, SessionStep, Session!vars

\* What is known of the active task.
LEMMA HereShown ==
  ASSUME PointsInv, ShownInv, NEW t \in Tasks
  PROVE  /\ HandlerAt(t)
         /\ Active(t) => /\ StateAt(ctx, pc[t]) /\ ClientAt(ctx, pc[t]) /\ HandleAt(t)
                         /\ ShownAt(ctx, view, pc[t])
  BY DEF PointsInv, ShownInv

\* The steps of a handshake or a sender that show nothing new.
LEMMA ShownQuiet ==
  ASSUME SerialInv, ShownInv, NEW t \in Tasks,
         \/ ConnectNoWifi(t) \/ BringUpWifi(t) \/ ConnectWifiUp(t) \/ ConnectChecked(t)
         \/ HttpCreate(t) \/ OpenCall(t) \/ OpenSucceeds(t) \/ OpenFails(t)
         \/ HandshakeDone(t) \/ ResetCount(t) \/ StartPings(t) \/ HandshakeRefused(t)
         \/ BeginWrite(t) \/ EndWrite(t)
  PROVE  ShownInv' /\ SessionStep
<1> SUFFICES Quiet(t)
  BY Quietly DEF SerialInv
<1> USE DEF SerialInv, TypeOK, ContextType, Goto, Active, Arrives, Quiet, ShownAt,
            Announcing, calls, retry, timers, wifi, app
<1>1. /\ HandlerAt(t)
      /\ Active(t) => /\ StateAt(ctx, pc[t]) /\ ClientAt(ctx, pc[t]) /\ HandleAt(t)
                      /\ ShownAt(ctx, view, pc[t])
  BY HereShown DEF SerialInv
<1>2. CASE ConnectNoWifi(t)
  BY <1>1, <1>2 DEF ConnectNoWifi
<1>3. CASE BringUpWifi(t)
  BY <1>1, <1>3 DEF BringUpWifi
<1>4. CASE ConnectWifiUp(t)
  BY <1>1, <1>4 DEF ConnectWifiUp
<1>5. CASE ConnectChecked(t)
  BY <1>1, <1>5 DEF ConnectChecked
<1>6. CASE OpenCall(t)
  BY <1>1, <1>6 DEF OpenCall, Hold
<1>7. CASE OpenSucceeds(t)
  BY <1>1, <1>7 DEF OpenSucceeds, Release
<1>8. CASE OpenFails(t)
  BY <1>1, <1>8 DEF OpenFails, Release
<1>9. CASE ResetCount(t)
  BY <1>1, <1>9 DEF ResetCount
<1>10. CASE StartPings(t)
  BY <1>1, <1>10 DEF StartPings
<1>11. CASE HandshakeRefused(t)
  BY <1>1, <1>11 DEF HandshakeRefused
<1>12. CASE BeginWrite(t)
  BY <1>1, <1>12 DEF BeginWrite, Hold
<1>13. CASE EndWrite(t)
  BY <1>1, <1>13 DEF EndWrite, Release
<1>14. CASE HandshakeDone(t)
  BY <1>1, <1>14 DEF HandshakeDone
<1>15. CASE HttpCreate(t)
  BY <1>1, <1>15 DEF HttpCreate, ClientAt, SessionInv, ConnectedIsLive
<1> QED
  BY <1>2, <1>3, <1>4, <1>5, <1>6, <1>7, <1>8, <1>9, <1>10, <1>11, <1>12, <1>13, <1>14, <1>15

\* So do those that give the client up, but for the store of ws_connected.
LEMMA ShownGivingUp ==
  ASSUME SerialInv, ShownInv, NEW t \in Tasks,
         \/ NothingToClose(t) \/ HttpClose(t) \/ HttpCleanup(t) \/ HttpForget(t)
         \/ ForgetHandshake(t) \/ HandlerReturns(t)
  PROVE  ShownInv' /\ SessionStep
<1> SUFFICES Quiet(t)
  BY Quietly DEF SerialInv
<1> USE DEF SerialInv, TypeOK, ContextType, Goto, Active, Arrives, Quiet, ShownAt,
            Announcing, calls, retry, timers, wifi, app
<1>1. /\ HandlerAt(t)
      /\ Active(t) => /\ StateAt(ctx, pc[t]) /\ ClientAt(ctx, pc[t]) /\ HandleAt(t)
                      /\ ShownAt(ctx, view, pc[t])
  BY HereShown DEF SerialInv
<1>2. CASE NothingToClose(t)
  BY <1>1, <1>2 DEF NothingToClose, AfterClose, AfterCleanup, AfterForget
<1>3. CASE HttpClose(t)
  BY <1>1, <1>3 DEF HttpClose, ReportDisconnected, AfterClose
<1>4. CASE HttpCleanup(t)
  BY <1>1, <1>4 DEF HttpCleanup, AfterCleanup
<1>5. CASE HttpForget(t)
  BY <1>1, <1>5 DEF HttpForget, AfterForget
<1>6. CASE ForgetHandshake(t)
  BY <1>1, <1>6 DEF ForgetHandshake, HandlerAt, AfterClose
<1>7. CASE HandlerReturns(t)
  BY <1>1, <1>7 DEF HandlerReturns, AfterClose
<1> QED
  BY <1>2, <1>3, <1>4, <1>5, <1>6, <1>7

\* ... a call that begins, and ws_client_init.
LEMMA ShownCalls ==
  ASSUME ~Overlap, SerialInv, ShownInv, 
         \/ AppInit \/ AppSetUrl \/ AppConnect \/ AppSend \/ AppDeinit
         \/ InitContext \/ InitTimers
  PROVE  ShownInv' /\ SessionStep
<1>0. App \in Tasks
  BY DEF Tasks
<1> SUFFICES Quiet(App)
  BY <1>0, Quietly DEF SerialInv
<1> USE DEF SerialInv, TypeOK, ContextType, Goto, Active, Arrives, Quiet, ShownAt,
            Announcing, calls, retry, timers, wifi, app
<1>1. /\ HandlerAt(App)
      /\ Active(App) => /\ StateAt(ctx, pc[App]) /\ ClientAt(ctx, pc[App]) /\ HandleAt(App)
                      /\ ShownAt(ctx, view, pc[App])
  BY <1>0, HereShown DEF SerialInv
<1>2. \A l : Enter(App, l) => /\ pc[App] = "idle" /\ Active(App) /\ Quiescent
                              /\ pc' = [pc EXCEPT ![App] = l]
  BY <1>0, EnterAlone
<1>3. CASE AppInit
  BY <1>1, <1>0, <1>2, <1>3 DEF AppInit, Handle
<1>4. CASE AppSetUrl
  BY <1>1, <1>0, <1>2, <1>4 DEF AppSetUrl, Handle
<1>5. CASE AppConnect
  BY <1>1, <1>0, <1>2, <1>5 DEF AppConnect
<1>6. CASE AppSend
  BY <1>1, <1>0, <1>2, <1>6 DEF AppSend
<1>7. CASE AppDeinit
  BY <1>1, <1>0, <1>2, <1>7 DEF AppDeinit, StateAt, AtRest, SessionInv, ConnectedIsLive
<1>8. CASE InitContext
  BY <1>1, <1>0, <1>2, <1>8
     DEF InitContext, ZeroCtx, StateAt, AtRest, HandleAt, SessionInv, ConnectedIsLive,
         Announced
<1>9. CASE InitTimers
  BY <1>1, <1>0, <1>2, <1>9 DEF InitTimers, StateAt
<1> QED
  BY <1>3, <1>4, <1>5, <1>6, <1>7, <1>8, <1>9

\* ... the steps of ws_client_disconnect between those that are shown.
LEMMA ShownLeaving ==
  ASSUME SerialInv, ShownInv, 
         \/ DisconnectStopPing \/ DisconnectStopReconnect \/ DisconnectFrame
         \/ ClearHandshake
  PROVE  ShownInv' /\ SessionStep
<1>0. App \in Tasks
  BY DEF Tasks
<1> SUFFICES Quiet(App)
  BY <1>0, Quietly DEF SerialInv
<1> USE DEF SerialInv, TypeOK, ContextType, Goto, Active, Arrives, Quiet, ShownAt,
            Announcing, calls, retry, timers, wifi, app
<1>1. /\ HandlerAt(App)
      /\ Active(App) => /\ StateAt(ctx, pc[App]) /\ ClientAt(ctx, pc[App]) /\ HandleAt(App)
                      /\ ShownAt(ctx, view, pc[App])
  BY <1>0, HereShown DEF SerialInv
<1>2. CASE DisconnectStopPing
  BY <1>1, <1>0, <1>2 DEF DisconnectStopPing
<1>3. CASE DisconnectStopReconnect
  BY <1>1, <1>0, <1>3 DEF DisconnectStopReconnect
<1>4. CASE DisconnectFrame
  BY <1>1, <1>0, <1>4 DEF DisconnectFrame
<1>5. CASE ClearHandshake
  BY <1>1, <1>0, <1>5 DEF ClearHandshake
<1> QED
  BY <1>2, <1>3, <1>4, <1>5

\* ... the WiFi events.
LEMMA ShownWifi ==
  ASSUME ~Overlap, SerialInv, ShownInv, 
         \/ OnStaStart \/ OnStaDisconnected \/ LostStopPing \/ LostSession
         \/ Rearm \/ ArmReconnect \/ OnGotIp \/ GotIpConnects
  PROVE  ShownInv' /\ SessionStep
<1>0. Evt \in Tasks
  BY DEF Tasks
<1> SUFFICES Quiet(Evt)
  BY <1>0, Quietly DEF SerialInv
<1> USE DEF SerialInv, TypeOK, ContextType, Goto, Active, Arrives, Quiet, ShownAt,
            Announcing, calls, retry, timers, wifi, app
<1>1. /\ HandlerAt(Evt)
      /\ Active(Evt) => /\ StateAt(ctx, pc[Evt]) /\ ClientAt(ctx, pc[Evt]) /\ HandleAt(Evt)
                      /\ ShownAt(ctx, view, pc[Evt])
  BY <1>0, HereShown DEF SerialInv
<1>2. \A l : Enter(Evt, l) => /\ pc[Evt] = "idle" /\ Active(Evt) /\ Quiescent
                              /\ pc' = [pc EXCEPT ![Evt] = l]
  BY <1>0, EnterAlone
<1>3. CASE OnStaStart
  BY <1>1, <1>0, <1>2, <1>3 DEF OnStaStart, Handle
<1>4. CASE OnStaDisconnected
  BY <1>1, <1>0, <1>2, <1>4 DEF OnStaDisconnected
<1>5. CASE LostStopPing
  BY <1>1, <1>0, <1>2, <1>5 DEF LostStopPing
<1>6. CASE LostSession
  BY <1>1, <1>0, <1>2, <1>6 DEF LostSession
<1>7. CASE Rearm
  BY <1>1, <1>0, <1>2, <1>7 DEF Rearm
<1>8. CASE ArmReconnect
  BY <1>1, <1>0, <1>2, <1>8 DEF ArmReconnect
<1>9. CASE OnGotIp
  BY <1>1, <1>0, <1>2, <1>9 DEF OnGotIp
<1>10. CASE GotIpConnects
  BY <1>1, <1>0, <1>2, <1>10 DEF GotIpConnects
<1> QED
  BY <1>3, <1>4, <1>5, <1>6, <1>7, <1>8, <1>9, <1>10

\* ... and the timers.
LEMMA ShownTimers ==
  ASSUME ~Overlap, SerialInv, ShownInv, TmrPing \/ TmrReconnect \/ TmrContinue
  PROVE  ShownInv' /\ SessionStep
<1>0. Tmr \in Tasks
  BY DEF Tasks
<1> SUFFICES Quiet(Tmr)
  BY <1>0, Quietly DEF SerialInv
<1> USE DEF SerialInv, TypeOK, ContextType, Goto, Active, Arrives, Quiet, ShownAt,
            Announcing, calls, retry, timers, wifi, app
<1>1. /\ HandlerAt(Tmr)
      /\ Active(Tmr) => /\ StateAt(ctx, pc[Tmr]) /\ ClientAt(ctx, pc[Tmr]) /\ HandleAt(Tmr)
                      /\ ShownAt(ctx, view, pc[Tmr])
  BY <1>0, HereShown DEF SerialInv
<1>2. \A l : Enter(Tmr, l) => /\ pc[Tmr] = "idle" /\ Active(Tmr) /\ Quiescent
                              /\ pc' = [pc EXCEPT ![Tmr] = l]
  BY <1>0, EnterAlone
<1>3. CASE TmrPing
  BY <1>1, <1>0, <1>2, <1>3 DEF TmrPing
<1>4. CASE TmrReconnect
  BY <1>1, <1>0, <1>2, <1>4 DEF TmrReconnect
<1>5. CASE ReconnectLoad
  BY <1>1, <1>0, <1>2, <1>5 DEF ReconnectLoad
<1>6. CASE ReconnectBump
  BY <1>1, <1>0, <1>2, <1>6 DEF ReconnectBump
<1> QED
  BY <1>3, <1>4, <1>5, <1>6 DEF TmrContinue

\* A handshake.
LEMMA ShownHandshake ==
  ASSUME SerialInv, ShownInv, NEW t \in Tasks,
         \/ ConnectClaim(t) \/ SetConnected(t) \/ SessionUp(t) \/ Announce(t)
         \/ ConnectFail(t)
  PROVE  ShownInv' /\ SessionStep
<1> USE ConstantsAssumption
    DEF SerialInv, TypeOK, ContextType, Goto, Active, SessionInv, ConnectedIsLive, Announced,
        calls, retry, timers, wifi, app
<1>1. /\ HandlerAt(t)
      /\ Active(t) => /\ StateAt(ctx, pc[t]) /\ ClientAt(ctx, pc[t]) /\ HandleAt(t)
                      /\ ShownAt(ctx, view, pc[t])
  BY HereShown DEF SerialInv
<1>2. CASE ConnectClaim(t)
  <2>1. /\ pc[t] = "claim" /\ Arrives(t, "close")
        /\ ctx.state \in {"IDLE", "ERROR"} /\ ~ctx.ws_connected /\ view # "connected"
    BY <1>1, <1>2 DEF ConnectClaim, StateAt, ClientAt, AtRest, Arrives, ShownAt
  <2>2. /\ ShownInv'
        /\ (Due <=> pc[t] \in Announcing) /\ (Due' <=> "close" \in Announcing)
    BY <2>1, FocusShown
  <2>3. Due = FALSE /\ Due' = FALSE
    BY <2>1, <2>2 DEF Announcing, Due
  <2>4. SessionStep
    BY <1>2, <2>1, <2>3
       DEF ConnectClaim, SessionStep, Session!Next, Session!vars, Session!Show,
           Session!Told, Session!Begin
  <2> QED
    BY <2>2, <2>4
<1>3. CASE SetConnected(t)
  <2>1. /\ pc[t] = "accepted" /\ Arrives(t, "ready")
        /\ ctx.state = "CONNECTING" /\ ~ctx.ws_connected
    BY <1>1, <1>3 DEF SetConnected, StateAt, Handshaking, Arrives, ShownAt
  <2>2. /\ ShownInv'
        /\ (Due <=> pc[t] \in Announcing) /\ (Due' <=> "ready" \in Announcing)
    BY <2>1, FocusShown
  <2>3. Due = FALSE /\ Due' = FALSE
    BY <2>1, <2>2 DEF Announcing, Due
  <2>4. SessionStep
    BY <1>3, <2>1, <2>3
       DEF SetConnected, SessionStep, Session!Next, Session!vars, Session!Show,
           Session!Told, Session!Accept
  <2> QED
    BY <2>2, <2>4
<1>4. CASE SessionUp(t)
  <2>1. /\ pc[t] = "upgraded" /\ Arrives(t, "ping_start")
        /\ ctx.state = "CONNECTING" /\ ctx.ws_connected
    BY <1>1, <1>4 DEF SessionUp, StateAt, Handshaking, Arrives, ShownAt
  <2>2. /\ ShownInv'
        /\ (Due <=> pc[t] \in Announcing) /\ (Due' <=> "ping_start" \in Announcing)
    BY <2>1, FocusShown
  <2>3. Due = FALSE /\ Due' = TRUE
    BY <2>1, <2>2 DEF Announcing, Due
  <2>4. SessionStep
    BY <1>4, <2>1, <2>3
       DEF SessionUp, SessionStep, Session!Next, Session!vars, Session!Show,
           Session!Told, Session!Up
  <2> QED
    BY <2>2, <2>4
<1>5. CASE Announce(t)
  <2>1. /\ pc[t] = "announce" /\ Arrives(t, "idle")
        /\ ctx.state = "CONNECTED"
    BY <1>1, <1>5 DEF Announce, Notify, StateAt, Arrives, ShownAt
  <2>2. /\ ShownInv'
        /\ (Due <=> pc[t] \in Announcing) /\ (Due' <=> "idle" \in Announcing)
    BY <2>1, FocusShown
  <2>3. Due = TRUE /\ Due' = FALSE
    BY <2>1, <2>2 DEF Announcing, Due
  <2>4. SessionStep
    BY <1>5, <2>1, <2>3
       DEF Announce, Notify, SessionStep, Session!Next, Session!vars, Session!Show,
           Session!Told, Session!Announce, Session!Tell
  <2> QED
    BY <2>2, <2>4
<1>6. CASE ConnectFail(t)
  <2>1. /\ pc[t] = "fail" /\ Arrives(t, "idle")
        /\ ctx.state = "CONNECTING" /\ ~ctx.ws_connected
    BY <1>1, <1>6 DEF ConnectFail, StateAt, ClientAt, Handshaking, Arrives, ShownAt
  <2>2. /\ ShownInv'
        /\ (Due <=> pc[t] \in Announcing) /\ (Due' <=> "idle" \in Announcing)
    BY <2>1, FocusShown
  <2>3. Due = FALSE /\ Due' = FALSE
    BY <2>1, <2>2 DEF Announcing, Due
  <2>4. SessionStep
    BY <1>6, <2>1, <2>3
       DEF ConnectFail, SessionStep, Session!Next, Session!vars, Session!Show,
           Session!Told, Session!Fail
  <2> QED
    BY <2>2, <2>4
<1> QED
  BY <1>2, <1>3, <1>4, <1>5, <1>6

\* ws_client_register_callback, ws_client_disconnect and ws_client_deinit.
LEMMA ShownClose ==
  ASSUME ~Overlap, SerialInv, ShownInv, 
         \/ AppRegister \/ AppDisconnect \/ ClearConnected \/ DisconnectIdle
         \/ DisconnectNotify \/ DeinitEnd
  PROVE  ShownInv' /\ SessionStep
<1>0. App \in Tasks
  BY DEF Tasks
<1> USE ConstantsAssumption
    DEF SerialInv, TypeOK, ContextType, Goto, Active, SessionInv, ConnectedIsLive, Announced,
        calls, retry, timers, wifi, app
<1>1. /\ HandlerAt(App)
      /\ Active(App) => /\ StateAt(ctx, pc[App]) /\ ClientAt(ctx, pc[App]) /\ HandleAt(App)
                      /\ ShownAt(ctx, view, pc[App])
  BY <1>0, HereShown DEF SerialInv
<1>2. \A l : Enter(App, l) => /\ pc[App] = "idle" /\ Active(App)
                              /\ pc' = [pc EXCEPT ![App] = l]
  BY <1>0, EnterAlone
<1>3. CASE AppRegister
  <2>1. /\ pc[App] = "idle" /\ Arrives(App, "idle")
        /\ Enter(App, "idle")
    BY <1>1, <1>0, <1>2, <1>3 DEF AppRegister, Handle, Arrives, ShownAt
  <2>2. /\ ShownInv'
        /\ (Due <=> pc[App] \in Announcing) /\ (Due' <=> "idle" \in Announcing)
    BY <1>0, <2>1, FocusShown
  <2>3. Due = FALSE /\ Due' = FALSE
    BY <2>1, <2>2 DEF Announcing, Due
  <2>4. SessionStep
    BY <1>3, <2>1, <2>3
       DEF AppRegister, Handle, SessionStep, Session!Next, Session!vars, Session!Show,
           Session!Told, Session!Register
  <2> QED
    BY <2>2, <2>4
<1>4. CASE AppDisconnect
  <2>1. /\ pc[App] = "idle" /\ Arrives(App, "disc_ping")
        /\ ctx.state \in {"CONNECTED", "ERROR"}
    BY <1>1, <1>0, <1>2, <1>4 DEF AppDisconnect, StateAt, AtRest, Arrives, ShownAt
  <2>2. /\ ShownInv'
        /\ (Due <=> pc[App] \in Announcing) /\ (Due' <=> "disc_ping" \in Announcing)
    BY <1>0, <2>1, FocusShown
  <2>3. Due = FALSE /\ Due' = FALSE
    BY <2>1, <2>2 DEF Announcing, Due
  <2>4. SessionStep
    BY <1>4, <2>1, <2>3
       DEF AppDisconnect, SessionStep, Session!Next, Session!vars, Session!Show,
           Session!Told, Session!Disconnect
  <2> QED
    BY <2>2, <2>4
<1>5. CASE ClearConnected
  <2>1. /\ pc[App] = "disc_flag" /\ Arrives(App, "disc_shake")
        /\ ctx.state = "DISCONNECTING"
    BY <1>1, <1>0, <1>5 DEF ClearConnected, StateAt, Disconnecting, Arrives, ShownAt
  <2>2. /\ ShownInv'
        /\ (Due <=> pc[App] \in Announcing) /\ (Due' <=> "disc_shake" \in Announcing)
    BY <1>0, <2>1, FocusShown
  <2>3. Due = FALSE /\ Due' = FALSE
    BY <2>1, <2>2 DEF Announcing, Due
  <2>4. SessionStep
    BY <1>5, <2>1, <2>3
       DEF ClearConnected, SessionStep, Session!Next, Session!vars, Session!Show,
           Session!Told, Session!Close
  <2> QED
    BY <2>2, <2>4
<1>6. CASE DisconnectIdle
  <2>1. /\ pc[App] = "disc_idle" /\ Arrives(App, "disc_notify")
        /\ ctx.state = "DISCONNECTING" /\ ~ctx.ws_connected
    BY <1>1, <1>0, <1>6
       DEF DisconnectIdle, StateAt, ClientAt, Disconnecting, Arrives, ShownAt
  <2>2. /\ ShownInv'
        /\ (Due <=> pc[App] \in Announcing) /\ (Due' <=> "disc_notify" \in Announcing)
    BY <1>0, <2>1, FocusShown
  <2>3. Due = FALSE /\ Due' = FALSE
    BY <2>1, <2>2 DEF Announcing, Due
  <2>4. SessionStep
    BY <1>6, <2>1, <2>3
       DEF DisconnectIdle, SessionStep, Session!Next, Session!vars, Session!Show,
           Session!Told, Session!Closed
  <2> QED
    BY <2>2, <2>4
<1>7. CASE DisconnectNotify
  <2>1. /\ pc[App] = "disc_notify" /\ Arrives(App, "idle")
        /\ ctx.state = "IDLE" /\ (~ctx.callback => view = "none")
    BY <1>1, <1>0, <1>7 DEF DisconnectNotify, Notify, StateAt, Arrives, ShownAt
  <2>2. /\ ShownInv'
        /\ (Due <=> pc[App] \in Announcing) /\ (Due' <=> "idle" \in Announcing)
    BY <1>0, <2>1, FocusShown
  <2>3. Due = FALSE /\ Due' = FALSE
    BY <2>1, <2>2 DEF Announcing, Due
  <2>4. SessionStep
    BY <1>7, <2>1, <2>3
       DEF DisconnectNotify, Notify, SessionStep, Session!Next, Session!vars,
           Session!Show, Session!Told, Session!TellClosed, Session!Tell
  <2> QED
    BY <2>2, <2>4
<1>8. CASE DeinitEnd
  <2>1. /\ pc[App] = "deinit_end" /\ Arrives(App, "idle")
        /\ ctx.state \in {"IDLE", "CONNECTED", "ERROR"} /\ ~ctx.ws_connected
    BY <1>1, <1>0, <1>8 DEF DeinitEnd, ZeroCtx, ClientAt, Arrives, ShownAt
  <2>2. /\ ShownInv'
        /\ (Due <=> pc[App] \in Announcing) /\ (Due' <=> "idle" \in Announcing)
    BY <1>0, <2>1, FocusShown
  <2>3. Due = FALSE /\ Due' = FALSE
    BY <2>1, <2>2 DEF Announcing, Due
  <2>4. SessionStep
    BY <1>8, <2>1, <2>3
       DEF DeinitEnd, ZeroCtx, SessionStep, Session!Next, Session!vars, Session!Show,
           Session!Told, Session!Deinit
  <2> QED
    BY <2>2, <2>4
<1> QED
  BY <1>3, <1>4, <1>5, <1>6, <1>7, <1>8

\* A session is lost: with its transport, with WiFi, or by a CLOSE frame.
LEMMA ShownLost ==
  ASSUME SerialInv, ShownInv, NEW t \in Tasks,
         OnHttpDisconnected(t) \/ LostConnected \/ PeerClosed \/ PeerTell
  PROVE  ShownInv' /\ SessionStep
<1> USE ConstantsAssumption
    DEF SerialInv, TypeOK, ContextType, Goto, Active, SessionInv, ConnectedIsLive, Announced,
        calls, retry, timers, wifi, app
<1>0. Evt \in Tasks /\ Net \in Tasks /\ HandlerAt(t)
  BY HereShown DEF Tasks
<1>1. \A u \in Tasks : Active(u) => /\ StateAt(ctx, pc[u]) /\ ClientAt(ctx, pc[u])
                                    /\ ShownAt(ctx, view, pc[u])
  BY HereShown
<1>2. CASE OnHttpDisconnected(t)
  <2>1. /\ Active(t) /\ pc[t] \in DOMAIN AfterClose \cup {"peer_gone"}
        /\ pc' = [pc EXCEPT ![t] = pc[t]]
        /\ ctx' = [ctx EXCEPT !.ws_connected = FALSE] /\ view' = view
    BY <1>0, <1>2 DEF OnHttpDisconnected, HandlerAt, AfterClose
  <2>2. Arrives(t, pc[t])
    BY <1>1, <2>1 DEF Arrives, ShownAt, AfterClose
  <2>3. ShownInv' /\ Due = FALSE /\ Due' = FALSE
    <3>1. /\ ShownInv'
          /\ (Due <=> pc[t] \in Announcing) /\ (Due' <=> pc[t] \in Announcing)
      BY <2>2, FocusShown
    <3> QED
      BY <2>1, <3>1 DEF AfterClose, Announcing, Due
  <2>4. ctx.ws_connected => ctx.state = "CONNECTED"
    BY <1>1, <2>1 DEF StateAt, ClientAt, ShownAt, AfterClose
  <2>5. SessionStep
    BY <2>1, <2>3, <2>4 DEF SessionStep, Session!Next, Session!vars, Session!Lose
  <2> QED
    BY <2>3, <2>5
<1>3. CASE LostConnected
  <2>1. /\ pc[Evt] = "lost_ws" /\ Arrives(Evt, "lost_ping")
        /\ ctx.ws_connected => ctx.state = "CONNECTED"
    BY <1>1, <1>0, <1>3 DEF LostConnected, StateAt, AtRest, Arrives, ShownAt
  <2>2. /\ ShownInv'
        /\ (Due <=> pc[Evt] \in Announcing) /\ (Due' <=> "lost_ping" \in Announcing)
    BY <1>0, <2>1, FocusShown
  <2>3. Due = FALSE /\ Due' = FALSE
    BY <2>1, <2>2 DEF Announcing, Due
  <2>4. SessionStep
    BY <1>3, <2>1, <2>3
       DEF LostConnected, SessionStep, Session!Next, Session!vars, Session!Show,
           Session!Told, Session!Lose
  <2> QED
    BY <2>2, <2>4
<1>4. CASE PeerClosed
  <2>1. /\ pc[Net] = "peer_close" /\ Arrives(Net, "peer_tell")
        /\ ctx.state = "CONNECTED"
    BY <1>1, <1>0, <1>4 DEF PeerClosed, StateAt, Arrives, ShownAt
  <2>2. /\ ShownInv'
        /\ (Due <=> pc[Net] \in Announcing) /\ (Due' <=> "peer_tell" \in Announcing)
    BY <1>0, <2>1, FocusShown
  <2>3. Due = FALSE /\ Due' = FALSE
    BY <2>1, <2>2 DEF Announcing, Due
  <2>4. SessionStep
    BY <1>4, <2>1, <2>3
       DEF PeerClosed, SessionStep, Session!Next, Session!vars, Session!Show,
           Session!Told, Session!Lose
  <2> QED
    BY <2>2, <2>4
<1>5. CASE PeerTell
  <2>1. /\ pc[Net] = "peer_tell" /\ Arrives(Net, "idle")
        /\ ctx.state = "CONNECTED" /\ ~ctx.ws_connected
    BY <1>1, <1>0, <1>5 DEF PeerTell, Notify, StateAt, ClientAt, Arrives, ShownAt
  <2>2. /\ ShownInv'
        /\ (Due <=> pc[Net] \in Announcing) /\ (Due' <=> "idle" \in Announcing)
    BY <1>0, <2>1, FocusShown
  <2>3. Due = FALSE /\ Due' = FALSE
    BY <2>1, <2>2 DEF Announcing, Due
  <2>4. SessionStep
    BY <1>5, <2>1, <2>3
       DEF PeerTell, Notify, SessionStep, Session!Next, Session!vars, Session!Show,
           Session!Told, Session!Lose, Session!Tell
  <2> QED
    BY <2>2, <2>4
<1> QED
  BY <1>2, <1>3, <1>4, <1>5

\* Nothing that an application is shown changes, and no task moves.
LEMMA ShownUnchanged ==
  ASSUME ShownInv, UNCHANGED <<ctx, pc, view>>
  PROVE  ShownInv' /\ SessionStep
  BY DEF ShownInv, Active, Quiescent, SessionStep, Session!vars, Due

\* The environment, between two calls.
LEMMA ShownEnvironment ==
  ASSUME ~Overlap, SerialInv, ShownInv, Environment
  PROVE  ShownInv' /\ SessionStep
<1>1. CASE WifiAssociates \/ WifiRejected \/ WifiLost \/ PeerDies
  BY <1>1, ShownUnchanged
     DEF WifiAssociates, WifiRejected, WifiLost, LinkStep, PeerDies, app
<1>2. CASE \E h \in Handles : PeerCloses(h) \/ PeerDisconnects(h)
  <2>0. Net \in Tasks
    BY DEF Tasks
  <2>1. /\ UNCHANGED <<ctx, view>>
        /\ \E l \in {"peer_close", "peer_gone"} : Enter(Net, l)
    BY <1>2 DEF PeerCloses, PeerDisconnects, ReportDisconnected, app
  <2>2. PICK l \in {"peer_close", "peer_gone"} :
          pc[Net] = "idle" /\ Active(Net) /\ pc' = [pc EXCEPT ![Net] = l]
    BY <2>0, <2>1, EnterAlone
  <2>3. Quiet(Net)
    BY <2>0, <2>1, <2>2
       DEF SerialInv, ShownInv, TypeOK, Quiet, Arrives, ShownAt, Announcing
  <2> QED
    BY <2>0, <2>3, Quietly DEF SerialInv
<1> QED
  BY <1>1, <1>2 DEF Environment

\* The initial states, and each step.
LEMMA SessionStarts == Init => ShownInv /\ Session!Init
  BY DEF Init, ZeroCtx, ShownInv, ShownAt, Session!Init, Due

LEMMA SessionImplements ==
  ASSUME ~Overlap
  PROVE  SerialInv /\ ShownInv /\ [Next]_vars => ShownInv' /\ SessionStep
<1> SUFFICES ASSUME SerialInv, ShownInv, [Next]_vars PROVE ShownInv' /\ SessionStep
  OBVIOUS
<1>1. CASE UNCHANGED vars
  BY <1>1, ShownUnchanged DEF vars, app
<1>2. CASE \E t \in Tasks : Continue(t)
  BY <1>2, ShownQuiet, ShownGivingUp, ShownHandshake, ShownLost DEF Continue
<1>3. CASE AppStep
  BY <1>3, ShownCalls, ShownClose DEF AppStep
<1>4. CASE AppContinue
  BY <1>4, ShownCalls, ShownLeaving, ShownClose DEF AppContinue
<1>5. CASE EvtStep \/ EvtContinue \/ NetContinue
  BY <1>5, ShownWifi, ShownLost DEF EvtStep, EvtContinue, NetContinue, Tasks
<1>6. CASE TmrPing \/ TmrReconnect \/ TmrContinue \/ Environment
  BY <1>6, ShownTimers, ShownEnvironment
<1> QED
  BY <1>1, <1>2, <1>3, <1>4, <1>5, <1>6 DEF Next

\* The client, seen through its header, is a sequence of sessions, whatever
\* fails: each begins with a handshake, is announced, and once lost, by a CLOSE,
\* an error, WiFi or a call, is over before the application hears of the next.
THEOREM ClientImplementsSession ==
  ASSUME ~Overlap PROVE Spec => FollowsSession
<1>1. SerialInv /\ ShownInv /\ [Next]_vars => ShownInv' /\ [Session!Next]_(Session!vars)
  BY SessionImplements DEF SessionStep
<1>2. Init => ShownInv /\ Session!Init
  BY SessionStarts
<1> QED
  BY <1>1, <1>2, SerialInvariant, PTL DEF Spec, FollowsSession, Session!Spec

=============================================================================
