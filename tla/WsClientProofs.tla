--------------------------- MODULE WsClientProofs ---------------------------
(***************************************************************************)
(* Theorems about WsClient, for every value of its constants.              *)
(***************************************************************************)
EXTENDS WsClient, SequenceTheorems, TLAPS

-----------------------------------------------------------------------------
(* The inductive invariants.                                               *)

\* Behind ReconnectCountBounded.  The count is reset before the timer is
\* armed, so what can still be added to it is one pending expiry and one
\* expiry that is being handled; while the event task is re-arming the timer,
\* WiFi is down and an expiry adds nothing; and an increment that has read the
\* count brings back at most what it read, at the price of one lost reset.
Pending == reconnect = "armed" \/ pc[Evt] = "arm"

Rearming == {"lost_ws", "lost_ping", "lost", "rearm", "arm"}

BackoffInv ==
  /\ ctx.reconnect_count <= 2 + lost
  /\ Pending \/ pc[Tmr] = "bump" => ctx.reconnect_count <= 1 + lost
  /\ Pending /\ pc[Tmr] = "bump" => ctx.reconnect_count <= lost
  /\ pc[Tmr] = "bump_store" => loaded <= 1 + lost
  /\ Pending /\ pc[Tmr] = "bump_store" /\ loaded = ctx.reconnect_count
       => ctx.reconnect_count <= lost
  /\ pc[Evt] \in Rearming => ~ctx.wifi_connected

\* What an application that leaves the client alone does.
HandsOff == ConnectOnce /\ "disconnect" \notin AppCalls /\ "deinit" \notin AppCalls

\* Before its only call of ws_client_connect has brought WiFi up, nothing in
\* the system moves.
Untouched ==
  /\ drv = "absent" /\ link = "down" /\ events = <<>> /\ ~wifi_initialized
  /\ ctx.state = "IDLE" /\ ctx.client = NoHandle
  /\ ~ctx.wifi_connected /\ ~ctx.ws_connected
  /\ reconnect # "armed"
  /\ pc[Evt] = "idle" /\ pc[Tmr] = "idle" /\ pc[Net] = "idle"

\* Where each task can be: only the event task runs a handshake, because the
\* timer task finds the state CONNECTED whenever the reconnect timer fires.
AppPlaces == {"idle", "init", "init_timers", "connect", "no_wifi", "sending", "write"}
EvtPlaces == {"idle", "got_ip", "connect", "check", "claim", "ping_start", "announce"}
             \cup Rearming \cup (Handshaking \ {"cleanup", "forget"})

TasksApart ==
  /\ pc[App] \in AppPlaces
  /\ pc[Evt] \in EvtPlaces
  /\ pc[Tmr] \in {"idle", "sending", "write"}
  /\ pc[Net] \in {"idle", "peer_close", "peer_tell", "peer_gone"}
  /\ handler[App] = "none" /\ handler[Tmr] = "none"
  /\ handler[Evt] # "none" => pc[Evt] = "fail_close" /\ hnd[Evt] = ctx.client
  /\ handler[Net] # "none" <=> pc[Net] = "peer_gone"
  /\ pc[App] \in {"init", "init_timers", "connect", "no_wifi"} \/ ~started => Untouched
  /\ pc[App] \in {"init", "init_timers"} => ~up
  /\ pc[App] \in {"connect", "no_wifi"} => started
  /\ ~up => ~started
  /\ reconnect = "armed" \/ pc[Evt] \in {"rearm", "arm"} => ctx.state = "CONNECTED"

\* Where the event task is while ws_connected may be set and the state is not
\* yet CONNECTED, and while s_ctx.client names a client in a handshake.
Accepting == {"ready", "upgraded"}
Opening == {"open", "opening", "status", "accepted", "ready", "upgraded",
            "fail_close", "fail_cleanup", "fail_forget"}

\* How the state, the HTTP client and the program point go together.
SessionMatches ==
  /\ ctx.state # "DISCONNECTING"
  /\ ctx.state = "CONNECTING" <=> pc[Evt] \in Handshaking
  /\ pc[Evt] \in {"got_ip", "connect", "check", "claim"} => ctx.wifi_connected
  /\ pc[Evt] \in {"connect", "check", "claim"} => ctx.state = "IDLE"
  /\ pc[Evt] \in {"ping_start", "announce"} => ctx.state = "CONNECTED"
  /\ ctx.client # NoHandle <=> ctx.state = "CONNECTED" \/ pc[Evt] \in Opening
  /\ ctx.ws_connected => ctx.state = "CONNECTED" \/ pc[Evt] \in Accepting

\* The blocks in use, and who is using them.
HandlesMatch ==
  /\ \A h \in Handles : http[h] # "free" <=> h = ctx.client /\ pc[Evt] # "fail_forget"
  /\ \A t \in Tasks : pc[t] \in {"opening", "write"} => hnd[t] = ctx.client
  /\ \A t \in Tasks : pc[t] \in {"sending", "write"} =>
                        ctx.state = "CONNECTED" \/ pc[Evt] \in Accepting

HandsOffInv == TypeOK /\ TasksApart /\ SessionMatches /\ HandlesMatch

-----------------------------------------------------------------------------
(* Type correctness.                                                       *)

\* The jumps of the close and clean-up steps stay inside the labels.
LEMMA JumpsAreLabels ==
  /\ DOMAIN AfterClose \subseteq Labels
  /\ \A l \in DOMAIN AfterClose : AfterClose[l] \in DOMAIN AfterCleanup
  /\ \A l \in DOMAIN AfterCleanup : AfterCleanup[l] \in DOMAIN AfterForget
  /\ \A l \in DOMAIN AfterForget :
       AfterForget[l] \in {"create", "fail", "disc_idle", "deinit_end"}
  /\ DOMAIN AfterCleanup \cup DOMAIN AfterForget
     \cup {"create", "fail", "disc_idle", "deinit_end"} \subseteq Labels
  BY DEF AfterClose, AfterCleanup, AfterForget, Labels

\* memset leaves a context of the right type.
LEMMA ZeroCtxType == ZeroCtx \in ContextType
  BY DEF ZeroCtx, ContextType, WsStates

\* Every variable starts in its type.
LEMMA TypeInit == Init => TypeOK
<1> SUFFICES ASSUME Init PROVE TypeOK
  OBVIOUS
<1>1. ctx \in ContextType
  BY ZeroCtxType DEF Init
<1>2. pc \in [Tasks -> Labels]
  BY DEF Init, Labels
<1>3. events \in Seq({"STA_START", "STA_DISCONNECTED", "GOT_IP"})
  BY DEF Init
<1> QED
  BY <1>1, <1>2, <1>3 DEF Init, TypeOK, HandlerPoints

\* Posting keeps the queue a queue of events.
LEMMA PostType ==
  ASSUME events \in Seq({"STA_START", "STA_DISCONNECTED", "GOT_IP"}),
         NEW e \in {"STA_START", "STA_DISCONNECTED", "GOT_IP"}
  PROVE  Append(events, e) \in Seq({"STA_START", "STA_DISCONNECTED", "GOT_IP"})
  BY AppendProperties

\* A step that only jumps and writes s_ctx.
LEMMA OnlyContext ==
  ASSUME TypeOK, pc' \in [Tasks -> Labels], ctx' \in ContextType,
         UNCHANGED <<calls, http, timers, wifi, app, peer>>
  PROVE  TypeOK'
  BY DEF TypeOK, calls, retry, timers, wifi, app

\* A task that jumps to a label is at one.
LEMMA JumpType ==
  ASSUME TypeOK, NEW t \in Tasks, NEW l \in Labels, pc' = [pc EXCEPT ![t] = l]
  PROVE  pc' \in [Tasks -> Labels]
  BY DEF TypeOK

\* The steps of ws_client_connect and of the calls into the HTTP client keep
\* every variable in its type.
LEMMA TypeContinue ==
  ASSUME TypeOK, NEW t \in Tasks, Continue(t)
  PROVE  TypeOK'
<1> USE ConstantsAssumption
    DEF TypeOK, ContextType, WsStates, HandlerPoints, calls, retry, timers, wifi, app
<1>1. CASE ConnectNoWifi(t) \/ ConnectWifiUp(t) \/ ConnectChecked(t) \/ ConnectClaim(t)
  <2>1. pc' \in [Tasks -> Labels]
    BY <1>1 DEF ConnectNoWifi, ConnectWifiUp, ConnectChecked, ConnectClaim, Goto, Labels,
                AfterClose
  <2>2. ctx' \in ContextType
    BY <1>1 DEF ConnectNoWifi, ConnectWifiUp, ConnectChecked, ConnectClaim
  <2> QED
    BY <1>1, <2>1, <2>2, OnlyContext
       DEF ConnectNoWifi, ConnectWifiUp, ConnectChecked, ConnectClaim
<1>2. CASE BringUpWifi(t)
  <2>1. pc' \in [Tasks -> Labels]
    BY <1>2 DEF BringUpWifi, Goto, Labels
  <2>2. InitWifi \/ UNCHANGED wifi
    BY <1>2 DEF BringUpWifi
  <2>3. /\ wifi_initialized' \in BOOLEAN
        /\ drv' \in {"absent", "inited", "started"}
        /\ link' = link
    BY <2>2 DEF InitWifi
  <2>4. events' = events \/ events' = Append(events, "STA_START")
    BY <2>2 DEF InitWifi
  <2>5. events' \in Seq({"STA_START", "STA_DISCONNECTED", "GOT_IP"})
    BY <2>4, PostType
  <2> QED
    BY <1>2, <2>1, <2>3, <2>5 DEF BringUpWifi
<1>3. CASE HttpCreate(t)
  BY <1>3 DEF HttpCreate, Goto, Labels
<1>4. CASE OpenCall(t) \/ OpenSucceeds(t) \/ OpenFails(t)
  <2>1. pc' \in [Tasks -> Labels]
    BY <1>4 DEF OpenCall, OpenSucceeds, OpenFails, Goto, Labels, AfterClose
  <2>2. hnd' \in [Tasks -> Handles \cup {NoHandle}]
    BY <1>4 DEF OpenCall, OpenSucceeds, OpenFails, Hold, Release
  <2>3. http' \in [Handles -> {"free", "created", "open"}]
    BY <1>4 DEF OpenCall, OpenSucceeds, OpenFails
  <2> QED
    BY <1>4, <2>1, <2>2, <2>3 DEF OpenCall, OpenSucceeds, OpenFails, Hold, Release
<1>5. CASE HandshakeDone(t) \/ SetConnected(t) \/ ResetCount(t)
  <2>1. pc' \in [Tasks -> Labels]
    BY <1>5 DEF HandshakeDone, SetConnected, ResetCount, Goto, Labels
  <2>2. ctx' \in ContextType
    <3>1. CASE HandshakeDone(t)
      BY <3>1 DEF HandshakeDone
    <3>2. CASE SetConnected(t)
      BY <3>2 DEF SetConnected
    <3>3. CASE ResetCount(t)
      BY <3>3 DEF ResetCount
    <3> QED
      BY <1>5, <3>1, <3>2, <3>3
  <2> QED
    BY <1>5, <2>1, <2>2, OnlyContext DEF HandshakeDone, SetConnected, ResetCount
<1>6. CASE SessionUp(t) \/ StartPings(t) \/ Announce(t)
  <2>1. pc' \in [Tasks -> Labels]
    BY <1>6 DEF SessionUp, StartPings, Announce, Goto, Labels
  <2>2. CASE SessionUp(t)
    BY <2>1, <2>2, OnlyContext DEF SessionUp
  <2>3. CASE StartPings(t)
    BY <2>1, <2>3 DEF StartPings, StartTimer
  <2>4. CASE Announce(t)
    BY <2>1, <2>4 DEF Announce, Notify
  <2> QED
    BY <1>6, <2>2, <2>3, <2>4
<1>7. CASE HandshakeRefused(t) \/ ConnectFail(t)
  <2>0. "fail_close" \in Labels /\ "idle" \in Labels
    BY DEF Labels, AfterClose
  <2>1. pc' \in [Tasks -> Labels]
    BY <1>7, <2>0, JumpType DEF HandshakeRefused, ConnectFail, Goto
  <2>2. CASE HandshakeRefused(t)
    BY <2>1, <2>2 DEF HandshakeRefused
  <2>3. CASE ConnectFail(t)
    BY <2>1, <2>3, OnlyContext DEF ConnectFail
  <2> QED
    BY <1>7, <2>2, <2>3
<1>8. CASE NothingToClose(t)
  <2>1. PICK l \in DOMAIN AfterClose :
          pc' = [pc EXCEPT ![t] = AfterForget[AfterCleanup[AfterClose[l]]]]
    BY <1>8 DEF NothingToClose, Goto
  <2>2. pc' \in [Tasks -> Labels]
    BY <2>1, JumpsAreLabels
  <2> QED
    BY <1>8, <2>2 DEF NothingToClose
<1>9. CASE HttpClose(t)
  <2>1. pc' = pc \/ pc' = [pc EXCEPT ![t] = AfterClose[pc[t]]]
    BY <1>9 DEF HttpClose
  <2>2. pc' \in [Tasks -> Labels]
    BY <1>9, <2>1, JumpsAreLabels DEF HttpClose
  <2> QED
    BY <1>9, <2>2 DEF HttpClose, ReportDisconnected
<1>10. CASE HttpCleanup(t)
  <2>1. PICK l \in DOMAIN AfterCleanup : pc' = [pc EXCEPT ![t] = AfterCleanup[l]]
    BY <1>10 DEF HttpCleanup, Goto
  <2>2. pc' \in [Tasks -> Labels]
    BY <2>1, JumpsAreLabels
  <2> QED
    BY <1>10, <2>2 DEF HttpCleanup
<1>11. CASE HttpForget(t)
  <2>1. PICK l \in DOMAIN AfterForget : pc' = [pc EXCEPT ![t] = AfterForget[l]]
    BY <1>11 DEF HttpForget, Goto
  <2>2. pc' \in [Tasks -> Labels]
    BY <2>1, JumpsAreLabels
  <2> QED
    BY <1>11, <2>2 DEF HttpForget
<1>12. CASE BeginWrite(t) \/ EndWrite(t)
  BY <1>12 DEF BeginWrite, EndWrite, Hold, Release, Goto, Labels
<1>13. CASE OnHttpDisconnected(t) \/ ForgetHandshake(t)
  <2>1. ctx' \in ContextType
    BY <1>13 DEF OnHttpDisconnected, ForgetHandshake
  <2>2. handler' \in [Tasks -> HandlerPoints]
    BY <1>13 DEF OnHttpDisconnected, ForgetHandshake
  <2> QED
    BY <1>13, <2>1, <2>2 DEF OnHttpDisconnected, ForgetHandshake
<1>14. CASE HandlerReturns(t)
  <2>1. pc' \in [Tasks -> Labels]
    <3>1. CASE Goto(t, "peer_gone", "idle")
      BY <3>1, JumpType DEF Goto, Labels
    <3>2. ASSUME NEW l \in DOMAIN AfterClose, Goto(t, l, AfterClose[l])
          PROVE  pc' \in [Tasks -> Labels]
      BY <3>2, JumpsAreLabels, JumpType DEF Goto
    <3> QED
      BY <1>14, <3>1, <3>2 DEF HandlerReturns
  <2>2. http' \in [Handles -> {"free", "created", "open"}]
    BY <1>14 DEF HandlerReturns
  <2>3. ping' \in {"null", "stopped", "armed"}
    BY <1>14 DEF HandlerReturns, StopTimer
  <2>4. hnd' \in [Tasks -> Handles \cup {NoHandle}] /\ handler' \in [Tasks -> HandlerPoints]
    BY <1>14 DEF HandlerReturns
  <2> QED
    BY <1>14, <2>1, <2>2, <2>3, <2>4 DEF HandlerReturns
<1> QED
  BY <1>1, <1>2, <1>3, <1>4, <1>5, <1>6, <1>7, <1>8, <1>9, <1>10, <1>11, <1>12,
     <1>13, <1>14
     DEF Continue

\* The API calls of the application keep every variable in its type.
LEMMA TypeApp ==
  ASSUME TypeOK, AppStep \/ AppContinue
  PROVE  TypeOK'
<1> USE ConstantsAssumption
    DEF TypeOK, ContextType, WsStates, HandlerPoints, calls, retry, timers, wifi, app
<1> App \in Tasks
  BY DEF Tasks
<1>1. CASE AppInit
  <2>1. pc' \in [Tasks -> Labels]
    BY <1>1 DEF AppInit, Handle, Enter, Labels
  <2>2. UNCHANGED <<ctx, calls, http, timers, wifi, view, started, peer>> /\ up' \in BOOLEAN
    BY <1>1 DEF AppInit
  <2> QED
    BY <2>1, <2>2
<1>2. CASE InitContext
  BY <1>2, ZeroCtxType DEF InitContext, Goto, Labels
<1>3. CASE InitTimers
  <2>1. /\ ping' \in {"null", "stopped", "armed"}
        /\ reconnect' \in {"null", "stopped", "armed"}
    BY <1>3 DEF InitTimers, CreateTimers
  <2> QED
    BY <1>3, <2>1 DEF InitTimers, Goto, Labels
<1>4. CASE AppSetUrl \/ AppRegister
  <2>1. pc' \in [Tasks -> Labels]
    BY <1>4 DEF AppSetUrl, AppRegister, Handle, Enter, Labels
  <2>2. ctx' = [ctx EXCEPT !.url = TRUE] \/ ctx' = [ctx EXCEPT !.callback = TRUE]
    BY <1>4 DEF AppSetUrl, AppRegister
  <2>3. ctx' \in ContextType
    BY <2>2
  <2> QED
    BY <1>4, <2>1, <2>3 DEF AppSetUrl, AppRegister
<1>5. CASE AppConnect \/ AppSend
  <2>1. pc' \in [Tasks -> Labels]
    BY <1>5 DEF AppConnect, AppSend, Enter, Labels
  <2>2. UNCHANGED <<ctx, calls, http, timers, wifi, view, up, peer>> /\ started' \in BOOLEAN
    BY <1>5 DEF AppConnect, AppSend
  <2> QED
    BY <2>1, <2>2
<1>6. CASE AppDisconnect \/ AppDeinit
  <2>1. pc' \in [Tasks -> Labels]
    BY <1>6 DEF AppDisconnect, AppDeinit, Enter, Labels, AfterClose
  <2>2. ctx' \in ContextType
    BY <1>6 DEF AppDisconnect, AppDeinit
  <2> QED
    BY <1>6, <2>1, <2>2 DEF AppDisconnect, AppDeinit
<1>7. CASE DisconnectStopPing \/ DisconnectStopReconnect
  BY <1>7 DEF DisconnectStopPing, DisconnectStopReconnect, StopTimer, Goto, Labels
<1>8. CASE DisconnectFrame \/ ClearConnected \/ ClearHandshake
  <2>1. pc' \in [Tasks -> Labels]
    BY <1>8 DEF DisconnectFrame, ClearConnected, ClearHandshake, Goto, Labels,
                AfterClose
  <2>2. ctx' \in ContextType
    BY <1>8 DEF DisconnectFrame, ClearConnected, ClearHandshake
  <2> QED
    BY <1>8, <2>1, <2>2, OnlyContext DEF DisconnectFrame, ClearConnected, ClearHandshake
<1>9. CASE DisconnectIdle \/ DisconnectNotify
  BY <1>9 DEF DisconnectIdle, DisconnectNotify, Notify, Goto, Labels
<1>10. CASE DeinitEnd
  <2>1. pc' \in [Tasks -> Labels]
    BY <1>10 DEF DeinitEnd, Goto, Labels
  <2>2. events' = events \/ events' = Append(events, "STA_DISCONNECTED")
    BY <1>10 DEF DeinitEnd
  <2>3. events' \in Seq({"STA_START", "STA_DISCONNECTED", "GOT_IP"})
    BY <2>2, PostType
  <2>4. drv' \in {"absent", "inited", "started"} /\ link' \in {"down", "trying", "up"}
    BY <1>10 DEF DeinitEnd
  <2>5. ctx' \in ContextType
    BY <1>10, ZeroCtxType DEF DeinitEnd
  <2>6. /\ view' = "none" /\ up' = FALSE /\ started' = FALSE
        /\ UNCHANGED <<calls, http, timers, wifi_initialized, peer>>
    BY <1>10 DEF DeinitEnd
  <2> QED
    BY <2>1, <2>3, <2>4, <2>5, <2>6
<1> QED
  BY <1>1, <1>2, <1>3, <1>4, <1>5, <1>6, <1>7, <1>8, <1>9, <1>10
     DEF AppStep, AppContinue

\* So do the event handler, the timer callbacks and the environment.
LEMMA TypeOthers ==
  ASSUME TypeOK,
         EvtStep \/ EvtContinue \/ TmrPing \/ TmrReconnect \/ TmrContinue
         \/ NetContinue \/ Environment
  PROVE  TypeOK'
<1> USE ConstantsAssumption
    DEF TypeOK, ContextType, WsStates, HandlerPoints, calls, retry, timers, wifi, app
<1> Evt \in Tasks /\ Tmr \in Tasks /\ Net \in Tasks
  BY DEF Tasks
<1>1. CASE EvtStep
  <2>1. events' \in Seq({"STA_START", "STA_DISCONNECTED", "GOT_IP"})
    <3>1. events # <<>> /\ events' = Tail(events)
      BY <1>1 DEF EvtStep, OnStaStart, OnStaDisconnected, OnGotIp, Receive
    <3> QED
      BY <3>1, HeadTailProperties
  <2>2. ctx' \in ContextType
    BY <1>1 DEF EvtStep, OnStaStart, OnStaDisconnected, OnGotIp
  <2>3. pc' \in [Tasks -> Labels]
    BY <1>1 DEF EvtStep, OnStaStart, OnStaDisconnected, OnGotIp, Handle, Enter, Labels
  <2>4. link' \in {"down", "trying", "up"}
    BY <1>1 DEF EvtStep, OnStaStart, OnStaDisconnected, OnGotIp, WifiConnect
  <2> QED
    BY <1>1, <2>1, <2>2, <2>3, <2>4
       DEF EvtStep, OnStaStart, OnStaDisconnected, OnGotIp
<1>2. CASE LostConnected \/ LostStopPing \/ LostSession
  <2>1. pc' \in [Tasks -> Labels]
    BY <1>2 DEF LostConnected, LostStopPing, LostSession, Goto, Labels
  <2>2. ctx' \in ContextType
    BY <1>2 DEF LostConnected, LostStopPing, LostSession
  <2>3. ping' \in {"null", "stopped", "armed"}
    BY <1>2 DEF LostConnected, LostStopPing, LostSession, StopTimer
  <2> QED
    BY <1>2, <2>1, <2>2, <2>3 DEF LostConnected, LostStopPing, LostSession
<1>3. CASE Rearm \/ ArmReconnect \/ GotIpConnects
  BY <1>3 DEF Rearm, ArmReconnect, GotIpConnects, WifiConnect, StartTimer, Goto, Labels
<1>4. CASE TmrPing \/ TmrReconnect
  BY <1>4 DEF TmrPing, TmrReconnect, Enter, Labels
<1>5. CASE TmrContinue
  BY <1>5 DEF TmrContinue, ReconnectLoad, ReconnectBump, Goto, Labels
<1>6. CASE NetContinue
  <2>1. pc' \in [Tasks -> Labels]
    BY <1>6 DEF NetContinue, PeerClosed, PeerTell, Goto, Labels
  <2>2. ctx' \in ContextType
    BY <1>6 DEF NetContinue, PeerClosed, PeerTell
  <2>3. view' \in {"none", "connected", "disconnected"}
    BY <1>6 DEF NetContinue, PeerClosed, PeerTell, Notify
  <2> QED
    BY <1>6, <2>1, <2>2, <2>3 DEF NetContinue, PeerClosed, PeerTell
<1>7. CASE WifiAssociates \/ WifiRejected \/ WifiLost
  <2>1. \/ LinkStep("trying", "up", "GOT_IP")
        \/ LinkStep("trying", "down", "STA_DISCONNECTED")
        \/ LinkStep("up", "down", "STA_DISCONNECTED")
    BY <1>7 DEF WifiAssociates, WifiRejected, WifiLost
  <2>2. \/ events' = Append(events, "GOT_IP")
        \/ events' = Append(events, "STA_DISCONNECTED")
    BY <2>1 DEF LinkStep
  <2>3. events' \in Seq({"STA_START", "STA_DISCONNECTED", "GOT_IP"})
    BY <2>2, PostType
  <2> QED
    BY <2>1, <2>3 DEF LinkStep
<1>8. CASE PeerDies
  BY <1>8 DEF PeerDies
<1>9. CASE \E h \in Handles : PeerCloses(h) \/ PeerDisconnects(h)
  BY <1>9 DEF PeerCloses, PeerDisconnects, ReportDisconnected, Enter, Labels
<1> QED
  BY <1>1, <1>2, <1>3, <1>4, <1>5, <1>6, <1>7, <1>8, <1>9
     DEF EvtContinue, Environment

\* A stuttering step leaves every variable in its type.
LEMMA TypeStutter ==
  ASSUME TypeOK, UNCHANGED vars
  PROVE  TypeOK'
  BY DEF TypeOK, vars, calls, retry, timers, wifi, app

\* ws_client.c keeps its context, timers and program points in their types,
\* with any number of HTTP client blocks and any set of failures.
THEOREM Typing == Spec => []TypeOK
<1>1. TypeOK /\ [Next]_vars => TypeOK'
  BY TypeContinue, TypeApp, TypeOthers, TypeStutter DEF Next
<1> QED
  BY <1>1, TypeInit, PTL DEF Spec

-----------------------------------------------------------------------------
(* Backoff: what may be pending, and what the count may still become.      *)

\* The invariant behind the bound holds at the start.
LEMMA BackoffInit == Init => BackoffInv
  BY DEF Init, BackoffInv, Pending, Rearming, ZeroCtx, Tasks, App, Evt, Tmr

\* The program points at which BackoffInv says something.
Watched == {"bump", "bump_store"} \cup Rearming

\* What a step of ws_client_connect, or of a call into the HTTP client, leaves
\* alone: the retry variables, wifi_connected and the other tasks.
LEMMA ContinueFrame ==
  ASSUME TypeOK, NEW t \in Tasks, Continue(t)
  PROVE  /\ UNCHANGED retry
         /\ ctx'.wifi_connected = ctx.wifi_connected
         /\ ctx'.reconnect_count \in {0, ctx.reconnect_count}
         /\ pc' = pc \/ \E l \in Labels \ Watched : pc' = [pc EXCEPT ![t] = l]
<1> USE DEF TypeOK, ContextType, Goto, Labels, Watched, Rearming, timers
<1>1. CASE ConnectNoWifi(t) \/ BringUpWifi(t)
  BY <1>1 DEF ConnectNoWifi, BringUpWifi
<1>2. CASE ConnectWifiUp(t) \/ ConnectChecked(t) \/ ConnectClaim(t)
  BY <1>2 DEF ConnectWifiUp, ConnectChecked, ConnectClaim, AfterClose
<1>3. CASE HttpCreate(t)
  BY <1>3 DEF HttpCreate
<1>4. CASE OpenCall(t) \/ OpenSucceeds(t) \/ OpenFails(t)
  BY <1>4 DEF OpenCall, OpenSucceeds, OpenFails, AfterClose
<1>5. CASE HandshakeDone(t) \/ SetConnected(t) \/ ResetCount(t)
  BY <1>5 DEF HandshakeDone, SetConnected, ResetCount
<1>6. CASE SessionUp(t) \/ StartPings(t) \/ Announce(t)
  BY <1>6 DEF SessionUp, StartPings, Announce
<1>7. CASE HandshakeRefused(t) \/ ConnectFail(t)
  BY <1>7 DEF HandshakeRefused, ConnectFail, AfterClose
<1>8. CASE NothingToClose(t)
  <2>1. PICK l \in DOMAIN AfterClose :
          pc' = [pc EXCEPT ![t] = AfterForget[AfterCleanup[AfterClose[l]]]]
    BY <1>8 DEF NothingToClose
  <2>2. \E m \in Labels \ Watched : pc' = [pc EXCEPT ![t] = m]
    BY <2>1, JumpsAreLabels
  <2> QED
    BY <1>8, <2>2 DEF NothingToClose
<1>9. CASE HttpClose(t)
  <2>1. pc' = pc \/ \E m \in Labels \ Watched : pc' = [pc EXCEPT ![t] = m]
    BY <1>9, JumpsAreLabels DEF HttpClose, AfterCleanup
  <2> QED
    BY <1>9, <2>1 DEF HttpClose, ReportDisconnected
<1>10. CASE HttpCleanup(t)
  <2>1. \E m \in Labels \ Watched : pc' = [pc EXCEPT ![t] = m]
    BY <1>10, JumpsAreLabels DEF HttpCleanup, AfterForget
  <2> QED
    BY <1>10, <2>1 DEF HttpCleanup
<1>11. CASE HttpForget(t)
  <2>1. PICK l \in DOMAIN AfterForget : pc' = [pc EXCEPT ![t] = AfterForget[l]]
    BY <1>11 DEF HttpForget
  <2>2. \E m \in Labels \ Watched : pc' = [pc EXCEPT ![t] = m]
    BY <2>1, JumpsAreLabels
  <2> QED
    BY <1>11, <2>2 DEF HttpForget
<1>12. CASE BeginWrite(t) \/ EndWrite(t)
  BY <1>12 DEF BeginWrite, EndWrite
<1>13. CASE OnHttpDisconnected(t) \/ ForgetHandshake(t)
  BY <1>13 DEF OnHttpDisconnected, ForgetHandshake
<1>14. CASE HandlerReturns(t)
  <2>1. \E m \in Labels \ Watched : pc' = [pc EXCEPT ![t] = m]
    <3>1. CASE Goto(t, "peer_gone", "idle")
      BY <3>1
    <3>2. ASSUME NEW l \in DOMAIN AfterClose, Goto(t, l, AfterClose[l])
          PROVE  \E m \in Labels \ Watched : pc' = [pc EXCEPT ![t] = m]
      BY <3>2, JumpsAreLabels DEF AfterCleanup
    <3> QED
      BY <1>14, <3>1, <3>2 DEF HandlerReturns
  <2> QED
    BY <1>14, <2>1 DEF HandlerReturns
<1> QED
  BY <1>1, <1>2, <1>3, <1>4, <1>5, <1>6, <1>7, <1>8, <1>9, <1>10, <1>11, <1>12,
     <1>13, <1>14
     DEF Continue

\* The same of a step of the application, which may also clear s_ctx and stop
\* the timer.
LEMMA AppFrame ==
  ASSUME TypeOK, AppStep \/ AppContinue
  PROVE  /\ UNCHANGED <<loaded, lost>>
         /\ reconnect' = "armed" => reconnect = "armed"
         /\ ctx'.wifi_connected => ctx.wifi_connected
         /\ ctx'.reconnect_count \in {0, ctx.reconnect_count}
         /\ \E l \in Labels \ Watched : pc' = [pc EXCEPT ![App] = l]
<1> USE DEF TypeOK, ContextType, Goto, Enter, Handle, Labels, Watched, Rearming,
            retry, timers
<1>1. CASE AppInit \/ AppSetUrl \/ AppRegister
  BY <1>1 DEF AppInit, AppSetUrl, AppRegister
<1>2. CASE InitContext
  BY <1>2 DEF InitContext, ZeroCtx
<1>3. CASE InitTimers
  BY <1>3 DEF InitTimers, CreateTimers
<1>4. CASE AppConnect \/ AppSend
  BY <1>4 DEF AppConnect, AppSend
<1>5. CASE AppDisconnect \/ AppDeinit
  BY <1>5 DEF AppDisconnect, AppDeinit, AfterClose
<1>6. CASE DisconnectStopPing \/ DisconnectStopReconnect
  BY <1>6 DEF DisconnectStopPing, DisconnectStopReconnect, StopTimer
<1>7. CASE DisconnectFrame \/ ClearConnected \/ ClearHandshake
  BY <1>7 DEF DisconnectFrame, ClearConnected, ClearHandshake, AfterClose
<1>8. CASE DisconnectIdle \/ DisconnectNotify
  BY <1>8 DEF DisconnectIdle, DisconnectNotify
<1>9. CASE DeinitEnd
  BY <1>9 DEF DeinitEnd, ZeroCtx
<1> QED
  BY <1>1, <1>2, <1>3, <1>4, <1>5, <1>6, <1>7, <1>8, <1>9 DEF AppStep, AppContinue

\* Every step preserves it.
LEMMA BackoffStep == TypeOK /\ BackoffInv /\ [Next]_vars => BackoffInv'
<1> SUFFICES ASSUME TypeOK, BackoffInv, [Next]_vars
             PROVE  BackoffInv'
  OBVIOUS
<1> USE DEF TypeOK, ContextType, BackoffInv, Pending, Rearming, Tasks, App, Evt, Tmr,
            Net, retry, timers
<1>1. CASE \E t \in Tasks : Continue(t)
  BY <1>1, ContinueFrame DEF Watched
<1>2. CASE AppStep \/ AppContinue
  BY <1>2, AppFrame DEF Watched
<1>3. CASE OnStaStart \/ OnStaDisconnected \/ OnGotIp
  BY <1>3 DEF OnStaStart, OnStaDisconnected, OnGotIp, Handle, Enter
<1>4. CASE LostConnected \/ LostStopPing \/ LostSession
  BY <1>4 DEF LostConnected, LostStopPing, LostSession, Goto
<1>5. CASE GotIpConnects
  BY <1>5 DEF GotIpConnects, Goto
<1>6. CASE Rearm
  BY <1>6 DEF Rearm, Goto
<1>7. CASE ArmReconnect
  BY <1>7 DEF ArmReconnect, StartTimer, Goto
<1>8. CASE TmrPing
  BY <1>8 DEF TmrPing, Enter
<1>9. CASE TmrReconnect
  BY <1>9 DEF TmrReconnect, MayReconnect, Enter
<1>10. CASE ReconnectLoad
  BY <1>10 DEF ReconnectLoad, Goto
<1>11. CASE ReconnectBump
  BY <1>11 DEF ReconnectBump, Goto
<1>12. CASE WifiAssociates \/ WifiRejected \/ WifiLost
  BY <1>12 DEF WifiAssociates, WifiRejected, WifiLost, LinkStep
<1>13. CASE PeerDies \/ NetContinue
  BY <1>13 DEF PeerDies, NetContinue, PeerClosed, PeerTell, Goto
<1>14. CASE \E h \in Handles : PeerCloses(h) \/ PeerDisconnects(h)
  BY <1>14 DEF PeerCloses, PeerDisconnects, ReportDisconnected, Enter
<1>15. CASE UNCHANGED vars
  BY <1>15 DEF vars
<1> QED
  BY <1>1, <1>2, <1>3, <1>4, <1>5, <1>6, <1>7, <1>8, <1>9, <1>10, <1>11, <1>12,
     <1>13, <1>14, <1>15
     DEF Next, EvtStep, EvtContinue, TmrContinue, Environment

\* However the tasks interleave and however often WiFi drops, the shift in
\* start_reconnect_timer is by 2 at most, and by one more for each reset of
\* the count that an increment under way has overwritten.
THEOREM BackoffIsBounded == Spec => []ReconnectCountBounded
<1>1. BackoffInv => ReconnectCountBounded
  BY DEF BackoffInv, ReconnectCountBounded
<1> QED
  BY <1>1, BackoffInit, BackoffStep, Typing, PTL DEF Spec

-----------------------------------------------------------------------------
(* Hands off: what the client does when it is left alone.                  *)

\* The invariant of the application that connects once holds at the start.
LEMMA HandsOffInit == Init => HandsOffInv
<1> SUFFICES ASSUME Init PROVE HandsOffInv
  OBVIOUS
<1>1. TypeOK
  BY TypeInit
<1>2. TasksApart /\ SessionMatches /\ HandlesMatch
  BY ConstantsAssumption
     DEF Init, TasksApart, Untouched, SessionMatches, HandlesMatch, ZeroCtx, AppPlaces,
         EvtPlaces, Opening, Accepting, Rearming, Handshaking, Tasks, App, Evt, Tmr, Net
<1> QED
  BY <1>1, <1>2 DEF HandsOffInv

\* ws_client_connect in the application's task only brings WiFi up.
LEMMA HandsOffBringUp ==
  ASSUME HandsOffInv, NEW t \in Tasks, ConnectNoWifi(t) \/ BringUpWifi(t)
  PROVE  TasksApart' /\ SessionMatches' /\ HandlesMatch'
<1> USE DEF HandsOffInv, TypeOK, TasksApart, Untouched, SessionMatches,
            HandlesMatch, Handshaking, AppPlaces, EvtPlaces, Opening, Accepting, Rearming,
            Tasks, App, Evt, Tmr, Net, Goto, calls, retry, timers, app
<1>1. t = App
  BY DEF ConnectNoWifi, BringUpWifi
<1>2. CASE ConnectNoWifi(t)
  BY <1>1, <1>2 DEF ConnectNoWifi, wifi
<1>3. CASE BringUpWifi(t)
  <2>1. /\ pc[App] = "no_wifi" /\ pc' = [pc EXCEPT ![App] = "idle"]
        /\ UNCHANGED <<ctx, calls, http, timers, app, peer>>
    BY <1>1, <1>3 DEF BringUpWifi
  <2>2. TasksApart'
    BY <2>1
  <2> QED
    BY <2>1, <2>2
<1> QED
  BY <1>2, <1>3

\* The event task takes the connection from IDLE to CONNECTED or ERROR.
LEMMA HandsOffHandshake ==
  ASSUME HandsOffInv, NEW t \in Tasks,
         \/ ConnectWifiUp(t) \/ ConnectChecked(t) \/ ConnectClaim(t)
         \/ HttpCreate(t) \/ OpenCall(t) \/ OpenSucceeds(t) \/ OpenFails(t)
         \/ HandshakeDone(t) \/ SetConnected(t) \/ ResetCount(t)
         \/ SessionUp(t) \/ StartPings(t) \/ Announce(t)
         \/ HandshakeRefused(t) \/ ConnectFail(t)
  PROVE  TasksApart' /\ SessionMatches' /\ HandlesMatch'
<1> USE ConstantsAssumption
    DEF HandsOffInv, TypeOK, ContextType, TasksApart, Untouched, SessionMatches,
        HandlesMatch, Handshaking, AppPlaces, EvtPlaces, Opening, Accepting, Rearming,
        Tasks, App, Evt, Tmr, Net, Goto, calls, retry, timers, wifi, app
<1>1. t = Evt
  BY DEF ConnectWifiUp, ConnectChecked, ConnectClaim, HttpCreate, OpenCall,
         OpenSucceeds, OpenFails, HandshakeDone, SetConnected, ResetCount,
         SessionUp, StartPings, Announce, HandshakeRefused, ConnectFail
<1>2. CASE ConnectWifiUp(t)
  BY <1>1, <1>2 DEF ConnectWifiUp
<1>3. CASE ConnectChecked(t)
  BY <1>1, <1>3 DEF ConnectChecked, MayHandshake
<1>4. CASE ConnectClaim(t)
  BY <1>1, <1>4 DEF ConnectClaim
<1>5. CASE HttpCreate(t)
  BY <1>1, <1>5 DEF HttpCreate
<1>6. CASE OpenCall(t)
  BY <1>1, <1>6 DEF OpenCall, Hold
<1>7. CASE OpenSucceeds(t)
  BY <1>1, <1>7 DEF OpenSucceeds, Release
<1>8. CASE OpenFails(t)
  BY <1>1, <1>8 DEF OpenFails, Release
<1>9. CASE HandshakeDone(t)
  BY <1>1, <1>9 DEF HandshakeDone
<1>10. CASE SetConnected(t)
  BY <1>1, <1>10 DEF SetConnected
<1>11. CASE ResetCount(t)
  BY <1>1, <1>11 DEF ResetCount
<1>12. CASE SessionUp(t)
  BY <1>1, <1>12 DEF SessionUp
<1>13. CASE StartPings(t) \/ Announce(t)
  BY <1>1, <1>13 DEF StartPings, Announce
<1>14. CASE HandshakeRefused(t)
  BY <1>1, <1>14 DEF HandshakeRefused
<1>15. CASE ConnectFail(t)
  BY <1>1, <1>15 DEF ConnectFail
<1> QED
  BY <1>2, <1>3, <1>4, <1>5, <1>6, <1>7, <1>8, <1>9, <1>10, <1>11, <1>12, <1>13,
     <1>14, <1>15

\* A handshake that fails gives its own client up, and nothing else does.
LEMMA HandsOffGiveUp ==
  ASSUME HandsOffInv, NEW t \in Tasks,
         \/ NothingToClose(t) \/ HttpClose(t) \/ HttpCleanup(t) \/ HttpForget(t)
  PROVE  TasksApart' /\ SessionMatches' /\ HandlesMatch'
<1> USE ConstantsAssumption
    DEF HandsOffInv, TypeOK, ContextType, TasksApart, Untouched, SessionMatches,
        HandlesMatch, Handshaking, AppPlaces, EvtPlaces, Opening, Accepting, Rearming,
        Tasks, App, Evt, Tmr, Net, Goto, calls, retry, timers, wifi, app
<1>1. t = Evt
  BY DEF NothingToClose, HttpClose, HttpCleanup, HttpForget,
         AfterClose, AfterCleanup, AfterForget
<1>2. CASE NothingToClose(t)
  <2>1. PICK l \in DOMAIN AfterClose \ {"fail_close"} :
          pc[Evt] = l /\ pc' = [pc EXCEPT ![Evt] = AfterForget[AfterCleanup[AfterClose[l]]]]
    BY <1>1, <1>2 DEF NothingToClose
  <2>2. l = "close"
    BY <2>1 DEF AfterClose
  <2>3. AfterForget[AfterCleanup[AfterClose["close"]]] = "create"
    BY DEF AfterClose, AfterCleanup, AfterForget
  <2> QED
    BY <1>2, <2>1, <2>2, <2>3 DEF NothingToClose
<1>3. CASE HttpClose(t)
  <2>1. pc[Evt] = "fail_close" /\ handler[Evt] = "none"
    BY <1>1, <1>3 DEF HttpClose, AfterClose
  <2>2. CASE ReportDisconnected(t, ctx.client) /\ UNCHANGED pc
    BY <1>1, <2>1, <2>2 DEF ReportDisconnected
  <2>3. CASE /\ pc' = [pc EXCEPT ![Evt] = "fail_cleanup"]
             /\ UNCHANGED <<ctx, calls, http, timers, wifi, app, peer>>
    BY <2>1, <2>3
  <2> QED
    BY <1>1, <1>3, <2>1, <2>2, <2>3 DEF HttpClose, AfterClose
<1>4. CASE HttpCleanup(t)
  <2>1. pc[Evt] = "fail_cleanup" /\ pc' = [pc EXCEPT ![Evt] = "fail_forget"]
    <3>1. PICK l \in DOMAIN AfterCleanup :
            pc[Evt] = l /\ pc' = [pc EXCEPT ![Evt] = AfterCleanup[l]]
      BY <1>1, <1>4 DEF HttpCleanup
    <3>2. l = "fail_cleanup"
      BY <3>1 DEF AfterCleanup
    <3> QED
      BY <3>1, <3>2 DEF AfterCleanup
  <2>2. http' = [http EXCEPT ![ctx.client] = "free"] /\ ctx.client \in Handles
    BY <1>4, <2>1 DEF HttpCleanup
  <2> QED
    BY <1>4, <2>1, <2>2 DEF HttpCleanup
<1>5. CASE HttpForget(t)
  <2>1. pc[Evt] = "fail_forget" /\ pc' = [pc EXCEPT ![Evt] = "fail"]
    <3>1. PICK l \in DOMAIN AfterForget :
            pc[Evt] = l /\ pc' = [pc EXCEPT ![Evt] = AfterForget[l]]
      BY <1>1, <1>5 DEF HttpForget
    <3>2. l = "fail_forget"
      BY <3>1 DEF AfterForget
    <3> QED
      BY <3>1, <3>2 DEF AfterForget
  <2> QED
    BY <1>5, <2>1 DEF HttpForget
<1> QED
  BY <1>2, <1>3, <1>4, <1>5

\* HTTP_EVENT_DISCONNECTED, in the event task or from elsewhere.
LEMMA HandsOffHandler ==
  ASSUME HandsOffInv, NEW t \in Tasks,
         OnHttpDisconnected(t) \/ ForgetHandshake(t) \/ HandlerReturns(t)
  PROVE  TasksApart' /\ SessionMatches' /\ HandlesMatch'
<1> USE ConstantsAssumption
    DEF HandsOffInv, TypeOK, ContextType, TasksApart, Untouched, SessionMatches,
        HandlesMatch, Handshaking, AppPlaces, EvtPlaces, Opening, Accepting, Rearming,
        Tasks, App, Evt, Tmr, Net, Goto, calls, retry, timers, wifi, app
<1>1. CASE OnHttpDisconnected(t)
  BY <1>1 DEF OnHttpDisconnected
<1>2. CASE ForgetHandshake(t)
  BY <1>2 DEF ForgetHandshake
<1>3. CASE HandlerReturns(t)
  <2>1. \/ t = Evt /\ pc' = [pc EXCEPT ![Evt] = "fail_cleanup"] /\ pc[Evt] = "fail_close"
        \/ t = Net /\ pc' = [pc EXCEPT ![Net] = "idle"] /\ pc[Net] = "peer_gone"
    <3>1. CASE Goto(t, "peer_gone", "idle")
      BY <3>1
    <3>2. ASSUME NEW l \in DOMAIN AfterClose, Goto(t, l, AfterClose[l]),
                 handler[t] = "ping"
          PROVE  t = Evt /\ l = "fail_close"
      BY <3>2 DEF AfterClose
    <3>3. AfterClose["fail_close"] = "fail_cleanup"
      BY DEF AfterClose
    <3> QED
      BY <1>3, <3>1, <3>2, <3>3 DEF HandlerReturns
  <2>2. \A h \in Handles : http'[h] = "free" <=> http[h] = "free"
    BY <1>3 DEF HandlerReturns
  <2>3. /\ handler' = [handler EXCEPT ![t] = "none"]
        /\ hnd' = [hnd EXCEPT ![t] = NoHandle]
        /\ UNCHANGED <<ctx, retry, wifi, app, peer>>
    BY <1>3 DEF HandlerReturns
  <2>4. TasksApart' /\ SessionMatches'
    BY <2>1, <2>3
  <2>5. HandlesMatch'
    BY <2>1, <2>2, <2>3
  <2> QED
    BY <2>4, <2>5
<1> QED
  BY <1>1, <1>2, <1>3

\* The application's other calls, and a write.
LEMMA HandsOffApp ==
  ASSUME HandsOff, HandsOffInv,
         \/ AppStep \/ AppContinue
         \/ \E t \in Tasks : BeginWrite(t) \/ EndWrite(t)
  PROVE  TasksApart' /\ SessionMatches' /\ HandlesMatch'
<1> USE ConstantsAssumption
    DEF HandsOffInv, TypeOK, ContextType, TasksApart, Untouched, SessionMatches,
        HandlesMatch, Handshaking, AppPlaces, EvtPlaces, Opening, Accepting, Rearming,
        Tasks, App, Evt, Tmr, Net, Enter, Handle, Goto, calls, retry, timers, wifi, app
<1>1. CASE AppInit
  BY <1>1 DEF AppInit, Calls
<1>2. CASE InitContext
  BY <1>2 DEF InitContext, ZeroCtx
<1>3. CASE InitTimers
  <2>1. reconnect' # "armed"
    BY <1>3 DEF InitTimers, CreateTimers
  <2> QED
    BY <1>3, <2>1 DEF InitTimers
<1>4. CASE AppSetUrl
  BY <1>4 DEF AppSetUrl, Calls
<1>5. CASE AppRegister
  BY <1>5 DEF AppRegister, Calls
<1>6. CASE AppConnect
  BY <1>6 DEF AppConnect, Calls, HandsOff
<1>7. CASE AppSend
  BY <1>7 DEF AppSend, Writable, Calls
<1>8. CASE AppDisconnect \/ AppDeinit
  BY <1>8 DEF AppDisconnect, AppDeinit, Calls, HandsOff
<1>9. CASE AppContinue
  BY <1>2, <1>3, <1>9
     DEF AppContinue, DisconnectStopPing, DisconnectStopReconnect, DisconnectFrame,
         ClearConnected, ClearHandshake, DisconnectIdle, DisconnectNotify, DeinitEnd
<1>10. CASE \E t \in Tasks : BeginWrite(t) \/ EndWrite(t)
  BY <1>10 DEF BeginWrite, EndWrite, Hold, Release
<1> QED
  BY <1>1, <1>4, <1>5, <1>6, <1>7, <1>8, <1>9, <1>10 DEF AppStep

\* The events, the timers and the environment.
LEMMA HandsOffOthers ==
  ASSUME HandsOffInv,
         EvtStep \/ EvtContinue \/ TmrPing \/ TmrReconnect \/ TmrContinue
         \/ NetContinue \/ Environment
  PROVE  TasksApart' /\ SessionMatches' /\ HandlesMatch'
<1> USE ConstantsAssumption
    DEF HandsOffInv, TypeOK, ContextType, TasksApart, Untouched, SessionMatches,
        HandlesMatch, Handshaking, AppPlaces, EvtPlaces, Opening, Accepting, Rearming,
        Tasks, App, Evt, Tmr, Net, Enter, Handle, Goto, calls, retry, timers, wifi, app
<1>1. CASE OnStaStart
  BY <1>1 DEF OnStaStart, Receive
<1>2. CASE OnStaDisconnected
  BY <1>2 DEF OnStaDisconnected, Receive
<1>3. CASE LostConnected \/ LostStopPing
  BY <1>3 DEF LostConnected, LostStopPing
<1>4. CASE LostSession
  BY <1>4 DEF LostSession, LosesSession
<1>5. CASE Rearm
  BY <1>5 DEF Rearm
<1>6. CASE ArmReconnect
  BY <1>6 DEF ArmReconnect
<1>7. CASE OnGotIp
  BY <1>7 DEF OnGotIp, Receive
<1>8. CASE GotIpConnects
  BY <1>8 DEF GotIpConnects
<1>9. CASE TmrPing
  BY <1>9 DEF TmrPing, Writable
<1>10. CASE TmrReconnect \/ TmrContinue
  BY <1>10 DEF TmrReconnect, MayReconnect, TmrContinue, ReconnectLoad, ReconnectBump
<1>11. CASE NetContinue
  BY <1>11 DEF NetContinue, PeerClosed, PeerTell
<1>12. CASE WifiAssociates \/ WifiRejected \/ WifiLost
  BY <1>12 DEF WifiAssociates, WifiRejected, WifiLost, LinkStep
<1>13. CASE PeerDies
  BY <1>13 DEF PeerDies
<1>14. CASE \E h \in Handles : PeerCloses(h) \/ PeerDisconnects(h)
  BY <1>14 DEF PeerCloses, PeerDisconnects, Deliverable, ReportDisconnected
<1> QED
  BY <1>1, <1>2, <1>3, <1>4, <1>5, <1>6, <1>7, <1>8, <1>9, <1>10, <1>11, <1>12,
     <1>13, <1>14
     DEF EvtStep, EvtContinue, Environment

\* Every step of that application preserves it.
LEMMA HandsOffStep ==
  ASSUME HandsOff PROVE HandsOffInv /\ [Next]_vars => HandsOffInv'
<1> SUFFICES ASSUME HandsOffInv, [Next]_vars PROVE HandsOffInv'
  OBVIOUS
<1>1. TypeOK'
  BY TypeContinue, TypeApp, TypeOthers, TypeStutter DEF Next, HandsOffInv
<1>2. CASE UNCHANGED vars
  BY <1>1, <1>2 DEF vars, HandsOffInv, TasksApart, Untouched, SessionMatches,
                    HandlesMatch, calls, retry, timers, wifi, app
<1>3. CASE Next
  BY <1>1, <1>3, HandsOffBringUp, HandsOffHandshake, HandsOffGiveUp,
     HandsOffHandler, HandsOffApp, HandsOffOthers
     DEF Next, Continue, HandsOffInv
<1> QED
  BY <1>2, <1>3

\* The invariant, for every value of the constants.
LEMMA HandsOffInvariant == ASSUME HandsOff PROVE Spec => []HandsOffInv
<1>1. HandsOffInv /\ [Next]_vars => HandsOffInv'
  BY HandsOffStep
<1> QED
  BY <1>1, HandsOffInit, PTL DEF Spec

\* An application that connects once and leaves the client alone: no task
\* ever works on memory another task has given back, and no HTTP client is
\* leaked, whatever fails and however the tasks interleave.
THEOREM HandsOffSafety ==
  ASSUME HandsOff
  PROVE  Spec => [](HandlesInUseAreLive /\ NoHandleLeak)
<1>1. HandsOffInv => HandlesInUseAreLive /\ NoHandleLeak
  BY ConstantsAssumption
     DEF HandsOffInv, TypeOK, ContextType, TasksApart, SessionMatches,
         HandlesMatch, HandlesInUseAreLive, InHttp, NoHandleLeak, Handshaking,
         AppPlaces, EvtPlaces, Opening, Accepting, Rearming, AfterClose,
         Tasks, App, Evt, Tmr, Net
<1> QED
  BY <1>1, HandsOffInvariant, PTL

\* ... and although ws_client_connect tests the state and changes it in two
\* steps, no two tasks are past the test at once.
THEOREM HandsOffOneHandshake ==
  ASSUME HandsOff
  PROVE  Spec => []SingleHandshake
<1>1. HandsOffInv => SingleHandshake
  BY DEF HandsOffInv, TasksApart, SingleHandshake, Handshaking, AppPlaces, EvtPlaces,
         Rearming, Tasks, App, Evt, Tmr, Net
<1> QED
  BY <1>1, HandsOffInvariant, PTL

=============================================================================
