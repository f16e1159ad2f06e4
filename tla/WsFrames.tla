------------------------------ MODULE WsFrames ------------------------------
(***************************************************************************)
(* ws_client.c, the receiving side of a session: HTTP_EVENT_ON_DATA, the   *)
(* receive buffer, the loop over its frames and handle_websocket_message.  *)
(*                                                                         *)
(* The server sends whole, unmasked frames and nothing after CLOSE; the    *)
(* transport cuts the bytes where it likes.  A step of the loop handles    *)
(* one frame, so that other tasks may end the session, and zero the        *)
(* context, between two frames.  Within one turn they may not: a memset    *)
(* between the message's callback and the memmove leaves the length        *)
(* negative, and nothing holds from there.                                 *)
(* A session is opened by the task that receives, hence not in the loop.   *)
(***************************************************************************)
EXTENDS WsWire

CONSTANTS
  BufSize,   \* sizeof rx_buf: 512
  Messages,  \* what the server may send: records of an opcode and a payload
  MaxSent    \* bound: messages in a session

\* The length fits into 32 bits, written with numbers that the provers can read.
Below4GB(len) == (len \div 65536) \div 256 < 256

ASSUME FramesAssumption ==
  /\ BufSize \in 1..65536 /\ MaxSent \in Nat
  /\ Messages \subseteq [opcode : 0..15, payload : Seq(Byte)]
  /\ \A m \in Messages : Below4GB(Len(m.payload))

VARIABLES
  handshake_done, ws_connected, rx_buf,  \* of s_ctx; rx_buf_len is Len(rx_buf)
  parsing,  \* the loop over the frames is running
  open,     \* the connection carries a session: the server has answered 101
  wire,     \* the bytes on their way to the client
  sent,     \* the messages sent in this session
  handled,  \* those handled, as long as the session is intact
  intact    \* the buffer was empty at the handshake and no data was dropped

ws_ctx == <<handshake_done, ws_connected, rx_buf>>
history == <<sent, handled, intact>>
vars == <<ws_ctx, parsing, open, wire, history>>

\* The header the server writes: like the client's, but with the whole length
\* in its long form.
ServerHeader(opcode, len) ==
  IF len < 65536 THEN SendHeader(opcode, len)
  ELSE LET high == len \div 65536
       IN  <<128 + opcode, Escape + 1, 0, 0, 0, 0, high \div 256, high % 256,
             (len \div 256) % 256, len % 256>>

Encoding(m) == ServerHeader(m.opcode, Len(m.payload)) \o m.payload

IsClose(m) == m.opcode = CLOSE

-----------------------------------------------------------------------------
\* The server answers 101 to esp_http_client_open, and its session begins:
\* rx_buf stays as it is.
ServerAnswers ==
  /\ ~open /\ ~parsing
  /\ open' = TRUE
  /\ sent' = <<>> /\ handled' = <<>> /\ intact' = (rx_buf = <<>>)
  /\ UNCHANGED <<ws_ctx, parsing, wire>>

\* ws_client_connect has read the status.
Handshake ==
  /\ open /\ ~handshake_done
  /\ handshake_done' = TRUE /\ ws_connected' = TRUE
  /\ UNCHANGED <<rx_buf, parsing, open, wire, history>>

ServerSends ==
  \E m \in Messages :
    /\ open /\ Len(sent) < MaxSent
    /\ \A i \in DOMAIN sent : ~IsClose(sent[i])
    /\ sent' = Append(sent, m) /\ wire' = wire \o Encoding(m)
    /\ UNCHANGED <<ws_ctx, parsing, open, handled, intact>>

\* Mutant: the space taken already is not counted.
OnDataUncounted ==
  \E n \in DOMAIN wire :
    /\ open /\ ~parsing
    /\ wire' = SubSeq(wire, n + 1, Len(wire))
    /\ \/ /\ handshake_done /\ n < BufSize
          /\ rx_buf' = rx_buf \o SubSeq(wire, 1, n)
          /\ parsing' = TRUE /\ UNCHANGED intact
       \/ /\ ~handshake_done \/ n >= BufSize
          /\ intact' = FALSE /\ UNCHANGED <<rx_buf, parsing>>
    /\ UNCHANGED <<handshake_done, ws_connected, open, sent, handled>>

\* HTTP_EVENT_ON_DATA: what comes before handshake_done is set, or would fill
\* the buffer, is dropped whole.
OnData ==
  \E n \in DOMAIN wire :
    /\ open /\ ~parsing
    /\ wire' = SubSeq(wire, n + 1, Len(wire))
    /\ \/ /\ handshake_done /\ Len(rx_buf) + n < BufSize
          /\ rx_buf' = rx_buf \o SubSeq(wire, 1, n)
          /\ parsing' = TRUE /\ UNCHANGED intact
       \/ /\ ~handshake_done \/ Len(rx_buf) + n >= BufSize
          /\ intact' = FALSE /\ UNCHANGED <<rx_buf, parsing>>
    /\ UNCHANGED <<handshake_done, ws_connected, open, sent, handled>>

\* Mutant: no loop, one frame for every event.
HandleOneFrame ==
  /\ parsing /\ Complete(rx_buf)
  /\ rx_buf' = SubSeq(rx_buf, FrameLen(rx_buf) + 1, Len(rx_buf))
  /\ handled' = IF intact THEN Append(handled, Message(rx_buf)) ELSE handled
  /\ ws_connected' = (ws_connected /\ ~IsClose(Message(rx_buf)))
  /\ parsing' = FALSE
  /\ UNCHANGED <<handshake_done, open, wire, sent, intact>>

\* One turn of the loop.  The message goes to the application's callback
\* (TEXT and BINARY as data, CLOSE as the end of the session) or nowhere.
HandleFrame ==
  /\ parsing /\ Complete(rx_buf)
  /\ rx_buf' = SubSeq(rx_buf, FrameLen(rx_buf) + 1, Len(rx_buf))
  /\ handled' = IF intact THEN Append(handled, Message(rx_buf)) ELSE handled
  /\ ws_connected' = (ws_connected /\ ~IsClose(Message(rx_buf)))
  /\ UNCHANGED <<handshake_done, parsing, open, wire, sent, intact>>

\* Mutant: what the loop has left over is thrown away.
LeaveLoopClears ==
  /\ parsing /\ ~Complete(rx_buf)
  /\ parsing' = FALSE /\ rx_buf' = <<>>
  /\ UNCHANGED <<handshake_done, ws_connected, open, wire, history>>

LeaveLoop ==
  /\ parsing /\ ~Complete(rx_buf)
  /\ parsing' = FALSE
  /\ UNCHANGED <<ws_ctx, open, wire, history>>

\* HTTP_EVENT_ON_FINISH.
OnFinish ==
  /\ handshake_done /\ ~parsing
  /\ ws_connected' = FALSE
  /\ UNCHANGED <<handshake_done, rx_buf, parsing, open, wire, history>>

\* HTTP_EVENT_DISCONNECTED, from the transport or from another task that
\* closes the client.
OnDisconnected ==
  /\ open
  /\ handshake_done' = FALSE /\ ws_connected' = FALSE
  /\ open' = FALSE /\ wire' = <<>>
  /\ UNCHANGED <<rx_buf, parsing, history>>

\* ws_client_deinit, which has closed the client, and ws_client_init zero the
\* context, the buffer included; the loop may be running.
AppInit ==
  /\ ~open
  /\ rx_buf' = <<>> /\ ws_connected' = FALSE
  /\ UNCHANGED <<handshake_done, parsing, open, wire, history>>

-----------------------------------------------------------------------------
Init ==
  /\ handshake_done = FALSE /\ ws_connected = FALSE /\ rx_buf = <<>>
  /\ parsing = FALSE /\ open = FALSE /\ wire = <<>>
  /\ sent = <<>> /\ handled = <<>> /\ intact = TRUE

Next ==
  \/ ServerAnswers \/ Handshake \/ ServerSends \/ OnData \/ HandleFrame \/ LeaveLoop
  \/ OnFinish \/ OnDisconnected \/ AppInit

\* The transport delivers what the server sent as long as the session lasts;
\* the loop is straight code.
Fairness == WF_vars(OnData) /\ WF_vars(HandleFrame) /\ WF_vars(LeaveLoop)

Spec == Init /\ [][Next]_vars /\ Fairness

-----------------------------------------------------------------------------
(* Properties.                                                             *)

\* The next message the application has not seen.
Pending == sent[Len(handled) + 1]

\* No sequence of events, of an old session or of one that lost its framing,
\* writes past rx_buf.
BufferBounded == Len(rx_buf) < BufSize

\* Between two events no whole message waits in the buffer for the next one
\* to arrive.
NoFrameWaits ==
  intact /\ handshake_done /\ ~parsing /\ Len(handled) < Len(sent) =>
    Len(rx_buf) < Len(Encoding(Pending))

\* However the transport cuts the bytes, the messages of an intact session are
\* handled in order, each once, CLOSE ends it, and a session whose messages
\* were all handled leaves nothing behind that garbles the next one.
Stream == INSTANCE WsStream WITH up <- ws_connected \/ (open /\ ~handshake_done)
DeliversInOrder == Stream!Spec

\* The client catches up with the server, unless the session ends or data is
\* dropped.
EachHandled == open ~> (handled = sent \/ ~intact \/ ~open)

=============================================================================
