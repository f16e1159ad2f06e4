------------------------------- MODULE UsbCmd -------------------------------
(***************************************************************************)
(* components/usb_cmd: the byte-wise parser of uart_event_task, the        *)
(* commands it carries out and the frames it answers with.                 *)
(*                                                                         *)
(* A step is one byte taken from the UART (parse_byte, and with the last   *)
(* byte process_frame and the command's handler) or one call from another  *)
(* task: another task that looks at the configuration while a handler      *)
(* writes it is in UsbTasks.  The fields of rx_frame are kept as long as   *)
(* the parser will still read them, and data_index for good.  A URL is     *)
(* represented by its length.                                              *)
(***************************************************************************)
EXTENDS Naturals, Sequences

CONSTANTS
  Byte,         \* the values a received byte can have
  MaxData,      \* USB_CMD_MAX_DATA
  UrlSize,      \* sizeof(s_ctx.config.server_url)
  SeqRange,     \* tx_seq counts modulo this
  Handled,      \* the commands the application may register a handler for
  AppStates,    \* the states it may pass to usb_cmd_set_state
  Crc(_)        \* usb_cmd_crc16

DeviceStates == {"IDLE", "CONNECTING", "CONNECTED", "DISCONNECTING", "ERROR"}

UInt8 == {n \in Nat : n < 256}
UInt16 == {n \in Nat : n < 65536}

ASSUME ConstantsAssumption ==
  /\ Byte \subseteq UInt8
  /\ MaxData \in Nat /\ UrlSize \in Nat \ {0} /\ SeqRange \in Nat \ {0}
  /\ Handled \subseteq Byte
  /\ AppStates \subseteq DeviceStates

VARIABLES
  parse,         \* s_ctx.state
  frame,         \* s_ctx.rx_frame; data_index is the length of its data
  tx_seq,        \* s_ctx.tx_seq
  handlers,      \* s_ctx.handlers: what a registered handler does
  device_state,  \* s_ctx.device_state
  config,        \* s_ctx.config
  replies        \* the frames the last step sent

device == <<handlers, device_state, config>>
vars == <<parse, frame, tx_seq, device, replies>>

SOF == 170
EOF == 85

CONNECT_TO == 1
CONNECT == 2
DISCONNECT == 3
SET_VOLUME == 5
STATUS == 6
SHOW_CONFIG == 7
RESET == 8
Commands == {CONNECT_TO, CONNECT, DISCONNECT, SET_VOLUME, STATUS, SHOW_CONFIG, RESET}

ParseStates == {"IDLE", "LEN_L", "LEN_H", "SEQ", "CMD", "DATA", "CRC_L",
                "CRC_H", "EOF"}

\* A registered handler returns ESP_OK, returns an error, or answers by itself
\* and returns ESP_OK or what usb_cmd_send_response returned.
HandlerKinds == {"ok", "error", "reply", "reply_ok"}

NoFrame == [length |-> 0, seq |-> 0, cmd |-> 0, data |-> <<>>, crc |-> 0]

\* A frame that is over, of which nothing will be read but data_index.
Past(f) == [NoFrame EXCEPT !.data = [i \in 1..Len(f.data) |-> 0]]

\* What usb_cmd_init leaves, and what memset leaves.
DefaultConfig == [url |-> 0, volume |-> 50, configured |-> FALSE]
ZeroConfig == [url |-> 0, volume |-> 0, configured |-> FALSE]

-----------------------------------------------------------------------------
(* Answers.                                                                *)

\* Mutant: tx_seq is wider than a byte.
SendWide(msgs) == replies' = msgs /\ tx_seq' = tx_seq + Len(msgs)

\* usb_cmd_send_response, once per frame of msgs.
Send(msgs) ==
  /\ replies' = msgs
  /\ tx_seq' = (tx_seq + Len(msgs)) % SeqRange

Quiet == replies' = <<>> /\ UNCHANGED tx_seq

Ack == [cmd |-> "ACK", seq |-> frame.seq]
Nack(error) == [cmd |-> "NACK", seq |-> frame.seq, error |-> error]
StatusResp == [cmd |-> "STATUS_RESP", seq |-> frame.seq, state |-> device_state,
               configured |-> config.configured, volume |-> config.volume]
\* A registered handler is not given the sequence number.
OwnReply == [cmd |-> "OWN"]

Refuse(error) == Send(<<Nack(error)>>) /\ UNCHANGED device

-----------------------------------------------------------------------------
(* The default command handlers.                                           *)

HandleConnectTo ==
  IF frame.length = 0 \/ frame.length >= UrlSize
  THEN Refuse("INVALID_PARAM")
  ELSE /\ config' = [config EXCEPT !.url = frame.length, !.configured = TRUE]
       /\ Send(<<Ack>>)
       /\ UNCHANGED <<handlers, device_state>>

HandleConnect ==
  IF ~config.configured
  THEN Refuse("INVALID_PARAM")
  ELSE /\ device_state' = "CONNECTING"
       /\ Send(<<Ack>>)
       /\ UNCHANGED <<handlers, config>>

HandleDisconnect ==
  /\ device_state' = "DISCONNECTING"
  /\ Send(<<Ack>>)
  /\ UNCHANGED <<handlers, config>>

\* Mutant: the range is not checked.
HandleSetVolumeAny ==
  IF frame.length # 1
  THEN Refuse("INVALID_PARAM")
  ELSE /\ config' = [config EXCEPT !.volume = frame.data[1]]
       /\ Send(<<Ack>>)
       /\ UNCHANGED <<handlers, device_state>>

HandleSetVolume ==
  IF frame.length # 1 \/ frame.data[1] > 100
  THEN Refuse("INVALID_PARAM")
  ELSE /\ config' = [config EXCEPT !.volume = frame.data[1]]
       /\ Send(<<Ack>>)
       /\ UNCHANGED <<handlers, device_state>>

HandleStatus == Send(<<StatusResp>>) /\ UNCHANGED device

\* Mutant: the configuration is logged and the host left waiting.
HandleShowConfigMute == Quiet /\ UNCHANGED device

HandleShowConfig == Send(<<Ack>>) /\ UNCHANGED device

HandleReset ==
  /\ config' = ZeroConfig
  /\ device_state' = "IDLE"
  /\ Send(<<Ack>>)
  /\ UNCHANGED handlers

Dispatch ==
  \/ frame.cmd = CONNECT_TO /\ HandleConnectTo
  \/ frame.cmd = CONNECT /\ HandleConnect
  \/ frame.cmd = DISCONNECT /\ HandleDisconnect
  \/ frame.cmd = SET_VOLUME /\ HandleSetVolume
  \/ frame.cmd = STATUS /\ HandleStatus
  \/ frame.cmd = SHOW_CONFIG /\ HandleShowConfig
  \/ frame.cmd = RESET /\ HandleReset
  \/ frame.cmd \notin Commands /\ Refuse("UNKNOWN_CMD")

\* A handler that has answered is answered for once more: with an ACK, or with
\* a NACK if it passes on what usb_cmd_send_response returned, which is the
\* number of bytes written and never ESP_OK.
Registered ==
  LET kind == handlers[frame.cmd]
  IN  /\ \/ kind = "ok" /\ Send(<<Ack>>)
         \/ kind = "error" /\ Send(<<Nack("INVALID_PARAM")>>)
         \/ kind = "reply" /\ Send(<<OwnReply, Nack("INVALID_PARAM")>>)
         \/ kind = "reply_ok" /\ Send(<<OwnReply, Ack>>)
      /\ UNCHANGED device

-----------------------------------------------------------------------------
(* process_frame.                                                          *)

\* The bytes of the packed rx_frame from length to data, which the CRC covers.
Covered == <<frame.length % 256, frame.length \div 256, frame.seq, frame.cmd>>
           \o frame.data

HasHandler == frame.cmd \in Handled /\ handlers[frame.cmd] # "none"

\* Mutant: the CRC is not compared.
ProcessFrameUnchecked(eof) ==
  \/ eof # EOF /\ Refuse("INVALID_FRAME")
  \/ eof = EOF /\ IF HasHandler THEN Registered ELSE Dispatch

ProcessFrame(eof) ==
  \/ eof # EOF /\ Refuse("INVALID_FRAME")
  \/ eof = EOF /\ Crc(Covered) # frame.crc /\ Refuse("CRC_FAILED")
  \/ /\ eof = EOF /\ Crc(Covered) = frame.crc
     /\ IF HasHandler THEN Registered ELSE Dispatch

-----------------------------------------------------------------------------
(* parse_byte.                                                             *)

Step(from, to) == parse = from /\ parse' = to

\* Mutant: any byte starts a frame.
RxIdleAny(b) ==
  /\ Step("IDLE", "LEN_L")
  /\ UNCHANGED <<frame, device>> /\ Quiet

RxIdle(b) ==
  /\ Step("IDLE", IF b = SOF THEN "LEN_L" ELSE "IDLE")
  /\ UNCHANGED <<frame, device>> /\ Quiet

RxLenL(b) ==
  /\ Step("LEN_L", "LEN_H")
  /\ frame' = [frame EXCEPT !.length = b]
  /\ UNCHANGED device /\ Quiet

\* Mutant: after a frame that is too long the state is not reset.
RxLenHWaits(b) ==
  LET length == frame.length + 256 * b
  IN  /\ \/ /\ length > MaxData
            /\ Step("LEN_H", "LEN_H") /\ UNCHANGED frame
         \/ /\ length <= MaxData
            /\ Step("LEN_H", "SEQ") /\ frame' = [frame EXCEPT !.length = length]
      /\ UNCHANGED device /\ Quiet

RxLenH(b) ==
  LET length == frame.length + 256 * b
  IN  /\ \/ /\ length > MaxData
            /\ Step("LEN_H", "IDLE") /\ frame' = Past(frame)
         \/ /\ length <= MaxData
            /\ Step("LEN_H", "SEQ") /\ frame' = [frame EXCEPT !.length = length]
      /\ UNCHANGED device /\ Quiet

RxSeq(b) ==
  /\ Step("SEQ", "CMD")
  /\ frame' = [frame EXCEPT !.seq = b]
  /\ UNCHANGED device /\ Quiet

\* Mutant: data_index is not reset.
RxCmdGoesOn(b) ==
  /\ Step("CMD", IF frame.length > 0 THEN "DATA" ELSE "CRC_L")
  /\ frame' = [frame EXCEPT !.cmd = b]
  /\ UNCHANGED device /\ Quiet

RxCmd(b) ==
  /\ Step("CMD", IF frame.length > 0 THEN "DATA" ELSE "CRC_L")
  /\ frame' = [frame EXCEPT !.cmd = b, !.data = <<>>]
  /\ UNCHANGED device /\ Quiet

\* Mutant: the index is compared before it is advanced.
RxDataLate(b) ==
  /\ Step("DATA", IF Len(frame.data) >= frame.length THEN "CRC_L" ELSE "DATA")
  /\ frame' = [frame EXCEPT !.data = Append(@, b)]
  /\ UNCHANGED device /\ Quiet

RxData(b) ==
  /\ Step("DATA", IF Len(frame.data) + 1 >= frame.length THEN "CRC_L" ELSE "DATA")
  /\ frame' = [frame EXCEPT !.data = Append(@, b)]
  /\ UNCHANGED device /\ Quiet

RxCrcL(b) ==
  /\ Step("CRC_L", "CRC_H")
  /\ frame' = [frame EXCEPT !.crc = b]
  /\ UNCHANGED device /\ Quiet

RxCrcH(b) ==
  /\ Step("CRC_H", "EOF")
  /\ frame' = [frame EXCEPT !.crc = @ + 256 * b]
  /\ UNCHANGED device /\ Quiet

RxEof(b) ==
  /\ Step("EOF", "IDLE")
  /\ frame' = Past(frame)
  /\ ProcessFrame(b)

ParseByte(b) ==
  \/ RxIdle(b) \/ RxLenL(b) \/ RxLenH(b) \/ RxSeq(b) \/ RxCmd(b)
  \/ RxData(b) \/ RxCrcL(b) \/ RxCrcH(b) \/ RxEof(b)

-----------------------------------------------------------------------------
(* The other tasks' calls.                                                 *)

\* A null handler brings the default one back.
RegisterHandler ==
  \E cmd \in Handled, kind \in HandlerKinds \cup {"none"} :
    /\ handlers' = [handlers EXCEPT ![cmd] = kind]
    /\ UNCHANGED <<parse, frame, device_state, config>> /\ Quiet

SetState ==
  \E s \in AppStates :
    /\ device_state' = s
    /\ UNCHANGED <<parse, frame, handlers, config>> /\ Quiet

Init ==
  /\ parse = "IDLE" /\ frame = NoFrame
  /\ tx_seq = 0
  /\ handlers = [cmd \in Handled |-> "none"]
  /\ device_state = "IDLE" /\ config = DefaultConfig
  /\ replies = <<>>

Receive == \E b \in Byte : ParseByte(b)

Next == Receive \/ RegisterHandler \/ SetState

Spec == Init /\ [][Next]_vars

\* The host goes on sending something.
FairSpec == Spec /\ WF_vars(Receive)

-----------------------------------------------------------------------------
(* Properties.                                                             *)

\* Type correctness.
TypeOK ==
  /\ parse \in ParseStates
  /\ frame \in [length : UInt16, seq : UInt8, cmd : UInt8,
                data : Seq(UInt8), crc : UInt16]
  /\ tx_seq \in 0..(SeqRange - 1)
  /\ handlers \in [Handled -> HandlerKinds \cup {"none"}]
  /\ device_state \in DeviceStates
  /\ config \in [url : Nat, volume : UInt8, configured : BOOLEAN]

\* Whatever bytes arrive, the parser writes data[data_index] inside the
\* array of USB_CMD_MAX_DATA bytes, and at process_frame it holds exactly the
\* number of data bytes that the length field announced.
DataInBounds ==
  /\ parse = "DATA" => Len(frame.data) < frame.length /\ frame.length <= MaxData
  /\ parse \in {"CRC_L", "CRC_H", "EOF"} =>
       Len(frame.data) = frame.length /\ frame.length <= MaxData

\* Whatever commands and noise came before, the next command finds a
\* configuration in range: a terminated URL, there exactly when CONNECT and
\* STATUS_RESP take the device for configured, and a volume the audio driver
\* accepts.  That is the parser task's view; a task that looks while a handler
\* runs sees less (UsbTasks).
ConfigInRange ==
  /\ config.volume <= 100
  /\ config.url < UrlSize
  /\ config.configured <=> config.url > 0

\* The device changes its configuration only on a whole frame that ends in
\* EOF and carries the CRC of its contents, and never without an answer.
OnlyGoodFramesAct ==
  [][config' # config =>
       /\ parse = "EOF" /\ Crc(Covered) = frame.crc
       /\ replies' = <<Ack>>]_vars

\* Noise cannot capture the parser: however a frame is cut short or garbled,
\* it hunts for a start of frame again after finitely many bytes.
ParserReturns == []<>(parse = "IDLE")

-----------------------------------------------------------------------------
(* The parser implements the frame layer.                                  *)

\* The bytes since SOF, as the parser's state and fields hold them.
Received ==
  LET len == <<frame.length % 256, frame.length \div 256>>
      crc == <<frame.crc % 256, frame.crc \div 256>>
  IN  CASE parse = "IDLE" -> <<>>
        [] parse = "LEN_L" -> <<SOF>>
        [] parse = "LEN_H" -> <<SOF, frame.length>>
        [] parse = "SEQ" -> <<SOF>> \o len
        [] parse = "CMD" -> <<SOF>> \o len \o <<frame.seq>>
        [] parse \in {"DATA", "CRC_L"} -> <<SOF>> \o Covered
        [] parse = "CRC_H" -> <<SOF>> \o Covered \o <<frame.crc>>
        [] parse = "EOF" -> <<SOF>> \o Covered \o crc

\* The last frame of the answer tells the verdict.
Answered ==
  IF replies = <<>> THEN [verdict |-> "none"]
  ELSE LET r == replies[Len(replies)]
       IN  [seq |-> r.seq,
            verdict |-> IF r.cmd = "NACK" /\ r.error = "INVALID_FRAME"
                        THEN "invalid_frame"
                        ELSE IF r.cmd = "NACK" /\ r.error = "CRC_FAILED"
                             THEN "crc_failed" ELSE "taken"]

Frames == INSTANCE UsbFrames WITH raw <- Received, answer <- Answered

\* The state machine of parse_byte, one byte at a time and with one set of
\* fields, takes exactly the frames of the layout, at their last byte, and
\* answers each one with the sequence number it carries, and nothing else.
ParsesFrames == Frames!Spec

=============================================================================
