---------------------------- MODULE UsbCmdProofs ----------------------------
(***************************************************************************)
(* Proofs about UsbCmd, for every set of bytes, every buffer and URL size, *)
(* every check function and every set of registered handlers: its types,   *)
(* bounds and actions, and that the parser implements the frame layer of   *)
(* UsbFrames.                                                              *)
(***************************************************************************)
EXTENDS UsbCmd, SequenceTheorems, TLAPS

\* The length is 0 until its bytes come, and the fields are in the range of the
\* bytes that have come.
FieldsInv ==
  /\ parse \in {"IDLE", "LEN_L"} => frame.length = 0
  /\ parse = "LEN_H" => frame.length < 256
  /\ parse \in {"SEQ", "CMD"} => frame.length <= MaxData
  /\ parse = "CRC_H" => frame.crc < 256

\* The types of the two parts of the state.
FrameOK ==
  /\ parse \in ParseStates
  /\ frame \in [length : UInt16, seq : UInt8, cmd : UInt8,
                data : Seq(UInt8), crc : UInt16]

DeviceOK ==
  /\ tx_seq \in 0..(SeqRange - 1)
  /\ handlers \in [Handled -> HandlerKinds \cup {"none"}]
  /\ device_state \in DeviceStates
  /\ config \in [url : Nat, volume : UInt8, configured : BOOLEAN]

-----------------------------------------------------------------------------
(* What carrying out and answering a frame leaves.                         *)

\* Any number of answers leaves the counter of frames in range.
LEMMA SendTyped ==
  ASSUME tx_seq \in 0..(SeqRange - 1), NEW n \in Nat, tx_seq' = (tx_seq + n) % SeqRange
  PROVE  tx_seq' \in 0..(SeqRange - 1)
  BY ConstantsAssumption DEF ConstantsAssumption

\* A refusal changes nothing but the counter.
LEMMA RefuseTyped ==
  ASSUME DeviceOK, ConfigInRange, NEW error, Refuse(error)
  PROVE  DeviceOK' /\ ConfigInRange' /\ UNCHANGED device
  <1>1. Len(<<Nack(error)>>) \in Nat
    OBVIOUS
  <1>2. tx_seq' \in 0..(SeqRange - 1)
    BY <1>1, SendTyped DEF Refuse, Send, DeviceOK
  <1> QED
    BY <1>2 DEF Refuse, DeviceOK, ConfigInRange, device

\* So does one answer, or two.
LEMMA AnswerTyped ==
  ASSUME DeviceOK,
         \/ \E m : Send(<<m>>)
         \/ \E m1, m2 : Send(<<m1, m2>>)
  PROVE  tx_seq' \in 0..(SeqRange - 1)
  <1>1. CASE \E m : Send(<<m>>)
    <2>1. PICK m : Send(<<m>>)
      BY <1>1
    <2>2. Len(<<m>>) \in Nat
      OBVIOUS
    <2> QED
      BY <2>1, <2>2, SendTyped DEF Send, DeviceOK
  <1>2. CASE \E m1, m2 : Send(<<m1, m2>>)
    <2>1. PICK m1, m2 : Send(<<m1, m2>>)
      BY <1>2
    <2>2. Len(<<m1, m2>>) \in Nat
      OBVIOUS
    <2> QED
      BY <2>1, <2>2, SendTyped DEF Send, DeviceOK
  <1> QED
    BY <1>1, <1>2

\* Every default handler keeps the configuration in range.
LEMMA DispatchSafe ==
  ASSUME FrameOK, DeviceOK, ConfigInRange, Len(frame.data) = frame.length, Dispatch
  PROVE  DeviceOK' /\ ConfigInRange'
  <1>1. CASE HandleConnectTo
    <2>1. CASE frame.length = 0 \/ frame.length >= UrlSize
      BY <1>1, <2>1, RefuseTyped DEF HandleConnectTo
    <2>2. CASE ~(frame.length = 0 \/ frame.length >= UrlSize)
      <3>1. /\ config' = [config EXCEPT !.url = frame.length, !.configured = TRUE]
            /\ Send(<<Ack>>)
            /\ UNCHANGED <<handlers, device_state>>
        BY <1>1, <2>2 DEF HandleConnectTo
      <3>2. frame.length \in Nat \ {0} /\ frame.length < UrlSize
        BY <2>2, ConstantsAssumption DEF FrameOK, UInt16, ConstantsAssumption
      <3>3. tx_seq' \in 0..(SeqRange - 1)
        BY <3>1, AnswerTyped
      <3>4. /\ config'.url = frame.length /\ config'.configured
            /\ config'.volume = config.volume
            /\ config' \in [url : Nat, volume : UInt8, configured : BOOLEAN]
        BY <3>1, <3>2 DEF DeviceOK
      <3> QED
        BY <3>1, <3>2, <3>3, <3>4 DEF DeviceOK, ConfigInRange
    <2> QED
      BY <2>1, <2>2
  <1>2. CASE HandleConnect
    <2>1. CASE ~config.configured
      BY <1>2, <2>1, RefuseTyped DEF HandleConnect
    <2>2. CASE config.configured
      BY <1>2, <2>2, AnswerTyped DEF HandleConnect, DeviceOK, ConfigInRange, DeviceStates
    <2> QED
      BY <2>1, <2>2
  <1>3. CASE HandleDisconnect
    BY <1>3, AnswerTyped DEF HandleDisconnect, DeviceOK, ConfigInRange, DeviceStates
  <1>4. CASE HandleSetVolume
    <2>1. CASE frame.length # 1 \/ frame.data[1] > 100
      BY <1>4, <2>1, RefuseTyped DEF HandleSetVolume
    <2>2. CASE ~(frame.length # 1 \/ frame.data[1] > 100)
      <3>1. /\ config' = [config EXCEPT !.volume = frame.data[1]]
            /\ Send(<<Ack>>)
            /\ UNCHANGED <<handlers, device_state>>
        BY <1>4, <2>2 DEF HandleSetVolume
      <3>2. frame.data[1] \in UInt8 /\ frame.data[1] <= 100
        <4>1. frame.data \in Seq(UInt8) /\ Len(frame.data) = 1
          BY <2>2 DEF FrameOK
        <4>2. frame.data[1] \in UInt8
          BY <4>1, ElementOfSeq
        <4> QED
          BY <2>2, <4>2 DEF UInt8
      <3> QED
        BY <3>1, <3>2, AnswerTyped DEF DeviceOK, ConfigInRange
    <2> QED
      BY <2>1, <2>2
  <1>5. CASE HandleStatus
    BY <1>5, AnswerTyped DEF HandleStatus, DeviceOK, ConfigInRange, device
  <1>6. CASE HandleShowConfig
    BY <1>6, AnswerTyped DEF HandleShowConfig, DeviceOK, ConfigInRange, device
  <1>7. CASE HandleReset
    <2>1. config' \in [url : Nat, volume : UInt8, configured : BOOLEAN]
      BY <1>7 DEF HandleReset, ZeroConfig, UInt8
    <2>2. ConfigInRange'
      BY <1>7, ConstantsAssumption
      DEF HandleReset, ZeroConfig, ConfigInRange, ConstantsAssumption
    <2> QED
      BY <1>7, <2>1, <2>2, AnswerTyped DEF HandleReset, DeviceOK, DeviceStates
  <1>8. CASE Refuse("UNKNOWN_CMD")
    BY <1>8, RefuseTyped
  <1> QED
    BY <1>1, <1>2, <1>3, <1>4, <1>5, <1>6, <1>7, <1>8 DEF Dispatch

\* So do the registered handlers, and so does the whole of process_frame.
LEMMA ProcessSafe ==
  ASSUME FrameOK, DeviceOK, ConfigInRange, Len(frame.data) = frame.length,
         NEW eof, ProcessFrame(eof)
  PROVE  DeviceOK' /\ ConfigInRange'
  <1>1. CASE Refuse("INVALID_FRAME") \/ Refuse("CRC_FAILED")
    BY <1>1, RefuseTyped
  <1>2. CASE Registered
    <2>1. UNCHANGED device
      BY <1>2 DEF Registered
    <2>2. tx_seq' \in 0..(SeqRange - 1)
      BY <1>2, AnswerTyped DEF Registered
    <2> QED
      BY <2>1, <2>2 DEF DeviceOK, ConfigInRange, device
  <1>3. CASE Dispatch
    BY <1>3, DispatchSafe
  <1> QED
    BY <1>1, <1>2, <1>3 DEF ProcessFrame

-----------------------------------------------------------------------------
(* The inductive invariant.                                                *)

UsbInv == TypeOK /\ FieldsInv /\ DataInBounds /\ ConfigInRange

FrameType == [length : UInt16, seq : UInt8, cmd : UInt8,
              data : Seq(UInt8), crc : UInt16]
ConfigType == [url : Nat, volume : UInt8, configured : BOOLEAN]

\* The initial records have their types.
LEMMA DefaultsTyped == NoFrame \in FrameType /\ DefaultConfig \in ConfigType
  <1>1. 0 \in UInt8 /\ 0 \in UInt16 /\ 50 \in UInt8
    BY DEF UInt8, UInt16
  <1> QED
    BY <1>1 DEF NoFrame, FrameType, DefaultConfig, ConfigType

\* What is left of a frame that is over has its type, and no length.
LEMMA PastTyped ==
  ASSUME NEW f \in FrameType
  PROVE  Past(f) \in FrameType /\ Past(f).length = 0
  <1>1. 0 \in UInt8 /\ 0 \in UInt16
    BY DEF UInt8, UInt16
  <1>2. Len(f.data) \in Nat
    BY DEF FrameType
  <1>3. [i \in 1..Len(f.data) |-> 0] \in Seq(UInt8)
    BY <1>1, <1>2, IsASeq
  <1> QED
    BY <1>1, <1>3 DEF Past, NoFrame, FrameType

\* The invariant holds when usb_cmd_init is done.
LEMMA UsbInvInit == Init => UsbInv
  <1> SUFFICES ASSUME Init PROVE UsbInv
    OBVIOUS
  <1>1. /\ parse = "IDLE" /\ frame = NoFrame /\ tx_seq = 0
        /\ handlers = [cmd \in Handled |-> "none"]
        /\ device_state = "IDLE" /\ config = DefaultConfig
    BY DEF Init
  <1>2. tx_seq \in 0..(SeqRange - 1)
    BY <1>1, ConstantsAssumption DEF ConstantsAssumption
  <1>3. TypeOK
    BY <1>1, <1>2, DefaultsTyped
    DEF TypeOK, FrameType, ConfigType, ParseStates, DeviceStates
  <1>4. FieldsInv /\ DataInBounds
    BY <1>1, ConstantsAssumption DEF FieldsInv, DataInBounds, NoFrame
  <1>5. ConfigInRange
    BY <1>1, ConstantsAssumption DEF ConfigInRange, DefaultConfig, ConstantsAssumption
  <1> QED
    BY <1>3, <1>4, <1>5 DEF UsbInv

\* A byte inside a frame moves the parser on and touches nothing else.
LEMMA CollectSafe ==
  ASSUME UsbInv, NEW b \in UInt8,
         \/ RxIdle(b) \/ RxLenL(b) \/ RxLenH(b) \/ RxSeq(b) \/ RxCmd(b)
         \/ RxData(b) \/ RxCrcL(b) \/ RxCrcH(b)
  PROVE  FrameOK' /\ FieldsInv' /\ DataInBounds' /\ UNCHANGED device /\ Quiet
  <1> USE DEF Step
  <1>1. /\ frame.length \in UInt16 /\ frame.seq \in UInt8 /\ frame.cmd \in UInt8
        /\ frame.data \in Seq(UInt8) /\ frame.crc \in UInt16
        /\ MaxData \in Nat
    BY ConstantsAssumption DEF UsbInv, TypeOK, ConstantsAssumption
  <1>2. UNCHANGED device /\ Quiet
    BY DEF RxIdle, RxLenL, RxLenH, RxSeq, RxCmd, RxData, RxCrcL, RxCrcH
  <1>3. CASE RxIdle(b)
    BY <1>3 DEF RxIdle, UsbInv, TypeOK, FrameOK, FieldsInv, DataInBounds, ParseStates
  <1>4. CASE RxLenL(b)
    <2>1. b \in UInt16 /\ b < 256
      BY DEF UInt8, UInt16
    <2> QED
      BY <1>4, <2>1 DEF RxLenL, UsbInv, TypeOK, FrameOK, FieldsInv, DataInBounds, ParseStates
  <1>5. CASE RxLenH(b)
    <2>1. frame.length + 256 * b \in UInt16
      BY <1>1, <1>5 DEF RxLenH, UsbInv, FieldsInv, UInt8, UInt16
    <2>2. CASE frame.length + 256 * b > MaxData
      <3>1. parse' = "IDLE" /\ frame' = Past(frame)
        BY <1>1, <1>5, <2>1, <2>2 DEF RxLenH, UInt16
      <3>2. frame' \in FrameType /\ frame'.length = 0
        BY <3>1, PastTyped DEF UsbInv, TypeOK, FrameType
      <3> QED
        BY <1>2, <3>1, <3>2 DEF FrameOK, ParseStates, FrameType, FieldsInv, DataInBounds
    <2>3. CASE frame.length + 256 * b <= MaxData
      <3>1. /\ parse = "LEN_H" /\ parse' = "SEQ"
            /\ frame' = [frame EXCEPT !.length = frame.length + 256 * b]
        BY <1>1, <1>5, <2>1, <2>3 DEF RxLenH, UInt16
      <3>2. frame'.length = frame.length + 256 * b /\ frame'.data = frame.data
        BY <3>1 DEF UsbInv, TypeOK
      <3>3. FrameOK'
        BY <3>1, <2>1 DEF UsbInv, TypeOK, FrameOK, ParseStates
      <3>4. frame'.length <= MaxData
        BY <3>2, <2>3
      <3> QED
        BY <1>2, <3>1, <3>3, <3>4 DEF FieldsInv, DataInBounds
    <2> QED
      BY <1>1, <2>1, <2>2, <2>3 DEF UInt16
  <1>6. CASE RxSeq(b)
    BY <1>6 DEF RxSeq, UsbInv, TypeOK, FrameOK, FieldsInv, DataInBounds, ParseStates
  <1>7. CASE RxCmd(b)
    <2>1. /\ parse = "CMD" /\ parse' = IF frame.length > 0 THEN "DATA" ELSE "CRC_L"
          /\ frame' = [frame EXCEPT !.cmd = b, !.data = <<>>]
      BY <1>7 DEF RxCmd
    <2>2. <<>> \in Seq(UInt8) /\ Len(<<>>) = 0
      OBVIOUS
    <2>3. FrameOK' /\ frame'.length = frame.length /\ Len(frame'.data) = 0
      BY <2>1, <2>2 DEF UsbInv, TypeOK, FrameOK, ParseStates
    <2>4. frame.length <= MaxData /\ frame.length \in Nat
      BY <1>1, <2>1 DEF UsbInv, FieldsInv, UInt16
    <2> QED
      BY <1>2, <2>1, <2>3, <2>4 DEF FieldsInv, DataInBounds
  <1>8. CASE RxData(b)
    <2>1. /\ parse = "DATA"
          /\ parse' = IF Len(frame.data) + 1 >= frame.length THEN "CRC_L" ELSE "DATA"
          /\ frame' = [frame EXCEPT !.data = Append(@, b)]
      BY <1>8 DEF RxData
    <2>2. /\ frame'.data = Append(frame.data, b) /\ frame'.length = frame.length
          /\ Len(frame'.data) = Len(frame.data) + 1
          /\ frame'.data \in Seq(UInt8)
      BY <2>1, <1>1 DEF UsbInv, TypeOK
    <2>3. Len(frame.data) < frame.length /\ frame.length <= MaxData
      BY <2>1 DEF UsbInv, DataInBounds
    <2>4. FrameOK'
      BY <2>1, <2>2 DEF UsbInv, TypeOK, FrameOK, ParseStates
    <2>5. Len(frame.data) \in Nat
      BY <1>1
    <2>6. frame.length \in Nat
      BY <1>1 DEF UInt16
    <2>7. FieldsInv'
      BY <2>1 DEF FieldsInv
    <2>8. DataInBounds'
      <3>1. CASE Len(frame.data) + 1 >= frame.length
        <4>1. Len(frame'.data) = frame'.length /\ frame'.length <= MaxData
          BY <3>1, <2>2, <2>3, <2>5, <2>6
        <4> QED
          BY <3>1, <2>1, <4>1 DEF DataInBounds
      <3>2. CASE ~(Len(frame.data) + 1 >= frame.length)
        <4>1. Len(frame'.data) < frame'.length /\ frame'.length <= MaxData
          BY <3>2, <2>2, <2>3, <2>5, <2>6
        <4> QED
          BY <3>2, <2>1, <4>1 DEF DataInBounds
      <3> QED
        BY <3>1, <3>2
    <2> QED
      BY <1>2, <2>4, <2>7, <2>8
  <1>9. CASE RxCrcL(b)
    <2>1. b \in UInt16 /\ b < 256
      BY DEF UInt8, UInt16
    <2> QED
      BY <1>9, <2>1 DEF RxCrcL, UsbInv, TypeOK, FrameOK, FieldsInv, DataInBounds, ParseStates
  <1>10. CASE RxCrcH(b)
    <2>1. frame.crc + 256 * b \in UInt16
      BY <1>1, <1>10 DEF RxCrcH, UsbInv, FieldsInv, UInt8, UInt16
    <2> QED
      BY <1>10, <2>1 DEF RxCrcH, UsbInv, TypeOK, FrameOK, FieldsInv, DataInBounds, ParseStates
  <1> QED
    BY <1>2, <1>3, <1>4, <1>5, <1>6, <1>7, <1>8, <1>9, <1>10

\* The last byte resets the parser and has the frame carried out.
LEMMA EofSafe ==
  ASSUME UsbInv, NEW b \in UInt8, RxEof(b)
  PROVE  FrameOK' /\ FieldsInv' /\ DataInBounds' /\ DeviceOK' /\ ConfigInRange'
  <1>1. parse = "EOF" /\ parse' = "IDLE" /\ frame' = Past(frame) /\ ProcessFrame(b)
    BY DEF RxEof, Step
  <1>2. Len(frame.data) = frame.length
    BY <1>1 DEF UsbInv, DataInBounds
  <1>3. FrameOK /\ DeviceOK /\ ConfigInRange
    BY DEF UsbInv, TypeOK, FrameOK, DeviceOK
  <1>4. DeviceOK' /\ ConfigInRange'
    BY <1>1, <1>2, <1>3, ProcessSafe
  <1>5. frame' \in FrameType /\ frame'.length = 0
    BY <1>1, PastTyped DEF UsbInv, TypeOK, FrameType
  <1> QED
    BY <1>1, <1>4, <1>5 DEF FrameOK, ParseStates, FrameType, FieldsInv, DataInBounds

\* A byte received, or a call of another task preserves it.
LEMMA UsbInvStep == UsbInv /\ [Next]_vars => UsbInv'
  <1> SUFFICES ASSUME UsbInv, [Next]_vars PROVE UsbInv'
    OBVIOUS
  <1>0. FrameOK /\ DeviceOK /\ FieldsInv /\ DataInBounds /\ ConfigInRange
    BY DEF UsbInv, TypeOK, FrameOK, DeviceOK
  <1> SUFFICES /\ FrameOK' /\ DeviceOK' /\ FieldsInv' /\ DataInBounds'
               /\ ConfigInRange'
    BY DEF UsbInv, TypeOK, FrameOK, DeviceOK
  <1>1. ASSUME NEW b \in Byte, ParseByte(b)
        PROVE  /\ FrameOK' /\ DeviceOK' /\ FieldsInv' /\ DataInBounds'
               /\ ConfigInRange'
    <2>1. b \in UInt8
      BY ConstantsAssumption DEF ConstantsAssumption
    <2>2. CASE RxEof(b)
      BY <2>1, <2>2, EofSafe
    <2>3. CASE ~RxEof(b)
      <3>1. \/ RxIdle(b) \/ RxLenL(b) \/ RxLenH(b) \/ RxSeq(b) \/ RxCmd(b)
            \/ RxData(b) \/ RxCrcL(b) \/ RxCrcH(b)
        BY <1>1, <2>3 DEF ParseByte
      <3>2. FrameOK' /\ FieldsInv' /\ DataInBounds' /\ UNCHANGED device /\ Quiet
        BY <2>1, <3>1, CollectSafe
      <3> QED
        BY <1>0, <3>2 DEF device, Quiet, DeviceOK, ConfigInRange
    <2> QED
      BY <2>2, <2>3
  <1>2. CASE RegisterHandler
    BY <1>0, <1>2 DEF RegisterHandler, Quiet, FrameOK, DeviceOK, FieldsInv, DataInBounds,
                      ConfigInRange
  <1>3. CASE SetState
    BY <1>0, <1>3, ConstantsAssumption
    DEF SetState, Quiet, FrameOK, DeviceOK, FieldsInv, DataInBounds, ConfigInRange,
        ConstantsAssumption
  <1>4. CASE UNCHANGED vars
    BY <1>0, <1>4 DEF vars, device, FrameOK, DeviceOK, FieldsInv, DataInBounds,
                      ConfigInRange
  <1> QED
    BY <1>1, <1>2, <1>3, <1>4 DEF Next, Receive

\* Behind the three theorems that follow.
LEMMA UsbInvariant == Spec => []UsbInv
  BY UsbInvInit, UsbInvStep, PTL DEF Spec

-----------------------------------------------------------------------------
(* Theorems.                                                               *)

\* Every field of the parser and of the device stays in the range of its C
\* type: the shifts of parse_byte lose no bits and tx_seq wraps.
THEOREM UsbTyping == Spec => []TypeOK
  <1>1. UsbInv => TypeOK
    BY DEF UsbInv
  <1> QED
    BY <1>1, UsbInvariant, PTL

\* parse_byte never writes past data[USB_CMD_MAX_DATA], whatever is received
\* and however often it is cut short; the CRC is computed over bytes that were
\* all received.
THEOREM ParserStaysInBounds == Spec => []DataInBounds
  <1>1. UsbInv => DataInBounds
    BY DEF UsbInv
  <1> QED
    BY <1>1, UsbInvariant, PTL

\* No sequence of frames, good or bad, brings the configuration out of range,
\* whichever commands the application has taken over.
THEOREM ConfigStaysInRange == Spec => []ConfigInRange
  <1>1. UsbInv => ConfigInRange
    BY DEF UsbInv
  <1> QED
    BY <1>1, UsbInvariant, PTL

\* handle_connect_to, handle_set_volume and handle_reset run only behind both
\* checks of process_frame, and acknowledge what they change.
THEOREM OnlyCheckedFramesAct == Spec => OnlyGoodFramesAct
  <1> DEFINE Guarded == config' # config =>
                          /\ parse = "EOF" /\ Crc(Covered) = frame.crc
                          /\ replies' = <<Ack>>
  <1>1. ASSUME [Next]_vars PROVE [Guarded]_vars
    <2>1. CASE RegisterHandler \/ SetState \/ UNCHANGED vars
      BY <2>1 DEF RegisterHandler, SetState, vars, device
    <2>2. ASSUME NEW b \in Byte, ParseByte(b) PROVE Guarded
      <3>1. CASE RxEof(b)
        <4>1. parse = "EOF" /\ ProcessFrame(b)
          BY <3>1 DEF RxEof, Step
        <4>2. CASE Refuse("INVALID_FRAME") \/ Refuse("CRC_FAILED")
          BY <4>2 DEF Refuse, device
        <4>3. CASE Crc(Covered) = frame.crc /\ Registered
          BY <4>3 DEF Registered, device
        <4>4. CASE Crc(Covered) = frame.crc /\ Dispatch
          BY <4>1, <4>4
          DEF Dispatch, HandleConnectTo, HandleConnect, HandleDisconnect, HandleSetVolume,
              HandleStatus, HandleShowConfig, HandleReset, Refuse, Send, device
        <4> QED
          BY <4>1, <4>2, <4>3, <4>4 DEF ProcessFrame
      <3>2. CASE ~RxEof(b)
        BY <2>2, <3>2
        DEF ParseByte, RxIdle, RxLenL, RxLenH, RxSeq, RxCmd, RxData, RxCrcL, RxCrcH, device
      <3> QED
        BY <3>1, <3>2
    <2> QED
      BY <1>1, <2>1, <2>2 DEF Next, Receive
  <1> QED
    BY <1>1, PTL DEF Spec, OnlyGoodFramesAct

-----------------------------------------------------------------------------
(* Sequences.                                                              *)

\* Appending after a concatenation appends to its second part.
LEMMA AppendConcat ==
  ASSUME NEW S, NEW s \in Seq(S), NEW t \in Seq(S), NEW e \in S
  PROVE  Append(s \o t, e) = s \o Append(t, e)
OBVIOUS

\* Three bytes, put together in two ways.
LEMMA ThreeBytes ==
  ASSUME NEW S, NEW x \in S, NEW y \in S, NEW z \in S
  PROVE  /\ Append(<<x, y>>, z) = <<x>> \o <<y, z>>
         /\ Len(<<x>> \o <<y, z>>) = 3
         /\ (<<x>> \o <<y, z>>)[2] = y /\ (<<x>> \o <<y, z>>)[3] = z
  <1> DEFINE a == Append(<<x, y>>, z)
             b == <<x>> \o <<y, z>>
  <1>1. a = b
    <2>1. /\ <<x>> \in Seq(S) /\ <<x, y>> \in Seq(S) /\ <<y, z>> \in Seq(S)
      OBVIOUS
    <2>2. a \in Seq(S) /\ b \in Seq(S)
      BY <2>1
    <2>3. Len(a) = 3
      OBVIOUS
    <2>4. Len(b) = 3
      OBVIOUS
    <2>5. ASSUME NEW i \in 1..3 PROVE a[i] = b[i]
      <3>1. CASE i = 1
        BY <3>1
      <3>2. CASE i = 2
        BY <3>2
      <3>3. CASE i = 3
        BY <3>3
      <3> QED
        BY <3>1, <3>2, <3>3
    <2> HIDE DEF a, b
    <2> QED
      BY <2>2, <2>3, <2>4, <2>5, SeqEqual
  <1>2. Len(b) = 3
    OBVIOUS
  <1>3. (<<x>> \o <<y, z>>)[2] = y /\ (<<x>> \o <<y, z>>)[3] = z
    OBVIOUS
  <1> QED
    BY <1>1, <1>2, <1>3

\* The first bytes of a concatenation are those of its first part.
LEMMA ConcatFront ==
  ASSUME NEW h \in Seq(UInt8), NEW d \in Seq(UInt8), Len(h) >= 4
  PROVE  /\ h \o d \in Seq(UInt8) /\ Len(h \o d) = Len(h) + Len(d)
         /\ (h \o d)[1] = h[1] /\ (h \o d)[2] = h[2]
         /\ (h \o d)[3] = h[3] /\ (h \o d)[4] = h[4]
  BY ConcatProperties

\* A start of frame in front moves the first bytes by one.
LEMMA SofFront ==
  ASSUME NEW c \in Seq(UInt8), Len(c) >= 4, NEW sof \in UInt8
  PROVE  /\ <<sof>> \o c \in Seq(UInt8) /\ Len(<<sof>> \o c) = Len(c) + 1
         /\ (<<sof>> \o c)[2] = c[1] /\ (<<sof>> \o c)[3] = c[2] /\ (<<sof>> \o c)[4] = c[3]
  OBVIOUS

\* Where the parts of a whole frame are: its covered bytes, CRC and EOF.
LEMMA Layout ==
  ASSUME NEW c \in Seq(UInt8), NEW x \in UInt8, NEW y \in UInt8, NEW b \in UInt8,
         NEW sof \in UInt8, NEW full, full = Append((<<sof>> \o c) \o <<x, y>>, b)
  PROVE  /\ Len(full) = Len(c) + 4
         /\ \A i \in 1..Len(c) : full[i + 1] = c[i]
         /\ full[Len(full) - 2] = x /\ full[Len(full) - 1] = y
         /\ full[Len(full)] = b
         /\ SubSeq(full, 2, Len(full) - 3) = c
  <1>1. <<sof>> \o c \in Seq(UInt8) /\ Len(<<sof>> \o c) = Len(c) + 1
    OBVIOUS
  <1>2. \A i \in 1..Len(c) : (<<sof>> \o c)[i + 1] = c[i]
    OBVIOUS
  <1> QED
    OBVIOUS

\* A 16-bit field is its low byte and its high byte.
LEMMA TwoBytes ==
  ASSUME NEW n \in UInt16
  PROVE  /\ n % 256 \in UInt8 /\ n \div 256 \in UInt8
         /\ (n % 256) + 256 * (n \div 256) = n
BY DEF UInt8, UInt16

\* Dividing a 16-bit field gives back the bytes it was put together from.
LEMMA LowHigh ==
  ASSUME NEW low \in UInt8, NEW high \in UInt8
  PROVE  (low + 256 * high) % 256 = low /\ (low + 256 * high) \div 256 = high
BY DEF UInt8

-----------------------------------------------------------------------------
(* What the parser holds of a frame.                                       *)

Header == <<frame.length % 256, frame.length \div 256, frame.seq, frame.cmd>>

\* The types of the fields, one by one.
LEMMA FieldTypes ==
  ASSUME FrameOK
  PROVE  /\ frame.length \in UInt16 /\ frame.seq \in UInt8 /\ frame.cmd \in UInt8
         /\ frame.data \in Seq(UInt8) /\ frame.crc \in UInt16
         /\ Header \in Seq(UInt8) /\ Len(Header) = 4
         /\ Covered \in Seq(UInt8)
         /\ Len(Covered) = 4 + Len(frame.data)
         /\ Covered[1] + 256 * Covered[2] = frame.length
         /\ Covered[3] = frame.seq
  <1>1. /\ frame.length \in UInt16 /\ frame.seq \in UInt8 /\ frame.cmd \in UInt8
        /\ frame.data \in Seq(UInt8) /\ frame.crc \in UInt16
    BY DEF FrameOK
  <1>2. /\ frame.length % 256 \in UInt8 /\ frame.length \div 256 \in UInt8
        /\ (frame.length % 256) + 256 * (frame.length \div 256) = frame.length
    BY <1>1, TwoBytes
  <1>3. Header \in Seq(UInt8) /\ Len(Header) = 4
    BY <1>1, <1>2 DEF Header
  <1>4. Covered = Header \o frame.data
    BY DEF Covered, Header
  <1>5. /\ Covered \in Seq(UInt8) /\ Len(Covered) = 4 + Len(frame.data)
        /\ Covered[1] = Header[1] /\ Covered[2] = Header[2] /\ Covered[3] = Header[3]
    <2> DEFINE h == Header
               d == frame.data
    <2>1. h \in Seq(UInt8) /\ Len(h) = 4 /\ d \in Seq(UInt8) /\ Covered = h \o d
      BY <1>1, <1>3, <1>4
    <2> HIDE DEF h, d
    <2>2. Len(h) >= 4
      BY <2>1
    <2>3. /\ h \o d \in Seq(UInt8) /\ Len(h \o d) = Len(h) + Len(d)
          /\ (h \o d)[1] = h[1] /\ (h \o d)[2] = h[2]
          /\ (h \o d)[3] = h[3] /\ (h \o d)[4] = h[4]
      <3>1. h \in Seq(UInt8) /\ d \in Seq(UInt8)
        BY <2>1
      <3> QED
        BY <3>1, <2>2, ConcatFront
    <2> QED
      BY <2>1, <2>3 DEF h, d
  <1>6. Header[1] = frame.length % 256 /\ Header[2] = frame.length \div 256
        /\ Header[3] = frame.seq
    BY DEF Header
  <1> QED
    BY <1>1, <1>2, <1>3, <1>5, <1>6

\* Received, state by state.
LEMMA ReceivedCases ==
  LET len == <<frame.length % 256, frame.length \div 256>>
      crc == <<frame.crc % 256, frame.crc \div 256>>
  IN  /\ parse = "IDLE" => Received = <<>>
      /\ parse = "LEN_L" => Received = <<SOF>>
      /\ parse = "LEN_H" => Received = <<SOF, frame.length>>
      /\ parse = "SEQ" => Received = <<SOF>> \o len
      /\ parse = "CMD" => Received = <<SOF>> \o len \o <<frame.seq>>
      /\ parse \in {"DATA", "CRC_L"} => Received = <<SOF>> \o Covered
      /\ parse = "CRC_H" => Received = <<SOF>> \o Covered \o <<frame.crc>>
      /\ parse = "EOF" => Received = <<SOF>> \o Covered \o crc
  BY DEF Received

\* While the frame is incomplete, a byte is appended to what was received.
LEMMA StartStep ==
  ASSUME UsbInv, NEW b \in UInt8, RxLenL(b) \/ RxSeq(b) \/ RxCmd(b)
  PROVE  /\ Received' = Append(Received, b)
         /\ Received # <<>> /\ Len(Received') \in {2, 4, 5}
  <1> USE DEF Step
  <1>0. FrameOK /\ FieldsInv
    BY DEF UsbInv, TypeOK, FrameOK
  <1>1. CASE RxLenL(b)
    <2>1. parse = "LEN_L" /\ parse' = "LEN_H" /\ frame'.length = b
      BY <1>0, <1>1 DEF RxLenL, FrameOK
    <2>2. Received = <<SOF>> /\ Received' = <<SOF, b>>
      BY <2>1, ReceivedCases DEF Received
    <2> QED
      BY <2>2
  <1>2. CASE RxSeq(b)
    <2>1. /\ parse = "SEQ" /\ parse' = "CMD"
          /\ frame'.seq = b /\ frame'.length = frame.length
      BY <1>0, <1>2 DEF RxSeq, FrameOK
    <2> DEFINE len == <<frame.length % 256, frame.length \div 256>>
    <2>2. Received = <<SOF>> \o len /\ Received' = <<SOF>> \o len \o <<b>>
      BY <2>1 DEF Received
    <2> QED
      BY <2>2
  <1>3. CASE RxCmd(b)
    <2>1. /\ parse = "CMD" /\ parse' \in {"DATA", "CRC_L"}
          /\ frame'.cmd = b /\ frame'.seq = frame.seq /\ frame'.length = frame.length
          /\ frame'.data = <<>>
      BY <1>0, <1>3 DEF RxCmd, FrameOK, FieldsInv
    <2> DEFINE len == <<frame.length % 256, frame.length \div 256>>
    <2>2. Received = <<SOF>> \o len \o <<frame.seq>>
      BY <2>1 DEF Received
    <2>3. Received' = <<SOF>> \o (<<frame.length % 256, frame.length \div 256, frame.seq, b>>
                                  \o <<>>)
      BY <2>1 DEF Received, Covered
    <2> QED
      BY <2>2, <2>3
  <1> QED
    BY <1>1, <1>2, <1>3

\* In the states after the length, too, a byte is appended to what was
\* received.
LEMMA BodyStep ==
  ASSUME UsbInv, NEW b \in UInt8, RxData(b) \/ RxCrcL(b) \/ RxCrcH(b)
  PROVE  /\ Received' = Append(Received, b)
         /\ Received \in Seq(UInt8) /\ Len(Received) \in 5..(frame.length + 6)
         /\ Received[2] + 256 * Received[3] = frame.length
  <1> USE DEF Step
  <1>0. FrameOK /\ FieldsInv /\ DataInBounds
    BY DEF UsbInv, TypeOK, FrameOK
  <1> DEFINE c == Covered
             n == Len(frame.data)
             sc == <<SOF>> \o c
  <1>1. /\ c \in Seq(UInt8) /\ Len(c) = 4 + n /\ frame.data \in Seq(UInt8)
        /\ c[1] + 256 * c[2] = frame.length /\ frame.length \in Nat
        /\ Header \in Seq(UInt8)
    BY <1>0, FieldTypes DEF UInt16
  <1>2. n \in Nat
    BY <1>1
  <1>3. SOF \in UInt8
    BY DEF SOF, UInt8
  <1>4. /\ sc \in Seq(UInt8) /\ Len(sc) = n + 5
        /\ sc[2] + 256 * sc[3] = frame.length
    <2> HIDE DEF c, n
    <2>1. Len(c) >= 4
      BY <1>1, <1>2
    <2>2. /\ sc \in Seq(UInt8) /\ Len(sc) = Len(c) + 1 /\ sc[2] = c[1] /\ sc[3] = c[2]
      BY <1>1, <1>3, <2>1, SofFront
    <2> HIDE DEF sc
    <2> QED
      BY <1>1, <1>2, <2>2
  <1>5. CASE RxData(b)
    <2>1. /\ parse = "DATA" /\ parse' \in {"DATA", "CRC_L"}
          /\ frame'.data = Append(frame.data, b) /\ frame'.length = frame.length
          /\ frame'.seq = frame.seq /\ frame'.cmd = frame.cmd
          /\ n < frame.length
      BY <1>0, <1>5 DEF RxData, FrameOK, DataInBounds
    <2>2. Covered' = Append(c, b)
      <3>1. Covered' = Header \o Append(frame.data, b) /\ c = Header \o frame.data
        BY <2>1 DEF Covered, Header
      <3> QED
        BY SMTT(20), <3>1, <1>1, AppendConcat
    <2>3. Received = sc /\ Received' = <<SOF>> \o Append(c, b)
      BY <2>1, <2>2 DEF Received
    <2>4. <<SOF>> \o Append(c, b) = Append(sc, b)
      <3>1. <<SOF>> \in Seq(UInt8)
        BY <1>3
      <3> HIDE DEF c
      <3> QED
        BY SMTT(20), <3>1, <1>1, AppendConcat
    <2> HIDE DEF c, n, sc
    <2> QED
      BY SMTT(20), <1>1, <1>2, <1>4, <2>1, <2>3, <2>4
  <1>6. CASE RxCrcL(b)
    <2>1. /\ parse = "CRC_L" /\ parse' = "CRC_H" /\ frame'.crc = b
          /\ frame'.data = frame.data /\ frame'.length = frame.length
          /\ frame'.seq = frame.seq /\ frame'.cmd = frame.cmd
          /\ n = frame.length
      BY <1>0, <1>6 DEF RxCrcL, FrameOK, DataInBounds
    <2>2. Received = sc /\ Received' = sc \o <<b>>
      BY <2>1 DEF Received, Covered
    <2> HIDE DEF c, n, sc
    <2>3. sc \o <<b>> = Append(sc, b)
      BY <1>4, AppendIsConcat
    <2> QED
      BY <1>1, <1>2, <1>4, <2>1, <2>2, <2>3
  <1>7. CASE RxCrcH(b)
    <2>1. /\ parse = "CRC_H" /\ parse' = "EOF" /\ frame'.crc = frame.crc + 256 * b
          /\ frame'.data = frame.data /\ frame'.length = frame.length
          /\ frame'.seq = frame.seq /\ frame'.cmd = frame.cmd
          /\ n = frame.length
      BY <1>0, <1>7 DEF RxCrcH, FrameOK, DataInBounds
    <2> DEFINE x == frame.crc
    <2>2. x \in UInt8
      BY <1>0, <2>1, FieldTypes DEF FieldsInv, UInt8, UInt16
    <2>3. frame'.crc % 256 = x /\ frame'.crc \div 256 = b
      BY <2>1, <2>2, LowHigh
    <2>4. Received = sc \o <<x>> /\ Received' = sc \o <<x, b>>
      BY ZenonT(30), <2>1, <2>3 DEF Received, Covered
    <2> HIDE DEF c, n, x, sc
    <2>5. <<x>> \in Seq(UInt8) /\ Len(<<x>>) = 1 /\ <<x, b>> = Append(<<x>>, b)
      BY <2>2
    <2>6. sc \o <<x, b>> = Append(sc \o <<x>>, b)
      BY <1>4, <2>5, AppendConcat
    <2>7. Len(sc) >= 4
      BY <1>2, <1>4
    <2>8. /\ sc \o <<x>> \in Seq(UInt8) /\ Len(sc \o <<x>>) = n + 6
          /\ (sc \o <<x>>)[2] = sc[2] /\ (sc \o <<x>>)[3] = sc[3]
      BY <1>2, <1>4, <2>5, <2>7, ConcatFront
    <2> DEFINE scx == sc \o <<x>>
    <2> HIDE DEF scx
    <2>9. /\ Received = scx /\ Received' = Append(scx, b)
          /\ scx \in Seq(UInt8) /\ Len(scx) = n + 6
          /\ scx[2] = sc[2] /\ scx[3] = sc[3]
      BY <2>4, <2>6, <2>8 DEF scx
    <2>10. scx[2] + 256 * scx[3] = frame.length
      BY <1>4, <2>9
    <2>11. Len(scx) \in 5..(frame.length + 6)
      <3>1. n = frame.length
        BY <2>1
      <3> QED
        BY <1>2, <2>9, <3>1
    <2> QED
      BY <2>9, <2>10, <2>11
  <1> QED
    BY <1>5, <1>6, <1>7

-----------------------------------------------------------------------------
(* The verdict.                                                            *)

\* What the last frame of an answer says.
VerdictOf(r) ==
  [seq |-> r.seq,
   verdict |-> IF r.cmd = "NACK" /\ r.error = "INVALID_FRAME" THEN "invalid_frame"
               ELSE IF r.cmd = "NACK" /\ r.error = "CRC_FAILED" THEN "crc_failed"
               ELSE "taken"]

\* The last answer is the one the frame layer sees.
LEMMA LastReply ==
  ASSUME NEW m, replies' = <<m>> \/ \E first : replies' = <<first, m>>
  PROVE  Answered' = VerdictOf(m)
  <1>1. replies' # <<>> /\ replies'[Len(replies')] = m
    OBVIOUS
  <1> QED
    BY <1>1 DEF Answered, VerdictOf

\* process_frame answers each frame once the way the frame layer asks for.
LEMMA VerdictGiven ==
  ASSUME NEW b, ProcessFrame(b)
  PROVE  Answered' = [seq |-> frame.seq,
                      verdict |-> IF b # EOF THEN "invalid_frame"
                                  ELSE IF Crc(Covered) # frame.crc THEN "crc_failed"
                                  ELSE "taken"]
  <1> DEFINE Taken == [seq |-> frame.seq, verdict |-> "taken"]
  <1>1. ASSUME NEW error, Refuse(error)
        PROVE  Answered' = VerdictOf(Nack(error))
    BY <1>1, LastReply DEF Refuse, Send
  <1>2. /\ VerdictOf(Nack("INVALID_FRAME")) = [seq |-> frame.seq, verdict |-> "invalid_frame"]
        /\ VerdictOf(Nack("CRC_FAILED")) = [seq |-> frame.seq, verdict |-> "crc_failed"]
        /\ VerdictOf(Nack("INVALID_PARAM")) = Taken
        /\ VerdictOf(Nack("UNKNOWN_CMD")) = Taken
        /\ VerdictOf(Ack) = Taken /\ VerdictOf(StatusResp) = Taken
    BY DEF VerdictOf, Nack, Ack, StatusResp
  <1>3. ASSUME Send(<<Ack>>) \/ Send(<<StatusResp>>) \/ Send(<<Nack("INVALID_PARAM")>>)
               \/ Send(<<OwnReply, Nack("INVALID_PARAM")>>) \/ Send(<<OwnReply, Ack>>)
        PROVE  Answered' = Taken
    BY <1>2, <1>3, LastReply DEF Send
  <1>4. ASSUME Registered PROVE Answered' = Taken
    BY <1>3, <1>4 DEF Registered
  <1>5. ASSUME Dispatch PROVE Answered' = Taken
    <2>1. CASE Refuse("INVALID_PARAM") \/ Refuse("UNKNOWN_CMD")
      BY <1>1, <1>2, <2>1
    <2>2. CASE Send(<<Ack>>) \/ Send(<<StatusResp>>)
      BY <1>3, <2>2
    <2> QED
      BY <1>5, <2>1, <2>2
      DEF Dispatch, HandleConnectTo, HandleConnect, HandleDisconnect, HandleSetVolume,
          HandleStatus, HandleShowConfig, HandleReset
  <1>6. CASE b # EOF
    BY <1>1, <1>2, <1>6 DEF ProcessFrame
  <1>7. CASE b = EOF /\ Crc(Covered) # frame.crc
    BY <1>1, <1>2, <1>7 DEF ProcessFrame
  <1>8. CASE b = EOF /\ Crc(Covered) = frame.crc
    BY <1>4, <1>5, <1>8 DEF ProcessFrame
  <1> QED
    BY <1>6, <1>7, <1>8

-----------------------------------------------------------------------------
(* The steps.                                                              *)

\* A step that sends nothing gives no verdict.
LEMMA QuietAnswer == ASSUME Quiet PROVE Answered' = Frames!NoAnswer
  BY DEF Quiet, Answered, Frames!NoAnswer

\* Any step that is not a byte received.
LEMMA RestStep ==
  ASSUME UNCHANGED <<parse, frame>>, Quiet
  PROVE  Frames!Rest
  <1>1. Received' = Received
    BY DEF Received, Covered
  <1> QED
    BY <1>1, QuietAnswer DEF Frames!Rest

\* In IDLE the parser hunts for a start of frame.
LEMMA HuntStep ==
  ASSUME UsbInv, NEW b \in UInt8, RxIdle(b)
  PROVE  Frames!Hunt(b)
  <1>1. parse = "IDLE" /\ parse' = (IF b = SOF THEN "LEN_L" ELSE "IDLE") /\ Quiet
    BY DEF RxIdle, Step
  <1>2. Received = <<>> /\ Received' = IF b = SOF THEN <<SOF>> ELSE <<>>
    BY <1>1 DEF Received
  <1> QED
    BY <1>1, <1>2, QuietAnswer DEF Frames!Hunt, SOF

\* The first byte of the length, the sequence number and the command are
\* collected.
LEMMA StartCollects ==
  ASSUME UsbInv, NEW b \in UInt8, RxLenL(b) \/ RxSeq(b) \/ RxCmd(b)
  PROVE  Frames!Collect(b)
  <1>1. /\ Received' = Append(Received, b) /\ Received # <<>>
        /\ Len(Append(Received, b)) \in {2, 4, 5}
    BY StartStep
  <1>2. Answered' = Frames!NoAnswer
    BY QuietAnswer DEF RxLenL, RxSeq, RxCmd
  <1>3. ~Frames!Complete(Append(Received, b)) /\ ~Frames!TooLong(Append(Received, b))
    BY <1>1 DEF Frames!Complete, Frames!TooLong
  <1> QED
    BY <1>1, <1>2, <1>3 DEF Frames!Collect

\* So is the second byte of the length, and a length beyond the buffer gives
\* the frame up.
LEMMA LengthCollects ==
  ASSUME UsbInv, NEW b \in UInt8, RxLenH(b)
  PROVE  Frames!Collect(b)
  <1> DEFINE length == frame.length + 256 * b
             full == <<SOF>> \o <<frame.length, b>>
  <1>0. frame.length \in UInt8
    BY DEF RxLenH, Step, UsbInv, TypeOK, FieldsInv, UInt8, UInt16
  <1>1. parse = "LEN_H" /\ Received = <<SOF, frame.length>> /\ Append(Received, b) = full
    <2>1. SOF \in UInt8
      BY DEF SOF, UInt8
    <2>2. Append(<<SOF, frame.length>>, b) = full
      BY <1>0, <2>1, ThreeBytes
    <2> QED
      BY <2>2, ReceivedCases DEF RxLenH, Step
  <1>2. Answered' = Frames!NoAnswer
    BY QuietAnswer DEF RxLenH
  <1>3. Len(full) = 3 /\ Frames!LengthOf(full) = length
    <2>1. SOF \in UInt8
      BY DEF SOF, UInt8
    <2> QED
      BY <1>0, <2>1, ThreeBytes DEF Frames!LengthOf
  <1>4. ~Frames!Complete(full) /\ (Frames!TooLong(full) <=> length > MaxData)
    BY <1>3 DEF Frames!Complete, Frames!TooLong
  <1>5. CASE length > MaxData
    <2>1. parse' = "IDLE"
      BY <1>0, <1>5, ConstantsAssumption DEF RxLenH, Step, ConstantsAssumption, UInt8
    <2>2. Received' = <<>>
      BY <2>1 DEF Received
    <2> QED
      BY <1>1, <1>2, <1>4, <1>5, <2>2 DEF Frames!Collect
  <1>6. CASE ~(length > MaxData)
    <2>1. parse' = "SEQ" /\ frame' = [frame EXCEPT !.length = length]
      BY <1>0, <1>6, ConstantsAssumption DEF RxLenH, Step, ConstantsAssumption, UInt8
    <2>2. frame'.length = length
      BY <2>1 DEF UsbInv, TypeOK
    <2>3. length % 256 = frame.length /\ length \div 256 = b
      BY <1>0, LowHigh
    <2>4. Received' = <<SOF>> \o <<frame.length, b>>
      BY <2>1, <2>2, <2>3 DEF Received
    <2> QED
      BY <1>1, <1>2, <1>4, <1>6, <2>4 DEF Frames!Collect
  <1> QED
    BY <1>5, <1>6

\* A byte between the length and EOF is collected: the frame needs more.
LEMMA BodyCollects ==
  ASSUME UsbInv, NEW b \in UInt8, RxData(b) \/ RxCrcL(b) \/ RxCrcH(b)
  PROVE  Frames!Collect(b)
  <1> DEFINE r == Received
             full == Append(Received, b)
  <1>1. /\ Received' = full /\ r \in Seq(UInt8) /\ Len(r) \in 5..(frame.length + 6)
        /\ r[2] + 256 * r[3] = frame.length
    BY BodyStep
  <1>2. frame.length \in Nat
    BY DEF UsbInv, TypeOK, UInt16
  <1>3. Answered' = Frames!NoAnswer
    BY QuietAnswer DEF RxData, RxCrcL, RxCrcH
  <1>4. Len(full) = Len(r) + 1 /\ full[2] = r[2] /\ full[3] = r[3]
    <2> HIDE DEF r
    <2>1. Len(Append(r, b)) = Len(r) + 1 /\ Append(r, b)[2] = r[2] /\ Append(r, b)[3] = r[3]
      BY <1>1, <1>2, AppendProperties
    <2> QED
      BY <2>1 DEF r
  <1>5. Frames!LengthOf(full) = frame.length
    BY <1>1, <1>4 DEF Frames!LengthOf
  <1>6. Len(full) # 3 /\ Len(full) # frame.length + 8 /\ r # <<>>
    BY <1>1, <1>2, <1>4
  <1>7. ~Frames!Complete(full) /\ ~Frames!TooLong(full)
    BY <1>5, <1>6 DEF Frames!Complete, Frames!TooLong
  <1> QED
    BY <1>1, <1>3, <1>6, <1>7 DEF Frames!Collect

\* The byte in the place of EOF completes the frame, and gets the verdict.
LEMMA EofFinishes ==
  ASSUME UsbInv, NEW b \in UInt8, RxEof(b)
  PROVE  Frames!Finish(b)
  <1> DEFINE c == Covered
             x == frame.crc % 256
             y == frame.crc \div 256
             full == Append((<<SOF>> \o c) \o <<x, y>>, b)
  <1>1. parse = "EOF" /\ parse' = "IDLE" /\ ProcessFrame(b)
    BY DEF RxEof, Step
  <1>2. Received = (<<SOF>> \o c) \o <<x, y>> /\ Received' = <<>>
    BY <1>1 DEF Received
  <1>3. FrameOK /\ Len(frame.data) = frame.length
    BY <1>1 DEF UsbInv, TypeOK, FrameOK, DataInBounds
  <1>4. /\ c \in Seq(UInt8) /\ Len(c) = 4 + frame.length /\ frame.length \in Nat
        /\ c[1] + 256 * c[2] = frame.length /\ c[3] = frame.seq
    BY <1>3, FieldTypes DEF UInt16
  <1>5. SOF \in UInt8 /\ x \in UInt8 /\ y \in UInt8 /\ x + 256 * y = frame.crc
    <2>1. SOF \in UInt8
      BY DEF SOF, UInt8
    <2>2. frame.crc \in UInt16
      BY <1>3, FieldTypes
    <2> QED
      BY <2>1, <2>2, TwoBytes
  <1> DEFINE n == frame.length
  <1>6. /\ Len(full) = Len(c) + 4
        /\ \A i \in 1..Len(c) : full[i + 1] = c[i]
        /\ full[Len(full) - 2] = x /\ full[Len(full) - 1] = y
        /\ full[Len(full)] = b
        /\ SubSeq(full, 2, Len(full) - 3) = c
    <2> HIDE DEF c, x, y, full
    <2>1. full = Append((<<SOF>> \o c) \o <<x, y>>, b)
      BY DEF full
    <2> QED
      BY <1>4, <1>5, <2>1, Layout
  <1>7. /\ full[2] = c[1] /\ full[3] = c[2] /\ full[4] = c[3] /\ Len(full) = n + 8
        /\ Len(full) >= 8
    <2> HIDE DEF c, full
    <2>1. 1 \in 1..Len(c) /\ 2 \in 1..Len(c) /\ 3 \in 1..Len(c)
      BY <1>4
    <2>2. full[1 + 1] = c[1] /\ full[2 + 1] = c[2] /\ full[3 + 1] = c[3]
      BY <1>6, <2>1
    <2>3. full[2] = c[1] /\ full[3] = c[2] /\ full[4] = c[3]
      BY <2>2
    <2>4. Len(full) = n + 8 /\ Len(full) >= 8
      BY SMTT(20), <1>4, <1>6
    <2> QED
      BY <2>3, <2>4
  <1> HIDE DEF full, n
  <1>8. Frames!Complete(full)
    BY <1>4, <1>7 DEF Frames!Complete, Frames!LengthOf, n
  <1>9. Frames!Verdict(full) =
          [seq |-> frame.seq,
           verdict |-> IF b # EOF THEN "invalid_frame"
                       ELSE IF Crc(c) # frame.crc THEN "crc_failed" ELSE "taken"]
    BY <1>4, <1>5, <1>6, <1>7 DEF Frames!Verdict, Frames!CrcOf, EOF
  <1>10. Answered' = Frames!Verdict(full)
    BY <1>1, <1>9, VerdictGiven
  <1>11. Received # <<>> /\ Append(Received, b) = full
    <2>1. (<<SOF>> \o c) \o <<x, y>> # <<>>
      <3> HIDE DEF c, x, y
      <3> QED
        BY <1>4, <1>5
    <2> QED
      BY <1>2, <2>1 DEF full
  <1> QED
    BY <1>2, <1>8, <1>10, <1>11 DEF Frames!Finish

\* Every step of the parser is a step of the frame layer, or a stutter.
LEMMA FramesStep == UsbInv /\ [Next]_vars => [Frames!Next]_(Frames!vars)
  <1> SUFFICES ASSUME UsbInv, [Next]_vars PROVE [Frames!Next]_(Frames!vars)
    OBVIOUS
  <1>1. ASSUME NEW b \in Byte, ParseByte(b)
        PROVE  Frames!Hunt(b) \/ Frames!Collect(b) \/ Frames!Finish(b)
    <2>1. b \in UInt8
      BY ConstantsAssumption DEF ConstantsAssumption
    <2> QED
      BY <1>1, <2>1, HuntStep, StartCollects, LengthCollects, BodyCollects, EofFinishes
      DEF ParseByte
  <1>2. CASE Receive
    BY <1>1, <1>2 DEF Receive, Frames!Next
  <1>3. CASE RegisterHandler \/ SetState
    <2>1. Frames!Rest
      BY <1>3, RestStep DEF RegisterHandler, SetState
    <2> QED
      BY <2>1 DEF Frames!Next
  <1>4. CASE UNCHANGED vars
    BY <1>4 DEF vars, Frames!vars, Received, Covered, Answered
  <1> QED
    BY <1>2, <1>3, <1>4 DEF Next

\* The parser starts hunting, with nothing answered.
LEMMA FramesInit == Init => Frames!Init
  BY DEF Init, Frames!Init, Frames!NoAnswer, Received, Answered

\* parse_byte and process_frame implement the frame layer: whatever the bytes,
\* frames are taken where the layout says that they end, and each is answered
\* once with the verdict on it, for the sequence number it carries.
THEOREM ParserImplementsFrames == Spec => ParsesFrames
  <1>1. Init /\ [][Next]_vars => Frames!Init /\ [][Frames!Next]_(Frames!vars)
    BY FramesInit, FramesStep, UsbInvInit, UsbInvStep, PTL
  <1> QED
    BY <1>1 DEF Spec, ParsesFrames, Frames!Spec

=============================================================================
