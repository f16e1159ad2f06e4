--------------------------- MODULE WsFramesProofs ---------------------------
(***************************************************************************)
(* Proofs about WsFrames, for every size of the buffer, every set of       *)
(* messages and every way in which the transport cuts their bytes.         *)
(***************************************************************************)
EXTENDS WsFrames, SequenceTheorems, TLAPS

BytesOK == rx_buf \in Seq(Byte) /\ wire \in Seq(Byte)

BufferInv == BytesOK /\ BufferBounded

\* A byte is a number.
LEMMA ByteIsNat == \A b \in Byte : b \in Nat
  BY DEF Byte

\* The size of the buffer, ...
LEMMA BufferSize == BufSize \in Nat /\ BufSize >= 1 /\ BufSize <= 65536
  BY FramesAssumption

\* ... and what the server may send.
LEMMA MessageTyped ==
  ASSUME NEW m \in Messages
  PROVE  m \in [opcode : 0..15, payload : Seq(Byte)] /\ Below4GB(Len(m.payload))
  <1>1. m \in [opcode : 0..15, payload : Seq(Byte)]
    BY FramesAssumption, SMTT(20)
  <1>2. Below4GB(Len(m.payload))
    BY FramesAssumption
  <1> QED
    BY <1>1, <1>2

\* The header h says that a message of len bytes follows, or, when no buffer
\* holds that many, that the length is out of the parser's reach.
Announces(h, opcode, len) ==
  /\ h \in Seq(Byte) /\ Len(h) \in {2, 4, 10}
  /\ HeaderLen(h) = Len(h) /\ Opcode(h) = opcode
  /\ len < 65536 => ~Huge(h) /\ PayloadLen(h) = len
  /\ len >= 65536 => Huge(h)

\* A header has at least two bytes.
LEMMA HeaderSize ==
  ASSUME NEW h, NEW opcode, NEW len, Announces(h, opcode, len)
  PROVE  Len(h) \in Nat /\ Len(h) >= 2
  BY DEF Announces

\* The first byte of a header carries the opcode.
LEMMA FirstByte ==
  ASSUME NEW opcode \in 0..15
  PROVE  128 + opcode \in Byte /\ (128 + opcode) % 16 = opcode
  BY DEF Byte

\* The second byte of the three forms of a header is what it says.
LEMMA LengthCodes ==
  /\ Escape \in Byte /\ Escape + 1 \in Byte /\ Escape \in Nat
  /\ Escape % 128 = Escape /\ (Escape + 1) % 128 = Escape + 1
  /\ Escape + 1 # Escape
  /\ \A len \in Nat : len < Escape => /\ len \in Byte /\ len % 128 = len
                                      /\ len # Escape /\ len # Escape + 1
  BY EscapeAssumption DEF Byte

\* What parse_websocket_frame reads in a header of the short form, ...
LEMMA ShortHeader ==
  ASSUME NEW opcode \in 0..15, NEW len \in Nat, len < Escape
  PROVE  Announces(ServerHeader(opcode, len), opcode, len)
  <1> DEFINE x == 128 + opcode
             h == ServerHeader(opcode, len)
  <1>1. len < 65536 /\ ~(len >= 65536)
    BY EscapeAssumption
  <1>2. x \in Byte /\ x % 16 = opcode /\ len \in Byte
    BY FirstByte, LengthCodes
  <1>3. h = <<x>> \o <<len>>
    BY <1>1 DEF ServerHeader, SendHeader
  <1> HIDE DEF x, h
  <1>4. h \in Seq(Byte) /\ Len(h) = 2 /\ h[1] = x /\ h[2] = len
    BY <1>2, <1>3
  <1>5. LengthCode(h) = len /\ len # Escape /\ len # Escape + 1
    BY <1>4, LengthCodes DEF LengthCode
  <1>6. HeaderLen(h) = 2 /\ Opcode(h) = opcode /\ ~Huge(h) /\ PayloadLen(h) = len
    BY <1>2, <1>4, <1>5 DEF HeaderLen, Opcode, Huge, PayloadLen
  <1> QED
    BY <1>1, <1>4, <1>6 DEF Announces, h

\* ... with the length in two bytes, ...
LEMMA MediumHeader ==
  ASSUME NEW opcode \in 0..15, NEW len \in Nat, ~(len < Escape), len < 65536
  PROVE  Announces(ServerHeader(opcode, len), opcode, len)
  <1> DEFINE x == 128 + opcode
             u == len \div 256
             v == len % 256
             h == ServerHeader(opcode, len)
  <1>1. x \in Byte /\ x % 16 = opcode /\ Escape \in Byte
    BY FirstByte, LengthCodes
  <1>2. u \in Byte /\ v \in Byte /\ 256 * u + v = len
    BY DEF Byte
  <1>3. h = <<x>> \o <<Escape, u, v>>
    BY DEF ServerHeader, SendHeader
  <1> HIDE DEF x, u, v, h
  <1>4. <<x>> \in Seq(Byte) /\ <<Escape, u, v>> \in Seq(Byte)
    BY <1>1, <1>2
  <1>5. /\ h \in Seq(Byte) /\ Len(h) = 4
        /\ h[1] = x /\ h[2] = Escape /\ h[3] = u /\ h[4] = v
    BY <1>3, <1>4
  <1>6. LengthCode(h) = Escape /\ Escape # Escape + 1
    BY <1>5, LengthCodes DEF LengthCode
  <1>7. HeaderLen(h) = 4 /\ Opcode(h) = opcode /\ ~Huge(h)
    BY <1>1, <1>5, <1>6 DEF HeaderLen, Opcode, Huge
  <1>8. PayloadLen(h) = len
    BY <1>2, <1>5, <1>6 DEF PayloadLen
  <1> QED
    BY <1>5, <1>7, <1>8 DEF Announces, h

\* ... and in eight, of which the first six are not all zero.
LEMMA LongHeader ==
  ASSUME NEW opcode \in 0..15, NEW len \in Nat, len >= 65536, Below4GB(len)
  PROVE  Announces(ServerHeader(opcode, len), opcode, len)
  <1> DEFINE x == 128 + opcode
             y == Escape + 1
             q == len \div 65536
             a == q \div 256
             b == q % 256
             c == (len \div 256) % 256
             d == len % 256
             h == ServerHeader(opcode, len)
  <1>1. x \in Byte /\ x % 16 = opcode /\ y \in Byte /\ 0 \in Byte
    BY FirstByte, LengthCodes DEF Byte
  <1>2. q \in Nat \ {0} /\ c \in Byte /\ d \in Byte
    BY DEF Byte
  <1>3. a \in Byte /\ b \in Byte /\ (a # 0 \/ b # 0)
    <2> HIDE DEF q
    <2> QED
      BY <1>2 DEF Byte, Below4GB, q
  <1>4. h = <<x, y, 0, 0, 0, 0, a, b, c, d>>
    BY DEF ServerHeader
  <1>5. y % 128 = y /\ y # Escape
    BY LengthCodes
  <1> HIDE DEF x, y, q, a, b, c, d, h
  <1>6. /\ h \in Seq(Byte) /\ Len(h) = 10 /\ h[1] = x /\ h[2] = y
        /\ h[7] = a /\ h[8] = b
    BY <1>1, <1>2, <1>3, <1>4
  <1>7. LengthCode(h) = y
    BY <1>5, <1>6 DEF LengthCode
  <1>8. LengthCode(h) = Escape + 1
    BY <1>7 DEF y
  <1>9. HeaderLen(h) = 10 /\ Opcode(h) = opcode
    BY <1>1, <1>5, <1>6, <1>7, <1>8 DEF HeaderLen, Opcode
  <1>10. Huge(h)
    BY <1>3, <1>6, <1>8 DEF Huge
  <1> QED
    BY <1>6, <1>9, <1>10 DEF Announces, h

\* A message on the wire is its header and its payload.
LEMMA EncodingShape ==
  ASSUME NEW m \in Messages
  PROVE  LET len == Len(m.payload)
             h == ServerHeader(m.opcode, len)
             e == Encoding(m)
         IN  /\ len \in Nat /\ m.payload \in Seq(Byte)
             /\ Announces(h, m.opcode, len)
             /\ e \in Seq(Byte) /\ Len(e) = Len(h) + len
             /\ \A i \in 1..Len(h) : e[i] = h[i]
             /\ \A i \in 1..len : e[Len(h) + i] = m.payload[i]
  <1> DEFINE len == Len(m.payload)
             h == ServerHeader(m.opcode, len)
             e == Encoding(m)
  <1>1. /\ m.opcode \in 0..15 /\ m.payload \in Seq(Byte) /\ len \in Nat
        /\ Below4GB(len)
    <2>1. m \in [opcode : 0..15, payload : Seq(Byte)]
      BY MessageTyped
    <2>2. m.opcode \in 0..15 /\ m.payload \in Seq(Byte)
      BY <2>1
    <2>3. Below4GB(len)
      BY MessageTyped
    <2> QED
      BY <2>2, <2>3, LenProperties
  <1>2. Announces(h, m.opcode, len)
    BY <1>1, ShortHeader, MediumHeader, LongHeader, EscapeAssumption
  <1>3. e = h \o m.payload
    BY DEF Encoding
  <1>4. len = Len(m.payload)
    OBVIOUS
  <1> HIDE DEF len, h, e
  <1>5. h \in Seq(Byte) /\ Len(h) \in Nat
    BY <1>2 DEF Announces
  <1>6. e \in Seq(Byte) /\ Len(e) = Len(h) + len
    BY <1>1, <1>3, <1>4, <1>5, ConcatProperties
  <1>7. \A i \in 1..Len(h) + len : e[i] = IF i <= Len(h) THEN h[i] ELSE m.payload[i - Len(h)]
    BY <1>1, <1>3, <1>4, <1>5, ConcatProperties
  <1>8. ASSUME NEW i \in 1..len PROVE e[Len(h) + i] = m.payload[i]
    <2>1. /\ Len(h) + i \in 1..Len(h) + len /\ ~(Len(h) + i <= Len(h))
          /\ (Len(h) + i) - Len(h) = i
      BY <1>1, <1>5
    <2> QED
      BY <1>7, <2>1
  <1>9. ASSUME NEW i \in 1..Len(h) PROVE e[i] = h[i]
    BY <1>1, <1>5, <1>7
  <1> QED
    BY <1>1, <1>2, <1>6, <1>8, <1>9 DEF h, e, len

\* Buffers that begin alike announce the same frame, as far as the bytes of
\* the header have arrived.
LEMMA SameHeader ==
  ASSUME NEW buf \in Seq(Byte), NEW h, NEW opcode, NEW len, Announces(h, opcode, len),
         Len(buf) >= 2, \A i \in 1..Len(h) : i <= Len(buf) => buf[i] = h[i]
  PROVE  /\ HeaderLen(buf) = Len(h) /\ Opcode(buf) = opcode
         /\ Len(buf) >= Len(h) => /\ Huge(buf) <=> Huge(h)
                                  /\ ~Huge(h) => PayloadLen(buf) = PayloadLen(h)
  <1>1. h \in Seq(Byte) /\ Len(h) \in {2, 4, 10} /\ HeaderLen(h) = Len(h) /\ Opcode(h) = opcode
    BY DEF Announces
  <1>2. buf[1] = h[1] /\ buf[2] = h[2] /\ Len(buf) \in Nat
    BY <1>1
  <1>3. LengthCode(buf) = LengthCode(h) /\ HeaderLen(buf) = Len(h) /\ Opcode(buf) = opcode
    BY <1>1, <1>2 DEF LengthCode, HeaderLen, Opcode
  <1>4. ASSUME Len(buf) >= Len(h)
        PROVE  (Huge(buf) <=> Huge(h)) /\ PayloadLen(buf) = PayloadLen(h)
    <2>1. \A i \in 1..Len(h) : buf[i] = h[i]
      BY <1>1, <1>2, <1>4
    <2>2. CASE LengthCode(h) = Escape
      <3>1. Len(h) = 4 /\ LengthCode(h) # Escape + 1
        BY <1>1, <2>2, LengthCodes DEF HeaderLen
      <3>2. buf[3] = h[3] /\ buf[4] = h[4]
        BY <2>1, <3>1
      <3> QED
        BY <1>3, <2>2, <3>1, <3>2 DEF Huge, PayloadLen
    <2>3. CASE LengthCode(h) = Escape + 1
      <3>1. Len(h) = 10 /\ LengthCode(h) # Escape
        BY <1>1, <2>3, LengthCodes DEF HeaderLen
      <3>2. /\ \A i \in 3..8 : buf[i] = h[i]
            /\ buf[9] = h[9] /\ buf[10] = h[10]
        BY <2>1, <3>1
      <3> QED
        BY <1>3, <2>3, <3>1, <3>2 DEF Huge, PayloadLen
    <2>4. CASE LengthCode(h) # Escape /\ LengthCode(h) # Escape + 1
      BY <1>3, <2>4 DEF Huge, PayloadLen
    <2> QED
      BY <2>2, <2>3, <2>4
  <1> QED
    BY <1>3, <1>4

\* A buffer that holds the beginning of a message's bytes: the parser finds a
\* frame in it exactly when all of them are there, and reads the message.
LEMMA Decode ==
  ASSUME NEW m \in Messages, NEW buf \in Seq(Byte), Len(buf) < BufSize,
         \A i \in 1..Len(Encoding(m)) : i <= Len(buf) => buf[i] = Encoding(m)[i]
  PROVE  /\ Complete(buf) => /\ Len(Encoding(m)) <= Len(buf)
                             /\ FrameLen(buf) = Len(Encoding(m))
                             /\ Message(buf) = m
         /\ Len(Encoding(m)) <= Len(buf) => Complete(buf)
  <1> DEFINE len == Len(m.payload)
             h == ServerHeader(m.opcode, len)
             e == Encoding(m)
  <1>1. /\ len \in Nat /\ m.payload \in Seq(Byte) /\ Announces(h, m.opcode, len)
        /\ e \in Seq(Byte) /\ Len(e) = Len(h) + len
        /\ \A i \in 1..Len(h) : e[i] = h[i]
        /\ \A i \in 1..len : e[Len(h) + i] = m.payload[i]
    BY EncodingShape
  <1>2. \A i \in 1..Len(e) : i <= Len(buf) => buf[i] = e[i]
    OBVIOUS
  <1>3. len = Len(m.payload) /\ e = Encoding(m)
    OBVIOUS
  <1>4. m = [opcode |-> m.opcode, payload |-> m.payload]
    BY MessageTyped
  <1> HIDE DEF len, h, e
  <1>5. Len(buf) \in Nat /\ Len(h) \in Nat /\ Len(h) >= 2 /\ Len(buf) < 65536
    <2>1. Len(buf) \in Nat
      BY LenProperties
    <2>2. Len(h) \in Nat /\ Len(h) >= 2
      BY <1>1, HeaderSize
    <2>3. Len(buf) < BufSize
      OBVIOUS
    <2> QED
      BY ONLY <2>1, <2>2, <2>3, BufferSize
  <1>6. \A i \in 1..Len(h) : i <= Len(buf) => buf[i] = h[i]
    BY <1>1, <1>2, <1>5
  <1>7. ASSUME Len(buf) >= Len(h), len < 65536
        PROVE  /\ HeaderLen(buf) = Len(h) /\ Opcode(buf) = m.opcode
               /\ ~Huge(buf) /\ PayloadLen(buf) = len /\ FrameLen(buf) = Len(e)
    <2>1. ~Huge(h) /\ PayloadLen(h) = len
      BY <1>1, <1>7 DEF Announces
    <2>2. Len(buf) >= 2
      BY ONLY <1>5, <1>7
    <2>3. /\ HeaderLen(buf) = Len(h) /\ Opcode(buf) = m.opcode
          /\ ~Huge(buf) /\ PayloadLen(buf) = len
      BY <1>1, <1>6, <1>7, <2>1, <2>2, SameHeader
    <2> QED
      BY <1>1, <2>3 DEF FrameLen
  <1>8. ASSUME Complete(buf)
        PROVE  Len(e) <= Len(buf) /\ FrameLen(buf) = Len(e) /\ Message(buf) = m
    <2>1. Len(buf) >= 2 /\ Len(buf) >= HeaderLen(buf) /\ ~Huge(buf)
      BY <1>8 DEF Complete
    <2>2. HeaderLen(buf) = Len(h)
      BY <1>1, <1>6, <2>1, SameHeader
    <2>3. Len(buf) >= Len(h)
      BY <2>1, <2>2
    <2>4. ~Huge(h)
      BY <1>1, <1>6, <2>1, <2>3, SameHeader
    <2>5. len < 65536
      BY <1>1, <2>4 DEF Announces
    <2>6. /\ Opcode(buf) = m.opcode /\ PayloadLen(buf) = len /\ FrameLen(buf) = Len(e)
      BY <1>7, <2>3, <2>5
    <2>7. Len(e) <= Len(buf)
      BY <1>1, <1>8, <2>2, <2>6 DEF Complete
    <2>8. SubSeq(buf, Len(h) + 1, Len(e)) = m.payload
      <3> DEFINE p == SubSeq(buf, Len(h) + 1, Len(e))
      <3>1. \A i \in Len(h) + 1 .. Len(e) : buf[i] \in Byte
        BY <1>5, <1>1, <2>7, ElementOfSeq
      <3>2. /\ p \in Seq(Byte) /\ Len(p) = len
            /\ \A i \in 1..len : p[i] = buf[Len(h) + i]
        <4>1. Len(h) + 1 \in Int /\ Len(e) \in Int /\ Len(e) - (Len(h) + 1) + 1 = len
          BY <1>1, <1>5
        <4>2. p \in Seq(Byte) /\ Len(p) = IF Len(h) + 1 <= Len(e) THEN len ELSE 0
          BY <3>1, <4>1, SubSeqProperties
        <4>3. \A i \in 1..len : p[i] = buf[(Len(h) + 1) + i - 1]
          BY <3>1, <4>1, SubSeqProperties
        <4>4. \A i \in 1..len : (Len(h) + 1) + i - 1 = Len(h) + i
          BY <1>1, <1>5
        <4> QED
          BY <1>1, <1>5, <4>2, <4>3, <4>4
      <3>3. \A i \in 1..len : buf[Len(h) + i] = m.payload[i]
        <4> TAKE i \in 1..len
        <4>1. Len(h) + i \in 1..Len(e) /\ Len(h) + i <= Len(buf)
          BY <1>1, <1>5, <2>7
        <4> QED
          BY <1>1, <1>2, <4>1
      <3> HIDE DEF p
      <3>4. p = m.payload
        BY <1>1, <1>3, <3>2, <3>3, SeqEqual
      <3> QED
        BY <3>4 DEF p
    <2> QED
      BY <1>4, <2>2, <2>6, <2>7, <2>8 DEF Message
  <1>9. ASSUME Len(e) <= Len(buf) PROVE Complete(buf)
    <2>1. len \in Nat /\ Len(e) = Len(h) + len
      BY <1>1
    <2>2. len < 65536 /\ Len(buf) >= Len(h) /\ Len(buf) >= 2
      BY ONLY <1>5, <1>9, <2>1
    <2> QED
      BY <1>7, <1>9, <2>1, <2>2 DEF Complete
  <1> QED
    BY <1>8, <1>9 DEF e

\* A whole frame is not longer than the buffer that begins with it.
LEMMA FrameFits ==
  ASSUME NEW buf \in Seq(Byte), Complete(buf)
  PROVE  FrameLen(buf) \in 2..Len(buf)
  <1>1. HeaderLen(buf) \in {2, 4, 10} /\ HeaderLen(buf) <= Len(buf) /\ Len(buf) >= 2
    BY DEF Complete, HeaderLen
  <1>2. LengthCode(buf) \in Nat
    <2>1. buf[2] \in Byte
      BY <1>1, 2 \in 1..Len(buf), ElementOfSeq
    <2> QED
      BY <2>1, ByteIsNat DEF LengthCode
  <1>3. PayloadLen(buf) \in Nat
    <2>1. CASE LengthCode(buf) = Escape
      <3>1. 3 \in 1..Len(buf) /\ 4 \in 1..Len(buf)
        BY <1>1, <2>1 DEF HeaderLen
      <3>2. buf[3] \in Nat /\ buf[4] \in Nat
        <4>1. buf[3] \in Byte /\ buf[4] \in Byte
          BY <3>1, ElementOfSeq
        <4> QED
          BY <4>1, ByteIsNat
      <3>3. Escape + 1 # Escape
        BY EscapeAssumption DEF EscapeAssumption
      <3>4. PayloadLen(buf) = 256 * buf[3] + buf[4]
        BY <2>1, <3>3 DEF PayloadLen
      <3> QED
        BY <3>2, <3>4
    <2>2. CASE LengthCode(buf) = Escape + 1
      <3>1. Escape + 1 # Escape
        BY EscapeAssumption DEF EscapeAssumption
      <3>2. 9 \in 1..Len(buf) /\ 10 \in 1..Len(buf)
        BY <1>1, <2>2, <3>1 DEF HeaderLen
      <3>3. buf[9] \in Nat /\ buf[10] \in Nat
        <4>1. buf[9] \in Byte /\ buf[10] \in Byte
          BY <3>2, ElementOfSeq
        <4> QED
          BY <4>1, ByteIsNat
      <3> QED
        BY <2>2, <3>1, <3>3 DEF PayloadLen
    <2>3. CASE LengthCode(buf) # Escape /\ LengthCode(buf) # Escape + 1
      BY <1>2, <2>3 DEF PayloadLen
    <2> QED
      BY <2>1, <2>2, <2>3
  <1> QED
    BY <1>1, <1>3 DEF Complete, FrameLen

\* The receive buffer starts empty.
LEMMA BufferInitial == Init => BufferInv
  BY BufferSize DEF Init, BufferInv, BytesOK, BufferBounded

\* A step of the client or the server keeps the buffer within its size.
LEMMA BufferStep ==
  ASSUME BufferInv, [Next]_vars
  PROVE  BufferInv'
  <1> USE DEF BufferInv, BytesOK, BufferBounded
  <1>0. BufSize \in Nat /\ BufSize >= 1
    BY BufferSize
  <1>1. CASE ServerAnswers \/ Handshake \/ LeaveLoop \/ OnFinish
    BY <1>1 DEF ServerAnswers, Handshake, LeaveLoop, OnFinish, ws_ctx
  <1>2. CASE ServerSends
    <2>1. PICK m \in Messages : wire' = wire \o Encoding(m) /\ rx_buf' = rx_buf
      BY <1>2 DEF ServerSends, ws_ctx
    <2>2. wire \o Encoding(m) \in Seq(Byte)
      BY EncodingShape, ConcatProperties
    <2> QED
      BY <2>1, <2>2
  <1>3. CASE OnData
    <2>1. PICK n \in DOMAIN wire : OnData!(n)
      BY <1>3 DEF OnData
    <2>2. n \in 1..Len(wire) /\ n \in Nat
      OBVIOUS
    <2>3. /\ SubSeq(wire, n + 1, Len(wire)) \in Seq(Byte)
          /\ SubSeq(wire, 1, n) \in Seq(Byte) /\ Len(SubSeq(wire, 1, n)) = n
      BY <2>2
    <2>4. CASE handshake_done /\ Len(rx_buf) + n < BufSize
      <3>1. rx_buf' = rx_buf \o SubSeq(wire, 1, n)
        BY <2>1, <2>2, <2>4, <1>0
      <3>2. Len(rx_buf') = Len(rx_buf) + n /\ rx_buf' \in Seq(Byte)
        BY <2>3, <3>1
      <3> QED
        BY <2>1, <2>3, <2>4, <3>2
    <2>5. CASE ~(handshake_done /\ Len(rx_buf) + n < BufSize)
      BY <2>1, <2>3, <2>5
    <2> QED
      BY <2>4, <2>5
  <1>4. CASE HandleFrame
    <2>1. FrameLen(rx_buf) \in 2..Len(rx_buf)
      BY <1>4, FrameFits DEF HandleFrame
    <2>2. rx_buf' = SubSeq(rx_buf, FrameLen(rx_buf) + 1, Len(rx_buf)) /\ wire' = wire
      BY <1>4 DEF HandleFrame
    <2>3. rx_buf' \in Seq(Byte) /\ Len(rx_buf') <= Len(rx_buf)
      BY <2>1, <2>2
    <2> QED
      BY <1>0, <2>2, <2>3
  <1>5. CASE OnDisconnected \/ AppInit
    <2>1. <<>> \in Seq(Byte) /\ Len(<<>>) = 0
      OBVIOUS
    <2>2. CASE OnDisconnected
      BY <2>1, <2>2 DEF OnDisconnected
    <2>3. CASE AppInit
      BY <1>0, <2>1, <2>3 DEF AppInit
    <2> QED
      BY <1>5, <2>2, <2>3
  <1>6. CASE UNCHANGED vars
    BY <1>6 DEF vars, ws_ctx
  <1> QED
    BY <1>1, <1>2, <1>3, <1>4, <1>5, <1>6 DEF Next

\* No event writes past rx_buf (HTTP_EVENT_ON_DATA): whatever an old session
\* has left behind, and however frames and events are cut.
THEOREM BufferStaysBounded == Spec => []BufferBounded
  <1>1. BufferInv => BufferBounded
    BY DEF BufferInv
  <1> QED
    BY <1>1, BufferInitial, BufferStep, PTL DEF Spec

-----------------------------------------------------------------------------
(* The bytes of a session, as long as none is lost.                        *)

\* The bytes T are those of the messages ms, one after the other; the k-th
\* ends at pos[k].
Frames(ms, T, pos) ==
  /\ T \in Seq(Byte) /\ pos \in [0..Len(ms) -> 0..Len(T)]
  /\ pos[0] = 0 /\ pos[Len(ms)] = Len(T)
  /\ \A k \in 1..Len(ms) : pos[k] = pos[k - 1] + Len(Encoding(ms[k]))
  /\ \A k \in 1..Len(ms) : \A i \in 1..Len(Encoding(ms[k])) :
       T[pos[k - 1] + i] = Encoding(ms[k])[i]

\* The bytes s are those of T that follow the first `at`.
Follows(T, at, s) ==
  at + Len(s) <= Len(T) /\ \A i \in 1..Len(s) : s[i] = T[at + i]

\* What is in the buffer comes next after what was handled, and what is on its
\* way comes next after that, up to the end.
InOrder(T, at) ==
  /\ Follows(T, at, rx_buf)
  /\ open => /\ Follows(T, at + Len(rx_buf), wire)
             /\ (at + Len(rx_buf)) + Len(wire) = Len(T)

NothingLost == \E T, pos : Frames(sent, T, pos) /\ InOrder(T, pos[Len(handled)])

StreamInv ==
  /\ BufferInv
  /\ handshake_done \in BOOLEAN /\ ws_connected \in BOOLEAN /\ intact \in BOOLEAN
  /\ open \in BOOLEAN /\ (handshake_done => open) /\ (parsing /\ open => handshake_done)
  /\ sent \in Seq(Messages) /\ handled \in Seq(Messages)
  /\ Len(handled) <= Len(sent)
  /\ ~open => wire = <<>>
  /\ ~parsing => ~Complete(rx_buf)
  /\ intact => NothingLost

\* The first bytes that arrive follow those in the buffer.
LEMMA FollowsMore ==
  ASSUME NEW T \in Seq(Byte), NEW at \in Nat, NEW s \in Seq(Byte), NEW w \in Seq(Byte),
         NEW n \in 1..Len(w), Follows(T, at, s), Follows(T, at + Len(s), w)
  PROVE  LET s2 == s \o SubSeq(w, 1, n)
         IN  Follows(T, at, s2) /\ Len(s2) = Len(s) + n
  <1> DEFINE p == SubSeq(w, 1, n)
             s2 == s \o p
  <1>1. Len(s) \in Nat /\ Len(w) \in Nat /\ Len(T) \in Nat /\ n \in Nat /\ n <= Len(w) /\ n >= 1
    OBVIOUS
  <1>2. p \in Seq(Byte) /\ Len(p) = n /\ \A i \in 1..n : p[i] = w[i]
    BY <1>1
  <1> HIDE DEF p
  <1>3. /\ s2 \in Seq(Byte) /\ Len(s2) = Len(s) + n
        /\ \A i \in 1..Len(s) + n : s2[i] = IF i <= Len(s) THEN s[i] ELSE p[i - Len(s)]
    BY <1>2, ConcatProperties
  <1> HIDE DEF s2
  <1>4. /\ at + Len(s) <= Len(T) /\ \A i \in 1..Len(s) : s[i] = T[at + i]
        /\ at + Len(s) + Len(w) <= Len(T) /\ \A i \in 1..Len(w) : w[i] = T[at + Len(s) + i]
    BY DEF Follows
  <1>5. ASSUME NEW i \in 1..Len(s2) PROVE s2[i] = T[at + i]
    <2>1. CASE i <= Len(s)
      BY <1>1, <1>3, <1>4, <2>1
    <2>2. CASE ~(i <= Len(s))
      <3>1. i - Len(s) \in 1..n /\ i - Len(s) \in 1..Len(w) /\ at + Len(s) + (i - Len(s)) = at + i
        BY <1>1, <1>3, <2>2
      <3> QED
        BY <1>2, <1>3, <1>4, <2>2, <3>1
    <2> QED
      BY <2>1, <2>2
  <1>6. at + Len(s2) <= Len(T)
    BY <1>1, <1>3, <1>4
  <1> QED
    BY <1>3, <1>5, <1>6 DEF Follows, p, s2

\* What is left when the first n bytes of the buffer are taken follows them.
LEMMA FollowsRest ==
  ASSUME NEW T \in Seq(Byte), NEW at \in Nat, NEW s \in Seq(Byte), NEW n \in 0..Len(s),
         Follows(T, at, s)
  PROVE  LET r == SubSeq(s, n + 1, Len(s))
         IN  Follows(T, at + n, r) /\ Len(r) = Len(s) - n
  <1> DEFINE r == SubSeq(s, n + 1, Len(s))
  <1>1. Len(s) \in Nat /\ n \in Nat /\ n <= Len(s) /\ Len(T) \in Nat
    OBVIOUS
  <1>2. /\ r \in Seq(Byte) /\ Len(r) = Len(s) - n
        /\ \A i \in 1..Len(s) - n : r[i] = s[n + i]
    BY <1>1
  <1> HIDE DEF r
  <1>3. at + Len(s) <= Len(T) /\ \A i \in 1..Len(s) : s[i] = T[at + i]
    BY DEF Follows
  <1>4. ASSUME NEW i \in 1..Len(r) PROVE r[i] = T[(at + n) + i]
    <2>1. n + i \in 1..Len(s) /\ at + (n + i) = (at + n) + i
      BY <1>1, <1>2
    <2> QED
      BY <1>2, <1>3, <2>1
  <1>5. (at + n) + Len(r) <= Len(T)
    BY <1>1, <1>2, <1>3
  <1> QED
    BY <1>2, <1>4, <1>5 DEF Follows, r

\* Bytes that the server adds follow those on their way.
LEMMA FollowsSent ==
  ASSUME NEW T \in Seq(Byte), NEW e \in Seq(Byte), NEW at \in Nat, NEW s \in Seq(Byte),
         Follows(T, at, s)
  PROVE  /\ Follows(T \o e, at, s)
         /\ at + Len(s) = Len(T) => Follows(T \o e, at, s \o e)
  <1> DEFINE T2 == T \o e
             s2 == s \o e
  <1>1. Len(s) \in Nat /\ Len(T) \in Nat /\ Len(e) \in Nat
    OBVIOUS
  <1>2. /\ T2 \in Seq(Byte) /\ Len(T2) = Len(T) + Len(e)
        /\ \A i \in 1..Len(T) + Len(e) : T2[i] = IF i <= Len(T) THEN T[i] ELSE e[i - Len(T)]
    BY ConcatProperties
  <1>3. /\ Len(s2) = Len(s) + Len(e)
        /\ \A i \in 1..Len(s) + Len(e) : s2[i] = IF i <= Len(s) THEN s[i] ELSE e[i - Len(s)]
    BY ConcatProperties
  <1> HIDE DEF T2, s2
  <1>4. at + Len(s) <= Len(T) /\ \A i \in 1..Len(s) : s[i] = T[at + i]
    BY DEF Follows
  <1>5. ASSUME NEW i \in 1..Len(s) PROVE s[i] = T2[at + i]
    <2>1. at + i \in 1..Len(T) + Len(e) /\ at + i <= Len(T)
      BY <1>1, <1>4
    <2> QED
      BY <1>2, <1>4, <2>1
  <1>6. at + Len(s) <= Len(T2)
    BY <1>1, <1>2, <1>4
  <1>7. ASSUME at + Len(s) = Len(T) PROVE Follows(T2, at, s2)
    <2>1. ASSUME NEW i \in 1..Len(s2) PROVE s2[i] = T2[at + i]
      <3>1. CASE i <= Len(s)
        BY <1>1, <1>3, <1>5, <3>1
      <3>2. CASE ~(i <= Len(s))
        <4>1. i \in Nat /\ i <= Len(s) + Len(e) /\ i > Len(s)
          BY <1>1, <1>3, <3>2
        <4>2. /\ at + i \in 1..Len(T) + Len(e) /\ ~(at + i <= Len(T))
              /\ (at + i) - Len(T) = i - Len(s)
          BY <1>1, <1>7, <4>1
        <4> QED
          BY <1>2, <1>3, <3>2, <4>2
      <3> QED
        BY <3>1, <3>2
    <2>2. at + Len(s2) <= Len(T2)
      BY <1>1, <1>2, <1>3, <1>7
    <2> QED
      BY <2>1, <2>2 DEF Follows
  <1> QED
    BY <1>5, <1>6, <1>7 DEF Follows, T2, s2

\* No messages, no bytes.
LEMMA NoFrames == Frames(<<>>, <<>>, [k \in {0} |-> 0])
  <1>1. 0..0 = {0} /\ 1..0 = {} /\ Len(<<>>) = 0 /\ <<>> \in Seq(Byte)
    OBVIOUS
  <1> QED
    BY <1>1 DEF Frames

\* One more message sent: its bytes come last.
LEMMA FramesExtended ==
  ASSUME NEW ms \in Seq(Messages), NEW T, NEW pos, Frames(ms, T, pos), NEW m \in Messages
  PROVE  LET T2 == T \o Encoding(m)
             pos2 == [k \in 0..Len(ms) + 1 |-> IF k <= Len(ms) THEN pos[k] ELSE Len(T2)]
         IN  Frames(Append(ms, m), T2, pos2) /\ \A k \in 0..Len(ms) : pos2[k] = pos[k]
  <1> DEFINE e == Encoding(m)
             T2 == T \o e
             ms2 == Append(ms, m)
             N == Len(ms)
             pos2 == [k \in 0..N + 1 |-> IF k <= N THEN pos[k] ELSE Len(T2)]
  <1>1. e \in Seq(Byte)
    BY EncodingShape
  <1>2. /\ T \in Seq(Byte) /\ pos \in [0..N -> 0..Len(T)]
        /\ pos[0] = 0 /\ pos[N] = Len(T)
        /\ \A k \in 1..N : pos[k] = pos[k - 1] + Len(Encoding(ms[k]))
        /\ \A k \in 1..N : \A i \in 1..Len(Encoding(ms[k])) :
             T[pos[k - 1] + i] = Encoding(ms[k])[i]
    BY DEF Frames
  <1>3. /\ ms2 \in Seq(Messages) /\ Len(ms2) = N + 1 /\ N \in Nat
        /\ \A k \in 1..N : ms2[k] = ms[k]
        /\ ms2[N + 1] = m
    BY AppendProperties, LenProperties
  <1>4. e = Encoding(m)
    OBVIOUS
  <1> HIDE DEF e
  <1>5. /\ T2 \in Seq(Byte) /\ Len(T2) = Len(T) + Len(e) /\ Len(T) \in Nat /\ Len(e) \in Nat
        /\ \A i \in 1..Len(T) + Len(e) : T2[i] = IF i <= Len(T) THEN T[i] ELSE e[i - Len(T)]
    BY <1>1, <1>2, ConcatProperties, LenProperties
  <1> HIDE DEF T2, ms2, N
  <1>6. /\ pos2 \in [0..N + 1 -> 0..Len(T2)] /\ pos2[N + 1] = Len(T2)
        /\ \A k \in 0..N : pos2[k] = pos[k]
    BY <1>2, <1>3, <1>5
  <1> HIDE DEF pos2
  <1>7. pos2[0] = 0
    BY <1>2, <1>3, <1>6
  <1>8. ASSUME NEW k \in 1..N + 1
        PROVE  /\ pos2[k] = pos2[k - 1] + Len(Encoding(ms2[k]))
               /\ \A i \in 1..Len(Encoding(ms2[k])) : T2[pos2[k - 1] + i] = Encoding(ms2[k])[i]
    <2>1. CASE k \in 1..N
      <3>1. k \in 0..N /\ k - 1 \in 0..N
        BY <1>3, <2>1
      <3>2. ms2[k] = ms[k] /\ pos2[k] = pos[k] /\ pos2[k - 1] = pos[k - 1] /\ ms[k] \in Messages
        BY <1>3, <1>6, <2>1, <3>1, ElementOfSeq DEF N
      <3>3. pos[k] = pos[k - 1] + Len(Encoding(ms[k]))
        BY <1>2, <2>1
      <3>4. ASSUME NEW i \in 1..Len(Encoding(ms[k]))
            PROVE  T2[pos[k - 1] + i] = Encoding(ms[k])[i]
        <4>1. pos[k - 1] + i \in 1..Len(T)
          <5>1. pos[k - 1] \in 0..Len(T) /\ pos[k] \in 0..Len(T) /\ Len(Encoding(ms[k])) \in Nat
            BY <1>2, <3>1, <3>2, EncodingShape, LenProperties
          <5> QED
            BY <1>5, <3>3, <5>1
        <4>2. T2[pos[k - 1] + i] = T[pos[k - 1] + i]
          BY <1>5, <4>1
        <4> QED
          BY <1>2, <2>1, <4>2
      <3> QED
        BY <3>2, <3>3, <3>4
    <2>2. CASE k = N + 1
      <3>1. k - 1 = N /\ N \in 0..N
        BY <1>3, <2>2
      <3>2. ms2[k] = m /\ pos2[k - 1] = Len(T) /\ pos2[k] = Len(T2)
        BY <1>2, <1>3, <1>6, <2>2, <3>1
      <3>3. ASSUME NEW i \in 1..Len(e) PROVE T2[Len(T) + i] = e[i]
        BY <1>5
      <3> QED
        BY <1>4, <1>5, <3>2, <3>3
    <2> QED
      BY <1>3, <2>1, <2>2
  <1>9. Frames(ms2, T2, pos2)
    BY <1>3, <1>5, <1>6, <1>7, <1>8 DEF Frames
  <1> QED
    BY <1>6, <1>9 DEF e, T2, ms2, N, pos2

\* As long as nothing is lost, the frame that the loop finds is that of the
\* next message, and it finds it as soon as it is there.
LEMMA NextFrame ==
  ASSUME StreamInv, NEW T, NEW pos, Frames(sent, T, pos),
         Follows(T, pos[Len(handled)], rx_buf)
  PROVE  /\ Complete(rx_buf) =>
              /\ Len(handled) < Len(sent)
              /\ Message(rx_buf) = Pending
              /\ FrameLen(rx_buf) = Len(Encoding(Pending))
              /\ pos[Len(handled) + 1] = pos[Len(handled)] + FrameLen(rx_buf)
         /\ Len(handled) < Len(sent) /\ Len(Encoding(Pending)) <= Len(rx_buf) =>
              Complete(rx_buf)
  <1> DEFINE n == Len(handled)
             N == Len(sent)
             at == pos[n]
  <1>1. /\ n \in Nat /\ N \in Nat /\ n <= N /\ n \in 0..N
        /\ rx_buf \in Seq(Byte) /\ Len(rx_buf) < BufSize /\ Len(rx_buf) \in Nat
    BY LenProperties DEF StreamInv, BufferInv, BytesOK, BufferBounded
  <1>2. /\ T \in Seq(Byte) /\ Len(T) \in Nat /\ pos \in [0..N -> 0..Len(T)] /\ pos[N] = Len(T)
        /\ \A k \in 1..N : pos[k] = pos[k - 1] + Len(Encoding(sent[k]))
        /\ \A k \in 1..N : \A i \in 1..Len(Encoding(sent[k])) :
             T[pos[k - 1] + i] = Encoding(sent[k])[i]
    BY LenProperties DEF Frames
  <1>3. at \in 0..Len(T)
    BY <1>1, <1>2
  <1>4. at + Len(rx_buf) <= Len(T) /\ \A i \in 1..Len(rx_buf) : rx_buf[i] = T[at + i]
    BY DEF Follows
  <1>5. Complete(rx_buf) => n < N
    <2>1. SUFFICES ASSUME n = N PROVE ~Complete(rx_buf)
      BY <1>1
    <2>2. Len(rx_buf) = 0
      BY <1>1, <1>2, <1>4, <2>1
    <2> QED
      BY <2>2 DEF Complete
  <1>6. ASSUME n < N
        PROVE  /\ Complete(rx_buf) => /\ Message(rx_buf) = Pending
                                      /\ FrameLen(rx_buf) = Len(Encoding(Pending))
               /\ Len(Encoding(Pending)) <= Len(rx_buf) => Complete(rx_buf)
               /\ pos[n + 1] = at + Len(Encoding(Pending))
    <2>1. n + 1 \in 1..N /\ (n + 1) - 1 = n /\ Pending = sent[n + 1]
      BY <1>1, <1>6 DEF Pending
    <2>2. Pending \in Messages
      BY <2>1, ElementOfSeq DEF StreamInv
    <2>3. /\ pos[n + 1] = at + Len(Encoding(Pending))
          /\ \A i \in 1..Len(Encoding(Pending)) : T[at + i] = Encoding(Pending)[i]
      BY <1>2, <2>1
    <2>4. \A i \in 1..Len(Encoding(Pending)) : i <= Len(rx_buf) => rx_buf[i] = Encoding(Pending)[i]
      <3> TAKE i \in 1..Len(Encoding(Pending))
      <3>1. Len(Encoding(Pending)) \in Nat
        BY <2>2, EncodingShape, LenProperties
      <3>2. i <= Len(rx_buf) => i \in 1..Len(rx_buf)
        BY <1>1, <3>1
      <3> QED
        BY <1>4, <2>3, <3>2
    <2> HIDE DEF at
    <2> QED
      BY <1>1, <2>2, <2>3, <2>4, Decode
  <1> QED
    BY <1>5, <1>6

\* A client that has just been set up has received nothing.
LEMMA StreamInitial == Init => StreamInv
  <1> SUFFICES ASSUME Init PROVE StreamInv
    OBVIOUS
  <1>1. BufferInv
    BY BufferInitial
  <1>2. rx_buf = <<>> /\ sent = <<>> /\ handled = <<>> /\ wire = <<>> /\ open = FALSE
    BY DEF Init
  <1>3. ~Complete(rx_buf)
    BY <1>2 DEF Complete
  <1>4. Frames(sent, <<>>, [k \in {0} |-> 0])
    BY <1>2, NoFrames
  <1>5. NothingLost
    <2>1. InOrder(<<>>, 0)
      BY <1>2 DEF InOrder, Follows
    <2> QED
      BY <1>2, <1>4, <2>1 DEF NothingLost
  <1>6. <<>> \in Seq(Messages) /\ Len(<<>>) <= Len(<<>>)
    OBVIOUS
  <1>7. sent \in Seq(Messages) /\ handled \in Seq(Messages) /\ Len(handled) <= Len(sent)
    BY <1>2, <1>6
  <1>8. /\ handshake_done \in BOOLEAN /\ ws_connected \in BOOLEAN /\ intact \in BOOLEAN
        /\ (handshake_done => open) /\ ~parsing
    BY DEF Init
  <1> QED
    BY <1>1, <1>2, <1>3, <1>5, <1>7, <1>8 DEF StreamInv

\* The steps of the client and the server keep the bytes of a session in order,
\* as long as none is lost.
LEMMA StreamStep ==
  ASSUME StreamInv, [Next]_vars
  PROVE  StreamInv'
  <1> DEFINE Rest == /\ handshake_done \in BOOLEAN /\ ws_connected \in BOOLEAN /\ intact \in BOOLEAN
                     /\ open \in BOOLEAN /\ (handshake_done => open)
                     /\ parsing /\ open => handshake_done
                     /\ sent \in Seq(Messages) /\ handled \in Seq(Messages)
                     /\ Len(handled) <= Len(sent)
                     /\ ~open => wire = <<>>
                     /\ ~parsing => ~Complete(rx_buf)
  <1>0. BufferInv /\ BufferInv' /\ Rest /\ rx_buf \in Seq(Byte) /\ wire \in Seq(Byte)
    BY BufferStep DEF StreamInv, BufferInv, BytesOK
  <1>a. SUFFICES Rest' /\ (intact' => NothingLost')
    BY <1>0 DEF StreamInv
  <1>n. Len(handled) \in 0..Len(sent) /\ Len(sent) \in Nat /\ Len(rx_buf) \in Nat
    BY <1>0, LenProperties
  <1>1. CASE ServerAnswers
    <2>1. Rest'
      <3>1. <<>> \in Seq(Messages) /\ Len(<<>>) <= Len(<<>>)
        OBVIOUS
      <3> QED
        BY <1>0, <1>1, <3>1 DEF ServerAnswers, ws_ctx
    <2>2. ASSUME intact' PROVE NothingLost'
      <3>1. /\ rx_buf' = <<>> /\ wire' = <<>> /\ sent' = <<>> /\ handled' = <<>>
            /\ Len(<<>>) = 0
        BY <1>0, <1>1, <2>2 DEF ServerAnswers, ws_ctx
      <3>2. Frames(sent', <<>>, [k \in {0} |-> 0])
        BY <3>1, NoFrames
      <3>3. InOrder(<<>>, 0)'
        BY <3>1 DEF InOrder, Follows
      <3>4. [k \in {0} |-> 0][Len(handled')] = 0
        BY <3>1
      <3> QED
        BY <3>2, <3>3, <3>4 DEF NothingLost
    <2> QED
      BY <2>1, <2>2
  <1>2. CASE ServerSends
    <2>1. PICK m \in Messages : ServerSends!(m)
      BY <1>2 DEF ServerSends
    <2>2. /\ UNCHANGED <<ws_ctx, parsing, open, handled, intact>> /\ open
          /\ sent' = Append(sent, m) /\ wire' = wire \o Encoding(m)
      BY <2>1
    <2>3. /\ sent' \in Seq(Messages) /\ Len(sent') = Len(sent) + 1
      BY <1>0, <2>2, AppendProperties
    <2>4. Rest'
      BY <1>0, <1>n, <2>2, <2>3 DEF ws_ctx
    <2>5. ASSUME intact' PROVE NothingLost'
      <3>1. PICK T, pos : Frames(sent, T, pos) /\ InOrder(T, pos[Len(handled)])
        BY <2>2, <2>5 DEF StreamInv, NothingLost
      <3> DEFINE at == pos[Len(handled)]
      <3>2. PICK T2, pos2 : /\ T2 = T \o Encoding(m)
                            /\ Frames(sent', T2, pos2) /\ pos2[Len(handled)] = at
        <4> DEFINE U == T \o Encoding(m)
                   q == [k \in 0..Len(sent) + 1 |-> IF k <= Len(sent) THEN pos[k] ELSE Len(U)]
        <4>1. Frames(sent', U, q) /\ q[Len(handled)] = at
          BY <1>0, <1>n, <2>2, <3>1, FramesExtended
        <4> HIDE DEF q
        <4> QED
          BY <4>1
      <3>3. /\ T \in Seq(Byte) /\ Encoding(m) \in Seq(Byte)
            /\ at \in Nat /\ at + Len(rx_buf) \in Nat
        <4>1. T \in Seq(Byte) /\ pos \in [0..Len(sent) -> 0..Len(T)] /\ Len(T) \in Nat
          BY <3>1, LenProperties DEF Frames
        <4>2. at \in 0..Len(T)
          BY <1>n, <4>1
        <4> QED
          <5> HIDE DEF at
          <5>1. at \in Nat /\ at + Len(rx_buf) \in Nat
            BY <1>n, <4>1, <4>2
          <5> QED
            BY <4>1, <5>1, EncodingShape
      <3>4. Follows(T, at, rx_buf) /\ Follows(T, at + Len(rx_buf), wire)
            /\ (at + Len(rx_buf)) + Len(wire) = Len(T)
        BY <2>2, <3>1 DEF InOrder
      <3> HIDE DEF at
      <3>5. Follows(T2, at, rx_buf)
        BY <1>0, <3>2, <3>3, <3>4, FollowsSent
      <3>6. Follows(T2, at + Len(rx_buf), wire')
        BY <1>0, <2>2, <3>2, <3>3, <3>4, FollowsSent
      <3>7. (at + Len(rx_buf)) + Len(wire') = Len(T2)
        <4>1. /\ Len(wire') = Len(wire) + Len(Encoding(m))
              /\ Len(T2) = Len(T) + Len(Encoding(m))
              /\ Len(wire) \in Nat /\ Len(Encoding(m)) \in Nat
          BY <1>0, <2>2, <3>2, <3>3, ConcatProperties, LenProperties
        <4> QED
          BY <3>3, <3>4, <4>1
      <3>8. InOrder(T2, pos2[Len(handled)])'
        BY <2>2, <3>2, <3>5, <3>6, <3>7 DEF InOrder, ws_ctx
      <3> QED
        BY <3>2, <3>8 DEF NothingLost
    <2> QED
      BY <2>4, <2>5
  <1>3. CASE OnData
    <2>1. PICK n \in DOMAIN wire : OnData!(n)
      BY <1>3 DEF OnData
    <2>2. /\ UNCHANGED <<handshake_done, ws_connected, open, sent, handled>> /\ open
          /\ wire' = SubSeq(wire, n + 1, Len(wire)) /\ ~parsing
      BY <2>1
    <2>3. n \in 1..Len(wire)
      BY <1>0
    <2>4. CASE /\ handshake_done /\ rx_buf' = rx_buf \o SubSeq(wire, 1, n)
               /\ parsing' = TRUE /\ UNCHANGED intact
      <3>1. Rest'
        BY <1>0, <2>2, <2>4
      <3>2. ASSUME intact' PROVE NothingLost'
        <4>1. PICK T, pos : Frames(sent, T, pos) /\ InOrder(T, pos[Len(handled)])
          BY <2>4, <3>2 DEF StreamInv, NothingLost
        <4> DEFINE at == pos[Len(handled)]
        <4>2. T \in Seq(Byte) /\ at \in Nat /\ Len(T) \in Nat
          BY <1>n, <4>1, LenProperties DEF Frames
        <4>3. /\ Follows(T, at, rx_buf) /\ Follows(T, at + Len(rx_buf), wire)
              /\ (at + Len(rx_buf)) + Len(wire) = Len(T)
          BY <2>2, <4>1 DEF InOrder
        <4> HIDE DEF at
        <4>4. /\ Follows(T, at, rx_buf') /\ Len(rx_buf') = Len(rx_buf) + n
              /\ Follows(T, at + Len(rx_buf'), wire') /\ Len(wire') = Len(wire) - n
          <5>1. n \in 0..Len(wire) /\ n \in Nat /\ at + Len(rx_buf) \in Nat
            BY <1>n, <2>3, <4>2
          <5>2. Follows(T, at, rx_buf') /\ Len(rx_buf') = Len(rx_buf) + n
            BY <1>0, <2>3, <2>4, <4>2, <4>3, FollowsMore
          <5>3. Follows(T, (at + Len(rx_buf)) + n, wire') /\ Len(wire') = Len(wire) - n
            <6> DEFINE at2 == at + Len(rx_buf)
            <6>1. at2 \in Nat /\ Follows(T, at2, wire)
              BY <4>3, <5>1
            <6> HIDE DEF at2
            <6>2. Follows(T, at2 + n, wire') /\ Len(wire') = Len(wire) - n
              <7>1. T \in Seq(Byte) /\ wire \in Seq(Byte) /\ n \in 0..Len(wire)
                BY <1>0, <4>2, <5>1
              <7>2. LET rest == SubSeq(wire, n + 1, Len(wire))
                    IN  Follows(T, at2 + n, rest) /\ Len(rest) = Len(wire) - n
                BY <6>1, <7>1, FollowsRest
              <7> QED
                BY <2>2, <7>2
            <6> QED
              BY <6>2 DEF at2
          <5>4. (at + Len(rx_buf)) + n = at + Len(rx_buf')
            BY <1>n, <4>2, <5>1, <5>2
          <5> QED
            BY <5>2, <5>3, <5>4
        <4>5. (at + Len(rx_buf')) + Len(wire') = Len(T)
          <5>1. Len(wire) \in Nat /\ n \in Nat /\ at \in Nat /\ Len(rx_buf) \in Nat
            BY <1>0, <1>n, <2>3, <4>2, LenProperties
          <5>2. /\ (at + Len(rx_buf)) + Len(wire) = Len(T)
                /\ Len(rx_buf') = Len(rx_buf) + n /\ Len(wire') = Len(wire) - n
            BY <4>3, <4>4
          <5> QED
            BY ONLY <5>1, <5>2
        <4>6. Frames(sent', T, pos) /\ InOrder(T, pos[Len(handled)])'
          BY <2>2, <4>1, <4>4, <4>5 DEF InOrder, at
        <4> QED
          BY <4>6 DEF NothingLost
      <3> QED
        BY <3>1, <3>2
    <2>5. CASE intact' = FALSE /\ UNCHANGED <<rx_buf, parsing>>
      BY <1>0, <2>2, <2>5
    <2> QED
      BY <2>1, <2>4, <2>5
  <1>4. CASE HandleFrame
    <2>1. /\ parsing /\ Complete(rx_buf)
          /\ rx_buf' = SubSeq(rx_buf, FrameLen(rx_buf) + 1, Len(rx_buf))
          /\ handled' = IF intact THEN Append(handled, Message(rx_buf)) ELSE handled
          /\ ws_connected' \in BOOLEAN
          /\ UNCHANGED <<handshake_done, parsing, open, wire, sent, intact>>
      BY <1>0, <1>4 DEF HandleFrame
    <2>2. CASE ~intact
      BY <1>0, <2>1, <2>2
    <2>3. CASE intact
      <3>1. PICK T, pos : Frames(sent, T, pos) /\ InOrder(T, pos[Len(handled)])
        BY <2>3 DEF StreamInv, NothingLost
      <3> DEFINE at == pos[Len(handled)]
                 n == FrameLen(rx_buf)
      <3>2. /\ Len(handled) < Len(sent) /\ Message(rx_buf) = Pending
            /\ pos[Len(handled) + 1] = at + n
        BY <2>1, <3>1, NextFrame DEF InOrder
      <3>3. /\ handled' \in Seq(Messages) /\ Len(handled') = Len(handled) + 1
            /\ Len(handled') <= Len(sent)
        <4>1. Pending \in Messages
          BY <1>0, <1>n, <3>2, ElementOfSeq DEF Pending
        <4> QED
          BY <1>0, <1>n, <2>1, <2>3, <3>2, <4>1, AppendProperties
      <3>4. T \in Seq(Byte) /\ at \in Nat /\ Len(T) \in Nat /\ n \in 0..Len(rx_buf)
        <4>1. n \in 0..Len(rx_buf)
          BY <1>0, <1>n, <2>1, FrameFits
        <4>2. T \in Seq(Byte) /\ at \in Nat /\ Len(T) \in Nat
          BY <1>n, <3>1, LenProperties DEF Frames
        <4> QED
          BY <4>1, <4>2
      <3>5. Follows(T, at, rx_buf)
        BY <3>1 DEF InOrder
      <3>6. /\ open => /\ Follows(T, at + Len(rx_buf), wire)
                       /\ (at + Len(rx_buf)) + Len(wire) = Len(T)
        BY <3>1 DEF InOrder
      <3>7. rx_buf' = SubSeq(rx_buf, n + 1, Len(rx_buf)) /\ pos[Len(handled')] = at + n
        BY <2>1, <3>2, <3>3
      <3> HIDE DEF at, n
      <3>8. Follows(T, at + n, rx_buf') /\ Len(rx_buf') = Len(rx_buf) - n
        BY <1>0, <3>4, <3>5, <3>7, FollowsRest
      <3>9. (at + n) + Len(rx_buf') = at + Len(rx_buf)
        BY <1>n, <3>4, <3>8
      <3>10. InOrder(T, pos[Len(handled)])'
        BY <2>1, <3>6, <3>7, <3>8, <3>9 DEF InOrder
      <3> QED
        BY <1>0, <2>1, <3>1, <3>3, <3>10 DEF NothingLost
    <2> QED
      BY <2>2, <2>3
  <1>5. CASE OnDisconnected \/ AppInit
    <2>1. <<>> \in Seq(Byte) /\ Len(<<>>) = 0 /\ ~Complete(<<>>)
      BY DEF Complete
    <2>2. /\ UNCHANGED <<parsing, history>> /\ handshake_done' = FALSE
          /\ open' = FALSE /\ wire' = <<>>
          /\ ws_connected' \in BOOLEAN /\ (rx_buf' = rx_buf \/ rx_buf' = <<>>)
      BY <1>0, <1>5 DEF OnDisconnected, AppInit
    <2>3. Rest'
      BY <1>0, <2>1, <2>2 DEF history
    <2>4. ASSUME intact' PROVE NothingLost'
      <3>1. PICK T, pos : Frames(sent, T, pos) /\ InOrder(T, pos[Len(handled)])
        BY <2>2, <2>4 DEF StreamInv, NothingLost, history
      <3> DEFINE at == pos[Len(handled)]
      <3>2. at \in Nat /\ Len(T) \in Nat /\ at <= Len(T)
        BY <1>n, <3>1, LenProperties DEF Frames
      <3>3. Follows(T, at, <<>>)
        BY <2>1, <3>2 DEF Follows
      <3>4. Follows(T, at, rx_buf')
        BY <2>2, <3>1, <3>3 DEF InOrder
      <3> QED
        BY <2>2, <3>1, <3>4 DEF NothingLost, InOrder, history
    <2> QED
      BY <2>3, <2>4
  <1>6. CASE Handshake \/ LeaveLoop \/ OnFinish
    <2>1. Handshake => Rest'
      BY <1>0 DEF Handshake, history
    <2>2. LeaveLoop => Rest'
      BY <1>0 DEF LeaveLoop, ws_ctx, history
    <2>3. ASSUME OnFinish PROVE Rest'
      <3>1. /\ handshake_done' = handshake_done /\ ws_connected' = FALSE
            /\ UNCHANGED <<rx_buf, parsing, open, wire, sent, handled, intact>>
        BY <2>3 DEF OnFinish, history
      <3> QED
        BY <1>0, <3>1
    <2>4. Rest'
      BY <1>6, <2>1, <2>2, <2>3
    <2>5. UNCHANGED <<open, rx_buf, wire, sent, handled, intact>>
      BY <1>6 DEF Handshake, LeaveLoop, OnFinish, ws_ctx, history
    <2> QED
      BY <2>4, <2>5 DEF StreamInv, NothingLost, InOrder
  <1>7. CASE UNCHANGED vars
    <2>1. Rest' /\ UNCHANGED <<open, rx_buf, wire, sent, handled, intact>>
      BY <1>0, <1>7 DEF vars, ws_ctx, history
    <2> QED
      BY <2>1 DEF StreamInv, NothingLost, InOrder
  <1> QED
    BY <1>1, <1>2, <1>3, <1>4, <1>5, <1>6, <1>7 DEF Next

\* In every state the bytes of an intact session are in order.
LEMMA StreamInvariant == Spec => []StreamInv
  BY StreamInitial, StreamStep, PTL DEF Spec

\* When the loop has ended, no whole message is left in the buffer to wait for
\* the next event (HTTP_EVENT_ON_DATA), however the transport cut the bytes.
THEOREM NoMessageWaits == Spec => []NoFrameWaits
  <1>1. StreamInv => NoFrameWaits
    <2> SUFFICES ASSUME StreamInv, intact, handshake_done, ~parsing, Len(handled) < Len(sent)
                 PROVE  Len(rx_buf) < Len(Encoding(Pending))
      BY DEF NoFrameWaits
    <2>1. PICK T, pos : Frames(sent, T, pos) /\ InOrder(T, pos[Len(handled)])
      BY DEF StreamInv, NothingLost
    <2>2. ~Complete(rx_buf)
      BY DEF StreamInv
    <2>3. ~(Len(Encoding(Pending)) <= Len(rx_buf))
      BY <2>1, <2>2, NextFrame DEF InOrder
    <2>4. Len(rx_buf) \in Nat /\ Len(Encoding(Pending)) \in Nat
      <3>1. Len(handled) + 1 \in 1..Len(sent)
        BY LenProperties DEF StreamInv
      <3>2. Pending \in Messages
        BY <3>1, ElementOfSeq DEF StreamInv, Pending
      <3> QED
        BY <3>2, EncodingShape, LenProperties DEF StreamInv, BufferInv, BytesOK
    <2> QED
      BY <2>3, <2>4
  <1> QED
    BY <1>1, StreamInvariant, PTL

\* The client starts as the abstract stream does.
LEMMA StreamStarts == Init => Stream!Init
  BY DEF Init, Stream!Init

\* Every step of the client or the server is one of the abstract stream, or none.
LEMMA StreamImplements ==
  ASSUME StreamInv, [Next]_vars
  PROVE  [Stream!Next]_(Stream!vars)
  <1> DEFINE up == ws_connected \/ (open /\ ~handshake_done)
  <1> USE DEF Stream!Next, Stream!vars
  <1>0. /\ ws_connected \in BOOLEAN /\ (handshake_done => open)
        /\ (parsing /\ open => handshake_done)
    BY DEF StreamInv
  <1>1. CASE ServerAnswers
    <2>1. /\ sent' = <<>> /\ handled' = <<>> /\ up' = TRUE
          /\ intact' = (rx_buf = <<>>)
      BY <1>0, <1>1 DEF ServerAnswers, ws_ctx
    <2>2. ASSUME intact, handled = sent PROVE rx_buf = <<>>
      <3>1. PICK T, pos : Frames(sent, T, pos) /\ InOrder(T, pos[Len(handled)])
        BY <2>2 DEF StreamInv, NothingLost
      <3>2. Len(T) + Len(rx_buf) <= Len(T)
        BY <2>2, <3>1 DEF Frames, InOrder, Follows
      <3>3. Len(T) \in Nat /\ rx_buf \in Seq(Byte) /\ Len(rx_buf) \in Nat
        BY <3>1, LenProperties DEF Frames, StreamInv, BufferInv, BytesOK
      <3>4. Len(rx_buf) = 0
        BY <3>2, <3>3
      <3> QED
        BY <3>3, <3>4, EmptySeq
    <2>3. Stream!Open
      BY <2>1, <2>2 DEF Stream!Open
    <2> QED
      BY <2>3
  <1>2. CASE ServerSends
    <2>1. Stream!Send
      BY <1>2 DEF ServerSends, ws_ctx, Stream!Send
    <2> QED
      BY <2>1
  <1>3. CASE OnData
    <2>1. UNCHANGED <<up, sent, handled>> /\ (intact' = intact \/ intact' = FALSE)
      BY <1>3 DEF OnData
    <2>2. CASE intact' = intact
      BY <2>1, <2>2
    <2>3. CASE intact' = FALSE /\ intact' # intact
      <3>1. intact
        BY <2>3 DEF StreamInv
      <3>2. Stream!Lose
        BY <2>1, <2>3, <3>1 DEF Stream!Lose
      <3> QED
        BY <3>2
    <2> QED
      BY <2>1, <2>2, <2>3
  <1>4. CASE HandleFrame
    <2>1. /\ Complete(rx_buf) /\ UNCHANGED <<sent, intact>>
          /\ handled' = IF intact THEN Append(handled, Message(rx_buf)) ELSE handled
          /\ up' = (up /\ ~IsClose(Message(rx_buf)))
      BY <1>0, <1>4 DEF HandleFrame
    <2>2. CASE intact
      <3>1. PICK T, pos : Frames(sent, T, pos) /\ InOrder(T, pos[Len(handled)])
        BY <2>2 DEF StreamInv, NothingLost
      <3>2. Len(handled) < Len(sent) /\ Message(rx_buf) = Pending
        BY <2>1, <3>1, NextFrame DEF InOrder
      <3>3. Stream!Handle
        BY <2>1, <2>2, <3>2 DEF Stream!Handle, Pending
      <3> QED
        BY <3>3
    <2>3. CASE ~intact
      <3>1. up' = up \/ up' = FALSE
        BY <2>1
      <3> QED
        BY <2>1, <2>3, <3>1 DEF Stream!Down
    <2> QED
      BY <2>2, <2>3
  <1>5. CASE OnFinish \/ OnDisconnected \/ AppInit
    <2>1. up' = FALSE /\ UNCHANGED <<sent, handled, intact>>
      BY <1>5 DEF OnFinish, OnDisconnected, AppInit, history
    <2> QED
      BY <2>1 DEF Stream!Down
  <1>6. CASE Handshake \/ LeaveLoop \/ UNCHANGED vars
    BY <1>0, <1>6 DEF Handshake, LeaveLoop, vars, ws_ctx, history
  <1> QED
    BY <1>1, <1>2, <1>3, <1>4, <1>5, <1>6 DEF Next

\* The receiving side implements the abstract stream: whatever the cuts, the
\* messages of an intact session are handled in the order sent, each once, CLOSE
\* takes the session down, and a session whose messages were all handled leaves
\* nothing in rx_buf for the next.
THEOREM ReceiverImplementsStream == Spec => DeliversInOrder
  BY StreamInvariant, StreamStarts, StreamImplements, PTL DEF Spec, DeliversInOrder, Stream!Spec

=============================================================================
