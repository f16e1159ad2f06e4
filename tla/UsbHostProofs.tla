---------------------------- MODULE UsbHostProofs ----------------------------
(***************************************************************************)
(* The command protocol from end to end: what the host program can rely on *)
(* when the line loses nothing, for every buffer size, check function, set *)
(* of requests and set of commands the application handles itself; and     *)
(* what the device keeps whatever the line loses.                          *)
(***************************************************************************)
EXTENDS UsbHost, UsbCmdProofs

-----------------------------------------------------------------------------
(* The inductive invariant.                                                *)

\* A command as HostSend writes it.
Sent(r) == \E c \in Requests, seq \in 0..(HostSeqRange - 1) : r = Numbered(c, seq)

\* What is known of the frame m that the host takes for the answer to r.
Heard(r, m) ==
  /\ m.cmd # "none"
  /\ m.cmd # "OWN" => m.seq = r.seq
  /\ m.cmd = "ACK" => m.seq = r.seq /\ CarriedOut(r)

\* The command that waits is split between the parser and the line: what the
\* device has received of it and what it has not yet read make up the frame.
OnItsWay ==
  /\ inbox = <<>> /\ line # <<>>
  /\ Received \o line = BuildFrame(request)

\* The device has taken the whole frame and answered it.
AnswerIn ==
  /\ line = <<>> /\ parse = "IDLE"
  /\ inbox # <<>> /\ Heard(request, Head(inbox))

\* The device and the host are in step: there is one command under way at
\* most, and nothing else on the line.
InStep ==
  /\ IF request.waiting THEN OnItsWay \/ AnswerIn
                        ELSE line = <<>> /\ parse = "IDLE" /\ inbox = <<>>
  /\ result # NoResult => ~request.waiting /\ Heard(result.request, result.reply)

\* What holds whatever is lost.
HostBase ==
  /\ UsbInv
  /\ line \in Seq(UInt8) /\ host_seq \in 0..(HostSeqRange - 1) /\ lost \in 0..MaxLost
  /\ request.waiting => Sent(request)

HostInv == HostBase /\ (lost = 0 => InStep)

-----------------------------------------------------------------------------
(* Frames on the line.                                                     *)

\* Reading a byte moves it from one side of the split to the other.
LEMMA NextByte ==
  ASSUME NEW S, NEW p \in Seq(S), NEW q \in Seq(S), q # <<>>
  PROVE  /\ Head(q) \in S /\ Tail(q) \in Seq(S)
         /\ Append(p, Head(q)) \in Seq(S) /\ Append(p, Head(q)) # <<>>
         /\ Append(p, Head(q)) \o Tail(q) = p \o q
  <1> DEFINE h == Head(q)
             t == Tail(q)
  <1>1. h \in S /\ t \in Seq(S)
    BY HeadTailProperties
  <1>2. q = <<h>> \o t
    OBVIOUS
  <1> HIDE DEF h, t
  <1>3. Append(p, h) = p \o <<h>> /\ <<h>> \in Seq(S)
    BY <1>1, AppendIsConcat
  <1>4. (p \o <<h>>) \o t = p \o (<<h>> \o t)
    BY <1>1, <1>3, ConcatAssociative
  <1>5. Append(p, h) \in Seq(S) /\ Append(p, h) # <<>>
    BY <1>1, AppendProperties
  <1> QED
    BY <1>1, <1>2, <1>3, <1>4, <1>5 DEF h, t

\* Two frames with headers of the same size are the same part by part.
LEMMA SameParts ==
  ASSUME NEW S, NEW h1 \in Seq(S), NEW h2 \in Seq(S), NEW d1 \in Seq(S), NEW d2 \in Seq(S),
         Len(h1) = Len(h2), h1 \o d1 = h2 \o d2
  PROVE  h1 = h2 /\ d1 = d2
  <1> DEFINE s == h1 \o d1
             n == Len(h1)
  <1>1. /\ Len(s) = n + Len(d1)
        /\ \A i \in 1..n + Len(d1) : s[i] = IF i <= n THEN h1[i] ELSE d1[i - n]
    BY ConcatProperties
  <1>2. /\ Len(s) = n + Len(d2)
        /\ \A i \in 1..n + Len(d2) : s[i] = IF i <= n THEN h2[i] ELSE d2[i - n]
    BY ConcatProperties
  <1>3. n \in Nat /\ Len(d1) \in Nat /\ Len(d2) \in Nat
    BY LenProperties
  <1> HIDE DEF s, n
  <1>4. Len(d1) = Len(d2)
    BY <1>1, <1>2, <1>3
  <1>5. ASSUME NEW i \in 1..n PROVE h1[i] = h2[i]
    <2>1. i \in 1..n + Len(d1) /\ i <= n
      BY <1>3
    <2> QED
      BY <1>1, <1>2, <1>4, <2>1
  <1>6. ASSUME NEW i \in 1..Len(d1) PROVE d1[i] = d2[i]
    <2>1. i + n \in 1..n + Len(d1) /\ ~(i + n <= n) /\ (i + n) - n = i
      BY <1>3
    <2> QED
      BY <1>1, <1>2, <1>4, <2>1
  <1> QED
    BY <1>4, <1>5, <1>6, SeqEqual DEF n

\* The types of a command.
LEMMA SentTyped ==
  ASSUME NEW r, Sent(r)
  PROVE  /\ r.cmd \in UInt8 /\ r.seq \in UInt8 /\ r.data \in Seq(UInt8)
         /\ Len(r.data) <= MaxData /\ Len(r.data) \in UInt16 /\ Crc(Body(r)) \in UInt16
         /\ Len(r.data) % 256 \in UInt8 /\ Len(r.data) \div 256 \in UInt8
         /\ (Len(r.data) % 256) + 256 * (Len(r.data) \div 256) = Len(r.data)
  <1>1. PICK c \in Requests, seq \in 0..(HostSeqRange - 1) : r = Numbered(c, seq)
    BY DEF Sent
  <1>2. r.cmd = c.cmd /\ r.data = c.data /\ r.seq = seq
    BY <1>1 DEF Numbered
  <1>3. r.seq \in UInt8
    BY <1>2, HostAssumption DEF UInt8
  <1>4. Crc(Body(r)) \in UInt16
    BY <1>1, CrcAssumption
  <1>5. /\ r.cmd \in UInt8 /\ r.data \in Seq(UInt8)
        /\ Len(r.data) <= MaxData /\ Len(r.data) \in UInt16
    BY <1>2, HostAssumption
  <1> QED
    BY <1>3, <1>4, <1>5, TwoBytes

RequestHeader(r) == <<Len(r.data) % 256, Len(r.data) \div 256, r.seq, r.cmd>>

\* Two bytes, and four.
LEMMA FewBytes ==
  ASSUME NEW a \in UInt8, NEW b \in UInt8, NEW c \in UInt8, NEW d \in UInt8
  PROVE  /\ <<a, b>> \in Seq(UInt8) /\ Append(<<a, b>>, c) = <<a, b, c>>
         /\ <<a, b, c, d>> \in Seq(UInt8) /\ Len(<<a, b, c, d>>) = 4
  <1>1. <<a, b>> \in Seq(UInt8)
    OBVIOUS
  <1>2. <<a, b, c, d>> \in Seq(UInt8) /\ Len(<<a, b, c, d>>) = 4
    OBVIOUS
  <1> DEFINE s == Append(<<a, b>>, c)
             t == <<a, b, c>>
  <1>3. s \in Seq(UInt8) /\ Len(s) = 3
    BY <1>1, AppendProperties
  <1>4. t \in Seq(UInt8) /\ Len(t) = 3
    OBVIOUS
  <1>5. s[1] = t[1] /\ s[2] = t[2] /\ s[3] = t[3]
    OBVIOUS
  <1> HIDE DEF s, t
  <1>6. \A i \in 1..3 : s[i] = t[i]
    BY <1>5
  <1>7. s = t
    BY <1>3, <1>4, <1>6, SeqEqual
  <1> QED
    BY <1>1, <1>2, <1>7 DEF s, t

\* Where the parts of a command are in its frame.
LEMMA BuildShape ==
  ASSUME NEW r, Sent(r), NEW full, full = BuildFrame(r)
  PROVE  /\ full \in Seq(UInt8) /\ Len(full) = Len(r.data) + 8
         /\ full[1] = SOF /\ full[Len(full)] = EOF
         /\ full[2] + 256 * full[3] = Len(r.data)
         /\ SubSeq(full, 2, Len(full) - 3) = Body(r)
         /\ full[Len(full) - 2] + 256 * full[Len(full) - 1] = Crc(Body(r))
  <1> DEFINE h == RequestHeader(r)
             n == Len(r.data)
             c == Body(r)
             x == Crc(c) % 256
             y == Crc(c) \div 256
             s == <<SOF>> \o c
  <1>1. SOF \in UInt8 /\ EOF \in UInt8
    BY DEF SOF, EOF, UInt8
  <1>2. h \in Seq(UInt8) /\ Len(h) = 4
    <2>1. n % 256 \in UInt8 /\ n \div 256 \in UInt8 /\ r.seq \in UInt8 /\ r.cmd \in UInt8
      BY SentTyped
    <2> QED
      BY <2>1, FewBytes DEF RequestHeader
  <1>3. c = h \o r.data /\ h[1] = n % 256 /\ h[2] = n \div 256
    BY DEF Body, RequestHeader
  <1>4. /\ c \in Seq(UInt8) /\ Len(c) = n + 4 /\ n \in Nat
        /\ c[1] = n % 256 /\ c[2] = n \div 256
    <2>1. r.data \in Seq(UInt8)
      BY SentTyped
    <2>5. n \in Nat
      BY <2>1
    <2> HIDE DEF h
    <2>2. Len(h) >= 4
      BY <1>2
    <2>3. /\ h \o r.data \in Seq(UInt8) /\ Len(h \o r.data) = Len(h) + Len(r.data)
          /\ (h \o r.data)[1] = h[1] /\ (h \o r.data)[2] = h[2]
      BY <1>2, <2>1, <2>2, ConcatFront
    <2>4. /\ c \in Seq(UInt8) /\ Len(c) = 4 + Len(r.data)
          /\ c[1] = n % 256 /\ c[2] = n \div 256
      BY <1>2, <1>3, <2>3
    <2> HIDE DEF c
    <2> QED
      BY <2>4, <2>5
  <1>5. x \in UInt8 /\ y \in UInt8 /\ x + 256 * y = Crc(c)
    BY SentTyped, TwoBytes
  <1>6. full = s \o <<x, y, EOF>>
    BY DEF BuildFrame
  <1> HIDE DEF h, c, x, y
  <1>7. s \in Seq(UInt8) /\ s[1] = SOF /\ Len(s) = n + 5
    BY <1>1, <1>4
  <1>8. full = Append(s \o <<x, y>>, EOF)
    <2> HIDE DEF s
    <2> DEFINE e == EOF
    <2>1. e \in UInt8
      BY <1>1
    <2> HIDE DEF e
    <2>2. <<x, y>> \in Seq(UInt8) /\ Append(<<x, y>>, e) = <<x, y, e>>
      BY <1>5, <2>1, FewBytes
    <2>3. Append(s \o <<x, y>>, e) = s \o Append(<<x, y>>, e)
      BY <1>7, <2>1, <2>2, AppendConcat
    <2> QED
      BY <1>6, <2>2, <2>3 DEF e
  <1>9. /\ Len(full) = Len(c) + 4
        /\ \A i \in 1..Len(c) : full[i + 1] = c[i]
        /\ full[Len(full) - 2] = x /\ full[Len(full) - 1] = y
        /\ full[Len(full)] = EOF
        /\ SubSeq(full, 2, Len(full) - 3) = c
    BY <1>1, <1>4, <1>5, <1>8, Layout
  <1>10. full[2] = n % 256 /\ full[3] = n \div 256
    <2>1. 1 \in 1..Len(c) /\ 2 \in 1..Len(c)
      BY <1>4
    <2>2. full[1 + 1] = c[1] /\ full[2 + 1] = c[2]
      BY <1>9, <2>1
    <2>3. full[2] = c[1] /\ full[3] = c[2]
      BY <2>2
    <2> QED
      BY <1>4, <2>3
  <1>11. full \in Seq(UInt8) /\ full[1] = SOF
    <2> DEFINE t == <<x, y, EOF>>
    <2>1. t \in Seq(UInt8) /\ Len(t) = 3
      BY <1>1, <1>5
    <2> HIDE DEF s, t
    <2>2. s \o t \in Seq(UInt8)
      BY <1>7, <2>1, ConcatProperties
    <2>3. (s \o t)[1] = s[1]
      <3>1. 1 \in 1..Len(s) + Len(t) /\ 1 <= Len(s)
        BY <1>4, <1>7, <2>1
      <3> QED
        BY <1>7, <2>1, <3>1, ConcatProperties
    <2> QED
      BY <1>6, <1>7, <2>2, <2>3 DEF t
  <1>12. full[2] + 256 * full[3] = n
    BY <1>10, SentTyped
  <1> QED
    BY <1>4, <1>5, <1>9, <1>11, <1>12 DEF c

\* What the device has of a command it is receiving begins with SOF, has a
\* length that fits, and is complete exactly when nothing is left on the line.
LEMMA PartOfFrame ==
  ASSUME NEW r, Sent(r), NEW p \in Seq(UInt8), NEW q \in Seq(UInt8), p # <<>>,
         p \o q = BuildFrame(r)
  PROVE  /\ p[1] = SOF /\ ~Frames!TooLong(p)
         /\ Frames!Complete(p) <=> q = <<>>
  <1> DEFINE full == BuildFrame(r)
             n == Len(r.data)
             k == Len(p)
  <1>1. /\ full[1] = SOF /\ Len(full) = n + 8 /\ full[2] + 256 * full[3] = n
    BY BuildShape
  <1>2. n <= MaxData
    BY SentTyped
  <1>3. n \in Nat /\ MaxData \in Nat /\ k \in Nat \ {0} /\ Len(q) \in Nat
    BY SentTyped, EmptySeq, ConstantsAssumption DEF UInt16
  <1>4. Len(full) = k + Len(q)
    BY ConcatProperties
  <1>5. \A i \in 1..k : p[i] = full[i]
    <2>1. \A i \in 1..k + Len(q) : full[i] = IF i <= k THEN p[i] ELSE q[i - k]
      BY ConcatProperties
    <2> QED
      BY <1>3, <2>1
  <1>6. q = <<>> <=> Len(q) = 0
    BY EmptySeq
  <1> HIDE DEF full, n
  <1>7. p[1] = SOF
    BY <1>1, <1>3, <1>5
  <1>8. k >= 3 => Frames!LengthOf(p) = n
    BY <1>1, <1>3, <1>5 DEF Frames!LengthOf
  <1>9. ~Frames!TooLong(p)
    <2>1. k = 3 => ~(Frames!LengthOf(p) > MaxData)
      BY <1>2, <1>3, <1>8
    <2> QED
      BY <2>1 DEF Frames!TooLong
  <1>10. Frames!Complete(p) <=> q = <<>>
    BY <1>1, <1>3, <1>4, <1>6, <1>8 DEF Frames!Complete
  <1> QED
    BY <1>7, <1>9, <1>10

-----------------------------------------------------------------------------
(* The parser and the frame.                                               *)

\* What the parser holds of a frame is a sequence of bytes.
LEMMA ReceivedTyped == ASSUME UsbInv PROVE Received \in Seq(UInt8)
  <1> DEFINE x == frame.length % 256
             y == frame.length \div 256
             u == frame.crc % 256
             v == frame.crc \div 256
             c == Covered
  <1>1. /\ FrameOK /\ FieldsInv
    BY DEF UsbInv, TypeOK, FrameOK
  <1>2. /\ x \in UInt8 /\ y \in UInt8 /\ u \in UInt8 /\ v \in UInt8
        /\ frame.seq \in UInt8 /\ c \in Seq(UInt8) /\ SOF \in UInt8
    <2>1. frame.length \in UInt16 /\ frame.crc \in UInt16
      BY <1>1, FieldTypes
    <2>2. frame.seq \in UInt8 /\ c \in Seq(UInt8)
      BY <1>1, FieldTypes
    <2>3. SOF \in UInt8
      BY DEF SOF, UInt8
    <2> QED
      BY <2>1, <2>2, <2>3, TwoBytes
  <1>3. /\ parse = "LEN_H" => frame.length \in UInt8
        /\ parse = "CRC_H" => frame.crc \in UInt8
    BY <1>1, FieldTypes DEF FieldsInv, UInt8, UInt16
  <1>4. parse \in ParseStates
    BY <1>1 DEF FrameOK
  <1> HIDE DEF x, y, u, v, c
  <1>5. /\ <<SOF>> \o c \in Seq(UInt8)
        /\ \A b \in UInt8 : <<SOF>> \o c \o <<b>> \in Seq(UInt8)
        /\ <<SOF>> \o c \o <<u, v>> \in Seq(UInt8)
    BY <1>2
  <1>6. <<SOF>> \o <<x, y>> \in Seq(UInt8) /\ <<SOF>> \o <<x, y>> \o <<frame.seq>> \in Seq(UInt8)
    BY <1>2
  <1>7. CASE parse \in {"IDLE", "LEN_L", "LEN_H"}
    BY <1>2, <1>3, <1>7 DEF Received
  <1>8. CASE parse \in {"SEQ", "CMD"}
    BY <1>6, <1>8 DEF Received, x, y
  <1>9. CASE parse \in {"DATA", "CRC_L", "CRC_H", "EOF"}
    BY <1>3, <1>5, <1>9 DEF Received, c, u, v
  <1> QED
    BY <1>4, <1>7, <1>8, <1>9 DEF ParseStates

\* A byte that does not end a frame is one step of the frame layer's Hunt or
\* Collect.
LEMMA NotAtEof ==
  ASSUME UsbInv, NEW b \in UInt8, ParseByte(b), ~RxEof(b)
  PROVE  /\ Frames!Hunt(b) \/ Frames!Collect(b)
         /\ UsbInv' /\ UNCHANGED device /\ Quiet
  <1>1. \/ RxIdle(b) \/ RxLenL(b) \/ RxLenH(b) \/ RxSeq(b) \/ RxCmd(b)
        \/ RxData(b) \/ RxCrcL(b) \/ RxCrcH(b)
    BY DEF ParseByte
  <1>2. FrameOK' /\ FieldsInv' /\ DataInBounds' /\ UNCHANGED device /\ Quiet
    BY <1>1, CollectSafe
  <1>3. DeviceOK /\ ConfigInRange
    BY DEF UsbInv, TypeOK, DeviceOK
  <1>4. UsbInv'
    BY <1>2, <1>3 DEF device, Quiet, DeviceOK, ConfigInRange, UsbInv, TypeOK, FrameOK
  <1> QED
    BY <1>1, <1>2, <1>4, HuntStep, StartCollects, LengthCollects, BodyCollects

\* Whatever byte it is, the device's own invariant holds on.
LEMMA ByteSafe ==
  ASSUME UsbInv, NEW b \in UInt8, ParseByte(b) PROVE UsbInv'
  <1>1. CASE RxEof(b)
    BY <1>1, EofSafe DEF UsbInv, TypeOK, FrameOK, DeviceOK
  <1>2. CASE ~RxEof(b)
    BY <1>2, NotAtEof
  <1> QED
    BY <1>1, <1>2

\* At the end of a command the parser's fields are what the host wrote.
LEMMA FieldsAreSent ==
  ASSUME UsbInv, NEW r, Sent(r), NEW b \in UInt8, parse = "EOF",
         Append(Received, b) = BuildFrame(r)
  PROVE  /\ Covered = Body(r) /\ b = EOF /\ frame.crc = Crc(Body(r))
         /\ frame.seq = r.seq /\ frame.cmd = r.cmd /\ frame.data = r.data
  <1> DEFINE c == Covered
             x == frame.crc % 256
             y == frame.crc \div 256
             full == BuildFrame(r)
  <1>1. FrameOK
    BY DEF UsbInv, TypeOK, FrameOK
  <1>2. full = Append((<<SOF>> \o c) \o <<x, y>>, b)
    BY DEF Received
  <1>3. /\ c \in Seq(UInt8) /\ Header \in Seq(UInt8) /\ Len(Header) = 4
        /\ frame.data \in Seq(UInt8) /\ frame.crc \in UInt16
    BY <1>1, FieldTypes
  <1>4. SOF \in UInt8 /\ x \in UInt8 /\ y \in UInt8 /\ x + 256 * y = frame.crc
    <2>1. SOF \in UInt8
      BY DEF SOF, UInt8
    <2> QED
      BY <1>3, <2>1, TwoBytes
  <1>5. /\ SubSeq(full, 2, Len(full) - 3) = Body(r) /\ full[Len(full)] = EOF
        /\ full[Len(full) - 2] + 256 * full[Len(full) - 1] = Crc(Body(r))
    BY BuildShape
  <1> HIDE DEF c, x, y, full
  <1>6. /\ SubSeq(full, 2, Len(full) - 3) = c /\ full[Len(full)] = b
        /\ full[Len(full) - 2] = x /\ full[Len(full) - 1] = y
    BY <1>2, <1>3, <1>4, Layout
  <1>7. c = Body(r) /\ b = EOF /\ frame.crc = Crc(Body(r))
    BY <1>4, <1>5, <1>6
  <1>8. Header \o frame.data = RequestHeader(r) \o r.data
    BY <1>7 DEF c, Covered, Header, Body, RequestHeader
  <1>9. RequestHeader(r) \in Seq(UInt8) /\ Len(RequestHeader(r)) = 4 /\ r.data \in Seq(UInt8)
    <2>1. /\ Len(r.data) % 256 \in UInt8 /\ Len(r.data) \div 256 \in UInt8
          /\ r.seq \in UInt8 /\ r.cmd \in UInt8 /\ r.data \in Seq(UInt8)
      BY SentTyped
    <2> DEFINE k == Len(r.data) % 256
               l == Len(r.data) \div 256
    <2>2. RequestHeader(r) = <<k, l, r.seq, r.cmd>>
      BY DEF RequestHeader
    <2>3. k \in UInt8 /\ l \in UInt8
      BY <2>1
    <2> HIDE DEF k, l
    <2> QED
      BY <2>1, <2>2, <2>3, FewBytes
  <1>10. Header = RequestHeader(r) /\ frame.data = r.data
    <2> DEFINE h == RequestHeader(r)
    <2>1. h \in Seq(UInt8) /\ Len(h) = 4 /\ Header \o frame.data = h \o r.data
      BY <1>8, <1>9
    <2> HIDE DEF h
    <2>2. /\ Header \in Seq(UInt8) /\ Len(Header) = Len(h)
          /\ frame.data \in Seq(UInt8) /\ r.data \in Seq(UInt8)
      BY <1>3, <1>9, <2>1
    <2>3. Header = h /\ frame.data = r.data
      BY <2>1, <2>2, SameParts
    <2> QED
      BY <2>3 DEF h
  <1>11. frame.seq = r.seq /\ frame.cmd = r.cmd
    BY <1>10 DEF Header, RequestHeader
  <1> QED
    BY <1>7, <1>10, <1>11 DEF c

-----------------------------------------------------------------------------
(* Answers.                                                                *)

\* What the device's own handlers do on an ACK, in terms of the frame.
FrameCarriedOut ==
  /\ frame.cmd = SET_VOLUME /\ SET_VOLUME \notin Handled => config'.volume = frame.data[1]
  /\ frame.cmd = CONNECT_TO /\ CONNECT_TO \notin Handled => config'.url = frame.length
  /\ frame.cmd = RESET /\ RESET \notin Handled => ~config'.configured

\* What process_frame sends first names the frame's sequence number, unless a
\* registered handler sent it, and is an ACK only when the command is done.
FirstReply(m) ==
  /\ m.cmd # "none"
  /\ m.cmd # "OWN" => m.seq = frame.seq
  /\ m.cmd = "ACK" => m.seq = frame.seq /\ FrameCarriedOut

\* Refusals.
LEMMA RefusalReplies ==
  ASSUME NEW error, Refuse(error) PROVE replies' # <<>> /\ FirstReply(Head(replies'))
  BY DEF Refuse, Send, Nack, FirstReply

\* The device's own handlers.
LEMMA DispatchReplies ==
  ASSUME UsbInv, Dispatch PROVE replies' # <<>> /\ FirstReply(Head(replies'))
  <1> USE DEF CONNECT_TO, CONNECT, DISCONNECT, SET_VOLUME, STATUS, SHOW_CONFIG, RESET
  <1>1. /\ config \in ConfigType /\ frame.length \in UInt16
    BY DEF UsbInv, TypeOK, ConfigType
  <1>2. ASSUME Send(<<Ack>>), FrameCarriedOut
        PROVE  replies' # <<>> /\ FirstReply(Head(replies'))
    BY <1>2 DEF Send, Ack, FirstReply
  <1>3. CASE frame.cmd = CONNECT_TO /\ HandleConnectTo
    <2>1. CASE frame.length = 0 \/ frame.length >= UrlSize
      BY <1>3, <2>1, RefusalReplies DEF HandleConnectTo
    <2>2. CASE ~(frame.length = 0 \/ frame.length >= UrlSize)
      <3>1. Send(<<Ack>>) /\ config'.url = frame.length
        BY <1>1, <1>3, <2>2 DEF HandleConnectTo, ConfigType
      <3> QED
        BY <1>2, <1>3, <3>1 DEF FrameCarriedOut
    <2> QED
      BY <2>1, <2>2
  <1>4. CASE frame.cmd = CONNECT /\ HandleConnect
    <2>1. CASE config.configured
      BY <1>2, <1>4, <2>1 DEF HandleConnect, FrameCarriedOut
    <2>2. CASE ~config.configured
      BY <1>4, <2>2, RefusalReplies DEF HandleConnect
    <2> QED
      BY <2>1, <2>2
  <1>5. CASE \/ frame.cmd = DISCONNECT /\ HandleDisconnect
             \/ frame.cmd = SHOW_CONFIG /\ HandleShowConfig
    BY <1>2, <1>5 DEF HandleDisconnect, HandleShowConfig, FrameCarriedOut
  <1>6. CASE frame.cmd = SET_VOLUME /\ HandleSetVolume
    <2>1. CASE frame.length # 1 \/ frame.data[1] > 100
      BY <1>6, <2>1, RefusalReplies DEF HandleSetVolume
    <2>2. CASE ~(frame.length # 1 \/ frame.data[1] > 100)
      <3>1. Send(<<Ack>>) /\ config'.volume = frame.data[1]
        BY <1>1, <1>6, <2>2 DEF HandleSetVolume, ConfigType
      <3> QED
        BY <1>2, <1>6, <3>1 DEF FrameCarriedOut
    <2> QED
      BY <2>1, <2>2
  <1>7. CASE frame.cmd = STATUS /\ HandleStatus
    BY <1>7 DEF HandleStatus, Send, StatusResp, FirstReply
  <1>8. CASE frame.cmd = RESET /\ HandleReset
    BY <1>2, <1>8 DEF HandleReset, ZeroConfig, FrameCarriedOut
  <1>9. CASE Refuse("UNKNOWN_CMD")
    BY <1>9, RefusalReplies
  <1> QED
    BY <1>3, <1>4, <1>5, <1>6, <1>7, <1>8, <1>9 DEF Dispatch

\* process_frame as a whole.
LEMMA FrameReplies ==
  ASSUME UsbInv, NEW b, ProcessFrame(b) PROVE replies' # <<>> /\ FirstReply(Head(replies'))
  <1>1. CASE Refuse("INVALID_FRAME") \/ Refuse("CRC_FAILED")
    BY <1>1, RefusalReplies
  <1>2. CASE HasHandler /\ Registered
    <2>1. frame.cmd \in Handled
      BY <1>2 DEF HasHandler
    <2>2. FrameCarriedOut
      BY <2>1 DEF FrameCarriedOut
    <2> QED
      BY <1>2, <2>2 DEF Registered, Send, Ack, Nack, OwnReply, FirstReply
  <1>3. CASE Dispatch
    BY <1>3, DispatchReplies
  <1> QED
    BY <1>1, <1>2, <1>3 DEF ProcessFrame

-----------------------------------------------------------------------------
(* The steps.                                                              *)

\* A byte of the command under way, on a line that has lost nothing.
LEMMA CommandByte ==
  ASSUME HostBase, request.waiting, OnItsWay, DeviceRx
  PROVE  \/ OnItsWay' /\ UNCHANGED config
         \/ AnswerIn' /\ Covered = Body(request)
  <1> DEFINE b == Head(line)
             p == Append(Received, b)
  <1>1. /\ UsbInv /\ line \in Seq(UInt8) /\ Sent(request) /\ line # <<>>
        /\ Received \in Seq(UInt8) /\ Received \o line = BuildFrame(request)
    BY ReceivedTyped DEF HostBase, OnItsWay
  <1>2. /\ ParseByte(b) /\ line' = Tail(line) /\ inbox' = inbox \o replies'
        /\ request' = request /\ inbox = <<>>
    BY DEF DeviceRx, OnItsWay
  <1>3. /\ b \in UInt8 /\ Tail(line) \in Seq(UInt8) /\ p \in Seq(UInt8) /\ p # <<>>
        /\ p \o Tail(line) = BuildFrame(request)
    BY <1>1, NextByte
  <1>4. /\ p[1] = SOF /\ ~Frames!TooLong(p)
        /\ Frames!Complete(p) <=> Tail(line) = <<>>
    BY <1>1, <1>3, PartOfFrame
  <1> HIDE DEF b
  <1>5. CASE ~RxEof(b)
    <2>1. /\ Frames!Hunt(b) \/ Frames!Collect(b)
          /\ UNCHANGED device /\ replies' = <<>>
      BY <1>1, <1>2, <1>3, <1>5, NotAtEof DEF Quiet
    <2>2. Received' = p /\ ~Frames!Complete(p)
      <3>1. CASE Frames!Collect(b)
        BY <1>4, <3>1 DEF Frames!Collect
      <3>2. CASE Frames!Hunt(b)
        <4>1. Received = <<>> /\ p = <<b>>
          BY <3>2 DEF Frames!Hunt
        <4>2. b = SOF
          BY <1>4, <4>1
        <4>3. Received' = <<b>>
          BY <3>2, <4>2 DEF Frames!Hunt, SOF
        <4> QED
          BY <4>1, <4>3 DEF Frames!Complete
      <3> QED
        BY <2>1, <3>1, <3>2
    <2>3. inbox' = <<>>
      BY <1>2, <2>1
    <2> QED
      BY <1>2, <1>3, <1>4, <2>1, <2>2, <2>3 DEF OnItsWay, device
  <1>6. CASE RxEof(b)
    <2>1. parse = "EOF" /\ parse' = "IDLE" /\ ProcessFrame(b)
      BY <1>6 DEF RxEof, Step
    <2>2. Frames!Complete(p)
      BY <1>1, <1>3, <1>6, EofFinishes DEF Frames!Finish
    <2>3. Tail(line) = <<>> /\ p = BuildFrame(request)
      BY <1>3, <1>4, <2>2, ConcatEmptySeq
    <2>4. /\ Covered = Body(request) /\ frame.seq = request.seq
          /\ frame.cmd = request.cmd /\ frame.data = request.data
      BY <1>1, <1>3, <2>1, <2>3, FieldsAreSent
    <2>5. frame.length = Len(frame.data)
      BY <1>1, <2>1 DEF UsbInv, DataInBounds
    <2>6. replies' # <<>> /\ FirstReply(Head(replies'))
      BY <1>1, <2>1, FrameReplies
    <2>7. inbox' = replies'
      BY <1>2
    <2>8. Heard(request, Head(inbox))'
      BY <1>2, <2>4, <2>5, <2>6, <2>7 DEF FirstReply, FrameCarriedOut, Heard, CarriedOut
    <2> QED
      BY <1>2, <2>1, <2>3, <2>4, <2>6, <2>7, <2>8 DEF AnswerIn
  <1> QED
    BY <1>5, <1>6

\* What holds whatever is lost.
LEMMA BaseStep == HostBase /\ [HostNext]_allVars => HostBase'
  <1> SUFFICES ASSUME HostBase, [HostNext]_allVars PROVE HostBase'
    OBVIOUS
  <1>0. UsbInv /\ line \in Seq(UInt8)
    BY DEF HostBase
  <1>1. CASE HostSend
    <2>1. PICK r \in Requests :
            /\ request' = Numbered(r, host_seq)
            /\ line' = line \o BuildFrame(Numbered(r, host_seq))
      BY <1>1 DEF HostSend
    <2>2. /\ host_seq' = (host_seq + 1) % HostSeqRange
          /\ UNCHANGED <<lost, parse, frame, device>> /\ Quiet
      BY <1>1 DEF HostSend
    <2>3. Sent(Numbered(r, host_seq)) /\ Sent(request')
      BY <2>1 DEF HostBase, Sent
    <2>4. line' \in Seq(UInt8)
      BY <1>0, <2>1, <2>3, BuildShape, ConcatProperties
    <2>5. host_seq' \in 0..(HostSeqRange - 1)
      BY <2>2, HostAssumption DEF HostBase
    <2>6. UsbInv'
      BY <1>0, <2>2 DEF Quiet, device, UsbInv, TypeOK, FieldsInv, DataInBounds, ConfigInRange
    <2>7. Sent(request)'
      BY <2>3 DEF Sent
    <2> QED
      BY <2>2, <2>4, <2>5, <2>6, <2>7 DEF HostBase
  <1>2. CASE HostRead
    <2>1. ~request'.waiting
      BY <1>2 DEF HostRead, NoRequest
    <2>2. UNCHANGED <<line, host_seq, lost, parse, frame, device>> /\ Quiet
      BY <1>2 DEF HostRead
    <2>3. UsbInv'
      BY <1>0, <2>2 DEF Quiet, device, UsbInv, TypeOK, FieldsInv, DataInBounds, ConfigInRange
    <2> QED
      BY <2>1, <2>2, <2>3 DEF HostBase
  <1>3. CASE DeviceRx
    <2>1. line # <<>> /\ ParseByte(Head(line)) /\ line' = Tail(line)
      BY <1>3 DEF DeviceRx
    <2>2. Head(line) \in UInt8 /\ line' \in Seq(UInt8)
      BY <1>0, <2>1, HeadTailProperties
    <2>3. UsbInv'
      BY <1>0, <2>1, <2>2, ByteSafe
    <2> QED
      BY <1>3, <2>2, <2>3 DEF DeviceRx, HostBase, Sent
  <1>4. CASE LoseByte
    <2>1. line' \in Seq(UInt8)
      BY <1>0, <1>4, HeadTailProperties DEF LoseByte
    <2>2. lost' \in 0..MaxLost
      BY <1>4, HostAssumption DEF LoseByte, HostBase
    <2>3. UsbInv'
      BY <1>0, <1>4
      DEF LoseByte, Quiet, device, UsbInv, TypeOK, FieldsInv, DataInBounds, ConfigInRange
    <2> QED
      BY <1>4, <2>1, <2>2, <2>3 DEF LoseByte, HostBase, Sent
  <1>5. CASE DeviceApp
    <2>1. UsbInv'
      BY <1>0, <1>5, UsbInvStep DEF DeviceApp, Next
    <2> QED
      BY <1>5, <2>1 DEF DeviceApp, host, HostBase, Sent
  <1>6. CASE UNCHANGED allVars
    <2>1. UsbInv'
      BY <1>0, <1>6, UsbInvStep DEF allVars
    <2> QED
      BY <1>6, <2>1 DEF allVars, host, HostBase, Sent
  <1> QED
    BY <1>1, <1>2, <1>3, <1>4, <1>5, <1>6 DEF HostNext

\* A step of the application on the device, or none, leaves the two in step.
LEMMA StayInStep ==
  ASSUME InStep, UNCHANGED <<host, parse, frame, config>> PROVE InStep'
  <1>1. UNCHANGED <<line, request, inbox, result, parse, Received>>
    BY DEF host, Received, Covered
  <1>2. \A r, m : Heard(r, m)' <=> Heard(r, m)
    BY DEF Heard, CarriedOut
  <1> QED
    BY <1>1, <1>2 DEF InStep, OnItsWay, AnswerIn, Heard, CarriedOut

\* As long as nothing is lost, the device and the host stay in step.
LEMMA InStepStep ==
  ASSUME HostBase, InStep, [HostNext]_allVars, ~LoseByte PROVE InStep'
  <1>1. CASE HostSend
    <2>1. PICK r \in Requests :
            /\ request' = Numbered(r, host_seq)
            /\ line' = line \o BuildFrame(Numbered(r, host_seq))
      BY <1>1 DEF HostSend
    <2>2. /\ ~request.waiting /\ result' = NoResult
          /\ UNCHANGED <<inbox, lost, parse, frame>>
      BY <1>1 DEF HostSend
    <2>3. line = <<>> /\ parse = "IDLE" /\ inbox = <<>>
      BY <2>2 DEF InStep
    <2> DEFINE full == BuildFrame(Numbered(r, host_seq))
    <2>4. Sent(Numbered(r, host_seq))
      BY DEF HostBase, Sent
    <2>5. full \in Seq(UInt8) /\ full # <<>>
      <3>1. full \in Seq(UInt8) /\ full[1] = SOF /\ Len(full) = Len(r.data) + 8
        BY <2>4, BuildShape DEF Numbered
      <3>2. Len(r.data) \in Nat
        BY HostAssumption
      <3> HIDE DEF full
      <3> QED
        BY <3>1, <3>2
    <2>6. Received' = <<>> /\ full = BuildFrame(request)'
      BY <2>1, <2>2, <2>3 DEF Received, BuildFrame, Body
    <2> HIDE DEF full
    <2>7. line' = full /\ Received' \o line' = full
      BY <2>1, <2>3, <2>5, <2>6, ConcatEmptySeq DEF full
    <2>8. OnItsWay'
      BY <2>2, <2>3, <2>5, <2>6, <2>7 DEF OnItsWay
    <2>9. request'.waiting
      BY <2>1 DEF Numbered
    <2> QED
      BY <2>2, <2>8, <2>9 DEF InStep
  <1>2. CASE HostRead
    <2>1. /\ request.waiting /\ line = <<>> /\ inbox' = <<>> /\ request' = NoRequest
          /\ UNCHANGED <<line, parse, config>>
          /\ result' = [request |-> request,
                        reply |-> IF inbox = <<>> THEN [cmd |-> "none"] ELSE Head(inbox)]
      BY <1>2 DEF HostRead, device
    <2>2. AnswerIn
      BY <2>1 DEF InStep, OnItsWay
    <2>3. result'.request = request /\ result'.reply = Head(inbox)
      BY <2>1, <2>2 DEF AnswerIn
    <2>4. Heard(result.request, result.reply)'
      BY <2>1, <2>2, <2>3 DEF AnswerIn, Heard, CarriedOut
    <2>5. ~request'.waiting
      BY <2>1 DEF NoRequest
    <2> QED
      BY <2>1, <2>2, <2>4, <2>5 DEF InStep, AnswerIn
  <1>3. CASE DeviceRx
    <2>1. line # <<>>
      BY <1>3 DEF DeviceRx
    <2>2. request.waiting /\ OnItsWay /\ result = NoResult
      BY <2>1 DEF InStep, AnswerIn
    <2>3. OnItsWay' \/ AnswerIn'
      BY <1>3, <2>2, CommandByte
    <2> QED
      BY <1>3, <2>2, <2>3 DEF DeviceRx, InStep
  <1>4. CASE DeviceApp
    BY <1>4, StayInStep DEF DeviceApp, RegisterHandler, SetState, host
  <1>5. CASE UNCHANGED allVars
    BY <1>5, StayInStep DEF allVars, vars, device, host
  <1> QED
    BY <1>1, <1>2, <1>3, <1>4, <1>5 DEF HostNext

\* Nothing is on the line when the script starts.
LEMMA HostInvInit == HostInit => HostInv
  <1> SUFFICES ASSUME HostInit PROVE HostInv
    OBVIOUS
  <1>1. /\ Init /\ line = <<>> /\ host_seq = 0 /\ request = NoRequest
        /\ inbox = <<>> /\ result = NoResult /\ lost = 0
    BY DEF HostInit
  <1>2. UsbInv /\ parse = "IDLE"
    BY <1>1, UsbInvInit DEF Init
  <1>3. ~request.waiting
    BY <1>1 DEF NoRequest
  <1> QED
    BY <1>1, <1>2, <1>3, HostAssumption DEF HostInv, HostBase, InStep

\* A step may lose a byte: then nothing is claimed any more.
LEMMA HostInvStep == HostInv /\ [HostNext]_allVars => HostInv'
  <1> SUFFICES ASSUME HostInv, [HostNext]_allVars PROVE HostInv'
    OBVIOUS
  <1>1. HostBase /\ HostBase'
    BY BaseStep DEF HostInv
  <1>2. CASE LoseByte
    <2>1. lost' # 0
      BY <1>1, <1>2, HostAssumption DEF LoseByte, HostBase
    <2> QED
      BY <1>1, <2>1 DEF HostInv
  <1>3. CASE ~LoseByte
    <2>1. lost' = lost
      BY <1>3 DEF HostNext, HostSend, HostRead, DeviceRx, DeviceApp, host, allVars
    <2> QED
      BY <1>1, <1>3, <2>1, InStepStep DEF HostInv
  <1> QED
    BY <1>2, <1>3

-----------------------------------------------------------------------------
(* What the host program can rely on.                                      *)

\* The invariant, for every value of the constants.
LEMMA HostInvariant == HostSpec => []HostInv
  BY HostInvInit, HostInvStep, PTL DEF HostSpec

\* As long as the line has lost nothing, send_command never comes back empty,
\* and the frame that it reads is the answer to the command it has just sent,
\* not to one before.
THEOREM CommandsAreAnswered == HostSpec => []AnsweredInTurn
  <1>1. HostInv => AnsweredInTurn
    BY DEF HostInv, InStep, Heard, AnsweredInTurn, Answers
  <1> QED
    BY <1>1, HostInvariant, PTL

\* As long as nothing is lost, an ACK means that the device did what the
\* command says, unless the application has taken that command over.
THEOREM AcksAreTrue == HostSpec => [](lost = 0 => AckMeansDone)
  <1>1. HostInv => (lost = 0 => AckMeansDone)
    <2> SUFFICES ASSUME HostInv, lost = 0 PROVE AckMeansDone
      OBVIOUS
    <2>1. InStep
      BY DEF HostInv
    <2>2. CASE result = NoResult
      BY <2>2 DEF NoResult, AckMeansDone
    <2>3. CASE result # NoResult
      BY <2>1, <2>3 DEF InStep, Heard, AckMeansDone
    <2> QED
      BY <2>2, <2>3
  <1> QED
    BY <1>1, HostInvariant, PTL

\* On a line that loses nothing the device changes its configuration only at the last byte of
\* the command under way, for exactly the bytes that the host wrote.
THEOREM OnlyTheCommandActs ==
  ASSUME MaxLost = 0
  PROVE  HostSpec => OnlySentCommandsAct
  <1> DEFINE Acts == config' # config => request.waiting /\ Covered = Body(request)
  <1>1. HostInv /\ [HostNext]_allVars => [Acts]_allVars
    <2> SUFFICES ASSUME HostInv, HostNext PROVE Acts
      OBVIOUS
    <2>1. lost = 0 /\ InStep /\ HostBase
      BY DEF HostInv, HostBase
    <2>2. CASE HostSend \/ HostRead \/ LoseByte \/ DeviceApp
      BY <2>2
      DEF HostSend, HostRead, LoseByte, DeviceApp, RegisterHandler, SetState, device
    <2>3. CASE DeviceRx
      <3>1. request.waiting /\ OnItsWay
        BY <2>1, <2>3 DEF DeviceRx, InStep, AnswerIn
      <3> QED
        BY <2>1, <2>3, <3>1, CommandByte
    <2> QED
      BY <2>2, <2>3 DEF HostNext
  <1> QED
    BY <1>1, HostInvariant, PTL DEF HostSpec, OnlySentCommandsAct

\* Whatever the line loses, and wherever, the device's configuration is in
\* range.
THEOREM ConfigSurvivesLosses == HostSpec => []ConfigInRange
  <1>1. HostInv => ConfigInRange
    BY DEF HostInv, HostBase, UsbInv
  <1> QED
    BY <1>1, HostInvariant, PTL

=============================================================================
