------------------------------- MODULE WsWire -------------------------------
(***************************************************************************)
(* WebSocket frames as bytes: the header send_websocket_frame writes, and  *)
(* what parse_websocket_frame reads out of a buffer.                       *)
(***************************************************************************)
EXTENDS Naturals, Sequences

CONSTANT Escape  \* 126: the length that says "the length follows in 2 bytes"

ASSUME EscapeAssumption == Escape \in 1..126

TEXT == 1
CLOSE == 8

Byte == 0..255

\* send_websocket_frame.  Above 65535 the 8 bytes of the length stay zero and
\* two of its bytes follow them.
SendHeader(opcode, len) ==
  <<128 + opcode>> \o
    (IF len < Escape THEN <<len>>
     ELSE IF len < 65536 THEN <<Escape, len \div 256, len % 256>>
     ELSE <<Escape + 1, 0, 0, 0, 0, 0, 0, 0, 0, (len \div 256) % 256, len % 256>>)

-----------------------------------------------------------------------------
(* parse_websocket_frame.                                                  *)

Opcode(buf) == buf[1] % 16
LengthCode(buf) == buf[2] % 128

HeaderLen(buf) ==
  IF LengthCode(buf) = Escape THEN 4 ELSE IF LengthCode(buf) = Escape + 1 THEN 10 ELSE 2

\* A length above 65535 is more than any buffer holds.  This is also true of
\* those near 2^64, for which the sum with the header's length wraps around:
\* the function returns them as a negative int, "need more data".
Huge(buf) == LengthCode(buf) = Escape + 1 /\ \E i \in 3..8 : buf[i] # 0

\* Mutant: the two bytes of the length in the order of the host.
PayloadLenLittle(buf) ==
  CASE LengthCode(buf) = Escape     -> 256 * buf[4] + buf[3]
    [] LengthCode(buf) = Escape + 1 -> 256 * buf[9] + buf[10]
    [] OTHER                        -> LengthCode(buf)

PayloadLen(buf) ==
  CASE LengthCode(buf) = Escape     -> 256 * buf[3] + buf[4]
    [] LengthCode(buf) = Escape + 1 -> 256 * buf[9] + buf[10]
    [] OTHER                        -> LengthCode(buf)

\* Mutant: a frame is complete when there is more behind it.
CompleteLate(buf) ==
  /\ Len(buf) >= 2 /\ Len(buf) >= HeaderLen(buf)
  /\ ~Huge(buf) /\ Len(buf) > HeaderLen(buf) + PayloadLen(buf)

\* The buffer begins with a whole frame.
Complete(buf) ==
  /\ Len(buf) >= 2 /\ Len(buf) >= HeaderLen(buf)
  /\ ~Huge(buf) /\ Len(buf) >= HeaderLen(buf) + PayloadLen(buf)

FrameLen(buf) == HeaderLen(buf) + PayloadLen(buf)
Message(buf) == [opcode |-> Opcode(buf), payload |-> SubSeq(buf, HeaderLen(buf) + 1, FrameLen(buf))]

=============================================================================
