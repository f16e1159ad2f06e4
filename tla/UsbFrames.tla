----------------------------- MODULE UsbFrames ------------------------------
(***************************************************************************)
(* What the receiving side of the USB protocol promises: it hunts for SOF, *)
(* collects bytes until there are as many as the length field calls for,   *)
(* and answers exactly then, for the sequence number the frame carries.    *)
(* usb_cmd.h gives the layout: SOF, LEN (2 bytes, low first), SEQ, CMD,    *)
(* DATA, CRC (2 bytes, low first), EOF.                                    *)
(***************************************************************************)
EXTENDS Naturals, Sequences

CONSTANTS Byte, MaxData, Crc(_)

VARIABLES
  raw,    \* the bytes of the frame so far; empty: hunting for SOF
  answer  \* the verdict on the frame the last step completed, or NoAnswer

vars == <<raw, answer>>

NoAnswer == [verdict |-> "none"]

LengthOf(bytes) == bytes[2] + 256 * bytes[3]
CrcOf(bytes) == bytes[Len(bytes) - 2] + 256 * bytes[Len(bytes) - 1]

TooLong(bytes) == Len(bytes) = 3 /\ LengthOf(bytes) > MaxData
Complete(bytes) == Len(bytes) >= 8 /\ Len(bytes) = LengthOf(bytes) + 8

Verdict(bytes) ==
  [seq |-> bytes[4],
   verdict |-> IF bytes[Len(bytes)] # 85 THEN "invalid_frame"
               ELSE IF Crc(SubSeq(bytes, 2, Len(bytes) - 3)) # CrcOf(bytes)
                    THEN "crc_failed" ELSE "taken"]

Hunt(b) ==
  /\ raw = <<>>
  /\ raw' = IF b = 170 THEN <<b>> ELSE <<>>
  /\ answer' = NoAnswer

Collect(b) ==
  /\ raw # <<>> /\ ~Complete(Append(raw, b))
  /\ raw' = IF TooLong(Append(raw, b)) THEN <<>> ELSE Append(raw, b)
  /\ answer' = NoAnswer

Finish(b) ==
  /\ raw # <<>> /\ Complete(Append(raw, b))
  /\ raw' = <<>>
  /\ answer' = Verdict(Append(raw, b))

\* The device does something else.
Rest == UNCHANGED raw /\ answer' = NoAnswer

Init == raw = <<>> /\ answer = NoAnswer

Next == Rest \/ \E b \in Byte : Hunt(b) \/ Collect(b) \/ Finish(b)

Spec == Init /\ [][Next]_vars

=============================================================================
