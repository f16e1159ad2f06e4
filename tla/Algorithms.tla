----------------------------- MODULE Algorithms -----------------------------
(***************************************************************************)
(* The pure functions that are arithmetic on bytes, the codecs' registers, *)
(* the key and the frame header, with what each promises: for every        *)
(* message over a set of bytes, up to a length, and every number.          *)
(***************************************************************************)
EXTENDS Codecs, WsKey, WsWire

CONSTANTS Sample, MaxLen, MaxNumber

UInt16 == {n \in Nat : n < 65536}

ASSUME InputsAssumption == Sample \subseteq Byte /\ MaxLen \in Nat /\ MaxNumber \in UInt16

VARIABLES data, number

Init == data = <<>> /\ number \in 0..MaxNumber
Next ==
  /\ number = 0 /\ Len(data) < MaxLen
  /\ \E b \in Sample : data' = Append(data, b)
  /\ UNCHANGED number
Spec == Init /\ [][Next]_<<data, number>>

\* generate_ws_key: the first 128 bits of the key are those of the nonce, in
\* order, whatever the two bytes are that the last group reads behind it.
KeyCarriesNonce ==
  data # <<>> =>
    LET nonce == [i \in 1..16 |-> data[((i - 1) % Len(data)) + 1]]
    IN  \A b, c \in Sample :
          SubSeq(Bits(GenerateWsKey(nonce, <<b, c>>), 6), 1, 128) = Bits(nonce, 8)

\* What send_websocket_frame says of a payload's length up to 65535, at the
\* change of forms too, is what parse_websocket_frame reads.
HeaderReadBack ==
  LET header == SendHeader(TEXT, number)
  IN  /\ Opcode(header) = TEXT
      /\ HeaderLen(header) = Len(header) /\ PayloadLen(header) = number
      /\ Complete(header) <=> number = 0

\* es8311_set_volume: each percent is louder than the one below it, 50 is the
\* 0 dB its comment promises, and nothing overflows the register; and
\* es7210_set_gain: up to 15 dB the steps are of half a dB.
LevelsExact ==
  /\ VolumeReg(number) \in UInt8
  /\ number < 100 => VolumeReg(number) < VolumeReg(number + 1)
  /\ number = 50 => VolumeReg(number) = 2 * 95 + 1
  /\ number <= 15 => GainReg(number) = 32 + 2 * number

=============================================================================
