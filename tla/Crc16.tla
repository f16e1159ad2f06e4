------------------------------- MODULE Crc16 --------------------------------
(***************************************************************************)
(* usb_cmd_crc16: CRC-16/CCITT, bit by bit, in 16-bit arithmetic; and what *)
(* it should compute, a remainder of polynomials over the field of two     *)
(* elements.                                                               *)
(***************************************************************************)
EXTENDS Naturals, Sequences, SequencesExt, Bitwise

POLY == 4129       \* 0x1021
CRC_INIT == 65535  \* 0xFFFF

\* One turn of the inner loop.
Shift(crc) == IF crc >= 32768 THEN ((2 * crc) % 65536) ^^ POLY ELSE 2 * crc

\* Mutant: the byte is not brought to the top of the register.
AddByteLow(crc, byte) == FoldLeft(LAMBDA c, j : Shift(c), crc ^^ byte, [j \in 1..8 |-> j])

\* One turn of the outer loop.
AddByte(crc, byte) ==
  FoldLeft(LAMBDA c, j : Shift(c), crc ^^ (256 * byte), [j \in 1..8 |-> j])

UsbCrc16(data) == FoldLeft(AddByte, CRC_INIT, data)

-----------------------------------------------------------------------------
(* The reference definition.                                               *)

\* x^16 + x^12 + x^5 + 1, highest power first.
Divisor == [k \in 0..16 |-> IF k \in {0, 4, 11, 16} THEN 1 ELSE 0]

\* The message, first bit first, its first 16 bits inverted, times x^16.
Dividend(data) ==
  [i \in 1..(8 * Len(data) + 16) |->
     LET bit == IF i > 8 * Len(data) THEN 0
                ELSE (data[((i - 1) \div 8) + 1] \div 2^(7 - ((i - 1) % 8))) % 2
     IN  IF i <= 16 THEN 1 - bit ELSE bit]

\* Long division: cancel the leading bits one after the other.
Cancel(bits, i) ==
  IF bits[i] = 0 THEN bits
  ELSE [k \in DOMAIN bits |->
          IF k \in i..(i + 16) THEN (bits[k] + Divisor[k - i]) % 2 ELSE bits[k]]

Remainder(data) ==
  LET n    == 8 * Len(data)
      left == FoldLeft(Cancel, Dividend(data), [i \in 1..n |-> i])
  IN  FoldLeft(LAMBDA value, i : 2 * value + left[n + i], 0, [i \in 1..16 |-> i])

=============================================================================
