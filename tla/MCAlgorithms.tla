---------------------------- MODULE MCAlgorithms ----------------------------
(* The inputs of Algorithms through the CRC as well, for TLC: its bit      *)
(* operators and its recursive reference are nothing to prove about.       *)
EXTENDS Algorithms, Crc16

\* The shift register of usb_cmd_crc16 computes the remainder of the division,
\* for every message: no bit is lost where the C code truncates to uint16_t.
ComputesRemainder == number = 0 => UsbCrc16(data) = Remainder(data)

=============================================================================
