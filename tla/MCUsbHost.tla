----------------------------- MODULE MCUsbHost ------------------------------
(* UsbHost for TLC, with the CRC the code computes and one command of each *)
(* kind: accepted, out of range, too long for the URL, unknown.  Without   *)
(* its LEN byte, the command that sets the volume to 8 has the shape of a  *)
(* RESET; 170, in the UTF-8 form of a URL, is a start of frame out of      *)
(* place.                                                                  *)
EXTENDS UsbHost, Crc16

Command(cmd, data) == [cmd |-> cmd, data |-> data]

MCRequests ==
  {Command(CONNECT_TO, <<119>>), Command(CONNECT_TO, <<194, 170>>),
   Command(CONNECT, <<>>), Command(DISCONNECT, <<>>),
   Command(SET_VOLUME, <<RESET>>), Command(SET_VOLUME, <<101>>),
   Command(STATUS, <<>>), Command(SHOW_CONFIG, <<>>), Command(RESET, <<>>),
   Command(4, <<>>)}

MCByte == 0..255

\* usb_cmd_crc16 a byte at a time, from tables that TLC computes once.
XorOf == [a \in 0..255 |-> [b \in 0..255 |-> a ^^ b]]
Table == [b \in 0..255 |-> AddByte(0, b)]

FromTable(crc, t) == 256 * XorOf[crc % 256][t \div 256] + (t % 256)

\* CHOOSE from one value: TLC then evaluates crc once, under ENABLED too.
TableAddByte(crc, byte) ==
  CHOOSE next \in {FromTable(c, Table[XorOf[c \div 256][byte]]) : c \in {crc}} : TRUE

MCCrc(data) == FoldLeft(TableAddByte, CRC_INIT, data)

\* Both sides are linear in the two arguments: the bits of crc, one by one,
\* stand for all its values.
ASSUME TableIsCrc ==
  \A k \in 0..15, byte \in 0..255 : TableAddByte(2^k, byte) = AddByte(2^k, byte)

=============================================================================
