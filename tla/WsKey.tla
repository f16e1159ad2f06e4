------------------------------- MODULE WsKey --------------------------------
(***************************************************************************)
(* generate_ws_key: 16 random bytes in base64, without the table of its    *)
(* characters.  The loop runs in groups of three bytes, so the last group  *)
(* reads two bytes behind the array; these can be anything.                *)
(***************************************************************************)
EXTENDS Naturals, Sequences

KEY_LEN == 22  \* key[22] = '\0'

\* Mutant: the second character takes the wrong half of the next byte.
GroupLow(a, b, c) ==
  <<a \div 4, 16 * (a % 4) + (b % 16), 4 * (b % 16) + (c \div 64), c % 64>>

\* Four characters out of three bytes.
Group(a, b, c) ==
  <<a \div 4, 16 * (a % 4) + (b \div 16), 4 * (b % 16) + (c \div 64), c % 64>>

GenerateWsKey(nonce, behind) ==
  LET bytes == nonce \o behind
  IN  [j \in 1..KEY_LEN |->
         LET i == 3 * ((j - 1) \div 4)
         IN  Group(bytes[i + 1], bytes[i + 2], bytes[i + 3])[((j - 1) % 4) + 1]]

-----------------------------------------------------------------------------
(* The reference definition: the bits of a sequence of width-bit numbers.  *)

Bits(numbers, width) ==
  [k \in 1..(width * Len(numbers)) |->
     (numbers[((k - 1) \div width) + 1] \div 2^(width - 1 - ((k - 1) % width))) % 2]

=============================================================================
