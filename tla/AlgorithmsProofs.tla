-------------------------- MODULE AlgorithmsProofs --------------------------
(***************************************************************************)
(* Proofs about the pure functions that are arithmetic on bytes: for every *)
(* nonce, every length of 16 bits, every volume and every gain.            *)
(***************************************************************************)
EXTENDS Algorithms, SequenceTheorems, TLAPS

-----------------------------------------------------------------------------
(* The key.                                                                *)

\* Bit number i, from the highest, of a number of width bits.
Bit(n, width, i) == (n \div 2^(width - 1 - i)) % 2

\* The 24 bits of a group are those of its three bytes, in order.
LEMMA GroupBits ==
  ASSUME NEW a \in Byte, NEW b \in Byte, NEW c \in Byte, NEW r \in 0..23
  PROVE  Bit(Group(a, b, c)[(r \div 6) + 1], 6, r % 6) = Bit(<<a, b, c>>[(r \div 8) + 1], 8, r % 8)
  <1> USE DEF Bit, Group, Byte
  <1>1. CASE r = 0 BY <1>1
  <1>2. CASE r = 1 BY <1>2
  <1>3. CASE r = 2 BY <1>3
  <1>4. CASE r = 3 BY <1>4
  <1>5. CASE r = 4 BY <1>5
  <1>6. CASE r = 5 BY <1>6
  <1>7. CASE r = 6 BY <1>7
  <1>8. CASE r = 7 BY <1>8
  <1>9. CASE r = 8 BY <1>9
  <1>10. CASE r = 9 BY <1>10
  <1>11. CASE r = 10 BY <1>11
  <1>12. CASE r = 11 BY <1>12
  <1>13. CASE r = 12 BY <1>13
  <1>14. CASE r = 13 BY <1>14
  <1>15. CASE r = 14 BY <1>15
  <1>16. CASE r = 15 BY <1>16
  <1>17. CASE r = 16 BY <1>17
  <1>18. CASE r = 17 BY <1>18
  <1>19. CASE r = 18 BY <1>19
  <1>20. CASE r = 19 BY <1>20
  <1>21. CASE r = 20 BY <1>21
  <1>22. CASE r = 21 BY <1>22
  <1>23. CASE r = 22 BY <1>23
  <1>24. CASE r = 23 BY <1>24
  <1> QED
    BY <1>1, <1>2, <1>3, <1>4, <1>5, <1>6, <1>7, <1>8, <1>9, <1>10, <1>11, <1>12,
       <1>13, <1>14, <1>15, <1>16, <1>17, <1>18, <1>19, <1>20, <1>21, <1>22, <1>23, <1>24

\* A concatenation begins with its first part.
LEMMA ConcatLeft ==
  ASSUME NEW S, NEW s \in Seq(S), NEW t \in Seq(S), NEW n \in 1..Len(s)
  PROVE  (s \o t)[n] = s[n]
BY ConcatProperties

\* A bit of the key, 24 to a group, is that of the bytes the groups are made of.
LEMMA KeyBit ==
  ASSUME NEW nonce \in Seq(Byte), Len(nonce) = 16,
         NEW behind \in Seq(Byte), Len(behind) = 2,
         NEW k \in 1..128
  PROVE  Bits(GenerateWsKey(nonce, behind), 6)[k] = Bits(nonce, 8)[k]
  <1> DEFINE bytes == nonce \o behind
             key == GenerateWsKey(nonce, behind)
             q == (k - 1) \div 24
             r == (k - 1) % 24
             i == 3 * q
             group == Group(bytes[i + 1], bytes[i + 2], bytes[i + 3])
  <1>1. /\ bytes \in Seq(Byte) /\ Len(bytes) = 18
        /\ \A n \in 1..16 : bytes[n] = nonce[n]
    <2>1. bytes \in Seq(Byte) /\ Len(bytes) = Len(nonce) + Len(behind)
      BY ConcatProperties
    <2>2. ASSUME NEW n \in 1..Len(nonce) PROVE bytes[n] = nonce[n]
      BY ConcatLeft
    <2> HIDE DEF bytes
    <2> QED
      BY <2>1, <2>2
  <1>2. /\ q \in 0..5 /\ r \in 0..23 /\ k - 1 = 24 * q + r
        /\ (k - 1) \div 6 = 4 * q + (r \div 6) /\ (k - 1) % 6 = r % 6
        /\ (k - 1) \div 8 = 3 * q + (r \div 8) /\ (k - 1) % 8 = r % 8
        /\ r \div 6 \in 0..3 /\ r \div 8 \in 0..2
    <2>1. q \in 0..5 /\ r \in 0..23 /\ k - 1 = 24 * q + r
      OBVIOUS
    <2> HIDE DEF q, r
    <2>2. (k - 1) \div 6 = 4 * q + (r \div 6) /\ (k - 1) % 6 = r % 6
      BY <2>1
    <2>3. (k - 1) \div 8 = 3 * q + (r \div 8) /\ (k - 1) % 8 = r % 8
      BY <2>1
    <2>4. r \div 6 \in 0..3 /\ r \div 8 \in 0..2
      BY <2>1
    <2> QED
      BY <2>1, <2>2, <2>3, <2>4
  <1> HIDE DEF q, r, bytes
  <1>3. bytes[i + 1] \in Byte /\ bytes[i + 2] \in Byte /\ bytes[i + 3] \in Byte
    <2>1. i + 1 \in 1..18 /\ i + 2 \in 1..18 /\ i + 3 \in 1..18
      BY <1>2
    <2> HIDE DEF i
    <2> QED
      BY <1>1, <2>1, ElementOfSeq
  <1>4. key[4 * q + (r \div 6) + 1] = group[(r \div 6) + 1]
    <2> DEFINE j == 4 * q + (r \div 6) + 1
    <2>1. j \in 1..22
      <3>1. 6 * (4 * q + (r \div 6)) <= k - 1
        BY <1>2
      <3> QED
        BY <1>2, <3>1
    <2>2. (j - 1) \div 4 = q /\ (j - 1) % 4 = r \div 6
      BY <1>2
    <2> HIDE DEF j
    <2>3. key[j] = group[((j - 1) % 4) + 1]
      BY <2>1, <2>2 DEF GenerateWsKey, KEY_LEN, bytes
    <2> QED
      BY <2>2, <2>3 DEF j
  <1>5. <<bytes[i + 1], bytes[i + 2], bytes[i + 3]>>[(r \div 8) + 1] = nonce[3 * q + (r \div 8) + 1]
    <2>1. 3 * q + (r \div 8) + 1 \in 1..16
      BY <1>2
    <2>2. bytes[3 * q + (r \div 8) + 1] = nonce[3 * q + (r \div 8) + 1]
      BY <1>1, <2>1
    <2>3. r \div 8 = 0 \/ r \div 8 = 1 \/ r \div 8 = 2
      BY <1>2
    <2> QED
      BY <1>2, <2>2, <2>3
  <1>6. Bit(group[(r \div 6) + 1], 6, r % 6)
          = Bit(<<bytes[i + 1], bytes[i + 2], bytes[i + 3]>>[(r \div 8) + 1], 8, r % 8)
    BY <1>2, <1>3, GroupBits
  <1>7. Bits(key, 6)[k] = Bit(key[4 * q + (r \div 6) + 1], 6, r % 6)
    <2>1. Len(key) = 22
      BY DEF GenerateWsKey, KEY_LEN
    <2> HIDE DEF key
    <2>2. Bits(key, 6)[k] = (key[((k - 1) \div 6) + 1] \div 2^(5 - ((k - 1) % 6))) % 2
      BY <2>1 DEF Bits
    <2> QED
      BY <1>2, <2>2 DEF Bit
  <1>8. Bits(nonce, 8)[k] = Bit(nonce[3 * q + (r \div 8) + 1], 8, r % 8)
    <2>1. Bits(nonce, 8)[k] = (nonce[((k - 1) \div 8) + 1] \div 2^(7 - ((k - 1) % 8))) % 2
      BY DEF Bits
    <2> QED
      BY <1>2, <2>1 DEF Bit
  <1> QED
    BY <1>4, <1>5, <1>6, <1>7, <1>8

\* The key begins with the bits of the nonce, for every nonce and whatever lies
\* behind it.
THEOREM KeyIsNonce ==
  ASSUME NEW nonce \in Seq(Byte), Len(nonce) = 16,
         NEW behind \in Seq(Byte), Len(behind) = 2
  PROVE  SubSeq(Bits(GenerateWsKey(nonce, behind), 6), 1, 128) = Bits(nonce, 8)
  <1> DEFINE key == GenerateWsKey(nonce, behind)
             bits == Bits(key, 6)
  <1>1. Len(key) = 22
    BY DEF GenerateWsKey, KEY_LEN
  <1>2. bits = [k \in 1..132 |-> Bit(key[((k - 1) \div 6) + 1], 6, (k - 1) % 6)]
    BY <1>1 DEF Bits, Bit
  <1>3. Bits(nonce, 8) = [k \in 1..128 |-> Bits(nonce, 8)[k]]
    BY DEF Bits
  <1>4. \A k \in 1..128 : bits[k] = Bits(nonce, 8)[k]
    BY KeyBit
  <1> HIDE DEF key, bits
  <1>5. SubSeq(bits, 1, 128) = [k \in 1..128 |-> bits[k]]
    BY <1>2
  <1> QED
    BY <1>3, <1>4, <1>5 DEF bits, key

-----------------------------------------------------------------------------
(* The frame header and the registers.                                     *)

\* What send_websocket_frame says in the header of a frame of any opcode and any
\* length up to 65535, in either form, is what parse_websocket_frame reads in it;
\* only with no payload is the frame whole.
THEOREM HeaderReadsBack ==
  ASSUME NEW opcode \in 0..15, NEW len \in UInt16
  PROVE  LET header == SendHeader(opcode, len)
         IN  /\ Opcode(header) = opcode
             /\ HeaderLen(header) = Len(header) /\ PayloadLen(header) = len
             /\ Complete(header) <=> len = 0
  <1> DEFINE header == SendHeader(opcode, len)
  <1>0. len \in Nat /\ len < 65536
    BY DEF UInt16
  <1>1. (128 + opcode) % 16 = opcode
    OBVIOUS
  <1>2. CASE len < Escape
    <2>1. header = <<128 + opcode>> \o <<len>>
      BY <1>0, <1>2 DEF SendHeader
    <2>2. len % 128 = len /\ len # Escape /\ len # Escape + 1
      BY <1>0, <1>2, EscapeAssumption
    <2> HIDE DEF header
    <2>3. /\ Opcode(header) = opcode /\ LengthCode(header) = len /\ Len(header) = 2
      BY <1>1, <2>1, <2>2 DEF Opcode, LengthCode
    <2>4. HeaderLen(header) = 2 /\ PayloadLen(header) = len /\ ~Huge(header)
      BY <2>2, <2>3 DEF HeaderLen, PayloadLen, Huge
    <2>5. Complete(header) <=> len = 0
      BY <1>0, <2>3, <2>4 DEF Complete
    <2> QED
      BY <2>3, <2>4, <2>5 DEF header
  <1>3. CASE len >= Escape
    <2> DEFINE u == len \div 256
               v == len % 256
    <2>1. header = <<128 + opcode>> \o <<Escape, u, v>>
      BY <1>0, <1>3, EscapeAssumption DEF SendHeader
    <2>2. Escape % 128 = Escape /\ Escape # Escape + 1 /\ 256 * u + v = len
      BY <1>0, EscapeAssumption
    <2> HIDE DEF header, u, v
    <2>3. /\ Opcode(header) = opcode /\ LengthCode(header) = Escape /\ Len(header) = 4
          /\ header[3] = u /\ header[4] = v
      BY <1>1, <2>1, <2>2 DEF Opcode, LengthCode
    <2>4. HeaderLen(header) = 4 /\ PayloadLen(header) = len /\ ~Huge(header)
      BY <2>2, <2>3 DEF HeaderLen, PayloadLen, Huge
    <2>5. ~Complete(header) /\ len # 0
      BY <1>0, <1>3, <2>3, <2>4, EscapeAssumption DEF Complete
    <2> QED
      BY <2>3, <2>4, <2>5 DEF header
  <1> QED
    BY <1>0, <1>2, <1>3, EscapeAssumption

\* A louder volume is a larger value of the register, up to 100 percent.
LEMMA VolumeRises ==
  ASSUME NEW low \in 0..100, NEW high \in 0..100, low < high
  PROVE  VolumeReg(low) < VolumeReg(high)
  <1>1. CASE low = 0
    BY <1>1 DEF VolumeReg, AtMost
  <1>2. CASE low # 0
    <2>1. VolumeReg(low) = 128 + (low * 127) \div 100
      BY <1>2 DEF VolumeReg, AtMost
    <2>2. CASE high = 100
      BY <2>1, <2>2 DEF VolumeReg, AtMost
    <2>3. CASE high # 100
      BY <1>2, <2>1, <2>3 DEF VolumeReg, AtMost
    <2> QED
      BY <2>2, <2>3
  <1> QED
    BY <1>1, <1>2

\* The levels of any number at all, as the register takes what is too large.
LEMMA LevelsAt ==
  ASSUME number \in Nat
  PROVE  LevelsExact
  <1>1. VolumeReg(number) \in UInt8
    BY DEF VolumeReg, AtMost, UInt8
  <1>2. ASSUME number < 100 PROVE VolumeReg(number) < VolumeReg(number + 1)
    BY <1>2, VolumeRises
  <1>3. ASSUME number = 50 PROVE VolumeReg(number) = 2 * 95 + 1
    BY <1>3 DEF VolumeReg, AtMost
  <1>4. ASSUME number <= 15 PROVE GainReg(number) = 32 + 2 * number
    BY <1>4 DEF GainReg, AtMost
  <1> QED
    BY <1>1, <1>2, <1>3, <1>4 DEF LevelsExact

-----------------------------------------------------------------------------
(* Theorems.                                                               *)

\* The inputs are messages of bytes, and lengths of 16 bits.
InputsInv == data \in Seq(Byte) /\ number \in UInt16

LEMMA InputsTyped == Spec => []InputsInv
  <1>1. Init => InputsInv
    <2>1. <<>> \in Seq(Byte)
      BY EmptySeq
    <2>2. 0..MaxNumber \subseteq UInt16
      BY InputsAssumption DEF UInt16
    <2> QED
      BY <2>1, <2>2 DEF Init, InputsInv
  <1>2. InputsInv /\ [Next]_<<data, number>> => InputsInv'
    <2> SUFFICES ASSUME InputsInv, [Next]_<<data, number>>
                 PROVE  InputsInv'
      OBVIOUS
    <2>1. CASE Next
      <3>1. PICK b \in Sample : data' = Append(data, b)
        BY <2>1 DEF Next
      <3>2. b \in Byte
        BY <3>1, InputsAssumption
      <3> QED
        BY <2>1, <3>1, <3>2 DEF Next, InputsInv
    <2>2. CASE UNCHANGED <<data, number>>
      BY <2>2 DEF InputsInv
    <2> QED
      BY <2>1, <2>2
  <1> QED
    BY <1>1, <1>2, PTL DEF Spec

\* The keys made of all the nonces of the run, and of any others of bytes.
THEOREM KeysCarryNonces == Spec => []KeyCarriesNonce
  <1>1. InputsInv => KeyCarriesNonce
    <2> SUFFICES ASSUME InputsInv, data # <<>>, NEW b \in Sample, NEW c \in Sample
                 PROVE  LET nonce == [i \in 1..16 |-> data[((i - 1) % Len(data)) + 1]]
                        IN  SubSeq(Bits(GenerateWsKey(nonce, <<b, c>>), 6), 1, 128) = Bits(nonce, 8)
      BY DEF KeyCarriesNonce
    <2> DEFINE nonce == [i \in 1..16 |-> data[((i - 1) % Len(data)) + 1]]
    <2>1. data \in Seq(Byte) /\ Len(data) \in Nat \ {0}
      BY EmptySeq DEF InputsInv
    <2>2. ASSUME NEW i \in 1..16 PROVE data[((i - 1) % Len(data)) + 1] \in Byte
      <3> DEFINE place == ((i - 1) % Len(data)) + 1
      <3>1. place \in 1..Len(data)
        BY <2>1
      <3> HIDE DEF place
      <3>2. data[place] \in Byte
        BY <2>1, <3>1, ElementOfSeq
      <3> QED
        BY <3>2 DEF place
    <2>3. nonce \in Seq(Byte) /\ Len(nonce) = 16
      BY <2>2
    <2>4. <<b, c>> \in Seq(Byte) /\ Len(<<b, c>>) = 2
      BY InputsAssumption
    <2> HIDE DEF nonce
    <2>5. SubSeq(Bits(GenerateWsKey(nonce, <<b, c>>), 6), 1, 128) = Bits(nonce, 8)
      BY <2>3, <2>4, KeyIsNonce
    <2> QED
      BY <2>5 DEF nonce
  <1> QED
    BY <1>1, InputsTyped, PTL

\* Every length of 16 bits, for any length code that the header can escape with.
THEOREM HeadersReadBack == Spec => []HeaderReadBack
  <1>1. InputsInv => HeaderReadBack
    <2> SUFFICES ASSUME InputsInv
                 PROVE  HeaderReadBack
      OBVIOUS
    <2>1. TEXT \in 0..15 /\ number \in UInt16
      BY DEF InputsInv, TEXT
    <2> QED
      BY <2>1, HeaderReadsBack DEF HeaderReadBack
  <1> QED
    BY <1>1, InputsTyped, PTL

\* Every volume and every gain, those above what the registers hold included.
THEOREM LevelsStayExact == Spec => []LevelsExact
  <1>1. InputsInv => LevelsExact
    BY LevelsAt DEF InputsInv, UInt16
  <1> QED
    BY <1>1, InputsTyped, PTL

=============================================================================
