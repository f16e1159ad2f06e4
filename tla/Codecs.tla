------------------------------- MODULE Codecs -------------------------------
(***************************************************************************)
(* What the codec drivers es8311.c and es7210.c compute: register values   *)
(* out of a volume in percent and a gain in dB.                            *)
(***************************************************************************)
EXTENDS Naturals

UInt8 == 0..255

AtMost(top, n) == IF n > top THEN top ELSE n

\* Mutant: the product is kept in a byte.
VolumeRegNarrow(volume) ==
  LET v == AtMost(100, volume)
  IN  IF v = 0 THEN 0 ELSE IF v = 100 THEN 255 ELSE 128 + ((v * 127) % 256) \div 100

\* es8311_set_volume: mute, the upper half of the register, its maximum.
VolumeReg(volume) ==
  LET v == AtMost(100, volume)
  IN  IF v = 0 THEN 0 ELSE IF v = 100 THEN 255 ELSE 128 + (v * 127) \div 100

\* es7210_set_gain: 0x20 enables the ADC, steps of 0.5 dB in the five bits
\* below it; what does not fit into them is cut off.
GainReg(gain) == 32 + ((2 * AtMost(42, gain)) % 32)

=============================================================================
