---------------------------- MODULE CompactCoding ----------------------------
(***************************************************************************)
(* The compact integers of a build of the library: those of SCALE, or      *)
(* those of JAM when it is compiled with JAM_COMPATIBILITY_ENABLED.        *)
(***************************************************************************)
EXTENDS JamCompactInteger

CONSTANT JAM_COMPATIBILITY_ENABLED

\* JAM's first byte counts the bytes of a size_t in its own bits: there are
\* 8 of both in the code.
ASSUME BuildAssumption ==
  /\ JAM_COMPATIBILITY_ENABLED \in BOOLEAN
  /\ JAM_COMPATIBILITY_ENABLED =>
       /\ SizeBytes = ByteBits
       /\ ByteBits * SizeBytes <= MaxBits

\* operator<<(CompactInteger): for a built-in and for a multiprecision integer.
EncodeCompactOfNative(v) ==
  IF JAM_COMPATIBILITY_ENABLED THEN EncodeJamNative(v) ELSE EncodeCompactNative(v)

EncodeCompactOfBig(v) ==
  IF JAM_COMPATIBILITY_ENABLED THEN EncodeJamBig(v) ELSE EncodeCompactBig(v)

\* What extract_length_data takes for the length of an encoded count.
LengthOfCompact(v) ==
  IF JAM_COMPATIBILITY_ENABLED THEN LengthOfJamNative(v) ELSE LengthOfCompactNative(v)

ReadCompact(s, i) ==
  IF JAM_COMPATIBILITY_ENABLED
  THEN DecodeJamCompactInteger(s, i) ELSE DecodeCompactInteger(s, i)

\* Mutant: a value that fills the target is taken for too big.
DecodeCompactNative_FullIsTooBig(s, i, width) ==
  LET integer == ReadCompact(s, i)
  IN  IF integer.error = "none" /\ BitWidth(integer.value) >= ByteBits * width
      THEN ReadResult("DECODED_VALUE_OVERFLOWS_TARGET", integer.used, 0)
      ELSE integer

\* decodeCompact<T>() for a built-in T of the given width.
DecodeCompactNative(s, i, width) ==
  LET integer == ReadCompact(s, i)
  IN  IF integer.error = "none" /\ BitWidth(integer.value) > ByteBits * width
      THEN ReadResult("DECODED_VALUE_OVERFLOWS_TARGET", integer.used, 0)
      ELSE integer

\* decodeCompact<T>() for a multiprecision T: no check, and static_cast of a
\* fixed-precision integer keeps the lower bytes.
DecodeCompactBig(s, i, width) ==
  LET integer == ReadCompact(s, i)
  IN  [integer EXCEPT !.value =
         IF BitWidth(@) > ByteBits * width THEN @ % 2^(ByteBits * width) ELSE @]
=============================================================================
