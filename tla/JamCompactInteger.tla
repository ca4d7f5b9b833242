-------------------------- MODULE JamCompactInteger --------------------------
(***************************************************************************)
(* The compact integers of a library built for JAM,                        *)
(* detail/jam_compact_integer.hpp, as constant operators.                  *)
(*                                                                         *)
(* The first byte begins with as many ones as bytes follow it; what is     *)
(* left of it behind a zero holds the upper bits of the value, the others  *)
(* the lower bytes.  With k bytes to follow, a byte of b bits begins with  *)
(* k ones and has room for b - 1 - k bits.                                 *)
(***************************************************************************)
EXTENDS CompactInteger

\* A byte that begins with k ones: (prefix >> 1) | 0x80, k times.
JamPrefix(k) == Base - 2^(ByteBits - k)

\* The largest number it has room for: ~prefix >> 1.
JamRoom(k) == (2^(ByteBits - k) - 1) \div 2

\* A size_t holds v; it has as many bytes as a byte has bits.
FitsSizeT(v) == BitWidth(v) <= ByteBits * ByteBits

\* What is left of v when its k lower bytes are shifted out.
Shifted(v, k) ==
  IF k = ByteBits \/ BitWidth(v) <= ByteBits * k THEN 0 ELSE v \div 2^(ByteBits * k)

\* The upper bits of v fit in a first byte that k bytes follow.
JamFits(v, k) == Shifted(v, k) <= JamRoom(k)

JamExtraBytes(v) ==
  CHOOSE k \in 0..ByteBits : JamFits(v, k) /\ \A j \in 0..(k - 1) : ~JamFits(v, j)

\* The bytes put for a size_t.
JamBytes(v) ==
  LET k == JamExtraBytes(v)
  IN  <<JamPrefix(k) + Shifted(v, k)>> \o LittleEndian(v, k)

\* encodeJamCompactInteger for an unsigned built-in integer, none of which is
\* wider than size_t.
EncodeJamNative(v) == [error |-> "none", bytes |-> JamBytes(v)]

\* encodeJamCompactInteger for a multiprecision integer.
EncodeJamBig(v) ==
  IF BitWidth(v) > ByteBits * SizeBytes
  THEN [error |-> "VALUE_TOO_BIG_FOR_COMPACT_REPRESENTATION", bytes |-> << >>]
  ELSE [error |-> "none", bytes |-> JamBytes(v)]

\* Mutant: what a byte has room for is taken for one bit more.
LengthOfJamNative_FullByte(v) ==
  IF v = 0 THEN 1 ELSE 1 + (BitWidth(v) - 1) \div ByteBits

\* lengthOfEncodedJamCompactInteger for a built-in integer.  The division
\* truncates: -1 / 7 is 0.
LengthOfJamNative(v) ==
  IF v = 0 THEN 1 ELSE 1 + (BitWidth(v) - 1) \div (ByteBits - 1)

-----------------------------------------------------------------------------
(* Reading.                                                                *)

\* The ones a first byte begins with.
LeadingOnes(first) == Cardinality({k \in 1..ByteBits : first >= JamPrefix(k)})

\* val_mask + 1 when k bytes follow the first one; a first byte of ones only
\* ends the loop with the mask of the step before it.
JamMask(k) == IF k < ByteBits THEN 2^(ByteBits - 1 - k) ELSE 1

\* Mutants: the bits of the first byte are not looked at, or not taken.
IsJamRedundant_LastOnly(first, last) ==
  LeadingOnes(first) > 0 /\ last < JamMask(LeadingOnes(first))

\* No bit of the value is in the first byte, nor in the upper bits of the last
\* byte that the mask leaves out.  A first byte that nothing follows is
\* redundant with itself only when it is 0, for which the code returns early.
IsJamRedundant(first, last) ==
  LET k == LeadingOnes(first)
  IN  k > 0 /\ first % JamMask(k) = 0 /\ last < JamMask(k)

\* Mutant: the bits in the first byte are left out.
JamValue_BytesOnly(first, rest) == LittleEndianValue(rest)

\* The first byte's bits are above the bytes that follow it.
JamValue(first, rest) ==
  LittleEndianValue(Append(rest, first % JamMask(LeadingOnes(first))))

\* decodeJamCompactInteger(stream) with the stream at index i.  It takes the
\* bytes one by one: all that are there before it finds that one is missing.
DecodeJamCompactInteger(s, i) ==
  LET first == s[i + 1]
      extra == LeadingOnes(first)
  IN  CASE ~HasMore(s, i, 1) -> ReadResult("NOT_ENOUGH_DATA", 0, 0)
        [] HasMore(s, i, 1) /\ Len(s) < i + 1 + extra ->
             ReadResult("NOT_ENOUGH_DATA", Len(s) - i, 0)
        [] OTHER ->
             IF IsJamRedundant(first, s[i + 1 + extra])
             THEN ReadResult("REDUNDANT_COMPACT_ENCODING", 1 + extra, 0)
             ELSE ReadResult("none", 1 + extra,
                             JamValue(first, SubSeq(s, i + 2, i + 1 + extra)))
=============================================================================
