---------------------------- MODULE CompactValues ----------------------------
(***************************************************************************)
(* What the compact integers of either build promise of a number: a state  *)
(* is a number, and the properties say what encoding it, reading it back   *)
(* and asking for its length yield.                                        *)
(***************************************************************************)
EXTENDS CompactCoding

CONSTANT Values

ASSUME ValuesAssumption == \A v \in Values : v \in Nat /\ Representable(v)

VARIABLE value

Init == value = 0
Next == value' \in {v \in Values : v > value}
Spec == Init /\ [][Next]_value

\* A span that has the bytes between others.
Amid(bytes) == <<Base - 1>> \o bytes \o <<Base - 1>>

-----------------------------------------------------------------------------

\* What encodeCompactInteger puts for a value, decodeCompactInteger reads as
\* that value, taking exactly those bytes, in the middle of other ones.
BigRoundTrip ==
  LET encoded == EncodeCompactBig(value)
  IN  encoded.error = "none" =>
        DecodeCompactInteger(Amid(encoded.bytes), 1)
          = ReadResult("none", Len(encoded.bytes), value)

\* decodeCompact<T> of a built-in T gives the value or says that it overflows
\* T; it never gives another value.
NativeTargetExactOrOverflow ==
  LET encoded == EncodeCompactOfBig(value)
      length  == Len(encoded.bytes)
  IN  \A width \in 1..((MaxBits - 1) \div ByteBits) :
        encoded.error = "none" =>
          DecodeCompactNative(encoded.bytes, 0, width) =
            IF value < 2^(ByteBits * width)
            THEN ReadResult("none", length, value)
            ELSE ReadResult("DECODED_VALUE_OVERFLOWS_TARGET", length, 0)

\* lengthOfEncodedCompactInteger is the length of the encoding, for the
\* values below kMinBigInteger that encode_append relies on.
LengthOfSmallExact ==
  value < kMinBigInteger =>
    LengthOfCompactNative(value) = Len(EncodeCompactNative(value).bytes)

\* The JAM decoder reads back any value a size_t holds from exactly the bytes
\* that were put for it: encode's shifting prefix and decode's shifting mask
\* agree on which bits of the first byte are the value's.
JamRoundTrip ==
  FitsSizeT(value) =>
    DecodeJamCompactInteger(Amid(JamBytes(value)), 1)
      = ReadResult("none", Len(JamBytes(value)), value)

\* lengthOfEncodedJamCompactInteger, computed from the bits of a built-in
\* value, is the number of bytes the encoder's loop puts for it, as long as the
\* value leaves a bit of a size_t.  (Of one that leaves none, the last byte holds
\* all bits and not one less, and the function returns one byte too many.)
JamLengthExact ==
  BitWidth(value) < ByteBits * ByteBits =>
    LengthOfJamNative(value) = Len(JamBytes(value))

-----------------------------------------------------------------------------
(* What comments of the code say and the code does not do.                 *)

\* compact_integer.hpp:105-109: "The upper 6 bits of the header are used to
\* encode the number of bytes required to store the big integer. [...] the
\* actual byte count starts from 4, so we subtract 4 from the byte count
\* before encoding it."
HeaderCountsBytes ==
  value >= kMinBigInteger =>
    LET bytes == EncodeCompactNative(value).bytes
    IN  Head(bytes) \div 4 + 4 = Len(bytes) - 1

\* compact_integer.hpp:29: "Returns the compact encoded length for the given
\* value."  It has a branch of its own for the values of the big mode in
\* built-in integers, and another for those in multiprecision integers.
LengthExact ==
  /\ LengthOfCompactNative(value) = Len(EncodeCompactNative(value).bytes)
  /\ LengthOfCompactBig(value) = Len(EncodeCompactBig(value).bytes)

\* scale_error.hpp:33: DECODED_VALUE_OVERFLOWS_TARGET is for "encoded value
\* overflows target type".
BigTargetOverflowReported ==
  LET width == 2    \* bytes of a multiprecision target, below those of value
  IN  value >= Base^width =>
        DecodeCompactBig(EncodeCompactBig(value).bytes, 0, width).error
          = "DECODED_VALUE_OVERFLOWS_TARGET"

\* A value with more bytes than it needs.
JamRedundantBytes(v) ==
  LET k == JamExtraBytes(v) + 1
  IN  <<JamPrefix(k)>> \o LittleEndian(v, k)

\* test/scale_compact_test.cpp:160-162: "@given redundant bytes in compact
\* encoding @when decode compact @then error".
JamRedundantRefused ==
  DecodeJamCompactInteger(JamRedundantBytes(value), 0).error
    = "REDUNDANT_COMPACT_ENCODING"
=============================================================================
