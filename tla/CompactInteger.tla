--------------------------- MODULE CompactInteger ---------------------------
(***************************************************************************)
(* Integers on the wire: the little-endian bytes of fixed-width integers   *)
(* and the compact ("general") integers of detail/compact_integer.hpp, as  *)
(* constant operators.                                                     *)
(*                                                                         *)
(* The code has bytes of 8 bits.  The number of bits of a byte is a        *)
(* parameter here, so that TLC can exhaust the values and the byte strings *)
(* of a codec with 3-bit bytes, where every mode of the compact encoding,  *)
(* its limits and its error cases still occur: a compact integer's first   *)
(* byte always has two flag bits, and all limits are derived from Base the *)
(* way the code derives them from 2^8.                                     *)
(***************************************************************************)
EXTENDS Integers, Sequences, FiniteSets, SequencesExt

CONSTANTS
  ByteBits,   \* bits of a byte: 8 in the code
  Base,       \* 2^ByteBits, the number of values of a byte
  MaxBits,    \* bits of the widest integer of an instance
  SizeBytes   \* sizeof(size_t)

ASSUME ByteAssumption ==
  /\ ByteBits \in Nat \ {0, 1, 2}
  /\ Base \in Nat \ {0}
  /\ Base % 4 = 0
  /\ Base = 2^ByteBits
  /\ SizeBytes \in Nat \ {0}
  /\ Base^SizeBytes \in Nat \ {0}

ASSUME MaxBitsAssumption ==
  /\ MaxBits \in Nat
  /\ 3 * ByteBits <= MaxBits
  /\ \A i \in 0..(MaxBits - 1) : 2^i \in Nat \ {0}
  /\ \A i \in 1..(MaxBits - 1) : 2^i = 2 * 2^(i - 1)

Byte == 0..(Base - 1)

\* What a byte holds beside the two flag bits of a compact integer.
Quarter == Base \div 4

\* size_t arithmetic is modulo SizeMod.
SizeMod == Base^SizeBytes

\* Any choice of bits makes a byte.
ASSUME BitsAssumption ==
  \A bits \in SUBSET (0..(ByteBits - 1)) :
    \E byte \in Byte : \A j \in 0..(ByteBits - 1) :
      (j \in bits) <=> ((byte \div 2^j) % 2 = 1)

-----------------------------------------------------------------------------
(* Fixed-width integers.                                                   *)

\* Bit j (from 0, the least significant) of a byte, and the byte that has
\* the given bits set.
BitOf(byte, j) == (byte \div 2^j) % 2

ByteWith(bits) ==
  CHOOSE byte \in Byte : \A j \in 0..(ByteBits - 1) :
    (j \in bits) <=> (BitOf(byte, j) = 1)

\* Byte i (from 0, the least significant) of v.
ByteOf(v, i) == (v \div 2^(ByteBits * i)) % Base

LittleEndian(v, width) == [i \in 1..width |-> ByteOf(v, i - 1)]

\* What the bytes from the n-th on (from 0) are worth.
SuffixValue(bytes) ==
  LET Value[n \in 0..Len(bytes)] ==
        IF n = Len(bytes) THEN 0 ELSE bytes[n + 1] + Base * Value[n + 1]
  IN  Value

LittleEndianValue(bytes) == SuffixValue(bytes)[0]

\* std::bit_width: the number of bits v needs.
BitWidth(v) == Cardinality({i \in 0..(MaxBits - 1) : 2^i <= v})

\* The instance has bits enough for v.
Representable(v) == v \div 2^(MaxBits - 1) < 2

\* msb(v) / 8 + 1, for v > 0.
ByteCount(v) == (BitWidth(v) - 1) \div ByteBits + 1

-----------------------------------------------------------------------------
(* Compact integers.                                                       *)

kMinUint16 == Quarter
kMinUint32 == Quarter * Base
kMinBigInteger == Quarter * Base * Base * Base

\* The most bytes a big integer can have: 67 in the code, since the upper
\* bits of the header count from 4.
MaxBigBytes == 4 + Quarter - 1

\* Mutant: the first byte is not cut to a byte.
WithFlag_Uncut(v, flag, width) ==
  <<4 * v + flag>> \o LittleEndian(v \div Quarter, width - 1)

\* The upper bits of the first byte continue with the other bytes, the flag
\* takes the two lower bits: (value << 2) | flag, in width bytes.
WithFlag(v, flag, width) ==
  <<4 * (v % Quarter) + flag>> \o LittleEndian(v \div Quarter, width - 1)

\* Mutant: the one-byte mode is taken for its limit, too.
EncodeSmallCompact_LimitIncluded(v) ==
  CASE v <= kMinUint16 -> WithFlag(v, 0, 1)
    [] v > kMinUint16 /\ v < kMinUint32 -> WithFlag(v, 1, 2)
    [] OTHER -> WithFlag(v, 2, 4)

\* The three modes below kMinBigInteger.
EncodeSmallCompact(v) ==
  CASE v < kMinUint16 -> WithFlag(v, 0, 1)
    [] v >= kMinUint16 /\ v < kMinUint32 -> WithFlag(v, 1, 2)
    [] OTHER -> WithFlag(v, 2, 4)

\* The big mode, where the caller says how many bytes it takes v to have.
\* The header is a uint8_t; the loop puts the bytes v really has.
EncodeBigMode(v, significant_bytes_n) ==
  <<(4 * (significant_bytes_n - 4) + 3) % Base>> \o LittleEndian(v, ByteCount(v))

\* encodeCompactInteger for an unsigned built-in integer.
\* The code takes std::bit_width(value), the number of bits, for the number
\* of bytes.
EncodeCompactNative(v) ==
  IF v < kMinBigInteger
  THEN [error |-> "none", bytes |-> EncodeSmallCompact(v)]
  ELSE [error |-> "none", bytes |-> EncodeBigMode(v, BitWidth(v))]

\* encodeCompactInteger for a multiprecision integer.
EncodeCompactBig(v) ==
  IF v < kMinBigInteger
  THEN [error |-> "none", bytes |-> EncodeSmallCompact(v)]
  ELSE IF ByteCount(v) > MaxBigBytes
       THEN [error |-> "COMPACT_INTEGER_TOO_BIG", bytes |-> << >>]
       ELSE [error |-> "none", bytes |-> EncodeBigMode(v, ByteCount(v))]

\* Mutant: the two-byte mode is taken for its limit, too.
LengthOfCompactNative_LimitIncluded(v) ==
  CASE v < kMinUint16 -> 1
    [] v >= kMinUint16 /\ v <= kMinUint32 -> 2
    [] v > kMinUint32 /\ v < kMinBigInteger -> 4
    [] OTHER -> 1 + BitWidth(v)

\* lengthOfEncodedCompactInteger, for built-in and multiprecision integers.
LengthOfCompactNative(v) ==
  CASE v < kMinUint16 -> 1
    [] v >= kMinUint16 /\ v < kMinUint32 -> 2
    [] v >= kMinUint32 /\ v < kMinBigInteger -> 4
    [] OTHER -> 1 + BitWidth(v)

LengthOfCompactBig(v) ==
  IF v < kMinBigInteger THEN LengthOfCompactNative(v) ELSE ByteCount(v)

-----------------------------------------------------------------------------
(* Reading.                                                                *)

\* ScaleDecoderStream::hasMore(n) on span s at index i: the sum wraps.
HasMore(s, i, n) == (i + n) % SizeMod <= Len(s)

\* Bytes that follow the first one, and the least value each mode may hold.
ExtraBytes(first) == <<0, 1, 3, 4 + first \div 4>>[(first % 4) + 1]
LeastOfMode(flag) == <<0, kMinUint16, kMinUint32, kMinBigInteger>>[flag + 1]

\* The number held by the first byte and the bytes after it.
CompactValue(first, rest) ==
  IF first % 4 = 3
  THEN LittleEndianValue(rest)
  ELSE first \div 4 + Quarter * LittleEndianValue(rest)

\* Mutants: big integers may begin with zeros; the least value of a mode is
\* refused.
IsRedundant_ModeOnly(first, value) == value < LeastOfMode(first % 4)

IsRedundant_LeastRefused(first, value) ==
  \/ first % 4 # 0 /\ value <= LeastOfMode(first % 4)
  \/ first % 4 = 3 /\ ByteCount(value) < ExtraBytes(first)

\* A value smaller than its mode or its byte count is refused.
IsRedundant(first, value) ==
  \/ value < LeastOfMode(first % 4)
  \/ first % 4 = 3 /\ ByteCount(value) < ExtraBytes(first)

\* What a read from a span yields: an error or a value, and the number of
\* bytes it has taken in either case.
ReadResult(error, used, value) == [error |-> error, used |-> used, value |-> value]

\* decodeCompactInteger(stream) with the stream at index i.  A short span is
\* noticed after the first byte has been taken; redundancy after all are.
DecodeCompactInteger(s, i) ==
  LET first == s[i + 1]
      extra == ExtraBytes(first)
      value == CompactValue(first, SubSeq(s, i + 2, i + 1 + extra))
  IN  CASE ~HasMore(s, i, 1) -> ReadResult("NOT_ENOUGH_DATA", 0, 0)
        [] HasMore(s, i, 1) /\ ~HasMore(s, i + 1, extra) ->
             ReadResult("NOT_ENOUGH_DATA", 1, 0)
        [] OTHER ->
             IF IsRedundant(first, value)
             THEN ReadResult("REDUNDANT_COMPACT_ENCODING", 1 + extra, 0)
             ELSE ReadResult("none", 1 + extra, value)
=============================================================================
