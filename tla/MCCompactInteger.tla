-------------------------- MODULE MCCompactInteger --------------------------
(***************************************************************************)
(* The compact integers of the code, with bytes of 8 bits, at the values   *)
(* where the encoding changes: every power of two up to 2^30, what is next *)
(* to it, and sums of two of them; and all of those of a size_t of three   *)
(* bytes of 3 bits.                                                        *)
(***************************************************************************)
EXTENDS CompactValues

MCValues ==
  LET powers == {2^i : i \in 0..30}
      near   == {0} \union powers \union {p - 1 : p \in powers} \union {p + 1 : p \in powers}
  IN  near \union {2147483647, 511, 65535}
           \union {a + b : a \in {2^i : i \in 0..29}, b \in {2^j - 1 : j \in 8..29}}

\* Test vectors of test/scale_compact_test.cpp:100-122, encoded as a
\* multiprecision integer.
TestVectors ==
  { <<0, <<0>> >>, <<1, <<4>> >>, <<63, <<252>> >>, <<64, <<1, 1>> >>,
    <<255, <<253, 3>> >>, <<511, <<253, 7>> >>, <<16383, <<253, 255>> >>,
    <<16384, <<2, 0, 1, 0>> >>, <<65535, <<254, 255, 3, 0>> >>,
    <<1073741823, <<254, 255, 255, 255>> >>,
    <<1073741824, <<3, 0, 0, 0, 64>> >> }

\* Test vectors of test/scale_compact_test.cpp:71-86, as far as TLC has
\* integers for them: the first and the last value of each length.  They need
\* up to four bytes behind the first one; the code's loops go on in the same
\* way up to eight.
JamTestVectors ==
  { <<0, <<0>> >>, <<128, <<128, 128>> >>, <<16384, <<192, 0, 64>> >>,
    <<2097152, <<224, 0, 0, 32>> >>, <<268435456, <<240, 0, 0, 0, 16>> >>,
    <<127, <<127>> >>, <<16383, <<191, 255>> >>, <<2097151, <<223, 255, 255>> >>,
    <<268435455, <<239, 255, 255, 255>> >> }

\* The encoder puts the bytes the tests expect, on both of its paths below
\* kMinBigInteger and on the multiprecision path from there on; and so does
\* JAM's.
EncodesTestVectors ==
  /\ \A vector \in TestVectors :
       value = vector[1] =>
         /\ EncodeCompactBig(value) = [error |-> "none", bytes |-> vector[2]]
         /\ value < kMinBigInteger => EncodeCompactNative(value).bytes = vector[2]
  /\ \A vector \in JamTestVectors :
       value = vector[1] => JamBytes(value) = vector[2]
=============================================================================
