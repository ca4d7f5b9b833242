------------------------ MODULE CompactValues_proofs ------------------------
(***************************************************************************)
(* The promises of the compact integers, for every byte width, every width *)
(* of a size_t and every number the instance has bits for.                 *)
(***************************************************************************)
EXTENDS CompactValues, CompactCoding_proofs, TLAPS

\* Every state is a number the instance has bits for.
Inv == value \in Nat /\ Representable(value)

LEMMA AmidHas ==
  ASSUME NEW bytes \in Seq(Byte)
  PROVE  Amid(bytes) \in Seq(Byte) /\ HasAt(Amid(bytes), 1, bytes)
<1> DEFINE edge == Base - 1
<1>1. edge \in Byte
  BY ByteAssumption DEF Byte
<1> HIDE DEF edge
<1>2. Amid(bytes) = <<edge>> \o bytes \o <<edge>>
  BY DEF Amid, edge
<1>3. <<edge>> \o bytes \in Seq(Byte) /\ Len(<<edge>> \o bytes) = 1 + Len(bytes)
  BY <1>1
<1>4. Amid(bytes) \in Seq(Byte) /\ Len(Amid(bytes)) = 2 + Len(bytes)
  BY <1>1, <1>2, <1>3
<1>5. ASSUME NEW j \in 1..Len(bytes)
      PROVE  Amid(bytes)[1 + j] = bytes[j]
  BY <1>1, <1>2, <1>3
<1> QED
  BY <1>4, <1>5 DEF HasAt

LEMMA StartHas ==
  ASSUME NEW bytes \in Seq(Byte)
  PROVE  HasAt(bytes, 0, bytes)
BY DEF HasAt

LEMMA InvHolds == Spec => []Inv
<1>1. Init => Inv
  <2>1. SUFFICES ASSUME Init PROVE Inv
    OBVIOUS
  <2> DEFINE p == 2^(MaxBits - 1)
  <2>2. p \in Nat \ {0}
    BY PowerType, ByteAssumption, MaxBitsAssumption
  <2> HIDE DEF p
  <2>3. 0 \div p < 2
    BY <2>2
  <2> QED
    BY <2>1, <2>3 DEF Init, Inv, Representable, p
<1>2. Inv /\ [Next]_value => Inv'
  <2>1. SUFFICES ASSUME Inv, [Next]_value PROVE Inv'
    OBVIOUS
  <2>2. CASE Next
    BY <2>2, ValuesAssumption DEF Next, Inv, Representable
  <2>3. CASE UNCHANGED value
    BY <2>1, <2>3 DEF Inv, Representable
  <2> QED
    BY <2>1, <2>2, <2>3
<1> QED
  BY <1>1, <1>2, PTL DEF Spec

\* What encodeCompactInteger puts, decodeCompactInteger reads as the same
\* number from exactly those bytes.
THEOREM CompactIntegersRoundTrip == Spec => []BigRoundTrip
<1>1. Inv => BigRoundTrip
  <2> SUFFICES ASSUME Inv, EncodeCompactBig(value).error = "none"
               PROVE  DecodeCompactInteger(Amid(EncodeCompactBig(value).bytes), 1)
                        = ReadResult("none", Len(EncodeCompactBig(value).bytes), value)
    BY DEF BigRoundTrip
  <2>1. value \in Nat /\ Representable(value)
    BY DEF Inv
  <2>2. EncodeCompactBig(value).bytes \in Seq(Byte)
    BY <2>1, EncodeScaleType
  <2> QED
    BY <2>1, <2>2, AmidHas, CompactRoundTrip
<1> QED
  BY <1>1, InvHolds, PTL

\* decodeCompact<T> of a built-in T, in either build, is exact or reports the
\* overflow.
THEOREM NativeTargetIsExact == Spec => []NativeTargetExactOrOverflow
<1>1. Inv => NativeTargetExactOrOverflow
  <2> SUFFICES ASSUME Inv, EncodeCompactOfBig(value).error = "none",
                      NEW width \in 1..((MaxBits - 1) \div ByteBits)
               PROVE  DecodeCompactNative(EncodeCompactOfBig(value).bytes, 0, width) =
                        LET length == Len(EncodeCompactOfBig(value).bytes)
                        IN  IF value < 2^(ByteBits * width)
                            THEN ReadResult("none", length, value)
                            ELSE ReadResult("DECODED_VALUE_OVERFLOWS_TARGET", length, 0)
    BY DEF NativeTargetExactOrOverflow
  <2> DEFINE encoding == EncodeCompactOfBig(value).bytes
             n == ByteBits * width
             p == 2^n
  <2>1. value \in Nat /\ Representable(value) /\ encoding \in Seq(Byte)
    BY EncodeCompactType DEF Inv
  <2>2. width \in Nat /\ n \in 0..(MaxBits - 1)
    <3> DEFINE q == (MaxBits - 1) \div ByteBits
    <3>1. q \in Nat /\ ByteBits * q <= MaxBits - 1
      BY ByteAssumption, MaxBitsAssumption
    <3> HIDE DEF q
    <3>2. width \in Nat /\ width <= q
      BY <3>1 DEF q
    <3>3. ByteBits * width <= ByteBits * q
      BY <3>1, <3>2, ByteAssumption
    <3>4. n \in Nat
      BY <3>2, ByteAssumption
    <3> QED
      BY <3>1, <3>2, <3>3, <3>4, ByteAssumption, MaxBitsAssumption
  <2>3. value < p <=> BitWidth(value) <= n
    <3>1. p <= value <=> n < BitWidth(value)
      BY <2>1, <2>2, BitWidthMeaning
    <3>2. p \in Nat
      BY <2>2, MaxBitsAssumption
    <3>3. BitWidth(value) \in Nat /\ n \in Nat
      <4> HIDE DEF n
      <4> QED
        BY <2>1, <2>2, BitWidthType, MaxBitsAssumption
    <3> HIDE DEF p, n
    <3> QED
      BY <2>1, <3>1, <3>2, <3>3
  <2>4. DecodeCompactNative(encoding, 0, width) =
          LET length == Len(encoding)
          IN  IF BitWidth(value) <= ByteBits * width
              THEN ReadResult("none", length, value)
              ELSE ReadResult("DECODED_VALUE_OVERFLOWS_TARGET", length, 0)
    BY <2>1, <2>2, StartHas, NativeOfEncoded
  <2> QED
    BY <2>3, <2>4
<1> QED
  BY <1>1, InvHolds, PTL

\* lengthOfEncodedCompactInteger is exact below the big mode.
THEOREM SmallLengthIsExact == Spec => []LengthOfSmallExact
<1>1. Inv => LengthOfSmallExact
  BY SmallRoundTrip DEF Inv, LengthOfSmallExact, EncodeCompactNative
<1> QED
  BY <1>1, InvHolds, PTL

\* What encodeJamCompactInteger puts, decodeJamCompactInteger reads as the same
\* number from exactly those bytes.
THEOREM JamIntegersRoundTrip == Spec => []JamRoundTrip
<1>1. Inv => JamRoundTrip
  <2> SUFFICES ASSUME Inv, FitsSizeT(value)
               PROVE  DecodeJamCompactInteger(Amid(JamBytes(value)), 1)
                        = ReadResult("none", Len(JamBytes(value)), value)
    BY DEF JamRoundTrip
  <2>1. value \in Nat /\ Representable(value)
    BY DEF Inv
  <2>2. JamBytes(value) \in Seq(Byte)
    BY <2>1, JamBytesType
  <2> QED
    BY <2>1, <2>2, AmidHas, JamRead
<1> QED
  BY <1>1, InvHolds, PTL

\* lengthOfEncodedJamCompactInteger is exact for a value that leaves a bit of
\* a size_t.
THEOREM JamLengthIsExact == Spec => []JamLengthExact
<1>1. Inv => JamLengthExact
  BY JamLength DEF Inv, JamLengthExact
<1> QED
  BY <1>1, InvHolds, PTL
=============================================================================
