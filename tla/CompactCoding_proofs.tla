------------------------ MODULE CompactCoding_proofs ------------------------
(***************************************************************************)
(* What the compact integers of both builds put and how long they are      *)
(* taken to be, for every byte width: facts the other proofs rest on.      *)
(***************************************************************************)
EXTENDS CompactCoding, CompactInteger_proofs, TLAPS

-----------------------------------------------------------------------------
(* The first byte of JAM.                                                  *)

\* What a first byte has room for when k bytes follow it.
LEMMA JamMaskMeaning ==
  ASSUME NEW k \in 0..ByteBits
  PROVE  /\ JamMask(k) \in 1..Base
         /\ JamRoom(k) = JamMask(k) - 1
         /\ k < ByteBits => /\ JamPrefix(k) = Base - 2 * JamMask(k)
                            /\ JamPrefix(k + 1) = Base - JamMask(k)
                            /\ 2 * JamMask(k) <= Base
         /\ k = ByteBits => JamPrefix(k) = Base - 1 /\ JamMask(k) = 1
<1> DEFINE p(j) == 2^j
<1>1. p(0) = 1 /\ ByteBits \in Nat /\ ByteBits < MaxBits /\ Base \in Nat \ {0}
  BY ByteAssumption, MaxBitsAssumption
<1>2. CASE k = ByteBits
  <2>1. ByteBits - k = 0
    BY <1>1, <1>2
  <2>2. JamRoom(k) = (p(0) - 1) \div 2 /\ JamPrefix(k) = Base - p(0) /\ JamMask(k) = 1
    BY <1>2, <2>1 DEF JamRoom, JamPrefix, JamMask
  <2> HIDE DEF p
  <2> QED
    BY <1>1, <1>2, <2>2
<1>3. CASE k # ByteBits
  <2> DEFINE j == ByteBits - 1 - k
             m == p(j)
  <2>1. /\ j \in Nat /\ j < MaxBits /\ ByteBits - k = j + 1 /\ k < ByteBits
        /\ ByteBits - (k + 1) = j /\ j + 1 \in 1..(MaxBits - 1) /\ j + 1 <= ByteBits
    <3>1. k \in Nat /\ k < ByteBits /\ MaxBits \in Nat
      BY <1>1, <1>3, MaxBitsAssumption
    <3> HIDE DEF p
    <3> QED
      BY <1>1, <3>1
  <2>2. m \in Nat \ {0}
    BY <2>1, PowerType
  <2>3. p(j + 1) = 2 * m
    <3>1. 2^(j + 1) = 2 * 2^((j + 1) - 1) /\ (j + 1) - 1 = j
      BY <2>1, MaxBitsAssumption
    <3> QED
      BY <3>1
  <2>4. p(j + 1) <= Base
    BY <1>1, <2>1, PowerMonotonic, ByteAssumption
  <2>5. /\ JamRoom(k) = (p(j + 1) - 1) \div 2
        /\ JamPrefix(k) = Base - p(j + 1)
        /\ JamPrefix(k + 1) = Base - p(j)
        /\ JamMask(k) = m
    BY <2>1 DEF JamRoom, JamPrefix, JamMask
  <2> HIDE DEF m, p
  <2>6. (2 * m - 1) \div 2 = m - 1
    BY <2>2
  <2>7. JamPrefix(k + 1) = Base - m
    BY <2>5 DEF m
  <2> HIDE DEF j
  <2> QED
    BY <1>1, <1>3, <2>1, <2>2, <2>3, <2>4, <2>5, <2>6, <2>7
<1> QED
  BY <1>2, <1>3

\* The masks divide the bytes there are.
LEMMA JamMaskDivides ==
  ASSUME NEW k \in 0..ByteBits
  PROVE  \E c \in Nat : JamPrefix(k) = JamMask(k) * c
<1>1. CASE k = ByteBits
  <2>1. JamPrefix(k) = Base - 1 /\ JamMask(k) = 1
    BY <1>1, JamMaskMeaning
  <2>2. Base - 1 \in Nat /\ Base - 1 = 1 * (Base - 1)
    BY ByteAssumption
  <2> QED
    BY <2>1, <2>2
<1>2. CASE k # ByteBits
  <2> DEFINE j == ByteBits - 1 - k
             m == 2^j
             c == 2^(k + 1)
  <2>1. j \in Nat /\ k + 1 \in Nat /\ j + (k + 1) = ByteBits /\ j + (k + 1) < MaxBits
        /\ k + 1 \in 1..(MaxBits - 1) /\ k < ByteBits /\ k \in Nat /\ (k + 1) - 1 = k
        /\ k < MaxBits /\ j < MaxBits
    BY <1>2, ByteAssumption, MaxBitsAssumption
  <2>2. Base = m * c
    <3>1. 2^(j + (k + 1)) = 2^j * 2^(k + 1)
      BY <2>1, PowerSum
    <3> QED
      BY <2>1, <3>1, ByteAssumption
  <2>3. c = 2 * 2^k /\ 2^k \in Nat \ {0}
    BY <2>1, PowerType, MaxBitsAssumption
  <2>4. JamMask(k) = m /\ JamPrefix(k) = Base - 2 * JamMask(k)
    BY <2>1, JamMaskMeaning DEF JamMask
  <2>5. m \in Nat \ {0}
    BY <2>1, PowerType
  <2> HIDE DEF m, c
  <2>6. c \in Nat /\ c >= 2
    BY <2>3
  <2>7. m * c - 2 * m = m * (c - 2) /\ c - 2 \in Nat
    BY <2>5, <2>6
  <2> QED
    BY <2>2, <2>4, <2>7
<1> QED
  BY <1>1, <1>2

\* A prefix of more ones is larger.
LEMMA JamPrefixMonotonic ==
  ASSUME NEW j \in 0..ByteBits, NEW k \in 0..ByteBits, j <= k
  PROVE  JamPrefix(j) <= JamPrefix(k) /\ JamPrefix(k) \in Nat
<1> DEFINE a == 2^(ByteBits - j)
           b == 2^(ByteBits - k)
<1>1. /\ ByteBits - j \in Nat /\ ByteBits - k \in Nat
      /\ ByteBits - k <= ByteBits - j /\ ByteBits - j < MaxBits
      /\ ByteBits - k <= ByteBits /\ ByteBits \in Nat /\ ByteBits < MaxBits
  BY ByteAssumption, MaxBitsAssumption
<1>2. b <= a /\ b <= Base
  BY <1>1, PowerMonotonic, ByteAssumption
<1>3. a \in Nat /\ b \in Nat
  BY <1>1, PowerType, MaxBitsAssumption
<1>4. JamPrefix(j) = Base - a /\ JamPrefix(k) = Base - b
  BY DEF JamPrefix
<1> HIDE DEF a, b
<1> QED
  BY <1>2, <1>3, <1>4, ByteAssumption

\* The first byte that k bytes follow is taken apart as it was put together.
LEMMA JamFirstByte ==
  ASSUME NEW k \in 0..ByteBits, NEW u \in Nat, u <= JamRoom(k)
  PROVE  /\ JamPrefix(k) + u \in Byte
         /\ LeadingOnes(JamPrefix(k) + u) = k
         /\ (JamPrefix(k) + u) % JamMask(k) = u
<1> DEFINE m == JamMask(k)
           first == JamPrefix(k) + u
<1>1. /\ m \in 1..Base /\ u < m /\ Base \in Nat \ {0} /\ ByteBits \in Nat
      /\ JamPrefix(k) \in Nat
      /\ k < ByteBits => /\ JamPrefix(k) = Base - 2 * m
                         /\ JamPrefix(k + 1) = Base - m
      /\ k = ByteBits => JamPrefix(k) = Base - 1 /\ m = 1
  BY JamMaskMeaning, JamPrefixMonotonic, ByteAssumption
<1>2. PICK c \in Nat : JamPrefix(k) = m * c
  BY JamMaskDivides
<1> HIDE DEF m
<1>3. first % m = u
  <2>1. m \in Nat \ {0} /\ u \in 0..(m - 1)
    BY <1>1
  <2>2. (m * c + u) % m = u
    BY <2>1, DivisionUnique
  <2> QED
    BY <1>2, <2>2
<1>4. first \in Byte
  BY <1>1 DEF Byte
<1>5. LeadingOnes(first) = k
  <2> DEFINE ones == {j \in 1..ByteBits : first >= JamPrefix(j)}
  <2>1. ASSUME NEW j \in 1..ByteBits
        PROVE  first >= JamPrefix(j) <=> j <= k
    <3>1. CASE j <= k
      <4>1. JamPrefix(j) <= JamPrefix(k) /\ JamPrefix(j) \in Nat
        <5>1. j \in 0..ByteBits
          BY <1>1
        <5> QED
          BY <3>1, <5>1, JamPrefixMonotonic
      <4> QED
        BY <1>1, <3>1, <4>1
    <3>2. CASE ~(j <= k)
      <4>1. k + 1 \in 0..ByteBits /\ k + 1 <= j /\ j \in 0..ByteBits /\ k < ByteBits
        BY <1>1, <3>2
      <4>2. JamPrefix(k + 1) <= JamPrefix(j) /\ JamPrefix(j) \in Nat
        BY <4>1, JamPrefixMonotonic
      <4> QED
        BY <1>1, <3>2, <4>1, <4>2
    <3> QED
      BY <3>1, <3>2
  <2>2. ones = 1..k
    <3> HIDE DEF first
    <3> QED
      BY <1>1, <2>1
  <2>3. Cardinality(1..k) = k
    BY FS_Interval, <1>1
  <2> QED
    BY <2>2, <2>3 DEF LeadingOnes
<1> QED
  BY <1>3, <1>4, <1>5 DEF m

-----------------------------------------------------------------------------
(* What the encodings put are bytes.                                       *)

\* What is left of a value when bytes are shifted out.
LEMMA ShiftedType ==
  ASSUME NEW v \in Nat, NEW k \in 0..ByteBits
  PROVE  /\ Shifted(v, k) \in Nat
         /\ Shifted(v, k) # 0 => ByteBits * k < BitWidth(v) /\ ByteBits * k < MaxBits
<1> DEFINE p == 2^(ByteBits * k)
<1>1. CASE k = ByteBits \/ BitWidth(v) <= ByteBits * k
  BY <1>1 DEF Shifted
<1>2. CASE ~(k = ByteBits \/ BitWidth(v) <= ByteBits * k)
  <2>1. ByteBits * k \in 0..(MaxBits - 1) /\ ByteBits * k < BitWidth(v)
    BY <1>2, BitWidthType, ByteAssumption, MaxBitsAssumption
  <2>2. p \in Nat \ {0}
    BY <2>1, MaxBitsAssumption
  <2>3. Shifted(v, k) = v \div p
    BY <1>2 DEF Shifted
  <2>4. ByteBits * k < MaxBits
    BY <2>1, MaxBitsAssumption
  <2> HIDE DEF p
  <2>5. v \div p \in Nat
    BY <2>2
  <2> QED
    BY <2>1, <2>3, <2>4, <2>5
<1> QED
  BY <1>1, <1>2

\* The bytes JAM has behind the first one: the fewest with which what is above
\* them fits in it.
LEMMA JamExtraBytesMeaning ==
  ASSUME NEW v \in Nat
  PROVE  /\ JamExtraBytes(v) \in 0..ByteBits
         /\ JamFits(v, JamExtraBytes(v))
         /\ \A j \in 0..(JamExtraBytes(v) - 1) : ~JamFits(v, j)
<1> DEFINE fitting == {k \in 0..ByteBits : JamFits(v, k)}
<1>1. ByteBits \in 0..ByteBits
  BY ByteAssumption
<1>2. JamFits(v, ByteBits)
  BY <1>1, JamMaskMeaning DEF JamFits, Shifted
<1>3. fitting \in SUBSET Nat /\ fitting # {}
  BY <1>1, <1>2
<1>4. PICK k \in fitting : \A j \in fitting : ~(j < k)
  BY <1>3, LeastNatural
<1>5. k \in 0..ByteBits /\ JamFits(v, k) /\ \A j \in 0..(k - 1) : ~JamFits(v, j)
  BY <1>4, ByteAssumption
<1> QED
  BY <1>5 DEF JamExtraBytes

\* The bytes behind the first one are within the bits of the instance.
LEMMA JamExtraBytesBound ==
  ASSUME NEW v \in Nat, JamExtraBytes(v) # 0
  PROVE  /\ JamExtraBytes(v) - 1 \in 0..(ByteBits - 1)
         /\ JamRoom(JamExtraBytes(v) - 1) < Shifted(v, JamExtraBytes(v) - 1)
         /\ ByteBits * (JamExtraBytes(v) - 1) < MaxBits
<1> DEFINE k == JamExtraBytes(v)
<1>1. k \in 0..ByteBits /\ \A j \in 0..(k - 1) : ~JamFits(v, j)
  BY JamExtraBytesMeaning
<1> HIDE DEF k
<1>2. k - 1 \in 0..(ByteBits - 1) /\ k - 1 \in 0..ByteBits /\ k - 1 \in 0..(k - 1)
  BY <1>1, ByteAssumption DEF k
<1>3. ~(Shifted(v, k - 1) <= JamRoom(k - 1))
  BY <1>1, <1>2 DEF JamFits
<1>4. JamRoom(k - 1) \in Nat
  BY <1>2, JamMaskMeaning, ByteAssumption
<1>5. /\ Shifted(v, k - 1) \in Nat
      /\ Shifted(v, k - 1) # 0 => ByteBits * (k - 1) < MaxBits
  BY <1>2, ShiftedType
<1> QED
  BY <1>2, <1>3, <1>4, <1>5 DEF k

\* JAM's first byte is a byte, and so are those behind it.
LEMMA JamBytesType ==
  ASSUME NEW v \in Nat
  PROVE  JamBytes(v) \in Seq(Byte)
<1> DEFINE k == JamExtraBytes(v)
<1>1. k \in 0..ByteBits /\ JamFits(v, k)
  BY JamExtraBytesMeaning
<1>2. k = 0 \/ ByteBits * (k - 1) < MaxBits
  BY JamExtraBytesBound
<1> HIDE DEF k
<1>3. JamPrefix(k) + Shifted(v, k) \in Byte
  BY <1>1, ShiftedType, JamFirstByte DEF JamFits
<1>4. LittleEndian(v, k) \in Seq(Byte)
  BY <1>1, <1>2, LittleEndianType, ByteAssumption
<1> QED
  BY <1>3, <1>4 DEF JamBytes, k

\* What either build puts for a compact integer are bytes.
LEMMA EncodeCompactType ==
  ASSUME NEW v \in Nat
  PROVE  /\ EncodeCompactOfNative(v).bytes \in Seq(Byte)
         /\ EncodeCompactOfBig(v).bytes \in Seq(Byte)
         /\ EncodeCompactOfBig(v).error
              \in {"none", "COMPACT_INTEGER_TOO_BIG",
                   "VALUE_TOO_BIG_FOR_COMPACT_REPRESENTATION"}
<1>1. CASE JAM_COMPATIBILITY_ENABLED
  <2>1. JamBytes(v) \in Seq(Byte) /\ << >> \in Seq(Byte)
    BY JamBytesType
  <2> QED
    BY <1>1, <2>1 DEF EncodeCompactOfNative, EncodeCompactOfBig, EncodeJamNative,
                      EncodeJamBig
<1>2. CASE ~JAM_COMPATIBILITY_ENABLED
  BY <1>2, EncodeScaleType DEF EncodeCompactOfNative, EncodeCompactOfBig
<1> QED
  BY <1>1, <1>2

-----------------------------------------------------------------------------
(* The length a count's encoding is taken to have.                         *)

\* One more is not taken to be shorter, below the big mode.
LEMMA LengthOfCompactMonotonic ==
  ASSUME NEW c \in Nat, c + 1 < kMinBigInteger
  PROVE  /\ LengthOfCompact(c) \in Nat
         /\ LengthOfCompact(c + 1) \in Nat
         /\ LengthOfCompact(c) <= LengthOfCompact(c + 1)
<1>1. CASE ~JAM_COMPATIBILITY_ENABLED
  BY <1>1, LimitsType DEF LengthOfCompact, LengthOfCompactNative
<1>2. CASE JAM_COMPATIBILITY_ENABLED
  <2> DEFINE d == ByteBits - 1
             length(v) == IF v = 0 THEN 1 ELSE 1 + (BitWidth(v) - 1) \div d
  <2>1. LengthOfCompact(c) = length(c) /\ LengthOfCompact(c + 1) = length(c + 1)
    BY <1>2 DEF LengthOfCompact, LengthOfJamNative
  <2>2. d \in Nat \ {0}
    BY ByteAssumption
  <2>3. ASSUME NEW v \in Nat \ {0}
        PROVE  BitWidth(v) - 1 \in Nat
    <3>1. BitWidth(v) \in Nat
      BY BitWidthType, MaxBitsAssumption
    <3>2. BitWidth(v) # 0
      <4> DEFINE bits == {i \in 0..(MaxBits - 1) : 2^i <= v}
      <4>1. 0 \in bits
        BY MaxBitsAssumption, ByteAssumption
      <4>2. IsFiniteSet(bits)
        <5>1. IsFiniteSet(0..(MaxBits - 1))
          BY FS_Interval, MaxBitsAssumption
        <5>2. bits \subseteq 0..(MaxBits - 1)
          OBVIOUS
        <5> QED
          BY <5>1, <5>2, FS_Subset
      <4> HIDE DEF bits
      <4>3. Cardinality(bits) # 0
        BY <4>1, <4>2, FS_EmptySet
      <4> QED
        BY <4>3 DEF BitWidth, bits
    <3> QED
      BY <3>1, <3>2
  <2> HIDE DEF d
  <2>4. BitWidth(c + 1) - 1 \in Nat
    BY <2>3
  <2>5. CASE c = 0
    <3>1. (BitWidth(c + 1) - 1) \div d \in Nat
      BY <2>2, <2>4, DivisionMonotonic
    <3> QED
      BY <2>1, <2>5, <3>1
  <2>6. CASE c # 0
    <3>1. BitWidth(c) - 1 \in Nat
      BY <2>3, <2>6
    <3>2. BitWidth(c) - 1 <= BitWidth(c + 1) - 1
      BY <2>4, <3>1, BitWidthMonotonic, BitWidthType, MaxBitsAssumption
    <3>3. /\ (BitWidth(c) - 1) \div d \in Nat
          /\ (BitWidth(c + 1) - 1) \div d \in Nat
          /\ (BitWidth(c) - 1) \div d <= (BitWidth(c + 1) - 1) \div d
      BY <2>2, <2>4, <3>1, <3>2, DivisionMonotonic
    <3> QED
      BY <2>1, <2>6, <3>3
  <2> QED
    BY <2>5, <2>6
<1> QED
  BY <1>1, <1>2

-----------------------------------------------------------------------------
(* What JAM's encoder puts, its decoder reads.                             *)

\* v is what is left of it above its k lower bytes, and those; the upper part
\* is taken for 0 just when it is.
LEMMA ShiftedMeaning ==
  ASSUME NEW v \in Nat, Representable(v), FitsSizeT(v), NEW k \in 0..ByteBits
  PROVE  /\ Shifted(v, k) = 0 =>
              (k = 0 \/ ByteBits * (k - 1) < MaxBits => FitsIn(v, k))
         /\ Shifted(v, k) # 0 =>
              ByteBits * k < MaxBits /\ Shifted(v, k) = v \div 2^(ByteBits * k)
<1>1. CASE k = ByteBits \/ BitWidth(v) <= ByteBits * k
  <2>1. BitWidth(v) <= ByteBits * k
    BY <1>1 DEF FitsSizeT
  <2>2. k \in Nat
    BY ByteAssumption
  <2> QED
    BY <1>1, <2>1, <2>2, FitsInWidth DEF Shifted
<1>2. CASE ~(k = ByteBits \/ BitWidth(v) <= ByteBits * k)
  <2> DEFINE p == 2^(ByteBits * k)
  <2>1. /\ Shifted(v, k) = v \div p
        /\ ByteBits * k \in 0..(MaxBits - 1) /\ ByteBits * k < MaxBits
        /\ ByteBits * k < BitWidth(v)
    BY <1>2, BitWidthType, ByteAssumption, MaxBitsAssumption DEF Shifted
  <2>2. p <= v /\ p \in Nat \ {0}
    BY <2>1, BitWidthMeaning, MaxBitsAssumption
  <2> HIDE DEF p
  <2>3. 1 <= v \div p /\ v \div p \in Nat
    BY <2>2, QuotientAbove
  <2> QED
    BY <2>1, <2>3 DEF p
<1> QED
  BY <1>1, <1>2

\* The bytes behind JAM's first one, and what is in it, are worth v.
LEMMA JamValueOfBytes ==
  ASSUME NEW v \in Nat, Representable(v), FitsSizeT(v)
  PROVE  LittleEndianValue(Append(LittleEndian(v, JamExtraBytes(v)),
                                  Shifted(v, JamExtraBytes(v)))) = v
<1> DEFINE k == JamExtraBytes(v)
           u == Shifted(v, k)
           rest == LittleEndian(v, k)
<1>1. /\ k \in 0..ByteBits /\ k \in Nat /\ u <= JamRoom(k)
      /\ k = 0 \/ ByteBits * (k - 1) < MaxBits
  BY JamExtraBytesMeaning, JamExtraBytesBound, ByteAssumption DEF JamFits
<1>2. /\ u \in Nat
      /\ u = 0 => FitsIn(v, k)
      /\ u # 0 => ByteBits * k < MaxBits /\ u = v \div 2^(ByteBits * k)
  BY <1>1, ShiftedType, ShiftedMeaning
<1> HIDE DEF k, u
<1>3. CASE u = 0
  <2>1. rest \in Seq(Byte) /\ LittleEndianValue(rest) = v
    BY <1>1, <1>2, <1>3, LittleEndianRoundTrip
  <2> HIDE DEF rest
  <2>2. LittleEndianValue(Append(rest, 0)) = v
    BY <2>1, ZeroAbove
  <2> QED
    BY <1>3, <2>2 DEF k, u, rest
<1>4. CASE u # 0
  <2>1. u < Base
    BY <1>1, <1>2, JamMaskMeaning, ByteAssumption
  <2>2. k + 1 \in Nat /\ (k + 1) - 1 = k /\ k + 1 > 0
    BY <1>1
  <2>3. FitsIn(v, k + 1)
    BY <1>2, <1>4, <2>1, <2>2 DEF FitsIn
  <2>4. ByteOf(v, k) = u
    <3>1. u % Base = u
      BY <1>2, <2>1, ByteAssumption
    <3> QED
      BY <1>2, <1>4, <3>1 DEF ByteOf
  <2>5. Append(rest, u) = LittleEndian(v, k + 1)
    <3> DEFINE f(i) == ByteOf(v, i - 1)
    <3>1. rest = [i \in 1..k |-> f(i)] /\ LittleEndian(v, k + 1) = [i \in 1..(k + 1) |-> f(i)]
      BY DEF LittleEndian
    <3>2. f(k + 1) = u
      BY <2>2, <2>4
    <3> HIDE DEF f, rest
    <3>3. [i \in 1..(k + 1) |-> f(i)] = Append([i \in 1..k |-> f(i)], f(k + 1))
      BY <1>1
    <3> QED
      BY <3>1, <3>2, <3>3
  <2>6. LittleEndianValue(LittleEndian(v, k + 1)) = v
    BY <2>2, <2>3, LittleEndianRoundTrip
  <2> QED
    BY <2>5, <2>6 DEF k, u, rest
<1> QED
  BY <1>3, <1>4

\* JAM's encoder leaves no byte out that its decoder would miss.
LEMMA JamNotRedundant ==
  ASSUME NEW v \in Nat, Representable(v), FitsSizeT(v), JamExtraBytes(v) # 0,
         Shifted(v, JamExtraBytes(v)) = 0
  PROVE  JamMask(JamExtraBytes(v)) <= ByteOf(v, JamExtraBytes(v) - 1)
<1> DEFINE k == JamExtraBytes(v)
           p == 2^(ByteBits * (k - 1))
           x == Shifted(v, k - 1)
<1>1. /\ k \in 0..ByteBits /\ k \in Nat /\ k # 0 /\ ByteBits * (k - 1) < MaxBits
      /\ k - 1 \in 0..(ByteBits - 1) /\ JamRoom(k - 1) < x
  BY JamExtraBytesMeaning, JamExtraBytesBound, ByteAssumption
<1>2. FitsIn(v, k)
  BY <1>1, ShiftedMeaning
<1>3. k - 1 \in 0..ByteBits /\ (k - 1) + 1 = k /\ k - 1 < ByteBits
  BY <1>1, ByteAssumption
<1> HIDE DEF k
<1>4. /\ JamMask(k) \in Nat /\ JamMask(k - 1) \in Nat \ {0}
      /\ JamRoom(k - 1) = JamMask(k - 1) - 1
  BY <1>1, <1>3, JamMaskMeaning, ByteAssumption
<1>5. JamMask(k) <= JamMask(k - 1)
  <2>1. JamPrefix(k) = Base - JamMask(k - 1)
    BY <1>3, JamMaskMeaning
  <2>2. k < ByteBits => JamPrefix(k) = Base - 2 * JamMask(k)
    BY <1>1, JamMaskMeaning
  <2>3. k = ByteBits => JamMask(k) = 1
    BY <1>1, JamMaskMeaning
  <2> QED
    BY <1>1, <1>4, <2>1, <2>2, <2>3, ByteAssumption
<1>6. x \in Nat /\ x # 0
  BY <1>1, <1>3, <1>4, ShiftedType
<1>7. x = v \div p
  BY <1>3, <1>6, ShiftedMeaning
<1>8. v \div p < Base
  BY <1>1, <1>2 DEF FitsIn
<1>9. ByteOf(v, k - 1) = (v \div p) % Base
  BY DEF ByteOf
<1> HIDE DEF p, x
<1>10. x % Base = x
  BY <1>6, <1>7, <1>8, ByteAssumption
<1>11. JamMask(k) <= x
  BY <1>1, <1>4, <1>5, <1>6
<1> QED
  BY <1>7, <1>9, <1>10, <1>11 DEF k

\* What encodeJamCompactInteger puts for a number that fits a size_t,
\* decodeJamCompactInteger reads as that number, wherever it stands.
THEOREM JamRead ==
  ASSUME NEW v \in Nat, Representable(v), FitsSizeT(v),
         NEW s \in Seq(Byte), NEW i \in Nat, HasAt(s, i, JamBytes(v))
  PROVE  DecodeJamCompactInteger(s, i) = ReadResult("none", Len(JamBytes(v)), v)
<1> DEFINE k == JamExtraBytes(v)
           u == Shifted(v, k)
           first == JamPrefix(k) + u
           rest == LittleEndian(v, k)
<1>1. k \in 0..ByteBits /\ k \in Nat /\ u <= JamRoom(k) /\ u \in Nat
  BY JamExtraBytesMeaning, ShiftedType, ByteAssumption DEF JamFits
<1>2. first \in Byte /\ LeadingOnes(first) = k /\ first % JamMask(k) = u
  BY <1>1, JamFirstByte
<1>3. rest \in Seq(Byte) /\ Len(rest) = k /\ \A n \in 1..k : rest[n] = ByteOf(v, n - 1)
  <2>1. k = 0 \/ ByteBits * (k - 1) < MaxBits
    BY JamExtraBytesBound
  <2>2. rest \in Seq(Byte)
    BY <1>1, <2>1, LittleEndianType
  <2>3. rest = [n \in 1..k |-> ByteOf(v, n - 1)]
    BY DEF LittleEndian
  <2> HIDE DEF rest, k
  <2> QED
    BY <1>1, <2>2, <2>3
<1>4. JamBytes(v) = <<first>> \o rest
  BY DEF JamBytes
<1>5. LittleEndianValue(Append(rest, u)) = v
  BY JamValueOfBytes
<1>6. k # 0 /\ u = 0 => JamMask(k) <= ByteOf(v, k - 1)
  BY JamNotRedundant
<1> HIDE DEF k, u, first, rest
<1>7. /\ i + 1 + Len(rest) <= Len(s)
      /\ s[i + 1] = first
      /\ SubSeq(s, i + 2, i + 1 + Len(rest)) = rest
  BY <1>2, <1>3, <1>4, HasAtParts
<1>8. HasMore(s, i, 1) /\ ~(Len(s) < i + 1 + k)
  <2>1. Len(s) \in Nat
    OBVIOUS
  <2>2. i + 1 <= Len(s)
    BY <1>1, <1>3, <1>7, <2>1
  <2> QED
    BY <1>1, <1>3, <1>7, <2>1, <2>2, HasMoreWithin
<1>9. k # 0 => s[i + 1 + k] = ByteOf(v, k - 1)
  <2>1. SUFFICES ASSUME k # 0 PROVE s[i + 1 + k] = ByteOf(v, k - 1)
    OBVIOUS
  <2>2. k + 1 \in 1..Len(<<first>> \o rest) /\ (<<first>> \o rest)[k + 1] = rest[k]
        /\ i + (k + 1) = i + 1 + k
    <3>1. k \in Nat /\ k >= 1
      BY <1>1, <2>1
    <3>2. rest \in Seq(Byte) /\ Len(rest) = k
      BY <1>3
    <3> HIDE DEF k, first, rest
    <3>3. Len(<<first>> \o rest) = k + 1 /\ (<<first>> \o rest)[k + 1] = rest[k]
      BY <3>1, <3>2
    <3>4. k + 1 \in 1..(k + 1) /\ i + (k + 1) = i + 1 + k
      BY <3>1
    <3> QED
      BY <3>3, <3>4
  <2>3. s[i + (k + 1)] = (<<first>> \o rest)[k + 1]
    BY <1>4, <2>2 DEF HasAt
  <2>4. k \in 1..k
    BY <1>1, <2>1
  <2> QED
    BY <1>3, <2>2, <2>3, <2>4
<1>10. ~IsJamRedundant(first, s[i + 1 + k])
  <2>1. JamMask(k) \in Nat
    BY <1>1, JamMaskMeaning, ByteAssumption
  <2>2. CASE k = 0
    BY <1>2, <2>2 DEF IsJamRedundant
  <2>3. CASE k # 0 /\ u # 0
    BY <1>2, <2>3 DEF IsJamRedundant
  <2>4. CASE k # 0 /\ u = 0
    <3>1. ByteOf(v, k - 1) \in Int
      <4>1. k \in 1..k
        BY <1>1, <2>4
      <4> QED
        BY <1>3, <4>1, ByteAssumption DEF Byte
    <3>2. ~(s[i + 1 + k] < JamMask(k))
      BY <1>6, <1>9, <2>1, <2>4, <3>1
    <3> QED
      BY <1>2, <3>2 DEF IsJamRedundant
  <2> QED
    BY <2>2, <2>3, <2>4
<1>11. JamValue(first, rest) = v
  BY <1>2, <1>5 DEF JamValue
<1>12. DecodeJamCompactInteger(s, i) = ReadResult("none", 1 + k, v)
  BY <1>2, <1>3, <1>7, <1>8, <1>10, <1>11 DEF DecodeJamCompactInteger
<1>13. Len(JamBytes(v)) = 1 + k
  BY <1>1, <1>3, <1>4
<1> QED
  BY <1>12, <1>13

-----------------------------------------------------------------------------
(* The length JAM's integers are taken to have.                            *)

LEMMA JamBytesLength ==
  ASSUME NEW v \in Nat
  PROVE  Len(JamBytes(v)) = 1 + JamExtraBytes(v)
<1> DEFINE k == JamExtraBytes(v)
           first == JamPrefix(k) + Shifted(v, k)
           rest == LittleEndian(v, k)
<1>1. k \in Nat
  BY JamExtraBytesMeaning, ByteAssumption
<1>2. Len(rest) = k /\ rest = [i \in 1..k |-> ByteOf(v, i - 1)]
  BY <1>1 DEF LittleEndian
<1> HIDE DEF k, first
<1>3. Len(<<first>> \o rest) = 1 + Len(rest)
  BY <1>1, <1>2
<1> QED
  BY <1>2, <1>3 DEF JamBytes, k, first

\* With k bytes behind it the first byte leaves room for b - 1 bits in each of
\* the k + 1 bytes, on the average.
LEMMA JamFitsWidth ==
  ASSUME NEW v \in Nat, Representable(v), NEW k \in 0..(ByteBits - 1)
  PROVE  JamFits(v, k) <=> BitWidth(v) <= (ByteBits - 1) * (k + 1)
<1> DEFINE b == BitWidth(v)
           n == ByteBits * k
           j == ByteBits - 1 - k
           m == 2^j
<1>1. /\ n \in Nat /\ j \in Nat /\ j < MaxBits /\ b \in 0..MaxBits /\ MaxBits \in Nat
      /\ k \in 0..ByteBits /\ k < ByteBits /\ k # ByteBits
  BY BitWidthType, ByteAssumption, MaxBitsAssumption
<1>2. (ByteBits - 1) * (k + 1) = n + j
  BY ByteAssumption
<1>3. m \in Nat \ {0} /\ JamRoom(k) = m - 1
  BY <1>1, PowerType, JamMaskMeaning DEF JamMask
<1>4. CASE b <= n
  <2>1. Shifted(v, k) = 0
    BY <1>4 DEF Shifted
  <2> HIDE DEF b, n, j, m
  <2> QED
    BY <1>1, <1>2, <1>3, <1>4, <2>1 DEF JamFits, b
<1>5. CASE ~(b <= n)
  <2> DEFINE x == v \div 2^n
  <2>1. Shifted(v, k) = x
    BY <1>1, <1>5 DEF Shifted
  <2>2. n < MaxBits
    <3> HIDE DEF b, n
    <3> QED
      BY <1>1, <1>5
  <2>3. x < m <=> b <= n + j
    BY <1>1, <2>2, QuotientWidth
  <2>4. x \in Nat
    <3> DEFINE p == 2^n
    <3>1. p \in Nat \ {0}
      BY <1>1, <2>2, PowerType
    <3> HIDE DEF p
    <3>2. v \div p \in Nat
      BY <3>1
    <3> QED
      BY <3>2 DEF p
  <2> HIDE DEF x, m
  <2>5. x <= m - 1 <=> x < m
    BY <1>3, <2>4
  <2> QED
    BY <1>2, <1>3, <2>1, <2>3, <2>5 DEF JamFits
<1> QED
  BY <1>4, <1>5

\* lengthOfEncodedJamCompactInteger is exact for the numbers that leave a bit
\* of a size_t.
LEMMA JamLength ==
  ASSUME NEW v \in Nat, Representable(v), BitWidth(v) < ByteBits * ByteBits
  PROVE  LengthOfJamNative(v) = Len(JamBytes(v))
<1> DEFINE b == BitWidth(v)
           d == ByteBits - 1
           e == JamExtraBytes(v)
<1>1. b \in Nat /\ d \in Nat \ {0} /\ (b = 0 <=> v = 0)
  BY BitWidthType, BitWidthPositive, ByteAssumption, MaxBitsAssumption
<1>2. /\ e \in 0..ByteBits /\ JamFits(v, e) /\ \A j \in 0..(e - 1) : ~JamFits(v, j)
      /\ ByteBits \in Nat /\ ByteBits = d + 1
  BY JamExtraBytesMeaning, ByteAssumption
<1>3. e # 0 => d * e < b
  <2>1. SUFFICES ASSUME e # 0 PROVE d * e < b
    OBVIOUS
  <2> HIDE DEF e
  <2>2. e - 1 \in 0..(ByteBits - 1) /\ e - 1 \in 0..(e - 1) /\ (e - 1) + 1 = e
    BY <1>2, <2>1
  <2>3. ~(b <= d * e)
    BY <1>2, <2>2, JamFitsWidth
  <2>4. d * e \in Nat
    BY <1>1, <1>2
  <2> HIDE DEF b, d
  <2> QED
    BY <1>1, <2>3, <2>4
<1>4. b <= d * (e + 1)
  <2>1. CASE e = ByteBits
    <3>1. d * (ByteBits + 1) = ByteBits * ByteBits - 1
      BY <1>2
    <3> QED
      BY <1>1, <1>2, <2>1, <3>1
  <2>2. CASE e # ByteBits
    <3>1. e \in 0..(ByteBits - 1)
      BY <1>2, <2>2
    <3> QED
      BY <1>2, <3>1, JamFitsWidth
  <2> QED
    BY <2>1, <2>2
<1> HIDE DEF b, d, e
<1>5. CASE v = 0
  <2>1. e = 0
    <3>1. d * e \in Nat
      BY <1>1, <1>2
    <3> QED
      BY <1>1, <1>3, <1>5, <3>1
  <2>2. Len(JamBytes(v)) = 1 + e
    BY JamBytesLength DEF e
  <2>3. Len(JamBytes(v)) = 1
    BY <2>1, <2>2
  <2> QED
    BY <1>5, <2>3 DEF LengthOfJamNative
<1>6. CASE v # 0
  <2> DEFINE r == (b - 1) - d * e
  <2>1. r \in 0..(d - 1) /\ b - 1 = d * e + r
    <3>1. d * e \in Nat /\ d * (e + 1) = d * e + d
      BY <1>1, <1>2
    <3>2. d * e < b
      <4>1. CASE e = 0
        <5>1. d * 0 = 0
          BY <1>1
        <5> QED
          BY <1>1, <1>6, <4>1, <5>1
      <4>2. CASE e # 0
        BY <1>3, <4>2
      <4> QED
        BY <4>1, <4>2
    <3> QED
      BY <1>1, <1>4, <3>1, <3>2
  <2> HIDE DEF r
  <2>2. (b - 1) \div d = e
    <3>1. e \in Nat
      BY <1>2
    <3>2. (d * e + r) \div d = e
      BY <1>1, <2>1, <3>1, DivisionUnique
    <3> QED
      BY <2>1, <3>2
  <2>3. LengthOfJamNative(v) = 1 + (b - 1) \div d
    BY <1>6 DEF LengthOfJamNative, b, d
  <2> QED
    BY <2>2, <2>3, JamBytesLength DEF e
<1> QED
  BY <1>5, <1>6

-----------------------------------------------------------------------------
(* Either build.                                                           *)

\* What either build puts for a number it reads back.
THEOREM ReadOfEncoded ==
  ASSUME NEW v \in Nat, Representable(v), EncodeCompactOfBig(v).error = "none",
         NEW s \in Seq(Byte), NEW i \in Nat, HasAt(s, i, EncodeCompactOfBig(v).bytes)
  PROVE  ReadCompact(s, i) = ReadResult("none", Len(EncodeCompactOfBig(v).bytes), v)
<1>1. CASE ~JAM_COMPATIBILITY_ENABLED
  BY <1>1, CompactRoundTrip DEF EncodeCompactOfBig, ReadCompact
<1>2. CASE JAM_COMPATIBILITY_ENABLED
  <2>1. ~(BitWidth(v) > ByteBits * SizeBytes)
    BY <1>2 DEF EncodeCompactOfBig, EncodeJamBig
  <2>2. FitsSizeT(v)
    <3>1. BitWidth(v) \in Nat /\ ByteBits * ByteBits \in Nat /\ SizeBytes = ByteBits
      BY <1>2, BuildAssumption, BitWidthType, ByteAssumption, MaxBitsAssumption
    <3> QED
      BY <2>1, <3>1 DEF FitsSizeT
  <2>3. EncodeCompactOfBig(v).bytes = JamBytes(v)
    BY <1>2, <2>1 DEF EncodeCompactOfBig, EncodeJamBig
  <2> QED
    BY <1>2, <2>2, <2>3, JamRead DEF ReadCompact
<1> QED
  BY <1>1, <1>2

\* decodeCompact<T> of a built-in T gives the number, or says that T cannot
\* hold it.
LEMMA NativeOfEncoded ==
  ASSUME NEW v \in Nat, Representable(v), EncodeCompactOfBig(v).error = "none",
         NEW s \in Seq(Byte), NEW i \in Nat, HasAt(s, i, EncodeCompactOfBig(v).bytes),
         NEW width \in Nat
  PROVE  DecodeCompactNative(s, i, width) =
           LET length == Len(EncodeCompactOfBig(v).bytes)
           IN  IF BitWidth(v) <= ByteBits * width
               THEN ReadResult("none", length, v)
               ELSE ReadResult("DECODED_VALUE_OVERFLOWS_TARGET", length, 0)
<1> DEFINE length == Len(EncodeCompactOfBig(v).bytes)
<1>1. ReadCompact(s, i) = ReadResult("none", length, v)
  BY ReadOfEncoded
<1>2. BitWidth(v) \in Nat /\ ByteBits * width \in Nat
  BY BitWidthType, ByteAssumption, MaxBitsAssumption
<1>3. BitWidth(v) > ByteBits * width <=> ~(BitWidth(v) <= ByteBits * width)
  BY <1>2
<1> HIDE DEF length
<1> QED
  BY <1>1, <1>3 DEF DecodeCompactNative, ReadResult, length

LEMMA LeadingOnesType ==
  ASSUME NEW first
  PROVE  LeadingOnes(first) \in 0..ByteBits
<1> DEFINE ones == {k \in 1..ByteBits : first >= JamPrefix(k)}
<1>1. IsFiniteSet(1..ByteBits) /\ Cardinality(1..ByteBits) = ByteBits
  BY FS_Interval, ByteAssumption
<1>2. Cardinality(ones) \in Nat /\ Cardinality(ones) <= ByteBits
  BY <1>1, FS_Subset, FS_CardinalityType
<1> QED
  BY <1>2, ByteAssumption DEF LeadingOnes

\* What a read accepts is a number, in bytes that are there.
LEMMA ReadType ==
  ASSUME NEW s \in Seq(Byte), NEW i \in 0..Len(s),
         Len(s) + MaxBigBytes < SizeMod, ReadCompact(s, i).error = "none"
  PROVE  ReadCompact(s, i).value \in Nat /\ ReadCompact(s, i).used \in 1..(Len(s) - i)
<1>1. CASE ~JAM_COMPATIBILITY_ENABLED
  <2> DEFINE d == DecodeCompactInteger(s, i)
  <2>1. d = ReadCompact(s, i)
    BY <1>1 DEF ReadCompact
  <2>2. PICK first \in Byte, rest \in Seq(Byte) :
          /\ i + 1 + Len(rest) <= Len(s)
          /\ d.used = 1 + Len(rest)
          /\ d.value = CompactValue(first, rest)
    BY <2>1, AcceptedParts
  <2>3. LittleEndianValue(rest) \in Nat
    <3>1. 0 \in 0..Len(rest)
      OBVIOUS
    <3> QED
      BY <3>1, SuffixValueType DEF LittleEndianValue
  <2>4. CompactValue(first, rest) \in Nat
    <3> DEFINE x == LittleEndianValue(rest)
    <3> HIDE DEF x
    <3>1. Quarter * x \in Nat /\ first \div 4 \in Nat
      BY <2>3, LimitsType DEF x, Byte
    <3> QED
      BY <2>3, <3>1 DEF CompactValue, x
  <2>5. 1 + Len(rest) \in 1..(Len(s) - i)
    BY <2>2
  <2> HIDE DEF d
  <2> QED
    BY <2>1, <2>2, <2>4, <2>5
<1>2. CASE JAM_COMPATIBILITY_ENABLED
  <2> DEFINE first == s[i + 1]
             extra == LeadingOnes(first)
             rest == SubSeq(s, i + 2, i + 1 + extra)
             last == first % JamMask(extra)
  <2>1. SizeMod \in Nat \ {0} /\ MaxBigBytes \in Nat /\ MaxBigBytes > 3
    BY ByteAssumption, LimitsType DEF SizeMod, MaxBigBytes
  <2>2. HasMore(s, i, 1) /\ ~(Len(s) < i + 1 + extra)
        /\ ReadCompact(s, i) = ReadResult("none", 1 + extra, JamValue(first, rest))
    BY <1>2 DEF ReadCompact, DecodeJamCompactInteger, ReadResult
  <2>3. i + 1 <= Len(s)
    <3>1. (i + 1) % SizeMod = i + 1
      BY <2>1
    <3> QED
      BY <2>2, <3>1 DEF HasMore
  <2>4. first \in Byte
    BY <2>3
  <2>5. extra \in 0..ByteBits
    BY LeadingOnesType
  <2> HIDE DEF first, extra
  <2>6. i + 1 + extra <= Len(s)
    BY <2>2, <2>5, ByteAssumption
  <2>7. last \in Byte
    <3>1. JamMask(extra) \in 1..Base
      BY <2>5, JamMaskMeaning
    <3> QED
      BY <2>4, <3>1, ByteAssumption DEF Byte
  <2>8. rest \in Seq(Byte)
    BY <2>5, <2>6, ByteAssumption
  <2> HIDE DEF last, rest
  <2>9. LittleEndianValue(Append(rest, last)) \in Nat
    <3>1. Append(rest, last) \in Seq(Byte) /\ 0 \in 0..Len(Append(rest, last))
      BY <2>7, <2>8
    <3> QED
      BY <3>1, SuffixValueType DEF LittleEndianValue
  <2>10. JamValue(first, rest) \in Nat
    BY <2>9 DEF JamValue, last, extra
  <2>11. 1 + extra \in 1..(Len(s) - i)
    BY <2>5, <2>6, ByteAssumption
  <2> QED
    BY <2>2, <2>10, <2>11 DEF ReadResult
<1> QED
  BY <1>1, <1>2

\* A number below the big mode is encoded as a built-in or a multiprecision
\* integer in the same bytes, and lengthOfEncodedCompactInteger is their count.
LEMMA SmallNative ==
  ASSUME NEW v \in Nat, Representable(v), v < kMinBigInteger,
         JAM_COMPATIBILITY_ENABLED => BitWidth(v) < ByteBits * ByteBits
  PROVE  /\ EncodeCompactOfBig(v) = [error |-> "none",
                                     bytes |-> EncodeCompactOfNative(v).bytes]
         /\ LengthOfCompact(v) = Len(EncodeCompactOfNative(v).bytes)
         /\ LengthOfCompact(v) # 0
<1>1. CASE ~JAM_COMPATIBILITY_ENABLED
  <2>1. /\ EncodeCompactOfBig(v) = [error |-> "none", bytes |-> EncodeSmallCompact(v)]
        /\ EncodeCompactOfNative(v).bytes = EncodeSmallCompact(v)
        /\ LengthOfCompact(v) = LengthOfCompactNative(v)
    BY <1>1 DEF EncodeCompactOfBig, EncodeCompactOfNative, EncodeCompactNative,
                EncodeCompactBig, LengthOfCompact
  <2>2. LengthOfCompactNative(v) \in {1, 2, 4}
    BY LimitsType DEF LengthOfCompactNative
  <2> QED
    BY <2>1, <2>2, SmallRoundTrip
<1>2. CASE JAM_COMPATIBILITY_ENABLED
  <2>1. ~(BitWidth(v) > ByteBits * SizeBytes)
    <3>1. BitWidth(v) \in Nat /\ ByteBits * ByteBits \in Nat /\ SizeBytes = ByteBits
      BY <1>2, BuildAssumption, BitWidthType, ByteAssumption, MaxBitsAssumption
    <3> QED
      BY <1>2, <3>1
  <2>2. /\ EncodeCompactOfBig(v) = [error |-> "none", bytes |-> JamBytes(v)]
        /\ EncodeCompactOfNative(v).bytes = JamBytes(v)
        /\ LengthOfCompact(v) = LengthOfJamNative(v)
    BY <1>2, <2>1 DEF EncodeCompactOfBig, EncodeCompactOfNative, EncodeJamNative,
                      EncodeJamBig, LengthOfCompact
  <2>3. Len(JamBytes(v)) # 0
    BY JamBytesLength, JamExtraBytesMeaning, ByteAssumption
  <2> QED
    BY <1>2, <2>2, <2>3, JamLength
<1> QED
  BY <1>1, <1>2
=============================================================================
