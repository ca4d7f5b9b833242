------------------------ MODULE CompactInteger_proofs ------------------------
(***************************************************************************)
(* What the integer operators compute, for every byte width and every      *)
(* number an instance has bits for.                                        *)
(***************************************************************************)
EXTENDS CompactInteger, FiniteSetTheorems, WellFoundedInduction, TLAPS

-----------------------------------------------------------------------------
(* Induction, by way of a least counterexample.                            *)

\* A set of numbers that is not empty has a least one.
LEMMA LeastNatural ==
  ASSUME NEW S \in SUBSET Nat, S # {}
  PROVE  \E k \in S : \A j \in S : ~(j < k)
<1> DEFINE R == {pair \in Nat \X Nat : pair[1] < pair[2]}
<1>1. IsWellFoundedOn(R, Nat)
  BY NatLessThanWellFounded DEF OpToRel
<1>2. PICK k \in S : \A j \in S : ~(<<j, k>> \in R)
  BY <1>1, WFMin
<1>3. ASSUME NEW j \in S, j < k
      PROVE  <<j, k>> \in R
  BY <1>3
<1> QED
  BY <1>2, <1>3

\* A set that has 0 and with each number below n the next one has all up to n.
LEMMA InductionUpTo ==
  ASSUME NEW n \in Nat, NEW S, 0 \in S,
         \A i \in 0..(n - 1) : i \in S => i + 1 \in S
  PROVE  \A i \in 0..n : i \in S
<1> DEFINE missing == {i \in 0..n : i \notin S}
<1>1. SUFFICES ASSUME missing # {} PROVE FALSE
  OBVIOUS
<1>2. missing \in SUBSET Nat
  OBVIOUS
<1>3. PICK k \in missing : \A j \in missing : ~(j < k)
  BY <1>1, <1>2, LeastNatural
<1>4. k # 0 /\ k - 1 \in 0..(n - 1)
  BY <1>3
<1>5. k - 1 \in S
  BY <1>3, <1>4
<1> QED
  BY <1>3, <1>4, <1>5

\* The same downwards.
LEMMA InductionDownFrom ==
  ASSUME NEW n \in Nat, NEW S, n \in S,
         \A i \in 0..(n - 1) : i + 1 \in S => i \in S
  PROVE  \A i \in 0..n : i \in S
<1> DEFINE mirror == {i \in 0..n : n - i \in S}
<1>1. 0 \in mirror
  OBVIOUS
<1>2. ASSUME NEW i \in 0..(n - 1), i \in mirror
      PROVE  i + 1 \in mirror
  <2>1. n - (i + 1) \in 0..(n - 1) /\ (n - (i + 1)) + 1 = n - i
    OBVIOUS
  <2> QED
    BY <1>2, <2>1
<1>3. \A i \in 0..n : i \in mirror
  <2> HIDE DEF mirror
  <2> QED
    BY <1>1, <1>2, InductionUpTo
<1>4. ASSUME NEW i \in 0..n
      PROVE  n - i \in 0..n /\ n - (n - i) = i
  OBVIOUS
<1> QED
  BY <1>3, <1>4

-----------------------------------------------------------------------------
(* Division and powers.                                                    *)

LEMMA DivisionType ==
  ASSUME NEW a \in Nat, NEW d \in Nat \ {0}
  PROVE  /\ a \div d \in Nat
         /\ a % d \in 0..(d - 1)
         /\ a = d * (a \div d) + (a % d)
OBVIOUS

\* Quotient and remainder are the only ones there are.
LEMMA DivisionUnique ==
  ASSUME NEW d \in Nat \ {0}, NEW q \in Nat, NEW r \in 0..(d - 1)
  PROVE  (d * q + r) \div d = q /\ (d * q + r) % d = r
<1> DEFINE a == d * q + r
           p == a \div d
           s == a % d
<1>1. a \in Nat
  OBVIOUS
<1>2. p \in Nat /\ s \in 0..(d - 1) /\ d * q + r = d * p + s
  BY <1>1
<1> HIDE DEF p, s
<1>3. ASSUME p < q PROVE FALSE
  <2>1. d * (p + 1) <= d * q
    BY <1>2, <1>3
  <2> QED
    BY <1>2, <2>1
<1>4. ASSUME q < p PROVE FALSE
  <2>1. d * (q + 1) <= d * p
    BY <1>2, <1>4
  <2> QED
    BY <1>2, <2>1
<1>5. p = q
  BY <1>2, <1>3, <1>4
<1>6. s = r
  BY <1>2, <1>5
<1> QED
  BY <1>5, <1>6 DEF p, s

\* A quotient below d * e is below e.
LEMMA QuotientBelow ==
  ASSUME NEW a \in Nat, NEW d \in Nat \ {0}, NEW e \in Nat, a < d * e
  PROVE  a \div d < e
<1> DEFINE q == a \div d
<1>1. q \in Nat /\ d * q <= a
  OBVIOUS
<1> HIDE DEF q
<1>2. ASSUME e <= q PROVE FALSE
  <2>1. d * e <= d * q
    BY <1>1, <1>2
  <2> QED
    BY <1>1, <2>1
<1> QED
  BY <1>1, <1>2 DEF q

LEMMA QuotientAbove ==
  ASSUME NEW a \in Nat, NEW d \in Nat \ {0}, NEW e \in Nat, d * e <= a
  PROVE  e <= a \div d
<1> DEFINE q == a \div d
<1>1. q \in Nat /\ a < d * (q + 1)
  OBVIOUS
<1> HIDE DEF q
<1>2. ASSUME q < e PROVE FALSE
  <2>1. d * (q + 1) <= d * e
    BY <1>1, <1>2
  <2> QED
    BY <1>1, <2>1
<1> QED
  BY <1>1, <1>2 DEF q

\* To divide twice is to divide by the product.
LEMMA DivisionTwice ==
  ASSUME NEW a \in Nat, NEW d \in Nat \ {0}, NEW e \in Nat \ {0}
  PROVE  (a \div d) \div e = a \div (d * e)
<1> DEFINE b == a \div d
           r == a % d
           q == b \div e
           s == b % e
<1>1. b \in Nat /\ r \in 0..(d - 1) /\ a = d * b + r
  BY DivisionType
<1>2. q \in Nat /\ s \in 0..(e - 1) /\ b = e * q + s
  BY <1>1, DivisionType
<1> HIDE DEF b, r, q, s
<1>3. a = (d * e) * q + (d * s + r)
  BY <1>1, <1>2
<1>4. d * s + r \in 0..(d * e - 1)
  <2>1. d * s <= d * (e - 1)
    BY <1>2
  <2> QED
    BY <1>1, <1>2, <2>1
<1>5. d * e \in Nat \ {0}
  OBVIOUS
<1>6. a \div (d * e) = q
  BY <1>2, <1>3, <1>4, <1>5, DivisionUnique
<1> QED
  BY <1>6 DEF b, q

LEMMA DivisionMonotonic ==
  ASSUME NEW a \in Nat, NEW b \in Nat, a <= b, NEW d \in Nat \ {0}
  PROVE  a \div d \in Nat /\ b \div d \in Nat /\ a \div d <= b \div d
<1> DEFINE q == a \div d
           r == b \div d
<1>1. q \in Nat /\ d * q <= a /\ r \in Nat /\ b < d * (r + 1)
  OBVIOUS
<1> HIDE DEF q, r
<1>2. ASSUME r < q
      PROVE  FALSE
  <2>1. r + 1 <= q
    BY <1>1, <1>2
  <2>2. d * (r + 1) <= d * q
    BY <1>1, <2>1
  <2> QED
    BY <1>1, <2>2
<1>3. q <= r
  BY <1>1, <1>2
<1> QED
  BY <1>1, <1>3 DEF q, r

LEMMA PowerType ==
  ASSUME NEW i \in Nat, i < MaxBits
  PROVE  2^i \in Nat \ {0}
BY MaxBitsAssumption

\* Powers of two as far as the instance has bits.
LEMMA PowerSum ==
  ASSUME NEW i \in Nat, NEW j \in Nat, i + j < MaxBits
  PROVE  2^(i + j) = 2^i * 2^j
<1> DEFINE S == {k \in 0..j : 2^(i + k) = 2^i * 2^k}
<1>1. 0 \in S
  <2>1. 2^i \in Nat
    BY PowerType, MaxBitsAssumption
  <2> QED
    BY <2>1
<1>2. ASSUME NEW k \in 0..(j - 1), k \in S
      PROVE  k + 1 \in S
  <2> DEFINE a == 2^(i + k)
             b == 2^i
             c == 2^k
  <2>1. i + k + 1 \in 1..(MaxBits - 1) /\ k + 1 \in 1..(MaxBits - 1)
    BY MaxBitsAssumption
  <2>2. 2^(i + k + 1) = 2 * 2^((i + k + 1) - 1) /\ 2^(k + 1) = 2 * 2^((k + 1) - 1)
    BY <2>1, MaxBitsAssumption
  <2>3. (i + k + 1) - 1 = i + k /\ (k + 1) - 1 = k /\ i + (k + 1) = i + k + 1
    OBVIOUS
  <2>4. 2^(i + (k + 1)) = 2 * a /\ 2^(k + 1) = 2 * c
    BY <2>2, <2>3
  <2>5. a \in Nat /\ b \in Nat /\ c \in Nat /\ a = b * c
    BY <1>2, <2>1, PowerType, MaxBitsAssumption
  <2> HIDE DEF a, b, c
  <2>6. 2 * a = b * (2 * c)
    BY <2>5
  <2> QED
    BY <2>4, <2>6 DEF b
<1> HIDE DEF S
<1>3. \A k \in 0..j : k \in S
  BY <1>1, <1>2, InductionUpTo
<1> QED
  BY <1>3 DEF S

LEMMA PowerMonotonic ==
  ASSUME NEW i \in Nat, NEW j \in Nat, i <= j, j < MaxBits
  PROVE  2^i <= 2^j
<1> DEFINE a == 2^i
           b == 2^(j - i)
<1>1. j - i \in Nat /\ i + (j - i) = j
  OBVIOUS
<1>2. 2^(i + (j - i)) = a * b
  BY <1>1, PowerSum
<1>3. a \in Nat \ {0} /\ b \in Nat \ {0}
  BY <1>1, PowerType, MaxBitsAssumption
<1> HIDE DEF a, b
<1>4. a <= a * b
  BY <1>3
<1> QED
  BY <1>1, <1>2, <1>4 DEF a

\* One byte more.
LEMMA BytePower ==
  ASSUME NEW i \in Nat, ByteBits * i < MaxBits
  PROVE  2^(ByteBits * i) \in Nat \ {0}
BY PowerType, ByteAssumption

LEMMA NoBytePower == 2^(ByteBits * 0) = 1
<1>1. ByteBits * 0 = 0
  BY ByteAssumption
<1>2. 2^0 = 1
  OBVIOUS
<1> QED
  BY <1>1, <1>2

LEMMA NextBytePower ==
  ASSUME NEW i \in Nat, ByteBits * (i + 1) < MaxBits
  PROVE  /\ ByteBits * i < MaxBits
         /\ 2^(ByteBits * (i + 1)) = 2^(ByteBits * i) * Base
<1>1. /\ ByteBits * (i + 1) = ByteBits * i + ByteBits
      /\ ByteBits * i \in Nat
      /\ ByteBits \in Nat
  BY ByteAssumption
<1>2. ByteBits * i + ByteBits < MaxBits /\ MaxBits \in Nat
  BY <1>1, MaxBitsAssumption
<1>3. 2^(ByteBits * i + ByteBits) = 2^(ByteBits * i) * 2^ByteBits
  BY <1>1, <1>2, PowerSum
<1> QED
  BY <1>1, <1>2, <1>3, ByteAssumption

-----------------------------------------------------------------------------
(* Little-endian bytes.                                                    *)

\* SuffixValue satisfies the equation that defines it.
LEMMA SuffixValueEquation ==
  ASSUME NEW bytes, Len(bytes) \in Nat
  PROVE  SuffixValue(bytes) =
           [n \in 0..Len(bytes) |->
              IF n = Len(bytes) THEN 0
              ELSE bytes[n + 1] + Base * SuffixValue(bytes)[n + 1]]
<1> DEFINE l == Len(bytes)
           Next(f, n) == IF n = l THEN 0 ELSE bytes[n + 1] + Base * f[n + 1]
           S == {i \in 0..l : \E f : f = [n \in i..l |-> Next(f, n)]}
           Value[n \in 0..l] == IF n = l THEN 0 ELSE bytes[n + 1] + Base * Value[n + 1]
<1>1. l \in S
  <2> DEFINE f == [n \in l..l |-> 0]
  <2>1. f = [n \in l..l |-> Next(f, n)]
    OBVIOUS
  <2> HIDE DEF f
  <2> QED
    BY <2>1
<1>2. ASSUME NEW i \in 0..(l - 1), i + 1 \in S
      PROVE  i \in S
  <2>1. PICK f : f = [n \in (i + 1)..l |-> Next(f, n)]
    BY <1>2
  <2> DEFINE g == [n \in i..l |-> IF n = i THEN bytes[i + 1] + Base * f[i + 1] ELSE f[n]]
  <2>2. g = [n \in i..l |-> Next(g, n)]
    <3>1. ASSUME NEW n \in i..l
          PROVE  g[n] = Next(g, n)
      <4>1. CASE n = i
        BY <4>1
      <4>2. CASE n # i /\ n # l
        <5>1. n \in (i + 1)..l /\ n + 1 \in (i + 1)..l /\ n + 1 # i /\ n + 1 \in i..l
          BY <4>2
        <5>2. g[n] = f[n] /\ g[n + 1] = f[n + 1]
          BY <4>2, <5>1
        <5>3. f[n] = Next(f, n)
          BY <2>1, <5>1
        <5> QED
          BY <4>2, <5>2, <5>3
      <4>3. CASE n # i /\ n = l
        <5>1. n \in (i + 1)..l
          BY <4>3
        <5>2. f[n] = Next(f, n)
          BY <2>1, <5>1
        <5> QED
          BY <4>3, <5>2
      <4> QED
        BY <4>1, <4>2, <4>3
    <3>2. g = [n \in i..l |-> g[n]]
      OBVIOUS
    <3> HIDE DEF g, Next
    <3> QED
      BY <3>1, <3>2
  <2> HIDE DEF g
  <2> QED
    BY <2>2
<1>3. 0 \in S
  <2> HIDE DEF S
  <2> QED
    BY <1>1, <1>2, InductionDownFrom
<1>4. \E f : f = [n \in 0..l |-> IF n = l THEN 0 ELSE bytes[n + 1] + Base * f[n + 1]]
  BY <1>3
<1>5. Value = [n \in 0..l |-> IF n = l THEN 0 ELSE bytes[n + 1] + Base * Value[n + 1]]
  BY <1>4
<1>6. SuffixValue(bytes) = Value
  BY DEF SuffixValue
<1> QED
  BY <1>5, <1>6

LEMMA SuffixValueType ==
  ASSUME NEW bytes \in Seq(Byte)
  PROVE  \A n \in 0..Len(bytes) : SuffixValue(bytes)[n] \in Nat
<1> DEFINE l == Len(bytes)
           V == SuffixValue(bytes)
           S == {n \in 0..l : V[n] \in Nat}
<1>1. l \in Nat
  OBVIOUS
<1>2. V = [n \in 0..l |-> IF n = l THEN 0 ELSE bytes[n + 1] + Base * V[n + 1]]
  BY <1>1, SuffixValueEquation
<1>3. \A n \in 1..l : bytes[n] \in Nat
  BY ByteAssumption DEF Byte
<1> HIDE DEF l, V
<1>4. l \in S
  BY <1>1, <1>2
<1>5. ASSUME NEW i \in 0..(l - 1), i + 1 \in S
      PROVE  i \in S
  <2>1. i \in 0..l /\ i # l /\ i + 1 \in 1..l /\ bytes[i + 1] \in Nat
    BY <1>1, <1>3
  <2>2. V[i] = bytes[i + 1] + Base * V[i + 1]
    BY <1>2, <2>1
  <2>3. V[i + 1] \in Nat
    BY <1>5
  <2>4. Base * V[i + 1] \in Nat
    BY <2>3, ByteAssumption
  <2>5. V[i] \in Nat
    BY <2>1, <2>2, <2>4
  <2> QED
    BY <2>1, <2>5
<1> HIDE DEF S
<1>6. \A i \in 0..l : i \in S
  BY <1>1, <1>4, <1>5, InductionDownFrom
<1> QED
  BY <1>6 DEF S, l, V

LEMMA SuffixValueStep ==
  ASSUME NEW bytes \in Seq(Byte)
  PROVE  /\ SuffixValue(bytes)[Len(bytes)] = 0
         /\ \A n \in 0..(Len(bytes) - 1) :
              /\ bytes[n + 1] \in Byte
              /\ SuffixValue(bytes)[n + 1] \in Nat
              /\ SuffixValue(bytes)[n] = Base * SuffixValue(bytes)[n + 1] + bytes[n + 1]
<1> DEFINE l == Len(bytes)
           V == SuffixValue(bytes)
<1>1. l \in Nat
  OBVIOUS
<1>2. V = [n \in 0..l |-> IF n = l THEN 0 ELSE bytes[n + 1] + Base * V[n + 1]]
  BY <1>1, SuffixValueEquation
<1>3. \A n \in 0..l : V[n] \in Nat
  BY SuffixValueType
<1>4. \A n \in 1..l : bytes[n] \in Byte
  OBVIOUS
<1> HIDE DEF l, V
<1>5. V[l] = 0
  BY <1>1, <1>2
<1>6. ASSUME NEW n \in 0..(l - 1)
      PROVE  bytes[n + 1] \in Byte /\ V[n + 1] \in Nat /\ V[n] = Base * V[n + 1] + bytes[n + 1]
  <2>1. n \in 0..l /\ n # l /\ n + 1 \in 0..l /\ n + 1 \in 1..l
    BY <1>1
  <2>2. bytes[n + 1] \in Byte /\ bytes[n + 1] \in Int /\ V[n + 1] \in Nat
    BY <1>3, <1>4, <2>1 DEF Byte
  <2>3. V[n] = bytes[n + 1] + Base * V[n + 1] /\ Base * V[n + 1] \in Int
    BY <1>2, <2>1, <2>2, ByteAssumption
  <2> QED
    BY <2>2, <2>3
<1> QED
  BY <1>5, <1>6 DEF l, V

\* k bytes hold v, within the bits of the instance.
FitsIn(v, k) ==
  \/ k = 0 /\ v = 0
  \/ k > 0 /\ ByteBits * (k - 1) < MaxBits /\ v \div 2^(ByteBits * (k - 1)) < Base

\* As many bytes as hold a number give it back.
LEMMA LittleEndianRoundTrip ==
  ASSUME NEW v \in Nat, NEW k \in Nat, FitsIn(v, k)
  PROVE  /\ LittleEndian(v, k) \in Seq(Byte)
         /\ Len(LittleEndian(v, k)) = k
         /\ LittleEndianValue(LittleEndian(v, k)) = v
<1> DEFINE bytes == LittleEndian(v, k)
           V == SuffixValue(bytes)
           P(n) == 2^(ByteBits * n)
           S == {n \in 0..k : V[n] = IF n = k THEN 0 ELSE v \div P(n)}
<1>1. ASSUME NEW n \in 0..(k - 1)
      PROVE  /\ n \in Nat
             /\ ByteBits * n < MaxBits
             /\ P(n) \in Nat \ {0}
             /\ v \div P(n) \in Nat
             /\ ByteOf(v, n) = (v \div P(n)) % Base
             /\ ByteOf(v, n) \in Byte
  <2>1. ByteBits * n <= ByteBits * (k - 1) /\ k > 0 /\ n \in Nat
    BY ByteAssumption
  <2>2. ByteBits * n < MaxBits
    BY <2>1, ByteAssumption, MaxBitsAssumption DEF FitsIn
  <2>3. P(n) \in Nat \ {0}
    BY <2>1, <2>2, BytePower
  <2>4. ByteOf(v, n) = (v \div P(n)) % Base
    BY DEF ByteOf
  <2> HIDE DEF P
  <2>5. v \div P(n) \in Nat
    BY <2>3
  <2> QED
    BY <2>1, <2>2, <2>3, <2>4, <2>5, ByteAssumption DEF Byte
<1>2. \A n \in 1..k : n - 1 \in 0..(k - 1)
  OBVIOUS
<1>3. bytes = [n \in 1..k |-> ByteOf(v, n - 1)] /\ \A n \in 1..k : ByteOf(v, n - 1) \in Byte
  BY <1>1, <1>2 DEF LittleEndian
<1> HIDE DEF bytes, P
<1>4. bytes \in Seq(Byte) /\ Len(bytes) = k
  BY <1>3
<1>5. V[k] = 0
  BY <1>4, SuffixValueStep
<1>6. ASSUME NEW n \in 0..(k - 1)
      PROVE  V[n] = Base * V[n + 1] + ((v \div P(n)) % Base)
  <2>1. V[n] = Base * V[n + 1] + bytes[n + 1]
    BY <1>4, SuffixValueStep
  <2>2. bytes[n + 1] = ByteOf(v, n)
    <3>1. n + 1 \in 1..k /\ (n + 1) - 1 = n
      OBVIOUS
    <3> QED
      BY <1>3, <3>1
  <2> QED
    BY <2>1, <2>2, <1>1
<1> HIDE DEF V
<1>7. k \in S
  BY <1>5
<1>8. ASSUME NEW n \in 0..(k - 1), n + 1 \in S
      PROVE  n \in S
  <2> DEFINE x == v \div P(n)
  <2>1. x \in Nat /\ V[n] = Base * V[n + 1] + (x % Base) /\ n \in 0..k /\ n # k
    BY <1>1, <1>6
  <2>2. V[n + 1] = IF n + 1 = k THEN 0 ELSE v \div P(n + 1)
    BY <1>8
  <2>3. V[n + 1] = x \div Base
    <3>1. CASE n + 1 = k
      <4>1. x < Base
        BY <3>1 DEF FitsIn, P
      <4> HIDE DEF x
      <4>2. x \div Base = 0
        BY <2>1, <4>1, ByteAssumption
      <4> QED
        BY <3>1, <2>2, <4>2
    <3>2. CASE n + 1 # k
      <4>1. n + 1 \in 0..(k - 1)
        BY <3>2
      <4>2. ByteBits * (n + 1) < MaxBits
        BY <1>1, <4>1
      <4>3. P(n + 1) = P(n) * Base
        BY <1>1, <4>2, NextBytePower DEF P
      <4>4. x \div Base = v \div (P(n) * Base)
        BY <1>1, DivisionTwice, ByteAssumption
      <4> QED
        BY <3>2, <2>2, <4>3, <4>4
    <3> QED
      BY <3>1, <3>2
  <2> HIDE DEF x
  <2>4. x = Base * (x \div Base) + (x % Base)
    BY <2>1, DivisionType, ByteAssumption
  <2>5. V[n] = x
    BY <2>1, <2>3, <2>4
  <2> QED
    BY <2>1, <2>5 DEF x
<1> HIDE DEF S
<1>9. \A n \in 0..k : n \in S
  BY <1>7, <1>8, InductionDownFrom
<1>10. V[0] = v
  <2>1. V[0] = IF 0 = k THEN 0 ELSE v \div P(0)
    BY <1>9 DEF S
  <2>2. P(0) = 1
    BY NoBytePower DEF P
  <2> QED
    BY <2>1, <2>2 DEF FitsIn
<1> QED
  BY <1>4, <1>10 DEF LittleEndianValue, V, bytes

\* Bytes are the little-endian bytes of what they are worth.
LEMMA LittleEndianOfValue ==
  ASSUME NEW bytes \in Seq(Byte),
         Len(bytes) = 0 \/ ByteBits * (Len(bytes) - 1) < MaxBits
  PROVE  /\ LittleEndianValue(bytes) \in Nat
         /\ FitsIn(LittleEndianValue(bytes), Len(bytes))
         /\ LittleEndian(LittleEndianValue(bytes), Len(bytes)) = bytes
<1> DEFINE l == Len(bytes)
           V == SuffixValue(bytes)
           v == V[0]
           P(n) == 2^(ByteBits * n)
           S == {n \in 0..(l - 1) : v \div P(n) = V[n]}
<1>1. l \in Nat /\ v \in Nat /\ (l = 0 => v = 0) /\ LittleEndianValue(bytes) = v
  <2>1. l \in Nat
    OBVIOUS
  <2> QED
    BY <2>1, SuffixValueType, SuffixValueStep DEF LittleEndianValue
<1>2. ASSUME NEW n \in 0..(l - 1)
      PROVE  /\ bytes[n + 1] \in Byte /\ V[n + 1] \in Nat /\ V[n] \in Nat
             /\ V[n] \div Base = V[n + 1]
             /\ V[n] % Base = bytes[n + 1]
  <2>1. /\ bytes[n + 1] \in Byte
        /\ V[n + 1] \in Nat
        /\ V[n] = Base * V[n + 1] + bytes[n + 1]
    BY SuffixValueStep
  <2>2. n \in 0..l
    BY <1>1
  <2>3. V[n] \in Nat
    BY <2>2, SuffixValueType
  <2> HIDE DEF V
  <2>4. bytes[n + 1] \in 0..(Base - 1) /\ Base \in Nat \ {0}
    BY <2>1, ByteAssumption DEF Byte
  <2>5. /\ (Base * V[n + 1] + bytes[n + 1]) \div Base = V[n + 1]
        /\ (Base * V[n + 1] + bytes[n + 1]) % Base = bytes[n + 1]
    BY <2>1, <2>4, DivisionUnique
  <2> QED
    BY <2>1, <2>3, <2>5
<1>3. ASSUME NEW n \in 0..(l - 1)
      PROVE  n \in Nat /\ ByteBits * n < MaxBits /\ P(n) \in Nat \ {0}
  <2>1. ByteBits * n <= ByteBits * (l - 1) /\ l # 0 /\ n \in Nat
    BY <1>1, ByteAssumption
  <2>2. ByteBits * n < MaxBits
    BY <2>1, <1>1, ByteAssumption, MaxBitsAssumption
  <2> QED
    BY <2>1, <2>2, BytePower
<1>4. P(0) = 1
  BY NoBytePower
<1> HIDE DEF l, V, v, P
<1>5. CASE l = 0
  <2>1. LittleEndian(v, 0) = << >>
    BY DEF LittleEndian
  <2>2. bytes = << >>
    BY <1>5 DEF l
  <2> QED
    BY <1>1, <1>5, <2>1, <2>2 DEF FitsIn, l
<1>6. CASE l # 0
  <2>1. 0 \in S
    BY <1>1, <1>4, <1>6 DEF v
  <2>2. ASSUME NEW n \in 0..((l - 1) - 1), n \in S
        PROVE  n + 1 \in S
    <3>1. n \in 0..(l - 1) /\ n + 1 \in 0..(l - 1)
      BY <1>1
    <3>2. P(n + 1) = P(n) * Base
      BY <1>3, <3>1, NextBytePower DEF P
    <3>3. v \div (P(n) * Base) = (v \div P(n)) \div Base
      BY <1>1, <1>3, <3>1, DivisionTwice, ByteAssumption
    <3>4. v \div P(n) = V[n] /\ V[n] \div Base = V[n + 1]
      BY <1>2, <2>2, <3>1
    <3> QED
      BY <3>1, <3>2, <3>3, <3>4
  <2> HIDE DEF S
  <2>3. \A n \in 0..(l - 1) : n \in S
    <3>1. l - 1 \in Nat
      BY <1>1, <1>6
    <3> HIDE DEF S
    <3> QED
      BY <2>1, <2>2, <3>1, InductionUpTo
  <2>4. \A n \in 0..(l - 1) : ByteOf(v, n) = bytes[n + 1]
    BY <1>2, <2>3 DEF S, ByteOf, P
  <2>5. LittleEndian(v, l) = bytes
    <3>1. \A n \in 1..l : n - 1 \in 0..(l - 1) /\ (n - 1) + 1 = n
      BY <1>1
    <3>2. \A n \in 1..l : ByteOf(v, n - 1) = bytes[n]
      BY <2>4, <3>1
    <3>3. bytes = [n \in 1..l |-> bytes[n]]
      BY DEF l
    <3> QED
      BY <3>2, <3>3 DEF LittleEndian
  <2>6. v \div P(l - 1) < Base
    <3>1. l - 1 \in 0..(l - 1) /\ (l - 1) + 1 = l
      BY <1>1, <1>6
    <3>2. V[l] = 0
      BY SuffixValueStep DEF l, V
    <3>3. V[l - 1] = Base * V[l] + bytes[l] /\ bytes[l] \in Byte
      BY <3>1, SuffixValueStep DEF l, V
    <3>4. v \div P(l - 1) = V[l - 1]
      BY <2>3, <3>1 DEF S
    <3> QED
      BY <3>2, <3>3, <3>4, ByteAssumption DEF Byte
  <2>7. ByteBits * (l - 1) < MaxBits
    BY <1>6 DEF l
  <2>8. FitsIn(v, l)
    BY <1>1, <1>6, <2>6, <2>7 DEF FitsIn, P
  <2> QED
    BY <1>1, <2>5, <2>8 DEF l
<1> QED
  BY <1>5, <1>6

-----------------------------------------------------------------------------
(* What the integer encodings put are bytes.                               *)

\* Byte i of an integer is a byte, as far as the integers of the instance go.
LEMMA ByteOfType ==
  ASSUME NEW v \in Nat, NEW i \in Nat, ByteBits * i < MaxBits
  PROVE  ByteOf(v, i) \in Byte
<1> DEFINE p == 2^(ByteBits * i)
<1>1. ByteBits * i \in 0..(MaxBits - 1)
  BY ByteAssumption, MaxBitsAssumption
<1>2. p \in Nat \ {0}
  BY <1>1, MaxBitsAssumption
<1>3. ByteOf(v, i) = (v \div p) % Base
  BY DEF ByteOf
<1> HIDE DEF p
<1>4. v \div p \in Nat
  BY <1>2
<1> QED
  BY <1>3, <1>4, ByteAssumption DEF Byte

\* encodeInteger puts bytes.
LEMMA LittleEndianType ==
  ASSUME NEW v \in Nat, NEW width \in Nat,
         width = 0 \/ ByteBits * (width - 1) < MaxBits
  PROVE  LittleEndian(v, width) \in Seq(Byte)
<1>1. ASSUME NEW i \in 1..width
      PROVE  ByteOf(v, i - 1) \in Byte
  <2>1. ByteBits * (i - 1) <= ByteBits * (width - 1)
    BY ByteAssumption
  <2>2. ByteBits * (i - 1) < MaxBits
    BY <2>1, ByteAssumption, MaxBitsAssumption
  <2> QED
    BY <2>2, ByteOfType
<1> QED
  BY <1>1 DEF LittleEndian

\* std::bit_width is at most the number of bits there are.
LEMMA BitWidthType ==
  ASSUME NEW v \in Nat
  PROVE  BitWidth(v) \in 0..MaxBits
<1> DEFINE all == 0..(MaxBits - 1)
           bits == {i \in all : 2^i <= v}
<1>1. IsFiniteSet(all) /\ Cardinality(all) = MaxBits
  BY FS_Interval, MaxBitsAssumption, ByteAssumption
<1>2. bits \subseteq all
  OBVIOUS
<1>3. IsFiniteSet(bits) /\ Cardinality(bits) <= Cardinality(all)
  BY <1>1, <1>2, FS_Subset
<1>4. Cardinality(bits) \in Nat
  BY <1>3, FS_CardinalityType
<1> QED
  BY <1>1, <1>3, <1>4, MaxBitsAssumption DEF BitWidth

\* The bytes a big integer has are within the integers of the instance.
LEMMA ByteCountType ==
  ASSUME NEW v \in Nat
  PROVE  /\ ByteCount(v) \in Nat
         /\ ByteCount(v) = 0 \/ ByteBits * (ByteCount(v) - 1) < MaxBits
<1> DEFINE b == BitWidth(v)
<1>1. b \in 0..MaxBits
  BY BitWidthType
<1>2. ByteCount(v) = (b - 1) \div ByteBits + 1
  BY DEF ByteCount
<1> HIDE DEF b
<1>3. CASE b = 0
  <2>1. (0 - 1) \div ByteBits = -1
    BY ByteAssumption
  <2> QED
    BY <1>2, <1>3, <2>1
<1>4. CASE b # 0
  <2> DEFINE q == (b - 1) \div ByteBits
  <2>1. q \in Nat /\ ByteBits * q <= b - 1
    BY <1>1, <1>4, ByteAssumption, MaxBitsAssumption
  <2> HIDE DEF q
  <2>2. ByteCount(v) = q + 1
    BY <1>2 DEF q
  <2> QED
    BY <1>1, <2>1, <2>2, ByteAssumption, MaxBitsAssumption
<1> QED
  BY <1>3, <1>4

LEMMA LimitsType == /\ Quarter \in Nat \ {0}
                    /\ Base = 4 * Quarter
                    /\ kMinUint16 \in Nat
                    /\ kMinUint32 \in Nat
                    /\ kMinBigInteger \in Nat
<1>1. Quarter \in Nat \ {0} /\ Base = 4 * Quarter
  BY ByteAssumption DEF Quarter
<1> QED
  BY <1>1, ByteAssumption DEF kMinUint16, kMinUint32, kMinBigInteger

\* The modes follow each other.
LEMMA LimitOrder ==
  kMinUint16 <= kMinUint32 /\ kMinUint32 <= kMinBigInteger
<1>1. Quarter \in Nat /\ Base \in Nat /\ Base >= 1
  BY LimitsType, ByteAssumption
<1>2. Quarter <= Quarter * Base /\ Quarter * Base \in Nat
  BY <1>1
<1> DEFINE c == Quarter * Base
<1> HIDE DEF c
<1>3. c \in Nat => c <= c * Base /\ c * Base \in Nat
  BY <1>1
<1> DEFINE d == c * Base
<1> HIDE DEF d
<1>4. d \in Nat => d <= d * Base
  BY <1>1
<1>5. c \in Nat /\ d \in Nat
  BY <1>2, <1>3 DEF c, d
<1>6. c <= d * Base
  <2>1. d * Base \in Nat
    BY <1>1, <1>5
  <2> QED
    BY <1>3, <1>4, <1>5, <2>1 DEF d
<1> QED
  BY <1>2, <1>6 DEF kMinUint16, kMinUint32, kMinBigInteger, c, d

\* The three modes below kMinBigInteger put bytes.
LEMMA EncodeSmallCompactType ==
  ASSUME NEW v \in Nat
  PROVE  EncodeSmallCompact(v) \in Seq(Byte)
<1>1. ASSUME NEW flag \in 0..3, NEW width \in {1, 2, 4}
      PROVE  WithFlag(v, flag, width) \in Seq(Byte)
  <2>1. v % Quarter \in 0..(Quarter - 1) /\ v \div Quarter \in Nat
    BY LimitsType
  <2>2. 4 * (v % Quarter) + flag \in Byte
    BY <2>1, LimitsType DEF Byte
  <2>3. LittleEndian(v \div Quarter, width - 1) \in Seq(Byte)
    <3>1. /\ width - 1 \in Nat
          /\ width - 1 = 0 \/ ByteBits * ((width - 1) - 1) < MaxBits
      <4>1. CASE width = 1
        BY <4>1
      <4>2. CASE width = 2
        BY <4>2, ByteAssumption, MaxBitsAssumption
      <4>3. CASE width = 4
        BY <4>3, ByteAssumption, MaxBitsAssumption
      <4> QED
        BY <4>1, <4>2, <4>3
    <3> QED
      BY <2>1, <3>1, LittleEndianType
  <2> QED
    BY <2>2, <2>3 DEF WithFlag
<1> QED
  BY <1>1, LimitsType DEF EncodeSmallCompact

\* The big mode puts bytes, whatever its header says.
LEMMA EncodeBigModeType ==
  ASSUME NEW v \in Nat, NEW n \in Int
  PROVE  EncodeBigMode(v, n) \in Seq(Byte)
<1>1. (4 * (n - 4) + 3) % Base \in Byte
  BY ByteAssumption DEF Byte
<1>2. LittleEndian(v, ByteCount(v)) \in Seq(Byte)
  BY ByteCountType, LittleEndianType
<1> QED
  BY <1>1, <1>2 DEF EncodeBigMode

LEMMA EncodeScaleType ==
  ASSUME NEW v \in Nat
  PROVE  /\ EncodeCompactNative(v).bytes \in Seq(Byte)
         /\ EncodeCompactBig(v).bytes \in Seq(Byte)
         /\ EncodeCompactBig(v).error \in {"none", "COMPACT_INTEGER_TOO_BIG"}
<1>1. EncodeSmallCompact(v) \in Seq(Byte)
  BY EncodeSmallCompactType
<1>2. EncodeBigMode(v, BitWidth(v)) \in Seq(Byte)
  BY BitWidthType, MaxBitsAssumption, EncodeBigModeType
<1>3. EncodeBigMode(v, ByteCount(v)) \in Seq(Byte)
  BY ByteCountType, EncodeBigModeType
<1> QED
  BY <1>1, <1>2, <1>3 DEF EncodeCompactNative, EncodeCompactBig

\* A larger number needs no fewer bits.
LEMMA BitWidthMonotonic ==
  ASSUME NEW v \in Nat, NEW w \in Nat, v <= w
  PROVE  BitWidth(v) <= BitWidth(w)
<1> DEFINE all == 0..(MaxBits - 1)
           bits(u) == {i \in all : 2^i <= u}
<1>1. IsFiniteSet(all)
  BY FS_Interval, MaxBitsAssumption, ByteAssumption
<1>2. ASSUME NEW i \in all, 2^i <= v
      PROVE  2^i <= w
  <2>1. 2^i \in Nat
    BY MaxBitsAssumption
  <2> DEFINE p == 2^i
  <2>2. p <= v /\ p \in Nat
    BY <1>2, <2>1
  <2> HIDE DEF p
  <2>3. p <= w
    BY <2>2
  <2> QED
    BY <2>3 DEF p
<1>3. bits(v) \subseteq bits(w) /\ bits(w) \subseteq all
  BY <1>2
<1> HIDE DEF bits
<1>4. IsFiniteSet(bits(w))
  BY <1>1, <1>3, FS_Subset
<1>5. Cardinality(bits(v)) <= Cardinality(bits(w))
  BY <1>3, <1>4, FS_Subset
<1> QED
  BY <1>5 DEF BitWidth, bits

-----------------------------------------------------------------------------
(* The bits and the bytes of a number.                                     *)

\* Bit i is within the width of v just when 2^i is not above v.
LEMMA BitWidthMeaning ==
  ASSUME NEW v \in Nat
  PROVE  \A i \in 0..(MaxBits - 1) : 2^i <= v <=> i < BitWidth(v)
<1> DEFINE bits == {i \in 0..(MaxBits - 1) : 2^i <= v}
           beyond == {i \in 0..MaxBits : i \notin bits}
<1>1. beyond \in SUBSET Nat /\ beyond # {}
  <2>1. MaxBits \in beyond
    BY MaxBitsAssumption
  <2>2. beyond \subseteq 0..MaxBits
    OBVIOUS
  <2> HIDE DEF beyond
  <2> QED
    BY <2>1, <2>2, MaxBitsAssumption
<1>2. PICK n \in beyond : \A j \in beyond : ~(j < n)
  BY <1>1, LeastNatural
<1>3. n \in 0..MaxBits /\ n \notin bits /\ \A j \in 0..(n - 1) : j \in bits
  <2>1. n \in 0..MaxBits /\ n \notin bits
    OBVIOUS
  <2>2. ASSUME NEW j \in 0..(n - 1)
        PROVE  j \in bits
    <3>1. j \in 0..MaxBits /\ j < n
      BY <2>1, MaxBitsAssumption
    <3> HIDE DEF bits
    <3> QED
      BY <1>2, <3>1
  <2> HIDE DEF bits, beyond
  <2> QED
    BY <2>1, <2>2
<1>4. ASSUME NEW i \in bits
      PROVE  i < n
  <2>1. SUFFICES ASSUME n <= i PROVE FALSE
    BY <1>3, MaxBitsAssumption
  <2>2. i \in 0..(MaxBits - 1) /\ 2^i <= v
    BY <1>4
  <2>3. n \in Nat /\ n \in 0..(MaxBits - 1)
    BY <1>3, <2>1, <2>2, MaxBitsAssumption
  <2>4. 2^n <= 2^i
    BY <2>1, <2>2, <2>3, PowerMonotonic, MaxBitsAssumption
  <2>5. 2^n \in Nat /\ 2^i \in Nat
    BY <2>2, <2>3, MaxBitsAssumption
  <2> DEFINE x == 2^n
             y == 2^i
  <2>6. x <= y /\ y <= v /\ x \in Nat /\ y \in Nat
    BY <2>2, <2>4, <2>5
  <2>7. ~(x <= v)
    BY <1>3, <2>3
  <2> HIDE DEF x, y
  <2> QED
    BY <2>6, <2>7
<1>5. bits = 0..(n - 1)
  <2>1. bits \subseteq 0..(MaxBits - 1)
    OBVIOUS
  <2>2. \A i \in bits : i \in Nat /\ i < n
    BY <1>4, MaxBitsAssumption
  <2> HIDE DEF bits, beyond
  <2>3. \A i \in bits : i \in 0..(n - 1)
    BY <1>3, <2>2, MaxBitsAssumption
  <2> QED
    BY <1>3, <2>3
<1>6. Cardinality(0..(n - 1)) = n
  BY <1>3, FS_Interval, MaxBitsAssumption
<1>7. BitWidth(v) = n
  BY <1>5, <1>6 DEF BitWidth
<1> HIDE DEF bits, beyond
<1>8. \A i \in 0..(MaxBits - 1) : i \in bits <=> i < n
  BY <1>3, <1>5, MaxBitsAssumption
<1> QED
  BY <1>7, <1>8 DEF bits

LEMMA BitWidthPositive ==
  ASSUME NEW v \in Nat
  PROVE  BitWidth(v) = 0 <=> v = 0
<1>1. 0 \in 0..(MaxBits - 1) /\ 2^0 = 1
  BY MaxBitsAssumption, ByteAssumption
<1>2. 1 <= v <=> 0 < BitWidth(v)
  BY <1>1, BitWidthMeaning
<1> QED
  BY <1>2, BitWidthType, MaxBitsAssumption

\* Where the byte count of a number is above k, its bytes from the k-th on are
\* not all zero.
LEMMA ByteCountAbove ==
  ASSUME NEW v \in Nat, NEW k \in Nat, k < ByteCount(v)
  PROVE  /\ ByteBits * k < MaxBits
         /\ 2^(ByteBits * k) <= v
         /\ 1 <= v \div 2^(ByteBits * k)
<1> DEFINE b == BitWidth(v)
           q == (b - 1) \div ByteBits
           p == 2^(ByteBits * k)
<1>1. b \in 0..MaxBits /\ ByteCount(v) = q + 1
  BY BitWidthType DEF ByteCount
<1>2. b # 0
  <2>1. ASSUME b = 0 PROVE FALSE
    <3>1. q = -1
      BY <2>1, ByteAssumption
    <3> QED
      BY <1>1, <3>1
  <2> QED
    BY <2>1
<1> HIDE DEF b
<1>3. q \in Nat /\ ByteBits * q <= b - 1
  BY <1>1, <1>2, ByteAssumption, MaxBitsAssumption
<1> HIDE DEF q
<1>4. ByteBits * k <= ByteBits * q
  BY <1>1, <1>3, ByteAssumption
<1>5. ByteBits * k \in 0..(MaxBits - 1) /\ ByteBits * k < b
  BY <1>1, <1>3, <1>4, ByteAssumption, MaxBitsAssumption
<1>6. p <= v
  BY <1>5, BitWidthMeaning DEF b
<1>7. p \in Nat \ {0}
  BY <1>5, MaxBitsAssumption
<1> HIDE DEF p
<1>8. 1 <= v \div p
  BY <1>6, <1>7, QuotientAbove
<1> QED
  BY <1>5, <1>6, <1>8, MaxBitsAssumption DEF p

\* A number has no more bytes than bytes that hold it.
LEMMA ByteCountLeast ==
  ASSUME NEW v \in Nat, NEW k \in Nat, FitsIn(v, k)
  PROVE  ByteCount(v) <= k
<1>1. SUFFICES ASSUME k < ByteCount(v) PROVE FALSE
  BY ByteCountType
<1> DEFINE p == 2^(ByteBits * (k - 1))
           r == 2^(ByteBits * k)
<1>2. ByteBits * k < MaxBits /\ r <= v /\ 1 <= v \div r
  BY <1>1, ByteCountAbove
<1>3. CASE k = 0
  <2>1. v = 0 /\ r = 1
    BY <1>3, NoBytePower DEF FitsIn
  <2> QED
    BY <1>2, <2>1
<1>4. CASE k # 0
  <2>1. k - 1 \in Nat /\ (k - 1) + 1 = k
    BY <1>4
  <2>2. ByteBits * (k - 1) < MaxBits /\ r = p * Base /\ p \in Nat \ {0}
    BY <1>2, <2>1, NextBytePower, BytePower
  <2>3. v \div p < Base
    BY <1>4 DEF FitsIn
  <2> HIDE DEF p, r
  <2>4. Base <= v \div p
    BY <1>2, <2>2, QuotientAbove, ByteAssumption
  <2>5. v \div p \in Nat
    BY <2>2
  <2> QED
    BY <2>3, <2>4, <2>5, ByteAssumption
<1> QED
  BY <1>3, <1>4

\* What is left of v when n bits are shifted out has j bits just when v has
\* n + j.
LEMMA QuotientWidth ==
  ASSUME NEW v \in Nat, Representable(v),
         NEW n \in Nat, n < MaxBits, NEW j \in Nat, j < MaxBits
  PROVE  v \div 2^n < 2^j <=> BitWidth(v) <= n + j
<1> DEFINE a == 2^n
           d == 2^j
           b == BitWidth(v)
<1>1. a \in Nat \ {0} /\ d \in Nat \ {0} /\ b \in 0..MaxBits /\ MaxBits \in Nat
  BY PowerType, BitWidthType, MaxBitsAssumption
<1>2. CASE n + j < MaxBits
  <2> DEFINE r == 2^(n + j)
  <2>1. r = a * d
    BY <1>2, PowerSum
  <2>2. r <= v <=> n + j < b
    <3>1. n + j \in 0..(MaxBits - 1)
      BY <1>1, <1>2
    <3> QED
      BY <3>1, BitWidthMeaning
  <2> HIDE DEF a, d, r, b
  <2>3. r \in Nat
    BY <1>1, <2>1
  <2>4. v < r <=> v \div a < d
    <3>1. v < a * d => v \div a < d
      BY <1>1, QuotientBelow
    <3>2. a * d <= v => d <= v \div a
      BY <1>1, QuotientAbove
    <3>3. v \div a \in Nat
      BY <1>1
    <3> QED
      BY <1>1, <2>1, <2>3, <3>1, <3>2, <3>3
  <2>5. v \div a < d <=> b <= n + j
    BY <1>1, <2>2, <2>3, <2>4
  <2> QED
    BY <2>5 DEF a, d, b
<1>3. CASE ~(n + j < MaxBits)
  <2> DEFINE t == (MaxBits - 1) - n
             e == 2^t
             c == 2^(MaxBits - 1)
  <2>1. t \in Nat /\ n + t = MaxBits - 1 /\ n + t < MaxBits /\ t + 1 \in 1..(MaxBits - 1)
        /\ t + 1 <= j /\ t < MaxBits
    BY <1>1, <1>3
  <2>2. c = a * e
    <3>1. 2^(n + t) = 2^n * 2^t
      BY <2>1, PowerSum
    <3> QED
      BY <2>1, <3>1
  <2>3. e \in Nat \ {0}
    BY <2>1, PowerType
  <2>4. 2 * e <= d
    <3>1. 2^(t + 1) = 2 * 2^((t + 1) - 1) /\ (t + 1) - 1 = t
      BY <2>1, MaxBitsAssumption
    <3>2. 2^(t + 1) <= 2^j
      BY <2>1, PowerMonotonic
    <3> QED
      BY <3>1, <3>2
  <2>5. v \div c < 2
    BY DEF Representable
  <2> HIDE DEF a, d, b, e, c
  <2>6. (v \div a) \div e < 2
    BY <1>1, <2>2, <2>3, <2>5, DivisionTwice
  <2> DEFINE x == v \div a
             y == x \div e
  <2>7. x \in Nat
    BY <1>1
  <2> HIDE DEF x
  <2>8. y \in Nat /\ x < e * (y + 1) /\ y < 2
    BY <2>3, <2>6, <2>7 DEF x
  <2> HIDE DEF y
  <2>9. e * (y + 1) <= e * 2
    BY <2>3, <2>8
  <2>10. x < d
    BY <1>1, <2>3, <2>4, <2>7, <2>8, <2>9
  <2>11. b <= n + j
    BY <1>1, <1>3
  <2> QED
    BY <2>10, <2>11 DEF x, a, d, b
<1> QED
  BY <1>2, <1>3

\* msb(v) / 8 + 1 bytes hold v.
LEMMA ByteCountFits ==
  ASSUME NEW v \in Nat, Representable(v)
  PROVE  FitsIn(v, ByteCount(v))
<1> DEFINE b == BitWidth(v)
           q == (b - 1) \div ByteBits
<1>1. b \in 0..MaxBits /\ ByteCount(v) = q + 1
  BY BitWidthType DEF ByteCount
<1>2. CASE b = 0
  <2>1. q = -1
    BY <1>2, ByteAssumption
  <2> QED
    BY <1>1, <1>2, <2>1, BitWidthPositive DEF FitsIn
<1>3. CASE b # 0
  <2> HIDE DEF b
  <2>1. q \in Nat /\ ByteBits * q <= b - 1 /\ b - 1 < ByteBits * (q + 1)
    BY <1>1, <1>3, ByteAssumption, MaxBitsAssumption
  <2> HIDE DEF q
  <2>2. /\ ByteBits * q < MaxBits /\ ByteBits * q \in Nat
        /\ ByteBits < MaxBits /\ ByteBits \in Nat
        /\ b <= ByteBits * q + ByteBits
    BY <1>1, <2>1, ByteAssumption, MaxBitsAssumption
  <2>3. v \div 2^(ByteBits * q) < 2^ByteBits
    BY <2>2, QuotientWidth DEF b
  <2>4. (q + 1) - 1 = q /\ q + 1 > 0
    BY <2>1
  <2> QED
    BY <1>1, <2>2, <2>3, <2>4, ByteAssumption DEF FitsIn
<1> QED
  BY <1>2, <1>3

\* k bytes hold what has no more bits than they.
LEMMA FitsInWidth ==
  ASSUME NEW v \in Nat, Representable(v),
         NEW k \in Nat, k = 0 \/ ByteBits * (k - 1) < MaxBits
  PROVE  FitsIn(v, k) <=> BitWidth(v) <= ByteBits * k
<1> DEFINE b == BitWidth(v)
           n == ByteBits * (k - 1)
<1>1. b \in Nat /\ (b = 0 <=> v = 0)
  BY BitWidthType, BitWidthPositive, MaxBitsAssumption
<1>2. CASE k = 0
  <2>1. ByteBits * k = 0
    BY <1>2, ByteAssumption
  <2> QED
    BY <1>1, <1>2, <2>1 DEF FitsIn
<1>3. CASE k # 0
  <2>1. n \in Nat /\ n < MaxBits /\ n + ByteBits = ByteBits * k
    BY <1>3, ByteAssumption
  <2>2. ByteBits \in Nat /\ ByteBits < MaxBits
    BY ByteAssumption, MaxBitsAssumption
  <2>3. v \div 2^n < 2^ByteBits <=> b <= n + ByteBits
    BY <2>1, <2>2, QuotientWidth
  <2> QED
    BY <1>3, <2>1, <2>3, ByteAssumption DEF FitsIn
<1> QED
  BY <1>2, <1>3

\* A zero above them does not change what bytes are worth.
LEMMA ZeroAbove ==
  ASSUME NEW bytes \in Seq(Byte)
  PROVE  LittleEndianValue(Append(bytes, 0)) = LittleEndianValue(bytes)
<1> DEFINE l == Len(bytes)
           more == Append(bytes, 0)
           V == SuffixValue(bytes)
           W == SuffixValue(more)
           S == {n \in 0..l : W[n] = V[n]}
<1>1. /\ l \in Nat /\ 0 \in Byte /\ more \in Seq(Byte) /\ Len(more) = l + 1
      /\ more[l + 1] = 0 /\ \A n \in 1..l : more[n] = bytes[n]
  BY ByteAssumption DEF Byte
<1>2. V[l] = 0 /\ \A n \in 0..(l - 1) : V[n] = Base * V[n + 1] + bytes[n + 1]
  BY SuffixValueStep
<1>3. W[l + 1] = 0 /\ \A n \in 0..l : W[n] = Base * W[n + 1] + more[n + 1]
  <2> HIDE DEF more
  <2>1. /\ SuffixValue(more)[Len(more)] = 0
        /\ \A n \in 0..(Len(more) - 1) :
             SuffixValue(more)[n] = Base * SuffixValue(more)[n + 1] + more[n + 1]
    BY <1>1, SuffixValueStep
  <2>2. (l + 1) - 1 = l
    BY <1>1
  <2> HIDE DEF l
  <2> QED
    BY <1>1, <2>1, <2>2
<1> HIDE DEF l, more, V, W
<1>4. l \in S
  <2>1. W[l] = Base * W[l + 1] + more[l + 1]
    BY <1>1, <1>3
  <2>2. Base * 0 + 0 = 0
    BY ByteAssumption
  <2> QED
    BY <1>1, <1>2, <1>3, <2>1, <2>2
<1>5. ASSUME NEW n \in 0..(l - 1), n + 1 \in S
      PROVE  n \in S
  <2>1. n \in 0..l /\ n + 1 \in 1..l
    BY <1>1
  <2> QED
    BY <1>1, <1>2, <1>3, <1>5, <2>1
<1> HIDE DEF S
<1>6. 0 \in S
  <2>1. 0 \in 0..l
    BY <1>1
  <2> QED
    BY <1>1, <1>4, <1>5, <2>1, InductionDownFrom
<1> QED
  BY <1>6 DEF S, LittleEndianValue, V, W, more

-----------------------------------------------------------------------------
(* What encodeCompactInteger puts, decodeCompactInteger reads.             *)

\* Span s has the bytes at index i.
HasAt(s, i, bytes) ==
  /\ i + Len(bytes) <= Len(s)
  /\ \A j \in 1..Len(bytes) : s[i + j] = bytes[j]

LEMMA HasMoreWithin ==
  ASSUME NEW s \in Seq(Byte), NEW i \in Nat, NEW n \in Nat, i + n <= Len(s)
  PROVE  HasMore(s, i, n)
<1> DEFINE m == SizeMod
           k == i + n
<1>1. m \in Nat \ {0} /\ k \in Nat /\ Len(s) \in Nat
  BY ByteAssumption DEF SizeMod
<1> HIDE DEF m
<1>2. k % m <= k
  <2>1. k = m * (k \div m) + (k % m) /\ k \div m \in Nat
    BY <1>1, DivisionType
  <2>2. m * (k \div m) \in Nat /\ k % m \in Int
    BY <1>1, <2>1, DivisionType
  <2> QED
    BY <1>1, <2>1, <2>2
<1>3. k % m \in Int
  BY <1>1
<1> QED
  BY <1>1, <1>2, <1>3 DEF HasMore, m

\* The first byte and those behind it, where they are read.
LEMMA HasAtParts ==
  ASSUME NEW s \in Seq(Byte), NEW i \in Nat, NEW first \in Byte, NEW rest \in Seq(Byte),
         HasAt(s, i, <<first>> \o rest)
  PROVE  /\ i + 1 + Len(rest) <= Len(s)
         /\ s[i + 1] = first
         /\ SubSeq(s, i + 2, i + 1 + Len(rest)) = rest
<1> DEFINE e == <<first>> \o rest
           l == Len(rest)
<1>1. l \in Nat /\ Len(e) = l + 1 /\ e[1] = first /\ \A j \in 1..l : e[j + 1] = rest[j]
  OBVIOUS
<1>2. Len(s) \in Nat
  OBVIOUS
<1>3. i + (l + 1) <= Len(s) /\ \A j \in 1..(l + 1) : s[i + j] = e[j]
  BY <1>1 DEF HasAt
<1> HIDE DEF e
<1>4. \A j \in 1..l : s[i + 1 + j] = rest[j]
  <2> TAKE j \in 1..l
  <2>1. j + 1 \in 1..(l + 1) /\ i + (j + 1) = i + 1 + j
    BY <1>1
  <2> QED
    BY <1>1, <1>3, <2>1
<1>5. SubSeq(s, i + 2, i + 1 + l) = [j \in 1..l |-> s[i + 1 + j]]
  <2>1. i + 2 \in Nat /\ i + 1 + l \in Nat /\ (i + 1 + l) - (i + 2) + 1 = l
    BY <1>1
  <2> HIDE DEF l
  <2>2. SubSeq(s, i + 2, i + 1 + l) = [j \in 1..l |-> s[(i + 2) + j - 1]]
    BY <2>1
  <2>3. \A j \in 1..l : (i + 2) + j - 1 = i + 1 + j
    BY <1>1
  <2> QED
    BY <2>2, <2>3
<1>6. rest = [j \in 1..l |-> rest[j]]
  OBVIOUS
<1>7. s[i + 1] = first
  <2>1. 1 \in 1..(l + 1)
    BY <1>1
  <2> QED
    BY <1>1, <1>3, <2>1
<1> HIDE DEF l
<1>8. i + 1 + l <= Len(s)
  BY <1>1, <1>2, <1>3
<1> QED
  BY <1>4, <1>5, <1>6, <1>7, <1>8 DEF l

\* The byte a flag and upper bits make is taken apart.
LEMMA FirstByteParts ==
  ASSUME NEW upper \in 0..(Quarter - 1), NEW flag \in 0..3
  PROVE  /\ 4 * upper + flag \in Byte
         /\ (4 * upper + flag) \div 4 = upper
         /\ (4 * upper + flag) % 4 = flag
<1>1. upper \in Nat /\ flag \in 0..(4 - 1) /\ 4 \in Nat \ {0}
  BY LimitsType
<1>2. (4 * upper + flag) \div 4 = upper /\ (4 * upper + flag) % 4 = flag
  BY <1>1, DivisionUnique
<1>3. 4 * upper + flag \in Byte
  BY LimitsType DEF Byte
<1> QED
  BY <1>2, <1>3

\* A compact integer that is there is read as what its parts are worth.
LEMMA DecodeParts ==
  ASSUME NEW s \in Seq(Byte), NEW i \in Nat, NEW first \in Byte, NEW rest \in Seq(Byte),
         HasAt(s, i, <<first>> \o rest), ExtraBytes(first) = Len(rest),
         ~IsRedundant(first, CompactValue(first, rest))
  PROVE  DecodeCompactInteger(s, i)
           = ReadResult("none", Len(rest) + 1, CompactValue(first, rest))
<1> DEFINE extra == Len(rest)
<1>1. extra \in Nat /\ Len(s) \in Nat
  OBVIOUS
<1>2. i + 1 + extra <= Len(s) /\ s[i + 1] = first /\ SubSeq(s, i + 2, i + 1 + extra) = rest
  BY HasAtParts
<1>3. HasMore(s, i, 1) /\ HasMore(s, i + 1, extra)
  BY <1>1, <1>2, HasMoreWithin
<1>4. 1 + extra = extra + 1
  BY <1>1
<1> HIDE DEF extra
<1> QED
  BY <1>2, <1>3, <1>4 DEF DecodeCompactInteger, extra

\* The three modes below kMinBigInteger.
LEMMA SmallModeRoundTrip ==
  ASSUME NEW v \in Nat, NEW flag \in 0..2, NEW width \in Nat,
         \/ flag = 0 /\ width = 1
         \/ flag = 1 /\ width = 2
         \/ flag = 2 /\ width = 4,
         FitsIn(v \div Quarter, width - 1), LeastOfMode(flag) <= v
  PROVE  /\ Len(WithFlag(v, flag, width)) = width
         /\ \A s \in Seq(Byte) : \A i \in Nat :
              HasAt(s, i, WithFlag(v, flag, width)) =>
                DecodeCompactInteger(s, i) = ReadResult("none", width, v)
<1> DEFINE upper == v % Quarter
           x == v \div Quarter
           first == 4 * upper + flag
           rest == LittleEndian(x, width - 1)
<1>1. upper \in 0..(Quarter - 1) /\ x \in Nat /\ v = Quarter * x + upper
  BY LimitsType, DivisionType
<1>2. width \in Nat /\ width - 1 \in Nat /\ width = (width - 1) + 1
  OBVIOUS
<1> HIDE DEF upper, x
<1>3. first \in Byte /\ first \div 4 = upper /\ first % 4 = flag
  BY <1>1, FirstByteParts
<1>4. rest \in Seq(Byte) /\ Len(rest) = width - 1 /\ LittleEndianValue(rest) = x
  BY <1>1, <1>2, LittleEndianRoundTrip DEF x
<1>5. WithFlag(v, flag, width) = <<first>> \o rest
  BY DEF WithFlag, upper, x
<1> HIDE DEF first, rest
<1>6. Len(WithFlag(v, flag, width)) = width
  BY <1>2, <1>4, <1>5
<1>7. ExtraBytes(first) = width - 1
  BY <1>3 DEF ExtraBytes
<1>8. CompactValue(first, rest) = v
  <2>1. Quarter * x \in Nat
    BY <1>1, LimitsType
  <2>2. CompactValue(first, rest) = upper + Quarter * x
    BY <1>3, <1>4 DEF CompactValue
  <2> QED
    BY <1>1, <2>1, <2>2
<1>9. ~IsRedundant(first, v)
  <2>1. LeastOfMode(flag) \in Nat
    BY LimitsType DEF LeastOfMode
  <2> QED
    BY <1>3, <2>1 DEF IsRedundant
<1>10. ASSUME NEW s \in Seq(Byte), NEW i \in Nat, HasAt(s, i, WithFlag(v, flag, width))
       PROVE  DecodeCompactInteger(s, i) = ReadResult("none", width, v)
  <2>1. /\ HasAt(s, i, <<first>> \o rest)
        /\ ExtraBytes(first) = Len(rest)
        /\ ~IsRedundant(first, CompactValue(first, rest))
    BY <1>4, <1>5, <1>7, <1>8, <1>9, <1>10
  <2>2. DecodeCompactInteger(s, i)
          = ReadResult("none", Len(rest) + 1, CompactValue(first, rest))
    BY <1>3, <1>4, <2>1, DecodeParts
  <2> HIDE DEF rest
  <2> QED
    BY <1>2, <1>4, <1>8, <2>2
<1> QED
  BY <1>6, <1>10

\* Two bytes hold what is below Base^2, three what is below Base^3.
LEMMA FitsInBytes ==
  ASSUME NEW v \in Nat
  PROVE  /\ v < Base => FitsIn(v, 1)
         /\ FitsIn(v, 1) => v < Base
         /\ FitsIn(v, 2) => v < Base * Base
         /\ v < Base * Base * Base => FitsIn(v, 3)
         /\ FitsIn(v, 3) => v < Base * Base * Base
<1> DEFINE p(n) == 2^(ByteBits * n)
<1>1. p(0) = 1
  BY NoBytePower
<1>2. ByteBits * 0 < MaxBits /\ ByteBits * 1 < MaxBits /\ ByteBits * 2 < MaxBits
  BY ByteAssumption, MaxBitsAssumption
<1>3. p(1) = p(0) * Base /\ p(2) = p(1) * Base
  <2>1. ByteBits * (0 + 1) < MaxBits /\ ByteBits * (1 + 1) < MaxBits /\ 0 + 1 = 1 /\ 1 + 1 = 2
    BY <1>2
  <2> QED
    BY <2>1, NextBytePower
<1>4. FitsIn(v, 1) <=> v \div p(0) < Base
  BY <1>2 DEF FitsIn
<1>5. FitsIn(v, 2) <=> v \div p(1) < Base
  BY <1>2 DEF FitsIn
<1>6. FitsIn(v, 3) <=> v \div p(2) < Base
  BY <1>2 DEF FitsIn
<1> HIDE DEF p
<1>7. p(0) = 1 /\ p(1) = Base /\ p(2) = Base * Base
  BY <1>1, <1>3, ByteAssumption
<1>8. v \div 1 = v
  OBVIOUS
<1>9. ASSUME NEW d \in Nat \ {0}, v \div d < Base
      PROVE  v < d * Base
  <2>1. v < d * (v \div d + 1) /\ v \div d \in Nat
    OBVIOUS
  <2>2. d * (v \div d + 1) <= d * Base
    BY <1>9, <2>1, ByteAssumption
  <2>3. d * (v \div d + 1) \in Int /\ d * Base \in Int
    BY <2>1, ByteAssumption
  <2> QED
    BY <2>1, <2>2, <2>3
<1>10. Base * Base \in Nat \ {0} /\ Base \in Nat \ {0}
  BY ByteAssumption
<1> QED
  BY <1>4, <1>5, <1>6, <1>7, <1>8, <1>9, <1>10, QuotientBelow

\* The modes below kMinBigInteger are read back.
LEMMA SmallRoundTrip ==
  ASSUME NEW v \in Nat, v < kMinBigInteger
  PROVE  /\ Len(EncodeSmallCompact(v)) = LengthOfCompactNative(v)
         /\ \A s \in Seq(Byte) : \A i \in Nat :
              HasAt(s, i, EncodeSmallCompact(v)) =>
                DecodeCompactInteger(s, i)
                  = ReadResult("none", Len(EncodeSmallCompact(v)), v)
<1> DEFINE x == v \div Quarter
<1>1. x \in Nat /\ Quarter \in Nat \ {0} /\ Base \in Nat \ {0}
  BY LimitsType, ByteAssumption
<1>2. CASE v < kMinUint16
  <2>1. x = 0
    BY <1>2, LimitsType DEF kMinUint16
  <2>2. FitsIn(x, 1 - 1) /\ LeastOfMode(0) <= v
    BY <2>1 DEF FitsIn, LeastOfMode
  <2>3. EncodeSmallCompact(v) = WithFlag(v, 0, 1)
    BY <1>2, LimitsType DEF EncodeSmallCompact
  <2>4. /\ Len(WithFlag(v, 0, 1)) = 1
        /\ \A s \in Seq(Byte) : \A i \in Nat :
             HasAt(s, i, WithFlag(v, 0, 1)) =>
               DecodeCompactInteger(s, i) = ReadResult("none", 1, v)
    <3>1. 0 \in 0..2 /\ 1 \in Nat /\ FitsIn(v \div Quarter, 1 - 1) /\ LeastOfMode(0) <= v
      BY <2>2
    <3> QED
      BY <3>1, SmallModeRoundTrip
  <2>5. LengthOfCompactNative(v) = 1
    <3>1. /\ v < kMinUint16 /\ ~(v >= kMinUint16 /\ v < kMinUint32)
          /\ ~(v >= kMinUint32 /\ v < kMinBigInteger)
      BY <1>2, LimitsType, LimitOrder
    <3> QED
      BY <3>1 DEF LengthOfCompactNative
  <2> QED
    BY <2>3, <2>4, <2>5
<1>3. CASE v >= kMinUint16 /\ v < kMinUint32
  <2>1. x < Base
    BY <1>1, <1>3, QuotientBelow DEF kMinUint32
  <2>2. FitsIn(x, 2 - 1) /\ LeastOfMode(1) <= v
    BY <1>1, <1>3, <2>1, FitsInBytes, LimitsType DEF LeastOfMode
  <2>3. EncodeSmallCompact(v) = WithFlag(v, 1, 2)
    BY <1>3, LimitsType DEF EncodeSmallCompact
  <2>4. /\ Len(WithFlag(v, 1, 2)) = 2
        /\ \A s \in Seq(Byte) : \A i \in Nat :
             HasAt(s, i, WithFlag(v, 1, 2)) =>
               DecodeCompactInteger(s, i) = ReadResult("none", 2, v)
    <3>1. 1 \in 0..2 /\ 2 \in Nat /\ FitsIn(v \div Quarter, 2 - 1) /\ LeastOfMode(1) <= v
      BY <2>2
    <3> QED
      BY <3>1, SmallModeRoundTrip
  <2>5. LengthOfCompactNative(v) = 2
    BY <1>3, LimitsType DEF LengthOfCompactNative
  <2> QED
    BY <2>3, <2>4, <2>5
<1>4. CASE v >= kMinUint32
  <2>1. x < Base * Base * Base
    <3>1. kMinBigInteger = Quarter * (Base * Base * Base)
      BY <1>1 DEF kMinBigInteger
    <3>2. Base * Base * Base \in Nat
      BY <1>1
    <3> QED
      BY <1>1, <3>1, <3>2, QuotientBelow
  <2>2. FitsIn(x, 4 - 1) /\ LeastOfMode(2) <= v
    BY <1>1, <1>4, <2>1, FitsInBytes, LimitsType DEF LeastOfMode
  <2>3. v >= kMinUint16
    <3>1. kMinUint16 <= kMinUint32
      BY <1>1 DEF kMinUint16, kMinUint32
    <3> QED
      BY <1>4, <3>1, LimitsType
  <2>4. EncodeSmallCompact(v) = WithFlag(v, 2, 4)
    BY <1>4, <2>3, LimitsType DEF EncodeSmallCompact
  <2>5. /\ Len(WithFlag(v, 2, 4)) = 4
        /\ \A s \in Seq(Byte) : \A i \in Nat :
             HasAt(s, i, WithFlag(v, 2, 4)) =>
               DecodeCompactInteger(s, i) = ReadResult("none", 4, v)
    <3>1. 2 \in 0..2 /\ 4 \in Nat /\ FitsIn(v \div Quarter, 4 - 1) /\ LeastOfMode(2) <= v
      BY <2>2
    <3> QED
      BY <3>1, SmallModeRoundTrip
  <2>6. LengthOfCompactNative(v) = 4
    BY <1>4, <2>3, LimitsType DEF LengthOfCompactNative
  <2> QED
    BY <2>4, <2>5, <2>6
<1> QED
  BY <1>2, <1>3, <1>4, LimitsType

\* A big integer has at least four bytes.
LEMMA BigHasFourBytes ==
  ASSUME NEW v \in Nat, v >= kMinBigInteger, NEW k \in Nat, FitsIn(v, k)
  PROVE  k >= 4
<1>1. SUFFICES ASSUME k \in 0..3 PROVE FALSE
  OBVIOUS
<1>2. /\ Base \in Nat /\ Base >= 1 /\ Quarter \in Nat /\ Quarter >= 1
      /\ kMinBigInteger = Quarter * Base * Base * Base
  BY ByteAssumption, LimitsType DEF kMinBigInteger
<1>3. /\ 1 <= Base /\ Base <= Base * Base /\ Base * Base <= Base * Base * Base
      /\ Base * Base * Base \in Nat
  <2>1. Base * Base \in Nat /\ Base <= Base * Base
    BY <1>2
  <2>2. (Base * Base) * Base \in Nat /\ Base * Base <= (Base * Base) * Base
    BY <1>2, <2>1
  <2> QED
    BY <1>2, <2>1, <2>2
<1>4. Base * Base * Base <= kMinBigInteger
  <2> DEFINE c == Base * Base * Base
  <2>1. c \in Nat
    BY <1>3
  <2>2. kMinBigInteger = Quarter * c
    BY <1>2
  <2> HIDE DEF c
  <2>3. c <= Quarter * c
    BY <1>2, <2>1
  <2> QED
    BY <2>2, <2>3 DEF c
<1>5. FitsIn(v, 0) => v = 0
  BY DEF FitsIn
<1>6. \A j \in 0..3 : FitsIn(v, j) => v < Base * Base * Base
  <2>1. Base * Base \in Nat
    BY <1>2
  <2> DEFINE b == Base
             bb == Base * Base
             c == Base * Base * Base
  <2>2. /\ FitsIn(v, 1) => v < b
        /\ FitsIn(v, 2) => v < bb
        /\ FitsIn(v, 3) => v < c
    BY FitsInBytes
  <2>3. b \in Nat /\ bb \in Nat /\ c \in Nat /\ 1 <= b /\ b <= bb /\ bb <= c
    BY <1>2, <1>3, <2>1
  <2> HIDE DEF b, bb, c
  <2>4. \A j \in 0..3 : FitsIn(v, j) => v < c
    BY <1>5, <2>2, <2>3
  <2> QED
    BY <2>4 DEF c
<1>7. v < Base * Base * Base
  BY <1>1, <1>6
<1> QED
  BY <1>2, <1>3, <1>4, <1>7

\* The big mode.
LEMMA BigModeRoundTrip ==
  ASSUME NEW v \in Nat, Representable(v), v >= kMinBigInteger,
         ByteCount(v) <= MaxBigBytes
  PROVE  /\ Len(EncodeBigMode(v, ByteCount(v))) = ByteCount(v) + 1
         /\ \A s \in Seq(Byte) : \A i \in Nat :
              HasAt(s, i, EncodeBigMode(v, ByteCount(v))) =>
                DecodeCompactInteger(s, i) = ReadResult("none", ByteCount(v) + 1, v)
<1> DEFINE n == ByteCount(v)
           first == 4 * (n - 4) + 3
           rest == LittleEndian(v, n)
<1>1. n \in Nat /\ FitsIn(v, n)
  BY ByteCountType, ByteCountFits
<1>2. n >= 4
  BY <1>1, BigHasFourBytes
<1>3. n - 4 \in 0..(Quarter - 1) /\ 3 \in 0..3
  <2>1. n <= 4 + Quarter - 1
    BY DEF MaxBigBytes
  <2> HIDE DEF n
  <2> QED
    BY <1>1, <1>2, <2>1, LimitsType
<1>4. rest \in Seq(Byte) /\ Len(rest) = n /\ LittleEndianValue(rest) = v
  BY <1>1, LittleEndianRoundTrip
<1> HIDE DEF n
<1>5. first \in Byte /\ first \div 4 = n - 4 /\ first % 4 = 3
  BY <1>3, FirstByteParts
<1>6. EncodeBigMode(v, n) = <<first>> \o rest
  <2>1. first % Base = first
    BY <1>5, ByteAssumption DEF Byte
  <2> HIDE DEF first
  <2> QED
    BY <2>1 DEF EncodeBigMode, first, n
<1> HIDE DEF first, rest
<1>7. Len(EncodeBigMode(v, n)) = n + 1
  BY <1>1, <1>4, <1>6
<1>8. ExtraBytes(first) = n
  BY <1>1, <1>5 DEF ExtraBytes
<1>9. CompactValue(first, rest) = v
  BY <1>4, <1>5 DEF CompactValue
<1>10. ~IsRedundant(first, v)
  <2>1. LeastOfMode(3) = kMinBigInteger
    BY DEF LeastOfMode
  <2> QED
    BY <1>1, <1>5, <1>8, <2>1, LimitsType DEF IsRedundant, n
<1>11. ASSUME NEW s \in Seq(Byte), NEW i \in Nat, HasAt(s, i, EncodeBigMode(v, n))
       PROVE  DecodeCompactInteger(s, i) = ReadResult("none", n + 1, v)
  <2>1. /\ HasAt(s, i, <<first>> \o rest)
        /\ ExtraBytes(first) = Len(rest)
        /\ ~IsRedundant(first, CompactValue(first, rest))
    BY <1>4, <1>6, <1>8, <1>9, <1>10, <1>11
  <2>2. DecodeCompactInteger(s, i)
          = ReadResult("none", Len(rest) + 1, CompactValue(first, rest))
    BY <1>4, <1>5, <2>1, DecodeParts
  <2> QED
    BY <1>4, <1>9, <2>2
<1> QED
  BY <1>7, <1>11 DEF n

\* What encodeCompactInteger puts for a number the instance has bits for,
\* decodeCompactInteger reads as that number, wherever it stands.
THEOREM CompactRoundTrip ==
  ASSUME NEW v \in Nat, Representable(v), EncodeCompactBig(v).error = "none",
         NEW s \in Seq(Byte), NEW i \in Nat, HasAt(s, i, EncodeCompactBig(v).bytes)
  PROVE  DecodeCompactInteger(s, i)
           = ReadResult("none", Len(EncodeCompactBig(v).bytes), v)
<1>1. CASE v < kMinBigInteger
  <2>1. EncodeCompactBig(v).bytes = EncodeSmallCompact(v)
    BY <1>1 DEF EncodeCompactBig
  <2> QED
    BY <1>1, <2>1, SmallRoundTrip
<1>2. CASE ~(v < kMinBigInteger)
  <2>1. v >= kMinBigInteger
    BY <1>2, LimitsType
  <2>2. ~(ByteCount(v) > MaxBigBytes)
    BY <1>2 DEF EncodeCompactBig
  <2>3. ByteCount(v) <= MaxBigBytes
    BY <2>2, ByteCountType, LimitsType DEF MaxBigBytes
  <2>4. EncodeCompactBig(v).bytes = EncodeBigMode(v, ByteCount(v))
    BY <1>2, <2>2 DEF EncodeCompactBig
  <2>5. /\ Len(EncodeBigMode(v, ByteCount(v))) = ByteCount(v) + 1
        /\ DecodeCompactInteger(s, i) = ReadResult("none", ByteCount(v) + 1, v)
    BY <2>1, <2>3, <2>4, BigModeRoundTrip
  <2> QED
    BY <2>4, <2>5
<1> QED
  BY <1>1, <1>2

-----------------------------------------------------------------------------
(* What decodeCompactInteger accepts, encodeCompactInteger puts.           *)

\* How many bytes each mode has behind the first one.
LEMMA ExtraBytesMeaning ==
  ASSUME NEW first
  PROVE  /\ first % 4 = 0 => ExtraBytes(first) = 0
         /\ first % 4 = 1 => ExtraBytes(first) = 1
         /\ first % 4 = 2 => ExtraBytes(first) = 3
         /\ first % 4 = 3 => ExtraBytes(first) = 4 + first \div 4
<1> DEFINE m == first % 4
           e == 4 + first \div 4
<1>1. ExtraBytes(first) = <<0, 1, 3, e>>[m + 1]
  BY DEF ExtraBytes
<1> HIDE DEF m, e
<1>2. /\ m = 0 => <<0, 1, 3, e>>[m + 1] = 0
      /\ m = 1 => <<0, 1, 3, e>>[m + 1] = 1
      /\ m = 2 => <<0, 1, 3, e>>[m + 1] = 3
      /\ m = 3 => <<0, 1, 3, e>>[m + 1] = e
  OBVIOUS
<1> QED
  BY <1>1, <1>2 DEF m, e

\* A first byte and those its mode has behind it.
LEMMA CanonicalParts ==
  ASSUME NEW first \in Byte, NEW rest \in Seq(Byte), ExtraBytes(first) = Len(rest),
         Len(rest) = 0 \/ ByteBits * (Len(rest) - 1) < MaxBits,
         ~IsRedundant(first, CompactValue(first, rest))
  PROVE  /\ CompactValue(first, rest) \in Nat
         /\ EncodeCompactBig(CompactValue(first, rest))
              = [error |-> "none", bytes |-> <<first>> \o rest]
<1> DEFINE upper == first \div 4
           flag == first % 4
           x == LittleEndianValue(rest)
           v == CompactValue(first, rest)
           l == Len(rest)
<1>1. upper \in 0..(Quarter - 1) /\ flag \in 0..3 /\ first = 4 * upper + flag
  BY LimitsType DEF Byte
<1>2. x \in Nat /\ FitsIn(x, l) /\ LittleEndian(x, l) = rest /\ l \in Nat
  BY LittleEndianOfValue
<1>3. Quarter \in Nat \ {0} /\ Base \in Nat \ {0} /\ Base = 4 * Quarter
  BY LimitsType, ByteAssumption
<1> HIDE DEF upper, flag, x
<1>4. v >= LeastOfMode(flag) \/ v \notin Nat
  <2>1. ~(v < LeastOfMode(first % 4))
    BY DEF IsRedundant
  <2>2. LeastOfMode(flag) \in Nat
    BY <1>1, LimitsType DEF LeastOfMode
  <2> HIDE DEF v
  <2> QED
    BY <2>1, <2>2 DEF flag
<1>5. CASE flag \in 0..2
  <2>1. v = upper + Quarter * x
    BY <1>1, <1>5 DEF CompactValue, upper, flag, x
  <2>2. v \in Nat /\ v = Quarter * x + upper
    <3>1. Quarter * x \in Nat
      BY <1>2, <1>3
    <3> QED
      BY <1>1, <2>1, <3>1
  <2> HIDE DEF v
  <2>3. v \div Quarter = x /\ v % Quarter = upper
    BY <1>1, <1>2, <1>3, <2>2, DivisionUnique
  <2>4. ASSUME NEW limit \in Nat, x < limit
        PROVE  v < Quarter * limit
    <3>1. Quarter * x + Quarter = Quarter * (x + 1)
      BY <1>2, <1>3
    <3>2. Quarter * (x + 1) <= Quarter * limit
      BY <1>2, <1>3, <2>4
    <3>3. Quarter * limit \in Nat /\ Quarter * x \in Nat
      BY <1>2, <1>3, <2>4
    <3> QED
      BY <1>1, <1>3, <2>2, <3>1, <3>2, <3>3
  <2>5. ASSUME NEW width \in Nat, l = width - 1
        PROVE  WithFlag(v, flag, width) = <<first>> \o rest
    BY <1>1, <1>2, <2>3, <2>5 DEF WithFlag
  <2>6. CASE flag = 0
    <3>1. l = 0 /\ x = 0
      <4>1. l = 0
        BY <2>6, ExtraBytesMeaning DEF flag
      <4> QED
        BY <1>2, <4>1 DEF FitsIn
    <3>2. v < kMinUint16
      BY <1>1, <1>3, <2>2, <3>1 DEF kMinUint16
    <3>3. v < kMinBigInteger
      <4>1. kMinUint16 <= kMinUint32 /\ kMinUint32 <= kMinBigInteger
        BY LimitOrder
      <4> QED
        BY <2>2, <3>2, <4>1, LimitsType
    <3>4. EncodeSmallCompact(v) = WithFlag(v, 0, 1)
      BY <2>2, <3>2, LimitsType DEF EncodeSmallCompact
    <3>5. WithFlag(v, flag, 1) = <<first>> \o rest
      BY <2>5, <3>1
    <3> QED
      BY <2>2, <2>6, <3>3, <3>4, <3>5 DEF EncodeCompactBig, v
  <2>7. CASE flag = 1
    <3>1. l = 1 /\ x < Base
      <4>1. l = 1
        BY <2>7, ExtraBytesMeaning DEF flag
      <4> QED
        BY <1>2, <4>1, FitsInBytes
    <3>2. v < kMinUint32
      BY <1>3, <2>4, <3>1 DEF kMinUint32
    <3>3. v < kMinBigInteger /\ kMinUint16 <= v
      <4>1. kMinUint32 <= kMinBigInteger
        BY LimitOrder
      <4> QED
        BY <1>4, <2>2, <2>7, <3>2, <4>1, LimitsType DEF LeastOfMode
    <3>4. EncodeSmallCompact(v) = WithFlag(v, 1, 2)
      BY <2>2, <3>2, <3>3, LimitsType DEF EncodeSmallCompact
    <3>5. WithFlag(v, flag, 2) = <<first>> \o rest
      BY <2>5, <3>1
    <3> QED
      BY <2>2, <2>7, <3>3, <3>4, <3>5 DEF EncodeCompactBig, v
  <2>8. CASE flag = 2
    <3>1. l = 3 /\ x < Base * Base * Base
      <4>1. l = 3
        BY <2>8, ExtraBytesMeaning DEF flag
      <4> QED
        BY <1>2, <4>1, FitsInBytes
    <3>2. v < kMinBigInteger
      <4>1. Base * Base * Base \in Nat /\ kMinBigInteger = Quarter * (Base * Base * Base)
        BY <1>3 DEF kMinBigInteger
      <4> QED
        BY <2>4, <3>1, <4>1
    <3>3. kMinUint32 <= v /\ kMinUint16 <= v
      <4>1. kMinUint16 <= kMinUint32
        BY LimitOrder
      <4> QED
        BY <1>4, <2>2, <2>8, <4>1, LimitsType DEF LeastOfMode
    <3>4. EncodeSmallCompact(v) = WithFlag(v, 2, 4)
      BY <2>2, <3>3, LimitsType DEF EncodeSmallCompact
    <3>5. WithFlag(v, flag, 4) = <<first>> \o rest
      BY <2>5, <3>1
    <3> QED
      BY <2>2, <2>8, <3>2, <3>4, <3>5 DEF EncodeCompactBig, v
  <2> QED
    BY <1>5, <2>6, <2>7, <2>8
<1>6. CASE flag = 3
  <2>1. v = x
    BY <1>6 DEF CompactValue, flag, x
  <2>2. v >= kMinBigInteger
    BY <1>2, <1>4, <1>6, <2>1 DEF LeastOfMode
  <2>3. l = 4 + upper
    BY <1>6, ExtraBytesMeaning DEF flag, upper
  <2>4. ~(ByteCount(v) < l)
    BY <1>6 DEF IsRedundant, flag
  <2> HIDE DEF v
  <2>5. ByteCount(v) \in Nat /\ ByteCount(v) <= l
    BY <1>2, <2>1, ByteCountType, ByteCountLeast
  <2> HIDE DEF l
  <2>6. ByteCount(v) = l
    BY <1>2, <2>4, <2>5
  <2>7. ~(ByteCount(v) > MaxBigBytes) /\ ~(v < kMinBigInteger)
    <3>1. l <= MaxBigBytes
      BY <1>1, <1>3, <2>3 DEF MaxBigBytes
    <3>2. MaxBigBytes \in Int
      BY <1>3 DEF MaxBigBytes
    <3> QED
      BY <1>2, <2>1, <2>2, <2>6, <3>1, <3>2, LimitsType
  <2>8. (4 * (l - 4) + 3) % Base = first
    <3>1. 4 * (l - 4) + 3 = first
      BY <1>1, <1>6, <2>3
    <3>2. first \in 0..(Base - 1)
      BY DEF Byte
    <3>3. first % Base = first
      BY <1>3, <3>2
    <3> QED
      BY <3>1, <3>3
  <2>9. EncodeBigMode(v, ByteCount(v)) = <<first>> \o rest
    BY <1>2, <2>1, <2>6, <2>8 DEF EncodeBigMode
  <2> QED
    BY <1>2, <2>1, <2>7, <2>9 DEF EncodeCompactBig, v
<1> QED
  BY <1>1, <1>5, <1>6

\* What decodeCompactInteger accepts is there, and it takes it.
LEMMA AcceptedParts ==
  ASSUME NEW s \in Seq(Byte), NEW i \in 0..Len(s),
         Len(s) + MaxBigBytes < SizeMod,
         DecodeCompactInteger(s, i).error = "none"
  PROVE  \E first \in Byte : \E rest \in Seq(Byte) :
           /\ ExtraBytes(first) = Len(rest)
           /\ ~IsRedundant(first, CompactValue(first, rest))
           /\ i + 1 + Len(rest) <= Len(s)
           /\ DecodeCompactInteger(s, i).used = 1 + Len(rest)
           /\ DecodeCompactInteger(s, i).value = CompactValue(first, rest)
           /\ SubSeq(s, i + 1, i + DecodeCompactInteger(s, i).used) = <<first>> \o rest
<1> DEFINE d == DecodeCompactInteger(s, i)
           first == s[i + 1]
           extra == ExtraBytes(first)
           rest == SubSeq(s, i + 2, i + 1 + extra)
<1>1. Len(s) \in Nat /\ SizeMod \in Nat \ {0} /\ MaxBigBytes \in Nat /\ MaxBigBytes > 3
  BY ByteAssumption, LimitsType DEF SizeMod, MaxBigBytes
<1>2. ASSUME NEW j \in Nat, NEW n \in Nat, j + n < SizeMod, HasMore(s, j, n)
      PROVE  j + n <= Len(s)
  <2>1. (j + n) % SizeMod = j + n
    BY <1>1, <1>2
  <2> QED
    BY <1>2, <2>1 DEF HasMore
<1>3. /\ HasMore(s, i, 1) /\ HasMore(s, i + 1, extra)
      /\ ~IsRedundant(first, CompactValue(first, rest))
      /\ d = ReadResult("none", 1 + extra, CompactValue(first, rest))
  <2> HIDE DEF first, extra, rest
  <2>1. d = CASE ~HasMore(s, i, 1) -> ReadResult("NOT_ENOUGH_DATA", 0, 0)
              [] HasMore(s, i, 1) /\ ~HasMore(s, i + 1, extra) ->
                   ReadResult("NOT_ENOUGH_DATA", 1, 0)
              [] OTHER ->
                   IF IsRedundant(first, CompactValue(first, rest))
                   THEN ReadResult("REDUNDANT_COMPACT_ENCODING", 1 + extra, 0)
                   ELSE ReadResult("none", 1 + extra, CompactValue(first, rest))
    BY DEF DecodeCompactInteger, first, extra, rest
  <2>2. d.error = "none"
    OBVIOUS
  <2> HIDE DEF d
  <2>3. \A e, u, w : ReadResult(e, u, w).error = e
    BY DEF ReadResult
  <2> QED
    BY <2>1, <2>2, <2>3
<1>4. i + 1 <= Len(s) /\ first \in Byte
  <2>1. i \in Nat /\ i + 1 < SizeMod
    BY <1>1
  <2>2. i + 1 <= Len(s)
    BY <1>2, <1>3, <2>1
  <2> QED
    BY <1>1, <2>2
<1>5. extra \in 0..MaxBigBytes
  <2>1. first % 4 \in 0..3 /\ first \div 4 \in 0..(Quarter - 1)
    <3> HIDE DEF first
    <3> QED
      BY <1>4, LimitsType DEF Byte
  <2> HIDE DEF first
  <2>2. extra \in {0, 1, 3, 4 + first \div 4}
    BY <2>1, ExtraBytesMeaning
  <2> HIDE DEF extra
  <2>3. \A m \in 0..(Quarter - 1) : 4 + m \in 0..MaxBigBytes
    BY LimitsType DEF MaxBigBytes
  <2> QED
    BY <1>1, <2>1, <2>2, <2>3
<1>6. i + 1 + extra <= Len(s)
  <2> HIDE DEF extra
  <2>1. i + 1 \in Nat /\ extra \in Nat /\ (i + 1) + extra < SizeMod
    BY <1>1, <1>4, <1>5
  <2> QED
    BY <1>2, <1>3, <2>1
<1> HIDE DEF d, first, extra
<1>7. rest \in Seq(Byte) /\ Len(rest) = extra
  BY <1>1, <1>4, <1>5, <1>6
<1>8. SubSeq(s, i + 1, i + (1 + extra)) = <<first>> \o rest
  BY <1>1, <1>4, <1>5, <1>6 DEF first
<1> HIDE DEF rest
<1>9. d.used = 1 + extra /\ d.value = CompactValue(first, rest)
  BY <1>3 DEF ReadResult
<1>10. /\ first \in Byte /\ rest \in Seq(Byte) /\ ExtraBytes(first) = Len(rest)
       /\ i + 1 + Len(rest) <= Len(s)
       /\ d.used = 1 + Len(rest) /\ d.value = CompactValue(first, rest)
       /\ SubSeq(s, i + 1, i + d.used) = <<first>> \o rest
  BY <1>4, <1>6, <1>7, <1>8, <1>9 DEF extra
<1> QED
  BY <1>3, <1>10 DEF d

\* Any bytes decodeCompactInteger reads as a number are those
\* encodeCompactInteger puts for that number: each number has one encoding.
\* The sum of index and count does not wrap, and the instance has the bits.
THEOREM CompactCanonical ==
  ASSUME NEW s \in Seq(Byte), NEW i \in 0..Len(s),
         Len(s) + MaxBigBytes < SizeMod,
         DecodeCompactInteger(s, i).error = "none",
         \/ DecodeCompactInteger(s, i).value < kMinBigInteger
         \/ ByteBits * (DecodeCompactInteger(s, i).used - 2) < MaxBits
  PROVE  /\ DecodeCompactInteger(s, i).value \in Nat
         /\ EncodeCompactBig(DecodeCompactInteger(s, i).value)
              = [error |-> "none",
                 bytes |-> SubSeq(s, i + 1, i + DecodeCompactInteger(s, i).used)]
<1> DEFINE d == DecodeCompactInteger(s, i)
<1>1. PICK first \in Byte, rest \in Seq(Byte) :
        /\ ExtraBytes(first) = Len(rest)
        /\ ~IsRedundant(first, CompactValue(first, rest))
        /\ d.used = 1 + Len(rest) /\ d.value = CompactValue(first, rest)
        /\ SubSeq(s, i + 1, i + d.used) = <<first>> \o rest
  BY AcceptedParts
<1>2. Len(rest) \in Nat
  OBVIOUS
<1>3. Len(rest) = 0 \/ ByteBits * (Len(rest) - 1) < MaxBits
  <2>1. CASE d.value < kMinBigInteger
    <3>1. first % 4 # 3
      BY <1>1, <2>1 DEF IsRedundant, LeastOfMode
    <3>2. first % 4 \in 0..3
      BY LimitsType DEF Byte
    <3>3. Len(rest) \in {0, 1, 3}
      BY <1>1, <3>1, <3>2, ExtraBytesMeaning
    <3>4. CASE Len(rest) = 1
      <4>1. ByteBits * (Len(rest) - 1) = 0 /\ 0 < MaxBits
        BY <3>4, ByteAssumption, MaxBitsAssumption
      <4> QED
        BY <4>1
    <3>5. CASE Len(rest) = 3
      <4>1. ByteBits * (Len(rest) - 1) = 2 * ByteBits
        BY <3>5, ByteAssumption
      <4> QED
        BY <4>1, ByteAssumption, MaxBitsAssumption
    <3> QED
      BY <3>3, <3>4, <3>5
  <2>2. CASE ByteBits * (d.used - 2) < MaxBits
    <3>1. (1 + Len(rest)) - 2 = Len(rest) - 1
      BY <1>2
    <3> QED
      BY <1>1, <2>2, <3>1
  <2> QED
    BY <2>1, <2>2
<1>4. /\ d.value \in Nat
      /\ EncodeCompactBig(d.value) = [error |-> "none", bytes |-> <<first>> \o rest]
  BY <1>1, <1>3, CanonicalParts
<1> QED
  BY <1>1, <1>4
=============================================================================
