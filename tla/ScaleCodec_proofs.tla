------------------------- MODULE ScaleCodec_proofs -------------------------
(***************************************************************************)
(* Theorems about ScaleCodec, for every byte width, every set of types and *)
(* all objects of these types, in either build of the library: what is     *)
(* encoded is decoded again.                                               *)
(*                                                                         *)
(* The proof is a simulation.  A step of the encoder puts some bytes and   *)
(* leaves operators to be entered; the operators form a stack.  The states *)
(* of the stack while the object was encoded, with the bytes put so far,   *)
(* are its trace.  While the bytes are decoded, the decoder is always at   *)
(* some point of the trace: it has taken the bytes that were put before    *)
(* that point, and what it has left to do, in that order and to the target *)
(* as it is, leaves behind the object, when each read of it is given the   *)
(* sub-object that the stack has there.                                    *)
(***************************************************************************)
EXTENDS ScaleCodec, ScaleDecoderStream_proofs, FiniteSetTheorems

-----------------------------------------------------------------------------
(* The encoder stream.                                                     *)

\* The instance has the same constants, so its constant operators are the same.
LEMMA EncoderOperators ==
  /\ \A tree, p : Encoder!At(tree, p) = At(tree, p)
  /\ \A tree, p : Encoder!Keys(tree, p) = Keys(tree, p)
  /\ \A keys, n : Encoder!Iterations(keys, n) = Iterations(keys, n)
  /\ \A bits : Encoder!ByteWith(bits) = ByteWith(bits)
  /\ \A v, n : Encoder!LittleEndian(v, n) = LittleEndian(v, n)
  /\ \A v : Encoder!EncodeCompactOfNative(v) = EncodeCompactOfNative(v)
  /\ \A v : Encoder!EncodeCompactOfBig(v) = EncodeCompactOfBig(v)
  /\ \A tree : Encoder!IsObject(tree) = IsObject(tree)
  /\ Encoder!Byte = Byte /\ Encoder!Operands = Parts
  /\ \A t, p : Encoder!Operand(t, p) = Part(t, p)
<1>2. \A tree, p : Encoder!At(tree, p) = At(tree, p)
  BY DEF At, Encoder!At
<1>3. \A tree, p : Encoder!Keys(tree, p) = Keys(tree, p)
  BY DEF Keys, Encoder!Keys, IsPrefix, Encoder!IsPrefix
<1>4. \A keys, n : Encoder!Iterations(keys, n) = Iterations(keys, n)
  BY DEF Iterations, Encoder!Iterations
<1>5. \A bits : Encoder!ByteWith(bits) = ByteWith(bits)
  BY DEF ByteWith, Encoder!ByteWith, BitOf, Encoder!BitOf, Byte, Encoder!Byte
<1>6. \A v, n : Encoder!LittleEndian(v, n) = LittleEndian(v, n)
  BY DEF LittleEndian, Encoder!LittleEndian, ByteOf, Encoder!ByteOf
<1>7. Encoder!Quarter = Quarter
  BY DEF Quarter, Encoder!Quarter
<1>8. /\ Encoder!kMinUint16 = kMinUint16 /\ Encoder!kMinUint32 = kMinUint32
      /\ Encoder!kMinBigInteger = kMinBigInteger /\ Encoder!MaxBigBytes = MaxBigBytes
  BY <1>7 DEF kMinUint16, Encoder!kMinUint16, kMinUint32, Encoder!kMinUint32,
              kMinBigInteger, Encoder!kMinBigInteger, MaxBigBytes, Encoder!MaxBigBytes
<1>9. \A v : Encoder!EncodeSmallCompact(v) = EncodeSmallCompact(v)
  BY <1>6, <1>7, <1>8 DEF EncodeSmallCompact, Encoder!EncodeSmallCompact,
                          WithFlag, Encoder!WithFlag
<1>10. \A v : Encoder!BitWidth(v) = BitWidth(v) /\ Encoder!ByteCount(v) = ByteCount(v)
  <2>1. \A S : Encoder!Cardinality(S) = Cardinality(S)
    BY DEF Cardinality, Encoder!Cardinality
  <2> QED
    BY <2>1 DEF BitWidth, Encoder!BitWidth, ByteCount, Encoder!ByteCount
<1>11. \A v, n : Encoder!EncodeBigMode(v, n) = EncodeBigMode(v, n)
  BY <1>6, <1>10 DEF EncodeBigMode, Encoder!EncodeBigMode
<1>12. \A v : /\ Encoder!EncodeCompactNative(v) = EncodeCompactNative(v)
              /\ Encoder!EncodeCompactBig(v) = EncodeCompactBig(v)
  BY <1>8, <1>9, <1>10, <1>11 DEF EncodeCompactNative, Encoder!EncodeCompactNative,
                                  EncodeCompactBig, Encoder!EncodeCompactBig
<1>13. \A v, k : Encoder!Shifted(v, k) = Shifted(v, k)
  BY <1>10 DEF Shifted, Encoder!Shifted
<1>14. \A v, k : Encoder!JamFits(v, k) = JamFits(v, k)
  BY <1>13 DEF JamFits, Encoder!JamFits, JamRoom, Encoder!JamRoom
<1>15. \A v : Encoder!JamExtraBytes(v) = JamExtraBytes(v)
  BY <1>14 DEF JamExtraBytes, Encoder!JamExtraBytes
<1>16. \A v : Encoder!JamBytes(v) = JamBytes(v)
  BY <1>6, <1>13, <1>15 DEF JamBytes, Encoder!JamBytes, JamPrefix, Encoder!JamPrefix
<1>17. \A v : /\ Encoder!EncodeJamNative(v) = EncodeJamNative(v)
              /\ Encoder!EncodeJamBig(v) = EncodeJamBig(v)
  BY <1>10, <1>16 DEF EncodeJamNative, Encoder!EncodeJamNative,
                      EncodeJamBig, Encoder!EncodeJamBig
<1>18. \A v : /\ Encoder!EncodeCompactOfNative(v) = EncodeCompactOfNative(v)
              /\ Encoder!EncodeCompactOfBig(v) = EncodeCompactOfBig(v)
  BY <1>12, <1>17 DEF EncodeCompactOfNative, Encoder!EncodeCompactOfNative,
                      EncodeCompactOfBig, Encoder!EncodeCompactOfBig
<1>19. /\ \A tree : Encoder!IsObject(tree) = IsObject(tree)
       /\ Encoder!Byte = Byte /\ Encoder!Operands = Parts
       /\ \A t, p : Encoder!Operand(t, p) = Part(t, p)
  BY DEF IsObject, Encoder!IsObject, Byte, Encoder!Byte, Encoder!Operands, Parts,
         Encoder!Operand, Part
<1> QED
  BY <1>2, <1>3, <1>4, <1>5, <1>6, <1>18, <1>19

\* Elements of a part, the first n.
Elements(part, n) == [i \in 1..n |-> Part(part.type.of[1], part.path \o <<i>>)]

\* The bits of a bit vector in bytes.
Packed(tree, p, size) ==
  [k \in 1..((size + ByteBits - 1) \div ByteBits) |->
     ByteWith({b \in 0..(ByteBits - 1) : At(tree, p \o <<ByteBits * (k - 1) + b + 1>>) # 0})]

\* The operator for a part of tree puts bytes and calls operators for others.
Encodes(tree, part, bytes, calls) ==
  LET t == part.type
      p == part.path
      v == At(tree, p)
      Just(b) == bytes = b /\ calls = << >>
  IN  CASE t.kind = "bool" -> Just(<<IF v # 0 THEN 1 ELSE 0>>)
        [] t.kind \in {"int", "big", "enum"} -> Just(LittleEndian(v, t.n))
        [] t.kind = "compact" -> Just(EncodeCompactOfNative(v).bytes)
        [] t.kind = "bigcompact" ->
             EncodeCompactOfBig(v).error = "none" /\ Just(EncodeCompactOfBig(v).bytes)
        [] t.kind = "as_compact" -> bytes = << >> /\ calls = <<Part(t.of[1], p)>>
        [] t.kind = "optbool" ->
             Just(<<IF v = 0 THEN 0 ELSE IF At(tree, p \o <<1>>) # 0 THEN 1 ELSE 2>>)
        [] t.kind = "optional" ->
             IF v = 0 THEN Just(<<0>>) ELSE bytes = <<1>> /\ calls = Elements(part, 1)
        [] t.kind = "pointer" -> v # 0 /\ bytes = << >> /\ calls = Elements(part, 1)
        [] t.kind = "product" ->
             /\ bytes = << >>
             /\ calls = [i \in DOMAIN t.of |-> Part(t.of[i], p \o <<i>>)]
        [] t.kind = "array" -> bytes = << >> /\ calls = Elements(part, t.n)
        [] t.kind \in {"resizeable", "extensible"} ->
             bytes = EncodeCompactOfNative(v).bytes /\ calls = Elements(part, v)
        [] t.kind = "random" ->
             \E keys \in Iterations(Keys(tree, p), v) :
               /\ bytes = EncodeCompactOfNative(v).bytes
               /\ calls = [i \in 1..v |-> Part(t.of[1], p \o <<keys[i] + 1, 1>>)]
        [] t.kind = "bitvec" ->
             Just(EncodeCompactOfNative(v).bytes \o Packed(tree, p, v))
        [] t.kind \in {"variant", "boostvariant"} ->
             \/ /\ v + 1 \in DOMAIN t.of /\ bytes = <<v>>
                /\ calls = <<Part(t.of[v + 1], p \o <<v + 1>>)>>
             \/ v + 1 \notin DOMAIN t.of /\ t.kind = "variant" /\ Just(<< >>)
        [] OTHER -> FALSE

\* A step of the encoder, in these terms.
EncoderPuts(bytes, calls) ==
  /\ stream' = stream \o bytes
  /\ bytes_written' = bytes_written + Len(bytes)
  /\ enc_pending' = calls \o Tail(enc_pending)
  /\ enc_outcome' = enc_outcome
  /\ source' = source

EncoderRaises(error) ==
  /\ enc_outcome' = error
  /\ enc_pending' = << >>
  /\ UNCHANGED <<stream, bytes_written, source>>

LEMMA EncoderStep ==
  ASSUME Encoder!Operator
  PROVE  /\ enc_pending # << >>
         /\ \/ \E bytes, calls : /\ Encodes(source, Head(enc_pending), bytes, calls)
                                 /\ EncoderPuts(bytes, calls)
            \/ \E error \in Encoder!EncodeErrors : EncoderRaises(error)
<1> DEFINE part == Head(enc_pending)
           v == At(source, part.path)
<1>1. ASSUME NEW bytes, NEW calls, Encoder!Put(bytes, calls)
      PROVE  EncoderPuts(bytes, calls)
  BY <1>1 DEF Encoder!Put, Encoder!PutBytes, EncoderPuts
<1>2. ASSUME NEW error, Encoder!Raise(error)
      PROVE  EncoderRaises(error)
  BY <1>2 DEF Encoder!Raise, EncoderRaises
<1>3. /\ Encoder!Content = v /\ Encoder!Path = part.path /\ Encoder!Type = part.type
      /\ \A n : Encoder!Children(part.type.of[1], n) = Elements(part, n)
      /\ \A n : Encoder!LengthBytes(n) = EncodeCompactOfNative(n).bytes
      /\ \A kind : Encoder!Serving(kind) <=> enc_pending # << >> /\ part.type.kind = kind
  BY EncoderOperators
     DEF Encoder!Content, Encoder!Path, Encoder!Type, Encoder!Children, Elements,
         Encoder!LengthBytes, Encoder!Serving
<1> HIDE DEF part
<1> SUFFICES /\ enc_pending # << >>
             /\ \/ \E bytes, calls : Encodes(source, part, bytes, calls)
                                       /\ Encoder!Put(bytes, calls)
                \/ \E error \in Encoder!EncodeErrors : Encoder!Raise(error)
  BY <1>1, <1>2 DEF part
<1>4. CASE Encoder!EncodeBool
  BY <1>3, <1>4 DEF Encoder!EncodeBool, Encodes
<1>5. CASE Encoder!EncodeInteger \/ Encoder!EncodeBigFixedWidthInteger \/ Encoder!EncodeEnum
  BY <1>3, <1>5, EncoderOperators
     DEF Encoder!EncodeInteger, Encoder!EncodeBigFixedWidthInteger, Encoder!EncodeEnum, Encodes
<1>6. CASE Encoder!EncodeCompact
  BY <1>3, <1>6, EncoderOperators DEF Encoder!EncodeCompact, Encodes
<1>7. CASE Encoder!EncodeBigCompact
  <2>1. CASE EncodeCompactOfBig(v).error = "none"
    BY <1>3, <1>7, <2>1, EncoderOperators DEF Encoder!EncodeBigCompact, Encodes
  <2>2. CASE EncodeCompactOfBig(v).error # "none"
    <3>1. EncodeCompactOfBig(v).error \in Encoder!EncodeErrors
      BY <2>2 DEF EncodeCompactOfBig, EncodeCompactBig, EncodeJamBig, Encoder!EncodeErrors
    <3> QED
      BY <1>3, <1>7, <2>2, <3>1, EncoderOperators DEF Encoder!EncodeBigCompact
  <2> QED
    BY <2>1, <2>2
<1>8. CASE Encoder!EncodeCompactReflection
  BY <1>3, <1>8, EncoderOperators DEF Encoder!EncodeCompactReflection, Encodes
<1>9. CASE Encoder!EncodeOptionalBool
  BY <1>3, <1>9, EncoderOperators DEF Encoder!EncodeOptionalBool, Encodes
<1>10. CASE Encoder!EncodeOptional
  BY <1>3, <1>10, EncoderOperators DEF Encoder!EncodeOptional, Encodes
<1>11. CASE Encoder!EncodePointer
  BY <1>3, <1>11, EncoderOperators DEF Encoder!EncodePointer, Encodes, Encoder!EncodeErrors
<1>12. CASE Encoder!EncodeProduct
  BY <1>3, <1>12, EncoderOperators DEF Encoder!EncodeProduct, Encodes
<1>13. CASE Encoder!EncodeStaticCollection
  BY <1>3, <1>13, EncoderOperators DEF Encoder!EncodeStaticCollection, Encodes
<1>14. CASE Encoder!EncodeSequence
  BY <1>3, <1>14, EncoderOperators DEF Encoder!EncodeSequence, Encodes
<1>15. CASE Encoder!EncodeRandomCollection
  BY <1>3, <1>15, EncoderOperators DEF Encoder!EncodeRandomCollection, Encodes
<1>16. CASE Encoder!EncodeBitVec
  <2>1. Encoder!PackBits(v) = Packed(source, part.path, v)
    BY <1>3, EncoderOperators DEF Encoder!PackBits, Packed
  <2> QED
    BY <1>3, <1>16, <2>1, EncoderOperators DEF Encoder!EncodeBitVec, Encodes
<1>17. CASE Encoder!EncodeVariant
  BY <1>3, <1>17, EncoderOperators DEF Encoder!EncodeVariant, Encodes
<1>18. CASE Encoder!EncodeBoostVariant
  BY <1>3, <1>18, EncoderOperators DEF Encoder!EncodeBoostVariant, Encodes
<1> QED
  BY <1>4, <1>5, <1>6, <1>7, <1>8, <1>9, <1>10, <1>11, <1>12, <1>13, <1>14, <1>15,
     <1>16, <1>17, <1>18 DEF Encoder!Operator

-----------------------------------------------------------------------------
(* Paths, and what the object operators leave at them.                     *)

LEMMA PathBelow ==
  ASSUME NEW p \in Seq(Nat), NEW q \in Seq(Nat)
  PROVE  IsPrefix(p, q) <=> \E x \in Seq(Nat) : q = p \o x
<1>1. ASSUME IsPrefix(p, q)
      PROVE  \E x \in Seq(Nat) : q = p \o x
  BY <1>1, SuffixMeaning, Zenon
<1>2. \A x \in Seq(Nat) : IsPrefix(p, p \o x)
  BY PrefixOfConcat
<1> QED
  BY <1>1, <1>2

LEMMA PathConcat ==
  ASSUME NEW p \in Seq(Nat), NEW x \in Seq(Nat), NEW y \in Seq(Nat)
  PROVE  (p \o x) \o y = p \o (x \o y)
OBVIOUS

\* The first step of a path below another.
LEMMA FirstStep ==
  ASSUME NEW p \in Seq(Nat), NEW x \in Seq(Nat), x # << >>
  PROVE  /\ x[1] \in Nat /\ Tail(x) \in Seq(Nat)
         /\ p \o x = (p \o <<x[1]>>) \o Tail(x)
<1>1. /\ x[1] \in Nat /\ Tail(x) \in Seq(Nat) /\ Len(x) \in Nat \ {0}
      /\ Len(Tail(x)) = Len(x) - 1
      /\ \A i \in 1..Len(Tail(x)) : Tail(x)[i] = x[i + 1]
  BY HeadTailProperties, EmptySeq
<1> DEFINE t == Tail(x)
           head == <<x[1]>>
<1>2. head \in Seq(Nat) /\ Len(head) = 1 /\ head[1] = x[1] /\ t \in Seq(Nat)
  BY <1>1
<1>3. x = head \o t
  <2>1. /\ head \o t \in Seq(Nat) /\ Len(head \o t) = Len(x)
        /\ \A i \in 1..Len(x) : (head \o t)[i] = IF i <= 1 THEN head[i] ELSE t[i - 1]
    BY <1>1, <1>2, ConcatProperties
  <2>2. \A i \in 1..Len(x) : (head \o t)[i] = x[i]
    <3> SUFFICES ASSUME NEW i \in 1..Len(x) PROVE (head \o t)[i] = x[i]
      OBVIOUS
    <3>1. CASE i = 1
      BY <1>2, <2>1, <3>1
    <3>2. CASE i # 1
      <4>1. i - 1 \in 1..Len(t) /\ ~(i <= 1) /\ (i - 1) + 1 = i
        BY <1>1, <3>2
      <4> QED
        BY <1>1, <2>1, <4>1
    <3> QED
      BY <3>1, <3>2
  <2> HIDE DEF t, head
  <2> QED
    BY <2>1, <2>2, SeqEqual
<1> HIDE DEF t
<1> HIDE DEF head
<1>4. (p \o head) \o t = p \o (head \o t)
  <2>1. head \in Seq(Nat) /\ t \in Seq(Nat)
    BY <1>2
  <2> QED
    BY <2>1, PathConcat, Zenon
<1> QED
  <2>1. p \o x = (p \o head) \o t
    BY <1>3, <1>4
  <2> QED
    BY <1>1, <2>1 DEF t, head

LEMMA BelowChild ==
  ASSUME NEW p \in Seq(Nat), NEW i \in Nat, NEW x \in Seq(Nat)
  PROVE  /\ p \o x \in Seq(Nat)
         /\ IsPrefix(p \o <<i>>, p \o x) <=> x # << >> /\ x[1] = i
         /\ IsStrictPrefix(p, p \o x) <=> x # << >>
         /\ x # << >> => (p \o x)[Len(p) + 1] = x[1]
<1>1. /\ Len(p) \in Nat /\ Len(x) \in Nat /\ p \o x \in Seq(Nat)
      /\ Len(p \o x) = Len(p) + Len(x)
      /\ \A j \in 1..Len(p) + Len(x) : (p \o x)[j] = IF j <= Len(p) THEN p[j]
                                                     ELSE x[j - Len(p)]
  BY ConcatProperties
<1>2. /\ p \o <<i>> \in Seq(Nat) /\ Len(p \o <<i>>) = Len(p) + 1
      /\ \A j \in 1..Len(p) : (p \o <<i>>)[j] = p[j]
      /\ (p \o <<i>>)[Len(p) + 1] = i
  OBVIOUS
<1>3. x # << >> => Len(x) \in Nat \ {0}
  BY EmptySeq
<1>4. x # << >> => (p \o x)[Len(p) + 1] = x[1]
  <2> SUFFICES ASSUME x # << >> PROVE (p \o x)[Len(p) + 1] = x[1]
    OBVIOUS
  <2>1. Len(p) + 1 \in 1..Len(p) + Len(x) /\ ~(Len(p) + 1 <= Len(p))
        /\ Len(p) + 1 - Len(p) = 1
    BY <1>1, <1>3
  <2> QED
    BY <1>1, <2>1
<1>5. IsPrefix(p \o <<i>>, p \o x) <=>
        Len(p) + 1 <= Len(p) + Len(x)
        /\ \A j \in 1..(Len(p) + 1) : (p \o <<i>>)[j] = (p \o x)[j]
  <2> DEFINE c == p \o <<i>>
             r == p \o x
  <2>1. c \in Seq(Nat) /\ r \in Seq(Nat) /\ Len(c) = Len(p) + 1 /\ Len(r) = Len(p) + Len(x)
    BY <1>1, <1>2
  <2> HIDE DEF c, r
  <2>2. IsPrefix(c, r) <=> Len(c) <= Len(r) /\ \A j \in 1..Len(c) : c[j] = r[j]
    BY <2>1, PrefixMeaning
  <2> QED
    BY <2>1, <2>2 DEF c, r
<1>6. \A j \in 1..Len(p) : (p \o <<i>>)[j] = (p \o x)[j]
  BY <1>1, <1>2
<1>7. x = << >> => Len(x) = 0
  OBVIOUS
<1>8. IsPrefix(p \o <<i>>, p \o x) <=> x # << >> /\ x[1] = i
  <2>1. ASSUME IsPrefix(p \o <<i>>, p \o x)
        PROVE  x # << >> /\ x[1] = i
    <3>1. x # << >>
      BY <1>1, <1>5, <1>7, <2>1
    <3>2. Len(p) + 1 \in 1..(Len(p) + 1)
      BY <1>1
    <3> QED
      BY <1>2, <1>4, <1>5, <2>1, <3>1, <3>2
  <2>2. ASSUME x # << >>, x[1] = i
        PROVE  IsPrefix(p \o <<i>>, p \o x)
    <3>1. Len(p) + 1 <= Len(p) + Len(x)
      BY <1>1, <1>3, <2>2
    <3>2. ASSUME NEW j \in 1..(Len(p) + 1)
          PROVE  (p \o <<i>>)[j] = (p \o x)[j]
      <4>1. j \in 1..Len(p) \/ j = Len(p) + 1
        BY <1>1
      <4> QED
        BY <1>2, <1>4, <1>6, <2>2, <4>1
    <3> QED
      BY <1>5, <3>1, <3>2
  <2> QED
    BY <2>1, <2>2
<1>9. IsStrictPrefix(p, p \o x) <=> x # << >>
  <2>1. IsPrefix(p, p \o x)
    BY PrefixOfConcat
  <2>2. p = p \o x <=> x = << >>
    BY <1>1, <1>3, <1>7, ConcatEmptySeq
  <2> QED
    BY <2>1, <2>2 DEF IsStrictPrefix
<1> QED
  BY <1>1, <1>4, <1>8, <1>9

LEMMA ValueAssigned ==
  ASSUME NEW tree, NEW p, NEW v, NEW q
  PROVE  At(Assign(tree, p, v), q) = IF q = p THEN v ELSE At(tree, q)
BY DEF At, Assign

LEMMA ValueCleared ==
  ASSUME NEW tree, NEW p, NEW q
  PROVE  At(Clear(tree, p), q) = IF IsPrefix(p, q) THEN 0 ELSE At(tree, q)
BY DEF At, Clear, Without

LEMMA ValueTruncated ==
  ASSUME NEW tree, NEW p, NEW n, NEW q
  PROVE  At(Truncate(tree, p, n), q)
           = IF IsStrictPrefix(p, q) /\ q[Len(p) + 1] > n THEN 0 ELSE At(tree, q)
<1> DEFINE gone(r) == IsStrictPrefix(p, r) /\ r[Len(p) + 1] > n
<1>1. Truncate(tree, p, n) = [r \in {r \in DOMAIN tree : ~gone(r)} |-> tree[r]]
  BY DEF Truncate, Without
<1> HIDE DEF gone
<1>2. At(Truncate(tree, p, n), q) = IF gone(q) THEN 0 ELSE At(tree, q)
  BY <1>1 DEF At
<1> QED
  BY <1>2 DEF gone

LEMMA ValueMoved ==
  ASSUME NEW tree, IsObject(tree), NEW s \in Seq(Nat), NEW d \in Seq(Nat),
         ~IsPrefix(s, d), ~IsPrefix(d, s), NEW stays
  PROVE  LET after == Move(tree, s, d, stays)
         IN  /\ \A x \in Seq(Nat) : At(after, d \o x) = At(tree, s \o x)
             /\ \A x \in Seq(Nat) : At(after, s \o x) = IF x \in stays THEN At(tree, s \o x)
                                                         ELSE 0
             /\ \A q \in Seq(Nat) : ~IsPrefix(s, q) /\ ~IsPrefix(d, q) =>
                                      At(after, q) = At(tree, q)
<1> DEFINE Suffix(q, p) == SubSeq(q, Len(p) + 1, Len(q))
           kept == {q \in DOMAIN tree : /\ ~(IsPrefix(s, q) /\ Suffix(q, s) \notin stays)
                                        /\ ~IsPrefix(d, q)}
           moved == {d \o Suffix(q, s) : q \in {r \in DOMAIN tree : IsPrefix(s, r)}}
           after == Move(tree, s, d, stays)
<1>1. after = [q \in kept \union moved |->
                 IF q \in moved THEN tree[s \o Suffix(q, d)] ELSE tree[q]]
  <2>1. DOMAIN MovedOut(tree, s, stays) =
          {q \in DOMAIN tree : ~(IsPrefix(s, q) /\ Suffix(q, s) \notin stays)}
    BY DEF MovedOut, Without
  <2>2. kept = {q \in DOMAIN MovedOut(tree, s, stays) : ~IsPrefix(d, q)}
    BY <2>1
  <2> HIDE DEF kept
  <2> QED
    BY <2>2 DEF Move
<1>2. DOMAIN tree \subseteq Seq(Nat)
  BY DEF IsObject
<1>3. ASSUME NEW x \in Seq(Nat)
      PROVE  /\ d \o x \in moved <=> s \o x \in DOMAIN tree
             /\ d \o x \notin kept
             /\ Suffix(d \o x, d) = x
  <2>1. Suffix(d \o x, d) = x /\ Suffix(s \o x, s) = x
    BY SuffixOfConcat
  <2>2. ASSUME d \o x \in moved
        PROVE  s \o x \in DOMAIN tree
    <3>1. PICK r \in DOMAIN tree : IsPrefix(s, r) /\ d \o x = d \o Suffix(r, s)
      BY <2>2
    <3>2. Suffix(r, s) \in Seq(Nat) /\ r = s \o Suffix(r, s)
      BY <1>2, <3>1, SuffixMeaning, Zenon
    <3> DEFINE y == Suffix(r, s)
    <3> HIDE DEF y
    <3>3. y \in Seq(Nat) /\ d \o x = d \o y /\ r = s \o y
      BY <3>1, <3>2 DEF y
    <3>4. x = y
      BY <3>3, ConcatSimplifications
    <3> QED
      BY <3>3, <3>4
  <2>3. ASSUME s \o x \in DOMAIN tree
        PROVE  d \o x \in moved
    BY <2>1, <2>3, PrefixOfConcat
  <2>4. IsPrefix(d, d \o x)
    BY PrefixOfConcat
  <2> QED
    BY <2>1, <2>2, <2>3, <2>4
<1>4. ASSUME NEW q \in moved
      PROVE  \E x \in Seq(Nat) : q = d \o x
  <2>1. PICK r \in DOMAIN tree : IsPrefix(s, r) /\ q = d \o Suffix(r, s)
    OBVIOUS
  <2>2. Suffix(r, s) \in Seq(Nat)
    BY <1>2, <2>1, SuffixMeaning, Zenon
  <2> QED
    BY <2>1, <2>2
<1>5. \A q \in moved : IsPrefix(d, q)
  BY <1>4, PrefixOfConcat
<1> HIDE DEF moved, after
<1>6. ASSUME NEW x \in Seq(Nat)
      PROVE  At(after, d \o x) = At(tree, s \o x)
  BY <1>1, <1>3 DEF At
<1>7. ASSUME NEW x \in Seq(Nat)
      PROVE  At(after, s \o x) = IF x \in stays THEN At(tree, s \o x) ELSE 0
  <2> DEFINE q == s \o x
  <2>0. q \in Seq(Nat) /\ IsPrefix(s, q) /\ Suffix(q, s) = x
    BY PrefixOfConcat, SuffixOfConcat
  <2> HIDE DEF q
  <2>1. ~IsPrefix(d, q)
    <3> SUFFICES ASSUME IsPrefix(d, q) PROVE FALSE
      OBVIOUS
    <3>1. /\ Len(s) <= Len(q) /\ \A i \in 1..Len(s) : s[i] = q[i]
          /\ Len(d) <= Len(q) /\ \A i \in 1..Len(d) : d[i] = q[i]
      BY <2>0, PrefixMeaning
    <3>2. Len(s) \in Nat /\ Len(d) \in Nat
      OBVIOUS
    <3>3. CASE Len(s) <= Len(d)
      BY <3>1, <3>2, <3>3, PrefixMeaning
    <3>4. CASE Len(d) <= Len(s)
      BY <3>1, <3>2, <3>4, PrefixMeaning
    <3> QED
      BY <3>2, <3>3, <3>4
  <2>2. q \in kept <=> q \in DOMAIN tree /\ x \in stays
    BY <2>0, <2>1
  <2> HIDE DEF kept
  <2>3. At(after, q) = IF x \in stays THEN At(tree, q) ELSE 0
    BY <1>1, <1>5, <2>1, <2>2 DEF At
  <2> QED
    BY <2>3 DEF q
<1>8. ASSUME NEW q \in Seq(Nat), ~IsPrefix(s, q), ~IsPrefix(d, q)
      PROVE  At(after, q) = At(tree, q)
  BY <1>1, <1>5, <1>8 DEF At
<1> QED
  BY <1>6, <1>7, <1>8 DEF after

\* Objects with the same content everywhere are the same.
LEMMA EqualObjects ==
  ASSUME NEW a, NEW b, IsObject(a), IsObject(b),
         \A q \in Seq(Nat) : At(a, q) = At(b, q)
  PROVE  a = b
<1>1. DOMAIN a = DOMAIN b
  BY DEF IsObject, At
<1>2. \A q \in DOMAIN a : a[q] = b[q]
  BY <1>1 DEF IsObject, At
<1>3. a \in [DOMAIN a -> Nat \ {0}] /\ b \in [DOMAIN a -> Nat \ {0}]
  BY <1>1 DEF IsObject
<1> QED
  BY <1>2, <1>3

-----------------------------------------------------------------------------
(* The shape of objects.                                                   *)

LEMMA ContentType ==
  ASSUME NEW tree, IsObject(tree), NEW q
  PROVE  /\ At(tree, q) \in Nat
         /\ q \in DOMAIN tree => At(tree, q) = tree[q] /\ tree[q] # 0
         /\ q \notin DOMAIN tree => At(tree, q) = 0
BY DEF IsObject, At

LEMMA PartType ==
  ASSUME NEW t \in Types, NEW p \in Seq(Nat)
  PROVE  /\ Part(t, p) \in Parts
         /\ Part(t, p).type = t /\ Part(t, p).path = p
BY DEF Part, Parts

LEMMA PartIsRecord ==
  ASSUME NEW part \in Parts
  PROVE  /\ part.type \in Types /\ part.path \in Seq(Nat)
         /\ part = Part(part.type, part.path)
BY DEF Part, Parts

LEMMA KeysMeaning ==
  ASSUME NEW tree, IsObject(tree), NEW p \in Seq(Nat)
  PROVE  /\ Keys(tree, p) \subseteq Nat
         /\ \A k \in Nat : k \in Keys(tree, p) <=> At(tree, p \o <<k + 1>>) # 0
<1> DEFINE nodes == {r \in DOMAIN tree : Len(r) = Len(p) + 1 /\ IsPrefix(p, r)
                                          /\ r[Len(r)] # 0}
<1>1. Keys(tree, p) = {q[Len(p) + 1] - 1 : q \in nodes}
  BY DEF Keys
<1>2. ASSUME NEW q \in nodes
      PROVE  /\ q[Len(p) + 1] - 1 \in Nat
             /\ q = p \o <<(q[Len(p) + 1] - 1) + 1>>
  <2>1. q \in Seq(Nat) /\ Len(q) = Len(p) + 1 /\ IsPrefix(p, q) /\ q[Len(q)] # 0
    BY DEF IsObject
  <2> HIDE DEF nodes
  <2>2. PICK x \in Seq(Nat) : q = p \o x
    BY <2>1, PathBelow
  <2>3. Len(p) \in Nat /\ Len(x) \in Nat /\ Len(q) = Len(p) + Len(x)
    BY <2>2
  <2> DEFINE a == Len(p)
             b == Len(x)
  <2>6. a \in Nat /\ b \in Nat /\ a + b = a + 1
    BY <2>1, <2>3
  <2>4. Len(x) = 1 /\ x = <<x[1]>> /\ x[1] \in Nat /\ x # << >>
    <3>1. Len(x) = 1
      <4> HIDE DEF a, b
      <4>1. b = 1
        BY <2>6
      <4> QED
        BY <4>1 DEF b
    <3>2. x[1] \in Nat /\ x # << >>
      <4>1. 1 \in 1..Len(x)
        BY <3>1
      <4>2. x # << >>
        <5>1. x = << >> => Len(x) = 0
          OBVIOUS
        <5>2. Len(x) # 0
          BY <3>1
        <5> QED
          BY <5>1, <5>2
      <4> QED
        BY <4>1, <4>2, ElementOfSeq
    <3>3. /\ <<x[1]>> \in Seq(Nat) /\ Len(<<x[1]>>) = Len(x)
          /\ \A i \in 1..Len(x) : x[i] = <<x[1]>>[i]
      BY <3>1, <3>2
    <3>4. x = <<x[1]>>
      BY <3>3, SeqEqual
    <3> QED
      BY <3>1, <3>2, <3>4
  <2>5. q[Len(p) + 1] = x[1]
    BY <2>2, <2>4, BelowChild
  <2> QED
    BY <2>1, <2>2, <2>4, <2>5
<1>3. ASSUME NEW k \in Nat, p \o <<k + 1>> \in DOMAIN tree
      PROVE  p \o <<k + 1>> \in nodes /\ (p \o <<k + 1>>)[Len(p) + 1] - 1 = k
  <2> DEFINE q == p \o <<k + 1>>
  <2>1. k + 1 \in Nat /\ k + 1 # 0
    OBVIOUS
  <2>2. Len(q) = Len(p) + 1 /\ q[Len(p) + 1] = k + 1 /\ IsPrefix(p, q)
    BY ChildPath
  <2> HIDE DEF q
  <2>3. q \in DOMAIN tree
    BY <1>3 DEF q
  <2>4. q \in nodes /\ q[Len(p) + 1] - 1 = k
    BY <2>1, <2>2, <2>3
  <2> QED
    BY <2>4 DEF q
<1> HIDE DEF nodes
<1>4. Keys(tree, p) \subseteq Nat
  BY <1>1, <1>2
<1>5. ASSUME NEW k \in Nat
      PROVE  k \in Keys(tree, p) <=> p \o <<k + 1>> \in DOMAIN tree
  <2>1. ASSUME k \in Keys(tree, p)
        PROVE  p \o <<k + 1>> \in DOMAIN tree
    <3>1. PICK q \in nodes : k = q[Len(p) + 1] - 1
      BY <1>1, <2>1
    <3>2. q = p \o <<k + 1>>
      BY <1>2, <3>1
    <3> QED
      BY <3>2 DEF nodes
  <2>2. ASSUME p \o <<k + 1>> \in DOMAIN tree
        PROVE  k \in Keys(tree, p)
    BY <1>1, <1>3, <2>2
  <2> QED
    BY <2>1, <2>2
<1> QED
  BY <1>4, <1>5, ContentType

\* The parts of a part are below it.
LEMMA PartsOfType ==
  ASSUME NEW tree, IsObject(tree), NEW part \in Parts, NEW sub \in PartsOf(tree, part)
  PROVE  /\ sub \in Parts
         /\ IsPrefix(part.path, sub.path)
         /\ part.type.kind # "as_compact" =>
              \E i \in Nat \ {0} : IsPrefix(part.path \o <<i>>, sub.path)
<1> DEFINE t == part.type
           p == part.path
           v == At(tree, p)
<1>1. t \in Types /\ p \in Seq(Nat) /\ v \in Nat /\ t.of \in Seq(Types) /\ t.n \in Nat
  BY ContentType, TypesAssumption DEF Parts
<1>2. t.kind \in Wrappers => t.of[1] \in Types
  BY <1>1, TypesAssumption
<1>3. ASSUME NEW u \in Types, NEW i \in Nat, i # 0, sub = Part(u, p \o <<i>>)
      PROVE  /\ sub \in Parts /\ IsPrefix(p, sub.path)
             /\ \E j \in Nat \ {0} : IsPrefix(p \o <<j>>, sub.path)
  <2>1. p \o <<i>> \in Seq(Nat) /\ IsPrefix(p, p \o <<i>>)
    BY <1>1, <1>3, ChildPath
  <2>2. IsPrefix(p \o <<i>>, p \o <<i>>)
    BY <2>1, PrefixOfItself
  <2> QED
    BY <1>3, <2>1, <2>2, PartType
<1>4. CASE t.kind = "as_compact"
  <2>1. sub = Part(t.of[1], p)
    BY <1>4 DEF PartsOf
  <2>2. t.of[1] \in Types
    BY <1>2, <1>4 DEF Wrappers
  <2> HIDE DEF t, p
  <2> QED
    BY <1>1, <1>4, <2>1, <2>2, PartType, PrefixOfItself DEF t, p
<1>5. CASE t.kind \in {"optional", "pointer", "resizeable", "extensible", "array"}
  <2>1. \E i \in Nat \ {0} : sub = Part(t.of[1], p \o <<i>>)
    <3>1. PICK n \in {v, t.n} : sub \in {Part(t.of[1], p \o <<i>>) : i \in 1..n}
      <4>1. CASE t.kind = "array"
        BY <4>1 DEF PartsOf
      <4>2. CASE t.kind # "array"
        BY <1>5, <4>2 DEF PartsOf
      <4> QED
        BY <4>1, <4>2
    <3>2. PICK i \in 1..n : sub = Part(t.of[1], p \o <<i>>)
      BY <3>1
    <3>3. i \in Nat \ {0}
      BY <1>1, <3>1
    <3> QED
      BY <3>2, <3>3
  <2>2. t.of[1] \in Types
    BY <1>2, <1>5 DEF Wrappers
  <2> QED
    BY <1>3, <2>1, <2>2
<1>6. CASE t.kind \in {"product", "variant", "boostvariant"}
  <2>1. \E i \in DOMAIN t.of : sub = Part(t.of[i], p \o <<i>>)
    <3>1. CASE t.kind = "product"
      BY <3>1 DEF PartsOf
    <3>2. CASE t.kind # "product"
      BY <1>6, <3>2 DEF PartsOf
    <3> QED
      BY <3>1, <3>2
  <2>2. \A i \in DOMAIN t.of : t.of[i] \in Types /\ i \in Nat /\ i # 0
    BY <1>1
  <2> QED
    BY <1>3, <2>1, <2>2
<1>7. CASE t.kind = "random"
  <2>1. PICK k \in Keys(tree, p) : sub = Part(t.of[1], p \o <<k + 1, 1>>)
    BY <1>7 DEF PartsOf
  <2>2. k \in Nat /\ k + 1 \in Nat \ {0}
    BY <1>1, KeysMeaning
  <2>3. t.of[1] \in Types
    BY <1>2, <1>7 DEF Wrappers
  <2> DEFINE x == <<k + 1, 1>>
             i == k + 1
  <2>4. x \in Seq(Nat) /\ x # << >> /\ x[1] = i /\ i \in Nat \ {0}
    BY <2>2
  <2> HIDE DEF t, p, x, i
  <2>5. /\ p \o x \in Seq(Nat)
        /\ IsPrefix(p \o <<i>>, p \o x)
        /\ IsPrefix(p, p \o x)
    BY <1>1, <2>4, BelowChild, PrefixOfConcat
  <2>6. sub = Part(t.of[1], p \o x)
    BY <2>1 DEF x
  <2>7. sub \in Parts /\ sub.path = p \o x
    BY <2>3, <2>5, <2>6, PartType
  <2> QED
    BY <2>4, <2>5, <2>7 DEF p
<1>8. CASE t.kind \notin {"as_compact", "optional", "pointer", "resizeable", "extensible",
                         "array", "product", "variant", "boostvariant", "random"}
  BY <1>8 DEF PartsOf
<1> QED
  BY <1>3, <1>4, <1>5, <1>6, <1>7, <1>8

LEMMA ShapedParts ==
  ASSUME NEW tree, IsObject(tree), NEW t, NEW p, IsShaped(tree, t, p)
  PROVE  /\ Part(t, p) \in Parts
         /\ HasShape(tree, Part(t, p))
         /\ \A sub \in PartsOf(tree, Part(t, p)) : IsShaped(tree, sub.type, sub.path)
<1>1. PICK parts \in SUBSET Parts :
        /\ Part(t, p) \in parts
        /\ \A part \in parts : PartsOf(tree, part) \subseteq parts /\ HasShape(tree, part)
  BY DEF IsShaped
<1>2. ASSUME NEW sub \in PartsOf(tree, Part(t, p))
      PROVE  IsShaped(tree, sub.type, sub.path)
  <2>1. sub \in parts /\ sub = Part(sub.type, sub.path)
    BY <1>1, PartIsRecord
  <2> QED
    BY <1>1, <2>1 DEF IsShaped
<1> QED
  BY <1>1, <1>2

LEMMA TypedParts ==
  ASSUME NEW tree, IsObject(tree), NEW t, NEW p, IsTyped(tree, t, p)
  PROVE  /\ Part(t, p) \in Parts
         /\ HasShape(tree, Part(t, p)) /\ HasValue(tree, Part(t, p))
         /\ \A sub \in PartsOf(tree, Part(t, p)) : IsTyped(tree, sub.type, sub.path)
<1>1. PICK parts \in SUBSET Parts :
        /\ Part(t, p) \in parts
        /\ \A part \in parts : /\ PartsOf(tree, part) \subseteq parts
                               /\ HasShape(tree, part) /\ HasValue(tree, part)
  BY DEF IsTyped
<1>2. ASSUME NEW sub \in PartsOf(tree, Part(t, p))
      PROVE  IsTyped(tree, sub.type, sub.path)
  <2>1. sub \in parts /\ sub = Part(sub.type, sub.path)
    BY <1>1, PartIsRecord
  <2> QED
    BY <1>1, <2>1 DEF IsTyped
<1> QED
  BY <1>1, <1>2

LEMMA TypedIsShaped ==
  ASSUME NEW tree, NEW t, NEW p, IsTyped(tree, t, p)
  PROVE  IsShaped(tree, t, p)
BY DEF IsTyped, IsShaped

\* A sub-object in which there is nothing has the shape of any type.
LEMMA EmptyIsShaped ==
  ASSUME NEW tree, IsObject(tree), NEW t \in Types, NEW p \in Seq(Nat),
         \A x \in Seq(Nat) : At(tree, p \o x) = 0
  PROVE  IsShaped(tree, t, p)
<1> DEFINE parts == {part \in Parts : IsPrefix(p, part.path)}
<1>1. Part(t, p) \in parts
  BY PartType, PrefixOfItself
<1>2. ASSUME NEW part \in parts
      PROVE  PartsOf(tree, part) \subseteq parts /\ HasShape(tree, part)
  <2>1. part \in Parts /\ part.path \in Seq(Nat) /\ IsPrefix(p, part.path)
    BY PartIsRecord
  <2>2. ASSUME NEW sub \in PartsOf(tree, part)
        PROVE  sub \in parts
    <3>1. sub \in Parts /\ IsPrefix(part.path, sub.path) /\ sub.path \in Seq(Nat)
      BY <2>1, PartsOfType, PartIsRecord
    <3> QED
      BY <2>1, <3>1, PrefixTransitive
  <2>3. ASSUME NEW q \in Seq(Nat), IsPrefix(p, q)
        PROVE  At(tree, q) = 0
    <3>1. PICK x \in Seq(Nat) : q = p \o x
      BY <2>3, PathBelow
    <3> QED
      BY <3>1
  <2>4. At(tree, part.path) = 0
    BY <2>1, <2>3
  <2>5. ASSUME NEW q \in DOMAIN tree, IsStrictPrefix(part.path, q)
        PROVE  FALSE
    <3>1. q \in Seq(Nat) /\ At(tree, q) # 0
      BY ContentType DEF IsObject
    <3>2. IsPrefix(p, q)
      BY <2>1, <2>5, <3>1, PrefixTransitive DEF IsStrictPrefix
    <3> QED
      BY <2>3, <3>1, <3>2
  <2> QED
    BY <2>2, <2>4, <2>5 DEF HasShape
<1>3. parts \in SUBSET Parts
  OBVIOUS
<1> HIDE DEF parts
<1> QED
  BY <1>1, <1>2, <1>3 DEF IsShaped

\* The shape of a sub-object depends on nothing outside it.
LEMMA ShapedElsewhere ==
  ASSUME NEW a, IsObject(a), NEW b, IsObject(b), NEW t, NEW p, IsShaped(a, t, p),
         \A x \in Seq(Nat) : At(b, p \o x) = At(a, p \o x)
  PROVE  IsShaped(b, t, p)
<1>1. PICK all \in SUBSET Parts :
        /\ Part(t, p) \in all
        /\ \A part \in all : PartsOf(a, part) \subseteq all /\ HasShape(a, part)
  BY DEF IsShaped
<1>2. t \in Types /\ p \in Seq(Nat)
  BY <1>1 DEF Part, Parts
<1> DEFINE parts == {part \in all : IsPrefix(p, part.path)}
<1>3. Part(t, p) \in parts
  BY <1>1, <1>2, PartType, PrefixOfItself
<1>4. ASSUME NEW q \in Seq(Nat), IsPrefix(p, q)
      PROVE  At(b, q) = At(a, q)
  <2>1. PICK x \in Seq(Nat) : q = p \o x
    BY <1>2, <1>4, PathBelow
  <2>2. At(b, p \o x) = At(a, p \o x)
    OBVIOUS
  <2> QED
    BY <2>1, <2>2
<1>5. ASSUME NEW part \in parts
      PROVE  PartsOf(b, part) \subseteq parts /\ HasShape(b, part)
  <2>1. /\ part \in Parts /\ part.path \in Seq(Nat) /\ IsPrefix(p, part.path)
        /\ part.type \in Types /\ part \in all
    BY PartIsRecord
  <2> DEFINE r == part.path
  <2>0. r \in Seq(Nat)
    BY <2>1
  <2>2. \A q \in Seq(Nat) : IsPrefix(r, q) => At(b, q) = At(a, q)
    BY <1>2, <1>4, <2>1, PrefixTransitive
  <2>3. At(b, r) = At(a, r)
    BY <2>1, <2>2, PrefixOfItself
  <2>4. Keys(b, r) = Keys(a, r)
    <3> HIDE DEF r
    <3>1. ASSUME NEW k \in Nat
          PROVE  At(b, r \o <<k + 1>>) = At(a, r \o <<k + 1>>)
      <4>1. k + 1 \in Nat
        OBVIOUS
      <4>2. r \o <<k + 1>> \in Seq(Nat) /\ IsPrefix(r, r \o <<k + 1>>)
        BY <2>0, <4>1, ChildPath
      <4> QED
        BY <2>2, <4>2
    <3>2. /\ Keys(b, r) \subseteq Nat /\ Keys(a, r) \subseteq Nat
          /\ \A k \in Nat : k \in Keys(b, r) <=> At(b, r \o <<k + 1>>) # 0
          /\ \A k \in Nat : k \in Keys(a, r) <=> At(a, r \o <<k + 1>>) # 0
      BY <2>0, KeysMeaning
    <3> QED
      BY <3>1, <3>2
  <2>5. PartsOf(b, part) = PartsOf(a, part) /\ Flags(b, part) = Flags(a, part)
    BY <2>3, <2>4 DEF PartsOf, Flags
  <2>6. ASSUME NEW sub \in PartsOf(b, part)
        PROVE  sub \in parts
    <3>1. sub \in all /\ IsPrefix(r, sub.path) /\ sub.path \in Seq(Nat)
      BY <1>1, <2>1, <2>5, PartsOfType, PartIsRecord
    <3> QED
      BY <1>2, <2>1, <3>1, PrefixTransitive
  <2>7. HasShape(a, part)
    BY <1>1, <2>1
  <2>8. ASSUME NEW q \in DOMAIN b, IsStrictPrefix(r, q)
        PROVE  q \in DOMAIN a /\ b[q] = a[q]
    <3>1. q \in Seq(Nat) /\ IsPrefix(r, q)
      BY <2>8 DEF IsObject, IsStrictPrefix
    <3>2. At(b, q) = At(a, q)
      BY <2>2, <3>1
    <3> QED
      BY <3>2, ContentType
  <2>9. HasShape(b, part)
    BY <2>3, <2>5, <2>7, <2>8 DEF HasShape
  <2> QED
    BY <2>6, <2>9
<1>6. parts \in SUBSET Parts
  OBVIOUS
<1> HIDE DEF parts
<1> QED
  BY <1>3, <1>5, <1>6 DEF IsShaped

\* What is below a part is a flag, or belongs to one of its parts.
LEMMA NothingElse ==
  ASSUME NEW tree, IsObject(tree), NEW t \in Types, NEW p \in Seq(Nat),
         HasShape(tree, Part(t, p)), NEW x \in Seq(Nat), x # << >>
  PROVE  \/ At(tree, p \o x) = 0
         \/ p \o x \in Flags(tree, Part(t, p)) /\ At(tree, p \o x) = 1
         \/ \E sub \in PartsOf(tree, Part(t, p)) : IsPrefix(sub.path, p \o x)
<1>1. Part(t, p).path = p
  BY PartType
<1>2. IsStrictPrefix(p, p \o x) /\ p \o x \in Seq(Nat)
  <2>1. 0 \in Nat
    OBVIOUS
  <2> QED
    BY <2>1, BelowChild
<1>3. CASE p \o x \in DOMAIN tree
  BY <1>1, <1>2, <1>3, ContentType DEF HasShape
<1>4. CASE p \o x \notin DOMAIN tree
  BY <1>4, ContentType
<1> QED
  BY <1>3, <1>4

Leaves == {"bool", "int", "big", "enum", "compact", "bigcompact"}

LEMMA LeafShape ==
  ASSUME NEW tree, IsObject(tree), NEW t, NEW p, IsShaped(tree, t, p),
         t.kind \in Leaves \union {"as_compact"}
  PROVE  \A x \in Seq(Nat) : x # << >> => At(tree, p \o x) = 0
<1>1. ASSUME NEW u, IsShaped(tree, u, p), u.kind \in Leaves,
             NEW x \in Seq(Nat), x # << >>
      PROVE  At(tree, p \o x) = 0
  <2>1. Part(u, p) \in Parts /\ HasShape(tree, Part(u, p))
    BY <1>1, ShapedParts
  <2>2. u \in Types /\ p \in Seq(Nat)
    BY <2>1 DEF Part, Parts
  <2>3. PartsOf(tree, Part(u, p)) = {} /\ Flags(tree, Part(u, p)) = {}
    BY <1>1, <2>2, PartType DEF PartsOf, Flags, Leaves
  <2> QED
    BY <1>1, <2>1, <2>2, <2>3, NothingElse
<1>2. CASE t.kind \in Leaves
  BY <1>1, <1>2
<1>3. CASE t.kind = "as_compact"
  <2>1. Part(t, p) \in Parts
    BY ShapedParts
  <2>2. t \in Types /\ p \in Seq(Nat)
    BY <2>1 DEF Part, Parts
  <2>3. t.of[1] \in Types /\ t.of[1].kind \in Leaves
    BY <1>3, <2>2, TypesAssumption DEF Leaves, Wrappers
  <2>4. PartsOf(tree, Part(t, p)) = {Part(t.of[1], p)}
    BY <1>3, <2>2, PartType DEF PartsOf
  <2>5. IsShaped(tree, Part(t.of[1], p).type, Part(t.of[1], p).path)
    BY <2>4, ShapedParts
  <2>6. IsShaped(tree, t.of[1], p)
    BY <2>2, <2>3, <2>5, PartType
  <2> QED
    BY <1>1, <2>3, <2>6
<1> QED
  BY <1>2, <1>3

LEMMA FlagShape ==
  ASSUME NEW tree, IsObject(tree), NEW t, NEW p, IsShaped(tree, t, p),
         t.kind \in {"optbool", "bitvec"}
  PROVE  \A x \in Seq(Nat) : x # << >> =>
           \/ At(tree, p \o x) = 0
           \/ At(tree, p \o x) = 1 /\ \E i \in 1..At(tree, p) : x = <<i>>
<1>1. Part(t, p) \in Parts /\ HasShape(tree, Part(t, p))
  BY ShapedParts
<1>2. t \in Types /\ p \in Seq(Nat)
  BY <1>1 DEF Part, Parts
<1>3. /\ PartsOf(tree, Part(t, p)) = {}
      /\ Flags(tree, Part(t, p)) = {p \o <<i>> : i \in 1..At(tree, p)}
  BY <1>2, PartType DEF PartsOf, Flags
<1> SUFFICES ASSUME NEW x \in Seq(Nat), x # << >>, At(tree, p \o x) # 0
             PROVE  At(tree, p \o x) = 1 /\ \E i \in 1..At(tree, p) : x = <<i>>
  OBVIOUS
<1>4. p \o x \in Flags(tree, Part(t, p)) /\ At(tree, p \o x) = 1
  BY <1>1, <1>2, <1>3, NothingElse
<1>5. PICK i \in 1..At(tree, p) : p \o x = p \o <<i>>
  BY <1>3, <1>4
<1>6. <<i>> \in Seq(Nat)
  <2>1. At(tree, p) \in Nat
    BY ContentType
  <2> QED
    BY <2>1
<1>7. x = <<i>>
  BY <1>2, <1>5, <1>6, ConcatSimplifications
<1> QED
  BY <1>4, <1>7

-----------------------------------------------------------------------------
(* Type correctness.                                                       *)

LEMMA PartElements ==
  ASSUME NEW part \in Parts, part.type.kind \in Wrappers, NEW n \in Nat
  PROVE  Elements(part, n) \in Seq(Parts)
<1>1. part.type.of[1] \in Types /\ part.path \in Seq(Nat)
  BY TypesAssumption DEF Parts
<1>2. \A i \in 1..n : part.path \o <<i>> \in Seq(Nat)
  BY <1>1
<1>3. Elements(part, n) \in [1..n -> Parts]
  BY <1>1, <1>2, PartType DEF Elements
<1> QED
  BY <1>3, FunctionIsSeq

LEMMA NoBytes == << >> \in Seq(Byte) /\ << >> \in Seq(Parts)
OBVIOUS

LEMMA PackedType ==
  ASSUME NEW tree, NEW p, NEW size \in Nat
  PROVE  /\ Packed(tree, p, size) \in Seq(Byte)
         /\ Len(Packed(tree, p, size)) = (size + ByteBits - 1) \div ByteBits
<1> DEFINE n == (size + ByteBits - 1) \div ByteBits
           bits(k) == {b \in 0..(ByteBits - 1) :
                         At(tree, p \o <<ByteBits * (k - 1) + b + 1>>) # 0}
<1>1. n \in Nat
  <2>1. ByteBits \in Nat \ {0} /\ size + ByteBits - 1 \in Nat
    BY ByteAssumption
  <2> QED
    BY <2>1, DivisionType
<1>2. \A k \in 1..n : ByteWith(bits(k)) \in Byte
  <2>1. \A k \in 1..n : bits(k) \subseteq 0..(ByteBits - 1)
    OBVIOUS
  <2> HIDE DEF bits
  <2> QED
    BY <2>1, BitsAssumption DEF ByteWith, BitOf
<1>3. Packed(tree, p, size) = [k \in 1..n |-> ByteWith(bits(k))]
  BY DEF Packed
<1> HIDE DEF n, bits
<1>4. Packed(tree, p, size) \in [1..n -> Byte] /\ DOMAIN Packed(tree, p, size) = 1..n
  BY <1>2, <1>3
<1>5. Packed(tree, p, size) \in Seq(Byte)
  BY <1>1, <1>4, FunctionIsSeq
<1>6. Len(Packed(tree, p, size)) = n
  BY <1>1, <1>4, <1>5
<1> QED
  BY <1>5, <1>6 DEF n

\* What an operator puts are bytes, and what it calls are operators for parts.
LEMMA EncodesType ==
  ASSUME NEW tree, IsObject(tree), NEW part \in Parts, NEW bytes, NEW calls,
         Encodes(tree, part, bytes, calls)
  PROVE  bytes \in Seq(Byte) /\ calls \in Seq(Parts)
<1> DEFINE t == part.type
           p == part.path
           v == At(tree, p)
<1>1. /\ t \in Types /\ p \in Seq(Nat) /\ v \in Nat
      /\ t.n \in Nat /\ t.of \in Seq(Types)
  BY ContentType, TypesAssumption DEF Parts
<1>2. 0 \in Byte /\ 1 \in Byte /\ 2 \in Byte
  BY LimitsType DEF Byte
<1>3. /\ EncodeCompactOfNative(v).bytes \in Seq(Byte)
      /\ EncodeCompactOfBig(v).bytes \in Seq(Byte)
  BY <1>1, EncodeCompactType
<1>4. CASE t.kind \in {"bool", "optbool", "compact", "bigcompact"}
  <2>1. calls = << >>
    BY <1>4 DEF Encodes
  <2>2. \/ bytes \in {<<0>>, <<1>>, <<2>>}
        \/ bytes \in {EncodeCompactOfNative(v).bytes, EncodeCompactOfBig(v).bytes}
    BY <1>4 DEF Encodes
  <2>3. <<0>> \in Seq(Byte) /\ <<1>> \in Seq(Byte) /\ <<2>> \in Seq(Byte)
    BY <1>2
  <2> QED
    BY <1>3, <2>1, <2>2, <2>3, NoBytes
<1>5. CASE t.kind \in {"int", "big", "enum"}
  <2>1. bytes = LittleEndian(v, t.n) /\ calls = << >>
    BY <1>5 DEF Encodes
  <2>2. ByteBits * (t.n - 1) < MaxBits
    BY <1>1, <1>5, EncoderWidthAssumption
  <2> QED
    BY <1>1, <2>1, <2>2, LittleEndianType, NoBytes
<1>6. CASE t.kind = "as_compact"
  <2>1. bytes = << >> /\ calls = <<Part(t.of[1], p)>>
    BY <1>6 DEF Encodes
  <2>2. t.of[1] \in Types
    BY <1>1, <1>6, TypesAssumption DEF Wrappers
  <2>3. Part(t.of[1], p) \in Parts
    BY <1>1, <2>2, PartType
  <2> QED
    BY <2>1, <2>3, NoBytes
<1>7. CASE t.kind \in {"optional", "pointer", "array", "resizeable", "extensible"}
  <2>1. \A n \in Nat : Elements(part, n) \in Seq(Parts)
    BY <1>7, PartElements DEF Wrappers
  <2>2. calls \in {<< >>, Elements(part, 1), Elements(part, t.n), Elements(part, v)}
    BY <1>7 DEF Encodes
  <2>3. bytes \in {<<0>>, <<1>>, << >>, EncodeCompactOfNative(v).bytes}
    BY <1>7 DEF Encodes
  <2>4. <<0>> \in Seq(Byte) /\ <<1>> \in Seq(Byte)
    BY <1>2
  <2> QED
    BY <1>1, <1>3, <2>1, <2>2, <2>3, <2>4, NoBytes
<1>8. CASE t.kind = "product"
  <2>1. bytes = << >> /\ calls = [i \in DOMAIN t.of |-> Part(t.of[i], p \o <<i>>)]
    BY <1>8 DEF Encodes
  <2>2. DOMAIN t.of = 1..Len(t.of) /\ Len(t.of) \in Nat
    BY <1>1
  <2>3. ASSUME NEW i \in 1..Len(t.of)
        PROVE  Part(t.of[i], p \o <<i>>) \in Parts
    <3>1. t.of[i] \in Types /\ p \o <<i>> \in Seq(Nat)
      BY <1>1, <2>2
    <3> QED
      BY <3>1, PartType
  <2>4. calls \in [1..Len(t.of) -> Parts]
    BY <2>1, <2>2, <2>3
  <2> QED
    BY <2>1, <2>2, <2>4, NoBytes, FunctionIsSeq
<1>9. CASE t.kind = "random"
  <2>1. PICK keys \in Iterations(Keys(tree, p), v) :
          /\ bytes = EncodeCompactOfNative(v).bytes
          /\ calls = [i \in 1..v |-> Part(t.of[1], p \o <<keys[i] + 1, 1>>)]
    BY <1>9 DEF Encodes
  <2>2. t.of[1] \in Types
    BY <1>1, <1>9, TypesAssumption DEF Wrappers
  <2>3. ASSUME NEW i \in 1..v
        PROVE  Part(t.of[1], p \o <<keys[i] + 1, 1>>) \in Parts
    <3>1. keys[i] \in Nat
      BY <1>1, KeysMeaning DEF Iterations
    <3>2. p \o <<keys[i] + 1, 1>> \in Seq(Nat)
      BY <1>1, <3>1
    <3> QED
      BY <2>2, <3>2, PartType
  <2>4. calls \in [1..v -> Parts]
    BY <2>1, <2>3
  <2> QED
    BY <1>1, <1>3, <2>1, <2>4, FunctionIsSeq
<1>10. CASE t.kind = "bitvec"
  <2>1. bytes = EncodeCompactOfNative(v).bytes \o Packed(tree, p, v) /\ calls = << >>
    BY <1>10 DEF Encodes
  <2>2. Packed(tree, p, v) \in Seq(Byte)
    BY <1>1, PackedType
  <2> QED
    BY <1>3, <2>1, <2>2, NoBytes
<1>11. CASE t.kind \in {"variant", "boostvariant"}
  <2>1. CASE bytes = << >> /\ calls = << >>
    BY <2>1, NoBytes
  <2>2. CASE /\ v + 1 \in DOMAIN t.of /\ bytes = <<v>>
             /\ calls = <<Part(t.of[v + 1], p \o <<v + 1>>)>>
    <3>1. v \in Byte
      BY <1>1, <1>11, <2>2, EncoderWidthAssumption, ByteAssumption DEF Byte
    <3>2. t.of[v + 1] \in Types /\ p \o <<v + 1>> \in Seq(Nat)
      BY <1>1, <2>2
    <3>3. Part(t.of[v + 1], p \o <<v + 1>>) \in Parts
      BY <3>2, PartType
    <3> QED
      BY <2>2, <3>1, <3>3
  <2> QED
    BY <1>11, <2>1, <2>2 DEF Encodes
<1> QED
  BY <1>4, <1>5, <1>6, <1>7, <1>8, <1>9, <1>10, <1>11 DEF Encodes

\* The inductive invariant: that of the decoder, with the types of the rest.
CodecIInv ==
  /\ phase \in {"encoding", "decoding", "reencoding"}
  /\ IsObject(object)
  /\ Encoder!TypeOK
  /\ IInv

LEMMA EncodeKeepsType ==
  ASSUME Encoder!TypeOK, Encoder!Operator
  PROVE  Encoder!TypeOK'
<1>0. /\ stream \in Seq(Byte) /\ bytes_written \in Nat /\ IsObject(source)
      /\ enc_pending \in Seq(Parts)
      /\ enc_outcome \in Encoder!EncodeErrors \union {"none"}
  BY EncoderOperators DEF Encoder!TypeOK
<1>1. Head(enc_pending) \in Parts /\ Tail(enc_pending) \in Seq(Parts)
  BY <1>0, EncoderStep, HeadTailType
<1>2. ASSUME NEW bytes, NEW calls, Encodes(source, Head(enc_pending), bytes, calls),
             EncoderPuts(bytes, calls)
      PROVE  Encoder!TypeOK'
  <2>1. bytes \in Seq(Byte) /\ calls \in Seq(Parts)
    BY <1>0, <1>1, <1>2, EncodesType
  <2>2. /\ stream \o bytes \in Seq(Byte) /\ bytes_written + Len(bytes) \in Nat
        /\ calls \o Tail(enc_pending) \in Seq(Parts)
    BY <1>0, <1>1, <2>1
  <2> QED
    BY <1>0, <1>2, <2>2, EncoderOperators DEF EncoderPuts, Encoder!TypeOK, IsObject,
       Encoder!IsObject
<1>3. ASSUME NEW error \in Encoder!EncodeErrors, EncoderRaises(error)
      PROVE  Encoder!TypeOK'
  BY <1>0, <1>3, NoBytes, EncoderOperators DEF EncoderRaises, Encoder!TypeOK, IsObject,
     Encoder!IsObject
<1> QED
  BY <1>2, <1>3, EncoderStep

LEMMA CodecInitInv ==
  ASSUME CodecInit
  PROVE  CodecIInv
<1>1. IsObject(Default) /\ << >> \in ByteStrings /\ 0 \in 0..0
  <2>1. Len(<< >>) = 0 /\ << >> \in Seq(Byte)
    OBVIOUS
  <2>2. SizeMod \in Nat /\ 0 < SizeMod
    BY SpansAssumption, ByteAssumption DEF MaxBigBytes, Quarter
  <2> QED
    BY <2>1, <2>2 DEF Default, IsObject, ByteStrings
<1>2. CASE InitSend
  <2>1. PICK c \in Calls :
          /\ phase = "encoding" /\ object = c.object
          /\ source = c.object /\ stream = << >> /\ bytes_written = 0
          /\ enc_pending = EncodeCall(c.type) /\ enc_outcome = "none"
          /\ type = c.type
          /\ span = << >> /\ current_index = 0 /\ target = Default
          /\ pending = << >> /\ outcome = "idle"
    BY <1>2 DEF InitSend
  <2>2. type \in Requests /\ IsObject(object) /\ type \in Types
    BY <2>1, CodecAssumption, RequestsAssumption
  <2>3. EncodeCall(type) \in Seq(Parts)
    <3>1. EncodeCall(type) = <<Part(type, << >>)>>
      BY EncoderOperators DEF EncodeCall
    <3>2. Part(type, << >>) \in Parts
      BY <2>2, NoTasks, PartType
    <3> QED
      BY <3>1, <3>2
  <2>4. Encoder!TypeOK
    BY <2>1, <2>2, <2>3, NoBytes, EncoderOperators DEF Encoder!TypeOK
  <2>5. IInv
    BY <1>1, <2>1, <2>2, NoTasks DEF IInv, DecoderTypeOK, Outcomes, LocalsFirst
  <2> QED
    BY <2>1, <2>2, <2>4, <2>5 DEF CodecIInv
<1>3. CASE InitForeign
  <2>1. PICK f \in Foreign : \E used \in {Default} \union Used[f.type] :
          /\ phase = "decoding" /\ object = Default
          /\ source = Default /\ stream = << >> /\ bytes_written = 0
          /\ enc_pending = << >> /\ enc_outcome = "none"
          /\ type = f.type
          /\ span = f.span /\ current_index = 0 /\ target = used
          /\ pending = DecodeCall(f.type) /\ outcome = "none"
    BY <1>3 DEF InitForeign
  <2>2. /\ type \in Requests /\ type \in Types /\ span \in ByteStrings
        /\ IsObject(target) /\ IsObject(object)
    BY <1>1, <2>1, CodecAssumption, RequestsAssumption, SpansAssumption
  <2>3. Encoder!TypeOK
    BY <1>1, <2>1, NoBytes, EncoderOperators DEF Encoder!TypeOK
  <2> DEFINE task == Task("read", type, << >>)
  <2>4. task \in Tasks /\ TaskOK(task) /\ task.do = "read"
    BY <2>2, NoTasks, TaskType DEF Task, TaskOK
  <2> HIDE DEF task
  <2>5. pending = <<task>>
    BY <2>1 DEF DecodeCall, task
  <2>6. LocalsFirst(pending) /\ \A i \in DOMAIN pending : TaskOK(pending[i])
    BY <2>4, <2>5 DEF LocalsFirst
  <2>7. DecoderTypeOK
    <3>1. 0 \in 0..Len(span) /\ pending \in Seq(Tasks)
      BY <2>2, <2>4, <2>5 DEF ByteStrings
    <3> QED
      BY <2>1, <2>2, <3>1 DEF DecoderTypeOK, Outcomes
  <2>8. IInv
    BY <2>2, <2>6, <2>7 DEF IInv
  <2> QED
    BY <2>1, <2>2, <2>3, <2>8 DEF CodecIInv
<1> QED
  BY <1>2, <1>3 DEF CodecInit

\* A call of the decoder that has been made on delivered bytes.
LEMMA DecodeCallInv ==
  ASSUME type' \in Requests, span' \in ByteStrings, current_index' = 0,
         IsObject(target'), pending' = DecodeCall(type'), outcome' = "none"
  PROVE  IInv'
<1> DEFINE task == Task("read", type', << >>)
<1>1. task \in Tasks /\ TaskOK(task) /\ task.do = "read"
  BY NoTasks, TaskType, RequestsAssumption DEF Task, TaskOK
<1> HIDE DEF task
<1>2. pending' = <<task>>
  BY DEF DecodeCall, task
<1>3. LocalsFirst(pending') /\ \A i \in DOMAIN pending' : TaskOK(pending'[i])
  BY <1>1, <1>2 DEF LocalsFirst
<1>4. DecoderTypeOK'
  <2>1. 0 \in 0..Len(span') /\ pending' \in Seq(Tasks)
    BY <1>1, <1>2 DEF ByteStrings
  <2> QED
    BY <2>1 DEF DecoderTypeOK, Outcomes
<1> QED
  BY <1>3, <1>4 DEF IInv

LEMMA CodecNextInv ==
  ASSUME CodecIInv, [CodecNext]_codec_vars
  PROVE  CodecIInv'
<1>0. /\ phase \in {"encoding", "decoding", "reencoding"} /\ IsObject(object)
      /\ Encoder!TypeOK /\ IInv /\ type \in Requests /\ type \in Types /\ IsObject(target)
      /\ type \in Requests
  BY RequestsAssumption DEF CodecIInv, IInv, DecoderTypeOK
<1>1. ASSUME UNCHANGED vars
      PROVE  IInv'
  BY <1>0, <1>1 DEF vars, IInv, DecoderTypeOK, LocalsFirst
<1>2. ASSUME UNCHANGED encoder
      PROVE  Encoder!TypeOK'
  BY <1>0, <1>2 DEF encoder, Encoder!TypeOK, Encoder!IsObject
<1>3. CASE Encode
  <2>1. Encoder!TypeOK'
    BY <1>0, <1>3, EncodeKeepsType DEF Encode
  <2> QED
    BY <1>0, <1>1, <1>3, <2>1 DEF Encode, CodecIInv, IsObject
<1>4. CASE Deliver
  <2>1. /\ span' \in ByteStrings /\ current_index' = 0 /\ type' = type
        /\ target' \in {Default} \union Used[type]
        /\ pending' = DecodeCall(type') /\ outcome' = "none"
        /\ object' = object /\ phase' = "decoding" /\ UNCHANGED encoder
    BY <1>4 DEF Deliver
  <2>2. IsObject(target')
    BY <1>0, <2>1, CodecAssumption DEF Default, IsObject
  <2>3. type' \in Requests
    BY <1>0, <2>1
  <2>4. IInv'
    BY <2>1, <2>2, <2>3, DecodeCallInv
  <2> QED
    BY <1>0, <1>2, <2>1, <2>4 DEF CodecIInv, IsObject
<1>5. CASE Decode
  <2>1. IInv'
    BY <1>0, <1>5, OperatorKeepsInv DEF Decode
  <2> QED
    BY <1>0, <1>2, <1>5, <2>1 DEF Decode, CodecIInv, IsObject
<1>6. CASE Reencode
  <2>1. /\ source' = target /\ stream' = << >> /\ bytes_written' = 0
        /\ enc_pending' = <<Part(type, << >>)>> /\ enc_outcome' = "none"
        /\ object' = object /\ phase' = "reencoding" /\ UNCHANGED vars
    BY <1>6, EncoderOperators DEF Reencode, EncodeCall
  <2>2. <<Part(type, << >>)>> \in Seq(Parts)
    <3>1. Part(type, << >>) \in Parts
      BY <1>0, NoTasks, PartType
    <3> QED
      BY <3>1
  <2>3. Encoder!TypeOK'
    BY <1>0, <2>1, <2>2, NoBytes, EncoderOperators
       DEF Encoder!TypeOK, Encoder!IsObject, IsObject
  <2> QED
    BY <1>0, <1>1, <2>1, <2>3 DEF CodecIInv, IsObject
<1>7. CASE UNCHANGED codec_vars
  BY <1>0, <1>1, <1>2, <1>7 DEF codec_vars, CodecIInv, IsObject
<1> QED
  BY <1>3, <1>4, <1>5, <1>6, <1>7 DEF CodecNext

LEMMA CodecInvInductive == CodecSpec => []CodecIInv
<1>1. CodecInit => CodecIInv
  BY CodecInitInv
<1>2. CodecIInv /\ [CodecNext]_codec_vars => CodecIInv'
  BY CodecNextInv
<1> QED
  BY <1>1, <1>2, PTL DEF CodecSpec

\* Encoding, decoding and encoding again what has been decoded, on whatever
\* object and from whatever bytes: both streams keep within their types.
THEOREM CodecTypeCorrect == CodecSpec => []CodecTypeOK
<1>1. CodecIInv => CodecTypeOK
  BY DEF CodecIInv, CodecTypeOK, IInv
<1> QED
  BY <1>1, CodecInvInductive, PTL

-----------------------------------------------------------------------------
(* What is put, read: whole, or cut off.                                   *)

\* The span has the first of the bytes at index i, and then it ends.
CutAt(s, i, bytes) ==
  /\ Len(s) < i + Len(bytes)
  /\ \A j \in 1..(Len(s) - i) : s[i + j] = bytes[j]

LEMMA ByteStringType ==
  ASSUME NEW s \in ByteStrings
  PROVE  s \in Seq(Byte) /\ Len(s) \in Nat
BY DEF ByteStrings

LEMMA BytesHad ==
  ASSUME NEW s \in Seq(Byte), NEW i \in Nat, NEW bytes \in Seq(Byte), HasAt(s, i, bytes)
  PROVE  SubSeq(s, i + 1, i + Len(bytes)) = bytes
<1> DEFINE n == Len(bytes)
<1>1. n \in Nat /\ i + n <= Len(s) /\ \A j \in 1..n : s[i + j] = bytes[j]
  BY DEF HasAt
<1>2. SubSeq(s, i + 1, i + n) = [j \in 1..n |-> s[i + j]]
  <2>1. i + 1 \in Nat /\ i + n \in Nat /\ (i + n) - (i + 1) + 1 = n
    BY <1>1
  <2> HIDE DEF n
  <2>2. SubSeq(s, i + 1, i + n) = [j \in 1..n |-> s[(i + 1) + j - 1]]
    BY <2>1
  <2>3. \A j \in 1..n : (i + 1) + j - 1 = i + j
    BY <1>1
  <2> QED
    BY <2>2, <2>3
<1>3. bytes = [j \in 1..n |-> bytes[j]]
  OBVIOUS
<1> HIDE DEF n
<1>4. SubSeq(s, i + 1, i + n) = bytes
  BY <1>1, <1>2, <1>3
<1> QED
  BY <1>4 DEF n

\* A compact integer that is cut off anywhere is reported as just that.
LEMMA ReadOfCut ==
  ASSUME NEW v \in Nat, Representable(v), EncodeCompactOfBig(v).error = "none",
         NEW s \in ByteStrings, NEW i \in 0..Len(s),
         CutAt(s, i, EncodeCompactOfBig(v).bytes)
  PROVE  ReadCompact(s, i).error = "NOT_ENOUGH_DATA"
<1> DEFINE bytes == EncodeCompactOfBig(v).bytes
<1>1. bytes \in Seq(Byte) /\ Len(bytes) \in Nat
  BY EncodeCompactType
<1>2. s \in Seq(Byte) /\ Len(s) \in Nat /\ i \in Nat /\ i <= Len(s)
  BY ByteStringType
<1>3. HasAt(bytes, 0, bytes)
  BY <1>1 DEF HasAt
<1>4. ReadCompact(bytes, 0) = ReadResult("none", Len(bytes), v)
  BY <1>1, <1>3, ReadOfEncoded
<1>5. Len(s) < i + Len(bytes) /\ (i # Len(s) => s[i + 1] = bytes[1])
  <2>1. i # Len(s) => 1 \in 1..(Len(s) - i)
    BY <1>2
  <2> QED
    BY <2>1 DEF CutAt
<1> HIDE DEF bytes
<1>6. /\ SizeMod \in Nat /\ 2 * 1 < SizeMod /\ 2 * MaxBigBytes < SizeMod
      /\ MaxBigBytes \in Nat
  BY SpansAssumption, LimitsType, ByteAssumption DEF MaxBigBytes, Quarter
<1>7. HasMore(s, i, 1) <=> i + 1 <= Len(s)
  BY <1>6, HasMoreMeaning
<1>8. CASE ~JAM_COMPATIBILITY_ENABLED
  <2> DEFINE extra == ExtraBytes(bytes[1])
  <2>1. /\ DecodeCompactInteger(bytes, 0) = ReadResult("none", Len(bytes), v)
        /\ ReadCompact(s, i) = DecodeCompactInteger(s, i)
    BY <1>4, <1>8 DEF ReadCompact
  <2>2. Len(bytes) = 1 + extra
    <3>1. DecodeCompactInteger(bytes, 0).error = "none"
          /\ DecodeCompactInteger(bytes, 0).used = Len(bytes)
      BY <2>1 DEF ReadResult
    <3>2. \/ DecodeCompactInteger(bytes, 0).error # "none"
          \/ DecodeCompactInteger(bytes, 0).used = 1 + ExtraBytes(bytes[0 + 1])
      BY DEF DecodeCompactInteger, ReadResult
    <3>3. 0 + 1 = 1
      OBVIOUS
    <3> QED
      BY <3>1, <3>2, <3>3
  <2>3. CASE i = Len(s)
    <3>1. ~HasMore(s, i, 1)
      BY <1>2, <1>7, <2>3
    <3> QED
      BY <2>1, <3>1 DEF DecodeCompactInteger, ReadResult
  <2>4. CASE i # Len(s)
    <3>1. s[i + 1] = bytes[1] /\ s[i + 1] \in Byte /\ i + 1 \in 0..Len(s)
          /\ i + 1 <= Len(s)
      BY <1>2, <1>5, <2>4
    <3>2. extra \in 0..MaxBigBytes
      BY <3>1, ExtraBytesType
    <3> HIDE DEF extra
    <3>3. extra \in Nat /\ 2 * extra < SizeMod
      BY <1>6, <3>2
    <3>4. HasMore(s, i + 1, extra) <=> (i + 1) + extra <= Len(s)
      BY <3>1, <3>3, HasMoreMeaning
    <3>5. ~HasMore(s, i + 1, extra) /\ HasMore(s, i, 1)
      BY <1>2, <1>5, <1>7, <2>2, <3>1, <3>3, <3>4
    <3>6. extra = ExtraBytes(s[i + 1])
      BY <3>1 DEF extra
    <3> QED
      BY <2>1, <3>5, <3>6 DEF DecodeCompactInteger, ReadResult
  <2> QED
    BY <2>3, <2>4
<1>9. CASE JAM_COMPATIBILITY_ENABLED
  <2> DEFINE extra == LeadingOnes(bytes[1])
  <2>1. /\ DecodeJamCompactInteger(bytes, 0) = ReadResult("none", Len(bytes), v)
        /\ ReadCompact(s, i) = DecodeJamCompactInteger(s, i)
    BY <1>4, <1>9 DEF ReadCompact
  <2>2. Len(bytes) = 1 + extra
    <3>1. DecodeJamCompactInteger(bytes, 0).error = "none"
          /\ DecodeJamCompactInteger(bytes, 0).used = Len(bytes)
      BY <2>1 DEF ReadResult
    <3>2. \/ DecodeJamCompactInteger(bytes, 0).error # "none"
          \/ DecodeJamCompactInteger(bytes, 0).used = 1 + LeadingOnes(bytes[0 + 1])
      BY DEF DecodeJamCompactInteger, ReadResult
    <3>3. 0 + 1 = 1
      OBVIOUS
    <3> QED
      BY <3>1, <3>2, <3>3
  <2>3. CASE i = Len(s)
    <3>1. ~HasMore(s, i, 1)
      BY <1>2, <1>7, <2>3
    <3> QED
      BY <2>1, <3>1 DEF DecodeJamCompactInteger, ReadResult
  <2>4. CASE i # Len(s)
    <3>1. s[i + 1] = bytes[1] /\ i + 1 <= Len(s)
      BY <1>2, <1>5, <2>4
    <3>2. extra \in Nat
      BY LeadingOnesType, ByteAssumption
    <3>3. extra = LeadingOnes(s[i + 1])
      BY <3>1
    <3> HIDE DEF extra
    <3>4. Len(s) < i + 1 + extra /\ HasMore(s, i, 1)
      BY <1>2, <1>5, <1>7, <2>2, <3>1, <3>2
    <3> QED
      BY <2>1, <3>3, <3>4 DEF DecodeJamCompactInteger, ReadResult
  <2> QED
    BY <2>3, <2>4
<1> QED
  BY <1>8, <1>9

\* A built-in integer is encoded as a multiprecision one of the same value.
LEMMA NativeAsBig ==
  ASSUME NEW v \in Nat, NEW n \in Nat, IsNative(v, n)
  PROVE  /\ EncodeCompactOfBig(v).error = "none"
         /\ EncodeCompactOfBig(v).bytes = EncodeCompactOfNative(v).bytes
         /\ Representable(v) /\ BitWidth(v) <= ByteBits * n
<1>1. CASE ~JAM_COMPATIBILITY_ENABLED
  BY <1>1 DEF IsNative, HasWidth, EncodeCompactOfBig, EncodeCompactOfNative,
              EncodeCompactBig, EncodeCompactNative
<1>2. CASE JAM_COMPATIBILITY_ENABLED
  <2>1. BitWidth(v) <= ByteBits * SizeBytes
    BY <1>2 DEF IsNative, HasWidth
  <2>2. BitWidth(v) \in Nat /\ ByteBits * SizeBytes \in Nat
    BY BitWidthType, ByteAssumption, MaxBitsAssumption
  <2>3. ~(BitWidth(v) > ByteBits * SizeBytes)
    BY <2>1, <2>2
  <2> QED
    BY <1>2, <2>3 DEF IsNative, HasWidth, EncodeCompactOfBig, EncodeCompactOfNative,
                      EncodeJamBig, EncodeJamNative
<1> QED
  BY <1>1, <1>2

LEMMA NativeDecoded ==
  ASSUME NEW v \in Nat, NEW n \in Nat, IsNative(v, n),
         NEW s \in ByteStrings, NEW i \in 0..Len(s)
  PROVE  LET bytes == EncodeCompactOfNative(v).bytes
             integer == DecodeCompactNative(s, i, n)
         IN  /\ HasAt(s, i, bytes) => integer = ReadResult("none", Len(bytes), v)
             /\ CutAt(s, i, bytes) => integer.error = "NOT_ENOUGH_DATA"
<1>1. /\ EncodeCompactOfBig(v).error = "none"
      /\ EncodeCompactOfBig(v).bytes = EncodeCompactOfNative(v).bytes
      /\ Representable(v) /\ BitWidth(v) <= ByteBits * n
  BY NativeAsBig
<1>2. s \in Seq(Byte) /\ i \in Nat
  BY ByteStringType
<1>3. ASSUME HasAt(s, i, EncodeCompactOfNative(v).bytes)
      PROVE  DecodeCompactNative(s, i, n)
               = ReadResult("none", Len(EncodeCompactOfNative(v).bytes), v)
  BY <1>1, <1>2, <1>3, NativeOfEncoded
<1>4. ASSUME CutAt(s, i, EncodeCompactOfNative(v).bytes)
      PROVE  DecodeCompactNative(s, i, n).error = "NOT_ENOUGH_DATA"
  <2>1. ReadCompact(s, i).error = "NOT_ENOUGH_DATA"
    BY <1>1, <1>4, ReadOfCut
  <2> QED
    BY <2>1 DEF DecodeCompactNative
<1> QED
  BY <1>3, <1>4

LEMMA BigDecoded ==
  ASSUME NEW v \in Nat, NEW n \in Nat, HasWidth(v, n), EncodeCompactOfBig(v).error = "none",
         NEW s \in ByteStrings, NEW i \in 0..Len(s)
  PROVE  LET bytes == EncodeCompactOfBig(v).bytes
             integer == DecodeCompactBig(s, i, n)
         IN  /\ HasAt(s, i, bytes) => integer = ReadResult("none", Len(bytes), v)
             /\ CutAt(s, i, bytes) => integer.error = "NOT_ENOUGH_DATA"
<1> DEFINE bytes == EncodeCompactOfBig(v).bytes
<1>1. Representable(v) /\ BitWidth(v) <= ByteBits * n
  BY DEF HasWidth
<1>2. s \in Seq(Byte) /\ i \in Nat
  BY ByteStringType
<1>3. ASSUME HasAt(s, i, bytes)
      PROVE  DecodeCompactBig(s, i, n) = ReadResult("none", Len(bytes), v)
  <2>1. ReadCompact(s, i) = ReadResult("none", Len(bytes), v)
    BY <1>1, <1>2, <1>3, ReadOfEncoded
  <2>2. ~(BitWidth(v) > ByteBits * n)
    <3>1. BitWidth(v) \in Nat /\ ByteBits * n \in Nat
      BY BitWidthType, ByteAssumption, MaxBitsAssumption
    <3> QED
      BY <1>1, <3>1
  <2> HIDE DEF bytes
  <2> QED
    BY <2>1, <2>2 DEF DecodeCompactBig, ReadResult
<1>4. ASSUME CutAt(s, i, bytes)
      PROVE  DecodeCompactBig(s, i, n).error = "NOT_ENOUGH_DATA"
  <2>1. ReadCompact(s, i).error = "NOT_ENOUGH_DATA"
    BY <1>1, <1>4, ReadOfCut
  <2>2. PICK error, used, value : ReadCompact(s, i) = ReadResult(error, used, value)
    BY ReadCompactType
  <2> QED
    BY <2>1, <2>2 DEF DecodeCompactBig, ReadResult
<1> QED
  BY <1>3, <1>4

LEMMA FixedDecoded ==
  ASSUME NEW v \in Nat, NEW n \in Nat, HasWidth(v, n), ByteBits * (n - 1) < MaxBits
  PROVE  /\ LittleEndian(v, n) \in Seq(Byte)
         /\ Len(LittleEndian(v, n)) = n
         /\ LittleEndianValue(LittleEndian(v, n)) = v
<1>1. FitsIn(v, n)
  BY FitsInWidth DEF HasWidth
<1> QED
  BY <1>1, LittleEndianRoundTrip

\* The bytes of a bit vector, in size_t arithmetic.
LEMMA BytesOfBits ==
  ASSUME NEW size \in 0..MaxBitVecSize
  PROVE  /\ BytesForBits(size) = (size + ByteBits - 1) \div ByteBits
         /\ BytesForBits(size) \in Nat
         /\ 2 * BytesForBits(size) < SizeMod
<1> DEFINE B == ByteBits
           M == SizeMod
           S == {n \in 0..(B - 2) : n < 2^n}
<1>1. B \in Nat \ {0, 1, 2} /\ M \in Nat \ {0} /\ 2 * MaxBigBytes < M
  BY ByteAssumption, SpansAssumption DEF SizeMod
<1>2. B - 2 \in S
  <2>1. 0 \in S
    <3>1. 2^0 \in Nat \ {0} /\ 0 \in 0..(B - 2)
      BY <1>1, PowerType, MaxBitsAssumption, ByteAssumption
    <3> QED
      BY <3>1
  <2>2. ASSUME NEW n \in 0..((B - 2) - 1), n \in S
        PROVE  n + 1 \in S
    <3>1. n + 1 \in 1..(MaxBits - 1) /\ n \in 0..(MaxBits - 1) /\ (n + 1) - 1 = n
      BY <1>1, MaxBitsAssumption
    <3>2. 2^(n + 1) = 2 * 2^n
      BY <3>1, MaxBitsAssumption
    <3> DEFINE a == 2^n
    <3>3. a \in Nat /\ n < a
      BY <2>2, <3>1, MaxBitsAssumption
    <3> HIDE DEF a
    <3>4. n + 1 < 2 * a
      BY <3>3
    <3> QED
      BY <1>1, <3>2, <3>4 DEF a
  <2>3. B - 2 \in Nat /\ B - 2 \in 0..(B - 2)
    BY <1>1
  <2> HIDE DEF S, B
  <2> QED
    BY <2>1, <2>2, <2>3, InductionUpTo
<1>3. Quarter = 2^(B - 2)
  <2>1. B \in 1..(MaxBits - 1) /\ B - 1 \in 1..(MaxBits - 1) /\ (B - 1) - 1 = B - 2
    BY <1>1, MaxBitsAssumption
  <2>2. 2^B = 2 * 2^(B - 1) /\ 2^(B - 1) = 2 * 2^(B - 2)
    BY <2>1, MaxBitsAssumption
  <2> DEFINE a == 2^(B - 2)
  <2>3. a \in Nat
    BY <1>1, <2>1, MaxBitsAssumption
  <2> HIDE DEF a
  <2>4. 4 * Quarter = 2 * (2 * a) /\ Quarter \in Nat
    BY <2>2, LimitsType, ByteAssumption DEF a
  <2>5. Quarter = a
    BY <2>3, <2>4
  <2> QED
    BY <2>5 DEF a
<1>4. 2 * (B - 2) < 2 * Quarter /\ MaxBigBytes = 3 + Quarter
  BY <1>1, <1>2, <1>3, LimitsType DEF MaxBigBytes
<1>5. 2 * B < M + 2
  BY <1>1, <1>4, LimitsType
<1>6. size \in Nat /\ 2 * size <= M - 2
  BY <1>1 DEF MaxBitVecSize
<1> HIDE DEF B, M
<1>7. size + B - 1 \in Nat /\ size + B - 1 < M
  BY <1>1, <1>5, <1>6
<1>8. (size + B - 1) % M = size + B - 1
  BY <1>1, <1>7
<1> DEFINE b == (size + B - 1) \div B
<1>9. b \in Nat /\ B * b <= size + B - 1
  <2>1. /\ b \in Nat /\ (size + B - 1) % B \in 0..(B - 1)
        /\ size + B - 1 = B * b + ((size + B - 1) % B)
    BY <1>1, <1>7, DivisionType
  <2> DEFINE r == (size + B - 1) % B
             c == B * b
  <2>2. c \in Int
    BY <1>1, <2>1
  <2> HIDE DEF r, b, c
  <2> QED
    BY <1>1, <2>1, <2>2 DEF r, c
<1> HIDE DEF b
<1>10. 2 * b < M
  <2>1. CASE b = 0
    BY <1>1, <2>1
  <2>2. CASE b # 0
    <3>1. B * (b - 1) = B * b - B /\ 3 * (b - 1) <= B * (b - 1)
      BY <1>1, <1>9, <2>2
    <3> DEFINE c == B * b
    <3>2. c \in Nat
      BY <1>1, <1>9
    <3> HIDE DEF c
    <3>3. 3 * (b - 1) <= size - 1
      BY <1>1, <1>6, <1>9, <3>1, <3>2 DEF c
    <3> QED
      BY <1>1, <1>6, <1>9, <3>3
  <2> QED
    BY <2>1, <2>2
<1> QED
  BY <1>8, <1>9, <1>10 DEF BytesForBits, B, M, b

\* Bit i of a vector is in the byte and at the place where it is looked for.
LEMMA PackedBit ==
  ASSUME NEW tree, NEW p, NEW size \in Nat, NEW i \in 1..size
  PROVE  /\ ((i - 1) \div ByteBits) + 1 \in DOMAIN Packed(tree, p, size)
         /\ BitOf(Packed(tree, p, size)[((i - 1) \div ByteBits) + 1], (i - 1) % ByteBits) = 1
              <=> At(tree, p \o <<i>>) # 0
<1> DEFINE B == ByteBits
           k == ((i - 1) \div B) + 1
           b == (i - 1) % B
           n == (size + B - 1) \div B
           bits(j) == {c \in 0..(B - 1) : At(tree, p \o <<B * (j - 1) + c + 1>>) # 0}
<1>1. B \in Nat \ {0} /\ i - 1 \in Nat /\ size - 1 \in Nat /\ size + B - 1 \in Nat
  BY ByteAssumption
<1>2. k - 1 \in Nat /\ b \in 0..(B - 1) /\ i - 1 = B * (k - 1) + b
  <2>1. /\ (i - 1) \div B \in Nat /\ b \in 0..(B - 1)
        /\ i - 1 = B * ((i - 1) \div B) + b
    BY <1>1, DivisionType
  <2>2. k - 1 = (i - 1) \div B
    BY <2>1
  <2> HIDE DEF k, b
  <2> QED
    BY <2>1, <2>2
<1>3. k \in 1..n
  <2>1. (i - 1) \div B <= (size - 1) \div B
    BY <1>1, DivisionMonotonic
  <2>2. n = (size - 1) \div B + 1
    <3> DEFINE q == (size - 1) \div B
               r == (size - 1) % B
    <3>1. q \in Nat /\ r \in 0..(B - 1) /\ size - 1 = B * q + r
      BY <1>1, DivisionType
    <3> HIDE DEF q, r
    <3>2. size + B - 1 = B * (q + 1) + r
      BY <1>1, <3>1
    <3>3. (B * (q + 1) + r) \div B = q + 1
      BY <1>1, <3>1, DivisionUnique
    <3> QED
      BY <3>2, <3>3 DEF q
  <2>3. (size - 1) \div B \in Nat /\ (i - 1) \div B \in Nat
    BY <1>1, DivisionType
  <2> HIDE DEF n
  <2> QED
    BY <2>1, <2>2, <2>3
<1>4. B * (k - 1) + b + 1 = i
  <2> DEFINE c == B * (k - 1)
  <2>1. c \in Int
    BY <1>1, <1>2
  <2> HIDE DEF c, b
  <2> QED
    BY <1>1, <1>2, <2>1 DEF c
<1>5. Packed(tree, p, size) = [j \in 1..n |-> ByteWith(bits(j))]
  BY DEF Packed
<1> HIDE DEF n
<1>6. BitOf(ByteWith(bits(k)), b) = 1 <=> b \in bits(k)
  <2>1. bits(k) \subseteq 0..(B - 1)
    OBVIOUS
  <2> HIDE DEF bits
  <2>2. \A j \in 0..(B - 1) : (j \in bits(k)) <=> (BitOf(ByteWith(bits(k)), j) = 1)
    BY <2>1, BitsAssumption DEF ByteWith, BitOf
  <2> QED
    BY <1>2, <2>2
<1>7. b \in bits(k) <=> At(tree, p \o <<i>>) # 0
  BY <1>2, <1>4
<1> HIDE DEF bits
<1>8. /\ k \in DOMAIN Packed(tree, p, size)
      /\ BitOf(Packed(tree, p, size)[k], b) = 1 <=> At(tree, p \o <<i>>) # 0
  BY <1>3, <1>5, <1>6, <1>7
<1> QED
  BY <1>8

\* The bits that are set in a vector are those that are set in its bytes.
LEMMA BitsMeaning ==
  ASSUME NEW tree, IsObject(tree), NEW p \in Seq(Nat), NEW size \in Nat, NEW bytes,
         NEW x \in Seq(Nat)
  PROVE  At(WithBits(tree, p, size, bytes), p \o x) =
           IF x = << >> THEN size
           ELSE IF \E i \in 1..size :
                     /\ x = <<i>>
                     /\ BitOf(bytes[((i - 1) \div ByteBits) + 1], (i - 1) % ByteBits) = 1
                THEN 1 ELSE 0
<1> DEFINE set == {i \in 1..size : BitOf(bytes[((i - 1) \div ByteBits) + 1],
                                         (i - 1) % ByteBits) = 1}
           kept == Clear(tree, p)
           bits == {p \o <<i>> : i \in set}
           filled == [q \in DOMAIN kept \union bits |->
                        IF IsPrefix(p, q) THEN 1 ELSE kept[q]]
<1>1. WithBits(tree, p, size, bytes) = Assign(filled, p, size)
  BY DEF WithBits
<1>2. IsPrefix(p, p \o x) /\ p \o x \in Seq(Nat)
  BY PrefixOfConcat
<1>3. p \o x = p <=> x = << >>
  BY ConcatSimplifications
<1>4. p \o x \notin DOMAIN kept
  BY <1>2 DEF Clear, Without
<1>5. set \subseteq Nat
  OBVIOUS
<1>6. p \o x \in bits <=> \E i \in set : x = <<i>>
  <2>1. ASSUME NEW i \in set, p \o x = p \o <<i>>
        PROVE  x = <<i>>
    <3>1. <<i>> \in Seq(Nat)
      BY <1>5
    <3> QED
      BY <2>1, <3>1, ConcatSimplifications
  <2> HIDE DEF set
  <2> QED
    BY <2>1
<1> HIDE DEF kept, bits, set
<1>7. At(filled, p \o x) = IF \E i \in set : x = <<i>> THEN 1 ELSE 0
  BY <1>2, <1>4, <1>6 DEF At
<1> HIDE DEF filled
<1>8. At(Assign(filled, p, size), p \o x)
        = IF x = << >> THEN size ELSE IF \E i \in set : x = <<i>> THEN 1 ELSE 0
  <2> DEFINE q == p \o x
             bit == IF \E i \in set : x = <<i>> THEN 1 ELSE 0
  <2> HIDE DEF q, bit
  <2>1. At(filled, q) = bit /\ (q = p <=> x = << >>)
    BY <1>3, <1>7 DEF q, bit
  <2>2. At(Assign(filled, p, size), q) = IF x = << >> THEN size ELSE bit
    BY <2>1, ValueAssigned
  <2> QED
    BY <2>2 DEF q, bit
<1>9. (\E i \in set : x = <<i>>) <=>
         \E i \in 1..size :
           /\ x = <<i>>
           /\ BitOf(bytes[((i - 1) \div ByteBits) + 1], (i - 1) % ByteBits) = 1
  BY DEF set
<1> QED
  BY <1>1, <1>8, <1>9

-----------------------------------------------------------------------------
(* Objects put together from others.                                       *)

\* The object with the content f.
TreeOf(f) == [q \in {r \in Seq(Nat) : f[r] # 0} |-> f[q]]

LEMMA TreeOfMeaning ==
  ASSUME NEW f \in [Seq(Nat) -> Nat]
  PROVE  IsObject(TreeOf(f)) /\ \A q \in Seq(Nat) : At(TreeOf(f), q) = f[q]
BY DEF TreeOf, IsObject, At

\* The part of a path behind p.
Behind(p, q) == SubSeq(q, Len(p) + 1, Len(q))

LEMMA BehindMeaning ==
  ASSUME NEW p \in Seq(Nat), NEW x \in Seq(Nat)
  PROVE  Behind(p, p \o x) = x
BY SuffixOfConcat DEF Behind

\* After is before with a copy of the sub-object of sent at e put at p.
IsPut(sent, after, before, p, e) ==
  /\ IsObject(after)
  /\ \A x \in Seq(Nat) : At(after, p \o x) = At(sent, e \o x)
  /\ \A q \in Seq(Nat) : ~IsPrefix(p, q) => At(after, q) = At(before, q)

LEMMA PutExists ==
  ASSUME NEW sent, IsObject(sent), NEW before, IsObject(before),
         NEW p \in Seq(Nat), NEW e \in Seq(Nat)
  PROVE  \E after : IsPut(sent, after, before, p, e)
<1> DEFINE f == [q \in Seq(Nat) |-> IF IsPrefix(p, q) THEN At(sent, e \o Behind(p, q))
                                    ELSE At(before, q)]
<1>1. f \in [Seq(Nat) -> Nat]
  BY ContentType
<1>2. ASSUME NEW x \in Seq(Nat)
      PROVE  f[p \o x] = At(sent, e \o x)
  <2>1. p \o x \in Seq(Nat) /\ IsPrefix(p, p \o x) /\ Behind(p, p \o x) = x
    BY PrefixOfConcat, BehindMeaning
  <2> QED
    BY <2>1
<1>3. \A q \in Seq(Nat) : ~IsPrefix(p, q) => f[q] = At(before, q)
  OBVIOUS
<1>4. \A x \in Seq(Nat) : p \o x \in Seq(Nat)
  OBVIOUS
<1> HIDE DEF f
<1>5. IsPut(sent, TreeOf(f), before, p, e)
  BY <1>1, <1>2, <1>3, <1>4, TreeOfMeaning DEF IsPut
<1> QED
  BY <1>5

\* What is outside is what it is before.
LEMMA PutElsewhere ==
  ASSUME NEW sent, NEW after, NEW before, NEW p, NEW e, IsPut(sent, after, before, p, e),
         NEW other, \A q \in Seq(Nat) : ~IsPrefix(p, q) => At(other, q) = At(before, q)
  PROVE  IsPut(sent, after, other, p, e)
BY DEF IsPut

\* There is one such object only.
LEMMA PutUnique ==
  ASSUME NEW sent, NEW after, NEW before, NEW p \in Seq(Nat), NEW e,
         IsPut(sent, after, before, p, e),
         NEW other, IsObject(other),
         \A x \in Seq(Nat) : At(other, p \o x) = At(sent, e \o x),
         \A q \in Seq(Nat) : ~IsPrefix(p, q) => At(other, q) = At(before, q)
  PROVE  other = after
<1>1. ASSUME NEW q \in Seq(Nat)
      PROVE  At(other, q) = At(after, q)
  <2>1. CASE IsPrefix(p, q)
    <3>1. PICK x \in Seq(Nat) : q = p \o x
      BY <2>1, PathBelow
    <3> QED
      BY <3>1 DEF IsPut
  <2>2. CASE ~IsPrefix(p, q)
    BY <2>2 DEF IsPut
  <2> QED
    BY <2>1, <2>2
<1> QED
  BY <1>1, EqualObjects DEF IsPut

\* Below p, the children in S are those of the sub-object of sent at e, the
\* others those of before; at p it is v, and elsewhere it is before.
IsGrafted(sent, tree, before, p, e, S, v) ==
  /\ IsObject(tree)
  /\ At(tree, p) = v
  /\ \A x \in Seq(Nat) : x # << >> =>
       At(tree, p \o x) = IF x[1] \in S THEN At(sent, e \o x) ELSE At(before, p \o x)
  /\ \A q \in Seq(Nat) : ~IsPrefix(p, q) => At(tree, q) = At(before, q)

LEMMA GraftExists ==
  ASSUME NEW sent, IsObject(sent), NEW before, IsObject(before),
         NEW p \in Seq(Nat), NEW e \in Seq(Nat), NEW S, NEW v \in Nat
  PROVE  \E tree : IsGrafted(sent, tree, before, p, e, S, v)
<1> DEFINE f == [q \in Seq(Nat) |->
                   IF q = p THEN v
                   ELSE IF IsPrefix(p, q) /\ Behind(p, q)[1] \in S
                   THEN At(sent, e \o Behind(p, q)) ELSE At(before, q)]
<1>1. f \in [Seq(Nat) -> Nat]
  BY ContentType
<1>2. ASSUME NEW x \in Seq(Nat), x # << >>
      PROVE  f[p \o x] = IF x[1] \in S THEN At(sent, e \o x) ELSE At(before, p \o x)
  <2>1. p \o x \in Seq(Nat) /\ IsPrefix(p, p \o x) /\ Behind(p, p \o x) = x
    BY PrefixOfConcat, BehindMeaning
  <2>2. p \o x # p
    BY <1>2, ConcatSimplifications
  <2> QED
    BY <2>1, <2>2
<1>3. IsPrefix(p, p)
  BY PrefixOfItself
<1>4. /\ f[p] = v
      /\ \A q \in Seq(Nat) : ~IsPrefix(p, q) => f[q] = At(before, q)
  BY <1>3
<1>5. \A x \in Seq(Nat) : p \o x \in Seq(Nat)
  OBVIOUS
<1> HIDE DEF f
<1>6. IsGrafted(sent, TreeOf(f), before, p, e, S, v)
  BY <1>1, <1>2, <1>4, <1>5, TreeOfMeaning DEF IsGrafted
<1> QED
  BY <1>6

\* One more child is put.
LEMMA GraftStep ==
  ASSUME NEW sent, NEW a, NEW b, NEW before, NEW p \in Seq(Nat), NEW e \in Seq(Nat),
         NEW S, NEW v, NEW i \in Nat, IsGrafted(sent, a, before, p, e, S, v),
         IsGrafted(sent, b, before, p, e, S \union {i}, v)
  PROVE  IsPut(sent, b, a, p \o <<i>>, e \o <<i>>)
<1> DEFINE c == p \o <<i>>
           d == e \o <<i>>
           head == <<i>>
<1>1. head \in Seq(Nat) /\ c \in Seq(Nat) /\ d \in Seq(Nat)
  OBVIOUS
<1>2. ASSUME NEW x \in Seq(Nat)
      PROVE  At(b, c \o x) = At(sent, d \o x)
  <2> DEFINE y == head \o x
  <2>1. y \in Seq(Nat) /\ y # << >> /\ y[1] = i
    OBVIOUS
  <2>2. (p \o head) \o x = p \o (head \o x) /\ (e \o head) \o x = e \o (head \o x)
    <3> HIDE DEF head, c, d, y
    <3>1. (p \o head) \o x = p \o (head \o x)
      BY <1>1, PathConcat, ZenonT(60)
    <3>2. (e \o head) \o x = e \o (head \o x)
      BY <1>1, PathConcat, ZenonT(60)
    <3> QED
      BY <3>1, <3>2
  <2>3. At(b, p \o y) = At(sent, e \o y)
    <3> HIDE DEF y
    <3> QED
      BY <2>1 DEF IsGrafted
  <2> HIDE DEF head
  <2> QED
    BY <2>2, <2>3 DEF head
<1>3. ASSUME NEW q \in Seq(Nat), ~IsPrefix(c, q)
      PROVE  At(b, q) = At(a, q)
  <2>1. CASE ~IsPrefix(p, q)
    BY <2>1 DEF IsGrafted
  <2>2. CASE IsPrefix(p, q)
    <3>1. PICK x \in Seq(Nat) : q = p \o x
      BY <2>2, PathBelow
    <3>2. CASE x = << >>
      <4>1. q = p
        BY <3>1, <3>2, ConcatSimplifications
      <4> QED
        BY <4>1 DEF IsGrafted
    <3>3. CASE x # << >>
      <4>1. x[1] # i
        BY <1>3, <3>1, <3>3, BelowChild
      <4>2. x[1] \in S \union {i} <=> x[1] \in S
        BY <4>1
      <4> QED
        BY <3>1, <3>3, <4>2 DEF IsGrafted
    <3> QED
      BY <3>2, <3>3
  <2> QED
    BY <2>1, <2>2
<1>4. IsObject(b)
  BY DEF IsGrafted
<1> HIDE DEF c, d
<1>5. IsPut(sent, b, a, c, d)
  BY <1>2, <1>3, <1>4 DEF IsPut
<1> QED
  BY <1>5 DEF c, d

\* When all children that are different are put, the sub-object is.
LEMMA GraftAll ==
  ASSUME NEW sent, NEW tree, NEW before, NEW p \in Seq(Nat), NEW e \in Seq(Nat), NEW S,
         IsGrafted(sent, tree, before, p, e, S, At(sent, e)),
         \A x \in Seq(Nat) : x # << >> /\ x[1] \notin S =>
           At(before, p \o x) = At(sent, e \o x)
  PROVE  IsPut(sent, tree, before, p, e)
<1>1. ASSUME NEW x \in Seq(Nat)
      PROVE  At(tree, p \o x) = At(sent, e \o x)
  <2>1. CASE x = << >>
    <3>1. p \o x = p /\ e \o x = e
      BY <2>1, ConcatSimplifications
    <3> QED
      BY <3>1 DEF IsGrafted
  <2>2. CASE x # << >>
    BY <2>2 DEF IsGrafted
  <2> QED
    BY <2>1, <2>2
<1> QED
  BY <1>1 DEF IsPut, IsGrafted

\* When none is put, nothing is.
LEMMA GraftNone ==
  ASSUME NEW sent, NEW tree, NEW before, IsObject(before), NEW p \in Seq(Nat),
         NEW e \in Seq(Nat), IsGrafted(sent, tree, before, p, e, {}, At(before, p))
  PROVE  tree = before
<1>1. ASSUME NEW q \in Seq(Nat)
      PROVE  At(tree, q) = At(before, q)
  <2>1. CASE ~IsPrefix(p, q)
    BY <2>1 DEF IsGrafted
  <2>2. CASE IsPrefix(p, q)
    <3>1. PICK x \in Seq(Nat) : q = p \o x
      BY <2>2, PathBelow
    <3>2. CASE x = << >>
      <4>1. q = p
        BY <3>1, <3>2, ConcatSimplifications
      <4> QED
        BY <4>1 DEF IsGrafted
    <3> QED
      BY <3>1, <3>2 DEF IsGrafted
  <2> QED
    BY <2>1, <2>2
<1> QED
  BY <1>1, EqualObjects DEF IsGrafted

\* The sub-object at p is that of tree at p.
LEMMA BelowPath ==
  ASSUME NEW p \in Seq(Nat), NEW i \in Nat, NEW x \in Seq(Nat)
  PROVE  /\ <<i>> \o x \in Seq(Nat) /\ <<i>> \o x # << >> /\ (<<i>> \o x)[1] = i
         /\ (p \o <<i>>) \o x = p \o (<<i>> \o x)
<1> DEFINE head == <<i>>
<1>1. head \in Seq(Nat) /\ head \o x \in Seq(Nat) /\ head \o x # << >> /\ (head \o x)[1] = i
  OBVIOUS
<1> HIDE DEF head
<1>2. (p \o head) \o x = p \o (head \o x)
  BY <1>1, PathConcat, Zenon
<1> QED
  BY <1>1, <1>2 DEF head

-----------------------------------------------------------------------------
(* What tasks do, when they do what they are meant to.                     *)

\* An object that is decoded into, and the parts of sent that are to be read.
Config(tree, rest) == [tree |-> tree, rest |-> rest]

\* The local at <<0>> of a variant is moved to an alternative of it, at p.
WithAlternative(tree, owner, p, index) ==
  LET emptied == Without(tree, LAMBDA q : /\ IsStrictPrefix(owner, q)
                                          /\ q[Len(owner) + 1] # 0)
  IN  Assign(Move(emptied, owner \o <<0>>, p, {}), owner, index)

\* The local at p is moved to a new element of a collection.
WithElement(tree, owner, p, key, size, stays) ==
  LET node == owner \o <<key + 1>>
      moved == Move(tree, p, node \o <<1>>, stays)
  IN  Assign(Assign(moved, node, 1), owner, size)

\* A read copies the next part, which is of its type, to where it reads to; the
\* other tasks are done as they are.
Does(sent, task, a, b) ==
  LET t == task.type
      p == task.path
      owner == Front(p)
  IN  CASE task.do = "read" ->
             \E e \in Seq(Nat) :
               /\ a.rest = <<Part(t, e)>> \o b.rest
               /\ b.rest \in Seq(Parts)
               /\ IsTyped(sent, t, e) /\ IsShaped(a.tree, t, p)
               /\ IsPut(sent, b.tree, a.tree, p, e)
        [] task.do = "emplace_back" ->
             b.rest = a.rest /\ b.tree = Assign(a.tree, owner, Last(p))
        [] task.do = "emplace" ->
             LET key == At(a.tree, KeyPath(t, p))
                 size == At(a.tree, owner)
             IN  /\ b.rest = a.rest
                 /\ size < Allocatable /\ key \notin Keys(a.tree, owner)
                 /\ b.tree = WithElement(a.tree, owner, p, key, size + 1,
                                         MovedFrom[t.of[1]])
        [] task.do = "leave" ->
             b.rest = a.rest /\ b.tree = Clear(a.tree, p)
        [] task.do = "assign" ->
             b.rest = a.rest /\ b.tree = WithAlternative(a.tree, owner, p, Last(p) - 1)
        [] task.do = "assign_ref" ->
             /\ b.rest = a.rest
             /\ b.tree = Assign(Clear(a.tree, p), owner, At(a.tree, p))

\* Tasks that, done one after the other, make of a what is in b.
Leads(sent, tasks, a, b) ==
  \E chain : /\ chain[0] = a /\ chain[Len(tasks)] = b
             /\ \A j \in 1..Len(tasks) : Does(sent, tasks[j], chain[j - 1], chain[j])

LEMMA LeadsNowhere ==
  ASSUME NEW sent, NEW a, NEW b
  PROVE  Leads(sent, << >>, a, b) <=> a = b
<1>1. Len(<< >>) = 0 /\ 1..0 = {}
  OBVIOUS
<1>2. ASSUME a = b
      PROVE  Leads(sent, << >>, a, b)
  <2> DEFINE chain == [j \in {0} |-> a]
  <2>1. chain[0] = a
    OBVIOUS
  <2> HIDE DEF chain
  <2> QED
    BY <1>1, <1>2, <2>1 DEF Leads
<1> QED
  BY <1>1, <1>2 DEF Leads

LEMMA LeadsFirst ==
  ASSUME NEW sent, NEW tasks \in Seq(Tasks), tasks # << >>, NEW a, NEW b,
         Leads(sent, tasks, a, b)
  PROVE  \E m : Does(sent, Head(tasks), a, m) /\ Leads(sent, Tail(tasks), m, b)
<1> DEFINE n == Len(tasks)
           others == Tail(tasks)
<1>1. /\ n \in Nat \ {0} /\ Head(tasks) = tasks[1] /\ Len(others) = n - 1
      /\ \A j \in 1..(n - 1) : others[j] = tasks[j + 1]
  BY HeadTailProperties, EmptySeq
<1>2. PICK chain : /\ chain[0] = a /\ chain[n] = b
                   /\ \A j \in 1..n : Does(sent, tasks[j], chain[j - 1], chain[j])
  BY DEF Leads
<1> DEFINE after == [j \in 0..(n - 1) |-> chain[j + 1]]
<1> HIDE DEF n, others
<1>3. Does(sent, Head(tasks), a, chain[1])
  <2>1. 1 \in 1..n /\ 1 - 1 = 0
    BY <1>1
  <2> QED
    BY <1>1, <1>2, <2>1
<1>4. after[0] = chain[1] /\ after[Len(others)] = b
  <2>1. 0 \in 0..(n - 1) /\ n - 1 \in 0..(n - 1) /\ (n - 1) + 1 = n /\ 0 + 1 = 1
    BY <1>1
  <2> QED
    BY <1>1, <1>2, <2>1
<1>5. ASSUME NEW j \in 1..Len(others)
      PROVE  Does(sent, others[j], after[j - 1], after[j])
  <2>1. j + 1 \in 1..n /\ j \in 1..(n - 1) /\ j \in 0..(n - 1) /\ j - 1 \in 0..(n - 1)
        /\ (j - 1) + 1 = j /\ (j + 1) - 1 = j
    BY <1>1
  <2>2. Does(sent, tasks[j + 1], chain[j], chain[j + 1])
    BY <1>2, <2>1
  <2> QED
    BY <1>1, <2>1, <2>2
<1> HIDE DEF after
<1>6. Leads(sent, others, chain[1], b)
  BY <1>4, <1>5 DEF Leads
<1> QED
  BY <1>3, <1>6 DEF others

LEMMA LeadsOn ==
  ASSUME NEW sent, NEW s \in Seq(Tasks), NEW t \in Seq(Tasks), NEW a, NEW m, NEW b,
         Leads(sent, s, a, m), Leads(sent, t, m, b)
  PROVE  Leads(sent, s \o t, a, b)
<1> DEFINE k == Len(s)
           n == Len(t)
           both == s \o t
<1>1. /\ k \in Nat /\ n \in Nat /\ Len(both) = k + n
      /\ \A j \in 1..(k + n) : both[j] = IF j <= k THEN s[j] ELSE t[j - k]
  BY ConcatProperties
<1>2. PICK first : /\ first[0] = a /\ first[k] = m
                   /\ \A j \in 1..k : Does(sent, s[j], first[j - 1], first[j])
  BY DEF Leads
<1>3. PICK second : /\ second[0] = m /\ second[n] = b
                    /\ \A j \in 1..n : Does(sent, t[j], second[j - 1], second[j])
  BY DEF Leads
<1> DEFINE chain == [j \in 0..(k + n) |-> IF j <= k THEN first[j] ELSE second[j - k]]
<1> HIDE DEF k, n, both
<1>4. chain[0] = a /\ chain[Len(both)] = b
  <2>1. 0 \in 0..(k + n) /\ k + n \in 0..(k + n) /\ 0 <= k
        /\ (k + n <= k <=> n = 0) /\ (k + n) - k = n
    BY <1>1
  <2>2. n = 0 => first[k + n] = second[0]
    BY <1>1, <1>2, <1>3
  <2> QED
    BY <1>1, <1>2, <1>3, <2>1, <2>2
<1>5. ASSUME NEW j \in 1..Len(both)
      PROVE  Does(sent, both[j], chain[j - 1], chain[j])
  <2>1. j \in 0..(k + n) /\ j - 1 \in 0..(k + n) /\ j \in 1..(k + n)
    BY <1>1
  <2>2. CASE j <= k
    <3>1. j \in 1..k /\ j - 1 <= k
      BY <1>1, <2>2
    <3> QED
      BY <1>1, <1>2, <2>1, <2>2, <3>1
  <2>3. CASE ~(j <= k)
    <3>1. j - k \in 1..n /\ (j - 1) - k = (j - k) - 1
      BY <1>1, <2>1, <2>3
    <3>2. chain[j - 1] = second[(j - k) - 1]
      <4>1. CASE j - 1 <= k
        <5>1. j - 1 = k /\ (j - k) - 1 = 0
          BY <1>1, <2>1, <2>3, <4>1
        <5> QED
          BY <1>2, <1>3, <2>1, <4>1, <5>1
      <4>2. CASE ~(j - 1 <= k)
        BY <2>1, <3>1, <4>2
      <4> QED
        BY <4>1, <4>2
    <3>3. chain[j] = second[j - k] /\ both[j] = t[j - k]
      BY <1>1, <2>1, <2>3
    <3> QED
      BY <1>3, <3>1, <3>2, <3>3
  <2> QED
    BY <2>2, <2>3
<1> HIDE DEF chain
<1>6. Leads(sent, both, a, b)
  BY <1>4, <1>5 DEF Leads
<1> QED
  BY <1>6 DEF both

LEMMA LeadsOnce ==
  ASSUME NEW sent, NEW task, NEW a, NEW b, Does(sent, task, a, b)
  PROVE  Leads(sent, <<task>>, a, b)
<1> DEFINE chain == [j \in 0..1 |-> IF j = 0 THEN a ELSE b]
<1>1. chain[0] = a /\ chain[1] = b
  OBVIOUS
<1> HIDE DEF chain
<1>2. Len(<<task>>) = 1 /\ <<task>>[1] = task /\ 1 - 1 = 0 /\ 1..1 = {1}
  OBVIOUS
<1> QED
  BY <1>1, <1>2 DEF Leads

LEMMA LeadsTwice ==
  ASSUME NEW sent, NEW s, NEW t, NEW a, NEW m, NEW b,
         Does(sent, s, a, m), Does(sent, t, m, b)
  PROVE  Leads(sent, <<s, t>>, a, b)
<1> DEFINE chain == [j \in 0..2 |-> IF j = 0 THEN a ELSE IF j = 1 THEN m ELSE b]
<1>1. chain[0] = a /\ chain[1] = m /\ chain[2] = b
  OBVIOUS
<1> HIDE DEF chain
<1>2. /\ Len(<<s, t>>) = 2 /\ <<s, t>>[1] = s /\ <<s, t>>[2] = t
      /\ 1 - 1 = 0 /\ 2 - 1 = 1 /\ 1..2 = {1, 2}
  OBVIOUS
<1> QED
  BY <1>1, <1>2 DEF Leads

\* What is left of parts when the first k are read.
LEMMA PartsLeft ==
  ASSUME NEW n \in Nat, NEW calls \in [1..n -> Parts], NEW rest \in Seq(Parts)
  PROVE  /\ SubSeq(calls, 1, n) \o rest = calls \o rest
         /\ SubSeq(calls, n + 1, n) \o rest = rest
         /\ \A k \in 1..n :
              /\ SubSeq(calls, k + 1, n) \o rest \in Seq(Parts)
              /\ SubSeq(calls, k, n) \o rest
                   = <<calls[k]>> \o (SubSeq(calls, k + 1, n) \o rest)
<1>1. calls \in Seq(Parts) /\ Len(calls) = n
  BY FunctionIsSeq
<1>2. SubSeq(calls, 1, n) = calls /\ SubSeq(calls, n + 1, n) = << >>
  <2>1. SubSeq(calls, 1, n) = calls
    BY <1>1
  <2>2. SubSeq(calls, n + 1, n) = << >>
    BY <1>1
  <2> QED
    BY <2>1, <2>2
<1>3. << >> \o rest = rest
  BY ConcatEmptySeq
<1>4. ASSUME NEW k \in 1..n
      PROVE  /\ SubSeq(calls, k + 1, n) \o rest \in Seq(Parts)
             /\ SubSeq(calls, k, n) \o rest
                  = <<calls[k]>> \o (SubSeq(calls, k + 1, n) \o rest)
  <2> DEFINE left == SubSeq(calls, k + 1, n)
             all == SubSeq(calls, k, n)
             head == <<calls[k]>>
  <2>1. /\ left \in Seq(Parts) /\ Len(left) = n - k
        /\ \A j \in 1..(n - k) : left[j] = calls[k + j]
    BY <1>1
  <2>2. /\ all \in Seq(Parts) /\ Len(all) = n - k + 1
        /\ \A j \in 1..(n - k + 1) : all[j] = calls[k + j - 1]
    BY <1>1
  <2>3. head \in Seq(Parts) /\ Len(head) = 1 /\ head[1] = calls[k]
    BY <1>1
  <2> HIDE DEF left, all, head
  <2>4. all = head \o left
    <3>1. /\ head \o left \in Seq(Parts) /\ Len(head \o left) = n - k + 1
          /\ \A j \in 1..(n - k + 1) :
               (head \o left)[j] = IF j <= 1 THEN head[j] ELSE left[j - 1]
      <4>1. /\ head \o left \in Seq(Parts) /\ Len(head \o left) = 1 + Len(left)
            /\ \A j \in 1..(1 + Len(left)) :
                 (head \o left)[j] = IF j <= 1 THEN head[j] ELSE left[j - 1]
        <5>1. left \in Seq(Parts) /\ head \in Seq(Parts)
          BY <2>1, <2>3
        <5>2. /\ head \o left \in Seq(Parts) /\ Len(head \o left) = Len(head) + Len(left)
              /\ \A j \in 1..(Len(head) + Len(left)) :
                   (head \o left)[j] = IF j <= Len(head) THEN head[j]
                                       ELSE left[j - Len(head)]
          BY <5>1, ConcatProperties
        <5> QED
          BY <2>3, <5>2
      <4>2. 1 + Len(left) = n - k + 1
        BY <2>1
      <4> QED
        BY <4>1, <4>2
    <3>2. ASSUME NEW j \in 1..(n - k + 1)
          PROVE  all[j] = (head \o left)[j]
      <4>1. CASE j = 1
        <5>1. k + j - 1 = k /\ all[j] = calls[k + j - 1]
          BY <2>2, <4>1
        <5>2. (head \o left)[j] = head[j]
          BY <3>1, <4>1
        <5> QED
          BY <2>3, <4>1, <5>1, <5>2
      <4>2. CASE j # 1
        <5>1. j - 1 \in 1..(n - k) /\ k + (j - 1) = k + j - 1 /\ ~(j <= 1)
          BY <4>2
        <5> QED
          BY <2>1, <2>2, <3>1, <5>1
      <4> QED
        BY <4>1, <4>2
    <3> QED
      BY <2>2, <3>1, <3>2, SeqEqual
  <2>5. (head \o left) \o rest = head \o (left \o rest) /\ left \o rest \in Seq(Parts)
    BY <2>1, <2>3
  <2> QED
    BY <2>4, <2>5 DEF left, all, head
<1> QED
  BY <1>2, <1>3, <1>4

-----------------------------------------------------------------------------
(* The children of a part.                                                 *)

Alternatives == {"variant", "boostvariant"}
Parents == {"optional", "pointer", "resizeable", "extensible", "array", "product"}
             \union Alternatives

ChildType(t, i) ==
  IF t.kind \in {"product"} \union Alternatives THEN t.of[i] ELSE t.of[1]

ChildrenOf(tree, t, p) ==
  LET v == At(tree, p)
  IN  CASE t.kind \in {"optional", "pointer", "resizeable", "extensible"} -> 1..v
        [] t.kind = "array" -> 1..t.n
        [] t.kind = "product" -> DOMAIN t.of
        [] t.kind \in Alternatives -> DOMAIN t.of \intersect {v + 1}

LEMMA ChildParts ==
  ASSUME NEW tree, IsObject(tree), NEW t \in Types, NEW p \in Seq(Nat), t.kind \in Parents
  PROVE  /\ PartsOf(tree, Part(t, p))
              = {Part(ChildType(t, i), p \o <<i>>) : i \in ChildrenOf(tree, t, p)}
         /\ Flags(tree, Part(t, p)) = {}
         /\ \A i \in ChildrenOf(tree, t, p) :
              i \in Nat \ {0} /\ ChildType(t, i) \in Types /\ p \o <<i>> \in Seq(Nat)
<1> DEFINE v == At(tree, p)
<1>1. v \in Nat /\ t.n \in Nat /\ t.of \in Seq(Types)
  BY ContentType, TypesAssumption
<1>2. Part(t, p).type = t /\ Part(t, p).path = p
  BY PartType
<1>3. Flags(tree, Part(t, p)) = {}
  BY <1>2 DEF Flags, Parents, Alternatives
<1>4. ASSUME NEW i \in ChildrenOf(tree, t, p)
      PROVE  i \in Nat \ {0} /\ ChildType(t, i) \in Types
  <2>1. CASE t.kind \in {"optional", "pointer", "resizeable", "extensible", "array"}
    <3>1. t.of[1] \in Types
      BY <2>1, TypesAssumption DEF Wrappers
    <3>2. ChildType(t, i) = t.of[1]
      BY <2>1 DEF ChildType, Alternatives
    <3>3. \E n \in {v, t.n} : i \in 1..n
      <4>1. CASE t.kind = "array"
        BY <4>1 DEF ChildrenOf, Alternatives
      <4>2. CASE t.kind \in {"optional", "pointer", "resizeable", "extensible"}
        BY <4>2 DEF ChildrenOf, Alternatives
      <4> QED
        BY <2>1, <4>1, <4>2
    <3> HIDE DEF v
    <3> QED
      BY <1>1, <3>1, <3>2, <3>3
  <2>2. CASE t.kind \in {"product"} \union Alternatives
    <3>1. i \in DOMAIN t.of /\ ChildType(t, i) = t.of[i]
      BY <2>2 DEF ChildrenOf, ChildType, Alternatives
    <3> QED
      BY <1>1, <3>1
  <2> QED
    BY <2>1, <2>2 DEF Parents
<1>5. \A i \in ChildrenOf(tree, t, p) : p \o <<i>> \in Seq(Nat)
  BY <1>4, ChildPath
<1> DEFINE S == ChildrenOf(tree, t, p)
<1>6. PartsOf(tree, Part(t, p)) = {Part(ChildType(t, i), p \o <<i>>) : i \in S}
  <2>1. CASE t.kind \in {"optional", "pointer", "resizeable", "extensible", "array"}
    <3>1. \A i : ChildType(t, i) = t.of[1]
      BY <2>1 DEF ChildType, Alternatives
    <3>2. \E n : S = 1..n /\ PartsOf(tree, Part(t, p))
                               = {Part(t.of[1], p \o <<i>>) : i \in 1..n}
      <4>1. CASE t.kind = "array"
        <5>1. S = 1..t.n
          BY <4>1 DEF ChildrenOf, Alternatives
        <5>2. PartsOf(tree, Part(t, p)) = {Part(t.of[1], p \o <<i>>) : i \in 1..t.n}
          BY <1>2, <4>1 DEF PartsOf
        <5> QED
          BY <5>1, <5>2
      <4>2. CASE t.kind \in {"optional", "pointer", "resizeable", "extensible"}
        BY <1>2, <4>2 DEF PartsOf, ChildrenOf, Alternatives
      <4> QED
        BY <2>1, <4>1, <4>2
    <3> HIDE DEF S
    <3>3. PartsOf(tree, Part(t, p)) = {Part(t.of[1], p \o <<i>>) : i \in S}
      BY <3>2
    <3>4. \A i : Part(t.of[1], p \o <<i>>) = Part(ChildType(t, i), p \o <<i>>)
      BY <3>1
    <3> QED
      BY <3>3, <3>4
  <2>2. CASE t.kind \in {"product"} \union Alternatives
    <3>1. \A i : ChildType(t, i) = t.of[i]
      BY <2>2 DEF ChildType
    <3>2. PartsOf(tree, Part(t, p)) = {Part(t.of[i], p \o <<i>>) : i \in S}
      <4>1. CASE t.kind = "product"
        BY <1>2, <4>1 DEF PartsOf, ChildrenOf, Alternatives
      <4>2. CASE t.kind = "variant"
        BY <1>2, <4>2 DEF PartsOf, ChildrenOf, Alternatives
      <4>3. CASE t.kind = "boostvariant"
        BY <1>2, <4>3 DEF PartsOf, ChildrenOf, Alternatives
      <4> QED
        BY <2>2, <4>1, <4>2, <4>3 DEF Alternatives
    <3> HIDE DEF S
    <3>3. \A i : Part(t.of[i], p \o <<i>>) = Part(ChildType(t, i), p \o <<i>>)
      BY <3>1
    <3> QED
      BY <3>2, <3>3
  <2> QED
    BY <2>1, <2>2 DEF Parents
<1> QED
  BY <1>3, <1>4, <1>5, <1>6

LEMMA ChildShape ==
  ASSUME NEW tree, IsObject(tree), NEW t, NEW p, IsShaped(tree, t, p), t.kind \in Parents
  PROVE  /\ \A i \in ChildrenOf(tree, t, p) : IsShaped(tree, ChildType(t, i), p \o <<i>>)
         /\ \A x \in Seq(Nat) : x # << >> /\ x[1] \notin ChildrenOf(tree, t, p) =>
              At(tree, p \o x) = 0
<1>1. Part(t, p) \in Parts /\ HasShape(tree, Part(t, p))
  BY ShapedParts
<1>2. t \in Types /\ p \in Seq(Nat)
  BY <1>1 DEF Part, Parts
<1>3. ASSUME NEW i \in ChildrenOf(tree, t, p)
      PROVE  IsShaped(tree, ChildType(t, i), p \o <<i>>)
  <2> DEFINE sub == Part(ChildType(t, i), p \o <<i>>)
  <2>1. sub \in PartsOf(tree, Part(t, p))
    BY <1>2, ChildParts
  <2>2. sub.type = ChildType(t, i) /\ sub.path = p \o <<i>>
    BY <1>2, ChildParts, PartType
  <2>3. IsShaped(tree, sub.type, sub.path)
    BY <2>1, ShapedParts
  <2> QED
    BY <2>2, <2>3
<1>4. ASSUME NEW x \in Seq(Nat), x # << >>, x[1] \notin ChildrenOf(tree, t, p)
      PROVE  At(tree, p \o x) = 0
  <2> SUFFICES ASSUME At(tree, p \o x) # 0 PROVE FALSE
    OBVIOUS
  <2>1. \E sub \in PartsOf(tree, Part(t, p)) : IsPrefix(sub.path, p \o x)
    BY <1>1, <1>2, <1>4, ChildParts, NothingElse
  <2> DEFINE S == ChildrenOf(tree, t, p)
             sub(i) == Part(ChildType(t, i), p \o <<i>>)
  <2>a. PartsOf(tree, Part(t, p)) = {sub(i) : i \in S}
    BY <1>2, ChildParts, ZenonT(60)
  <2>b. PICK part \in {sub(i) : i \in S} : IsPrefix(part.path, p \o x)
    BY <2>1, <2>a
  <2>2. PICK i \in ChildrenOf(tree, t, p) : part = Part(ChildType(t, i), p \o <<i>>)
    BY <2>b
  <2>3. i \in Nat /\ IsPrefix(p \o <<i>>, p \o x)
    BY <1>2, <2>2, <2>b, ChildParts, PartType
  <2>4. x[1] = i
    BY <1>2, <2>3, BelowChild
  <2> QED
    BY <1>4, <2>4
<1> QED
  BY <1>3, <1>4

LEMMA ChildTyped ==
  ASSUME NEW tree, IsObject(tree), NEW t, NEW p, IsTyped(tree, t, p), t.kind \in Parents
  PROVE  \A i \in ChildrenOf(tree, t, p) : IsTyped(tree, ChildType(t, i), p \o <<i>>)
<1>1. Part(t, p) \in Parts
  BY TypedParts
<1>2. t \in Types /\ p \in Seq(Nat)
  BY <1>1 DEF Part, Parts
<1>3. ASSUME NEW i \in ChildrenOf(tree, t, p)
      PROVE  IsTyped(tree, ChildType(t, i), p \o <<i>>)
  <2> DEFINE sub == Part(ChildType(t, i), p \o <<i>>)
  <2>1. sub \in PartsOf(tree, Part(t, p))
    BY <1>2, ChildParts
  <2>2. sub.type = ChildType(t, i) /\ sub.path = p \o <<i>>
    BY <1>2, ChildParts, PartType
  <2>3. IsTyped(tree, sub.type, sub.path)
    BY <2>1, TypedParts
  <2> QED
    BY <2>2, <2>3
<1> QED
  BY <1>3

\* The path of the element behind a flag, and of what is below it.
ElementOf(p, i) == p \o <<i, 1>>
InElement(i, y) == <<i, 1>> \o y

LEMMA TwoSteps ==
  ASSUME NEW p \in Seq(Nat), NEW i \in Nat, NEW y \in Seq(Nat)
  PROVE  /\ InElement(i, y) \in Seq(Nat) /\ InElement(i, y) # << >> /\ InElement(i, y)[1] = i
         /\ InElement(i, y) # <<i>>
         /\ ElementOf(p, i) \in Seq(Nat)
         /\ (p \o <<i>>) \o <<1>> = ElementOf(p, i)
         /\ ElementOf(p, i) \o y = p \o InElement(i, y)
<1> DEFINE one == <<1>>
           two == <<i, 1>>
<1>1. two \in Seq(Nat) /\ two \o y \in Seq(Nat) /\ two \o y # << >> /\ (two \o y)[1] = i
  OBVIOUS
<1>2. Len(two \o y) = 2 + Len(y) /\ Len(<<i>>) = 1
  OBVIOUS
<1>3. one \in Seq(Nat) /\ <<i>> \o one = two
  <2> DEFINE c == <<i>> \o one
  <2>1. c \in Seq(Nat) /\ Len(c) = 2 /\ c[1] = i /\ c[2] = 1
    OBVIOUS
  <2>2. two \in Seq(Nat) /\ Len(two) = 2 /\ two[1] = i /\ two[2] = 1 /\ 1..2 = {1, 2}
    OBVIOUS
  <2> HIDE DEF c, two
  <2>3. c = two
    <3>1. \A j \in 1..Len(c) : c[j] = two[j]
      BY <2>1, <2>2
    <3> QED
      BY <2>1, <2>2, <3>1, SeqEqual
  <2> QED
    BY <2>3 DEF c
<1>4. p \o two \in Seq(Nat)
  OBVIOUS
<1>5. (p \o <<i>>) \o one = p \o two
  <2> HIDE DEF one, two
  <2> QED
    BY <1>3, BelowPath
<1>6. (p \o two) \o y = p \o (two \o y)
  <2> HIDE DEF two
  <2> QED
    BY <1>1, PathConcat, Zenon
<1>7. two \o y # <<i>>
  <2> DEFINE a == two \o y
             b == <<i>>
  <2>1. Len(a) = 2 + Len(y) /\ Len(b) = 1 /\ Len(y) \in Nat
    BY <1>2
  <2> HIDE DEF a, b
  <2>2. a # b
    <3> DEFINE m == Len(y)
    <3>1. m \in Nat /\ Len(a) = 2 + m
      BY <2>1
    <3> HIDE DEF m
    <3> SUFFICES ASSUME a = b
                 PROVE  FALSE
      OBVIOUS
    <3>2. 2 + m = 1
      BY <2>1, <3>1, Zenon
    <3> QED
      BY <3>1, <3>2
  <2> QED
    BY <2>2 DEF a, b
<1> QED
  BY <1>1, <1>4, <1>5, <1>6, <1>7 DEF InElement, ElementOf

\* A path that starts with i is the flag's, or starts with the element's, or is
\* neither.
LEMMA SecondStep ==
  ASSUME NEW p \in Seq(Nat), NEW i \in Nat, NEW x \in Seq(Nat), x # << >>, x[1] = i
  PROVE  \/ x = <<i>>
         \/ \E y \in Seq(Nat) : x = InElement(i, y)
         \/ ~IsPrefix(ElementOf(p, i), p \o x)
<1> DEFINE z == Tail(x)
<1>1. z \in Seq(Nat) /\ x = <<i>> \o z
  OBVIOUS
<1>2. p \o x = (p \o <<i>>) \o z /\ p \o <<i>> \in Seq(Nat)
  BY <1>1, BelowPath, SMTT(60)
<1> HIDE DEF z
<1>3. CASE z = << >>
  BY <1>1, <1>3
<1>4. CASE z # << >> /\ z[1] = 1
  <2> DEFINE y == Tail(z)
  <2>1. y \in Seq(Nat) /\ z = <<1>> \o y
    BY <1>1, <1>4
  <2> DEFINE w == InElement(i, y)
  <2>2. w \in Seq(Nat) /\ Len(w) = 2 + Len(y) /\ w[1] = i /\ w[2] = 1
        /\ \A j \in 1..Len(y) : w[j + 2] = y[j]
    <3> HIDE DEF y
    <3> QED
      BY <2>1 DEF InElement
  <2>3. /\ Len(x) = 2 + Len(y) /\ x[1] = i /\ x[2] = 1
        /\ \A j \in 1..Len(y) : x[j + 2] = y[j]
    <3>1. Len(z) = Len(x) - 1 /\ \A j \in 1..Len(z) : z[j] = x[j + 1]
      BY DEF z
    <3>2. Len(y) = Len(z) - 1 /\ Len(z) \in Nat /\ \A j \in 1..Len(y) : y[j] = z[j + 1]
      BY <1>1, <1>4
    <3> HIDE DEF y
    <3> QED
      BY <1>1, <1>4, <2>1, <3>1, <3>2
  <2> HIDE DEF w, y
  <2>4. \A j \in 1..Len(x) : x[j] = w[j]
    <3> SUFFICES ASSUME NEW j \in 1..Len(x)
                 PROVE  x[j] = w[j]
      OBVIOUS
    <3>1. CASE j = 1 \/ j = 2
      BY <2>2, <2>3, <3>1
    <3>2. CASE j # 1 /\ j # 2
      <4>1. j - 2 \in 1..Len(y) /\ (j - 2) + 2 = j
        BY <2>1, <2>3, <3>2
      <4> QED
        BY <2>2, <2>3, <4>1
    <3> QED
      BY <3>1, <3>2
  <2>5. x = w
    BY <2>2, <2>3, <2>4, SeqEqual
  <2> QED
    BY <2>1, <2>5 DEF w
<1>5. CASE z # << >> /\ z[1] # 1
  <2> DEFINE c == p \o <<i>>
  <2>1. c \in Seq(Nat) /\ p \o x = c \o z /\ c \o <<1>> = ElementOf(p, i)
    BY <1>2, TwoSteps
  <2> HIDE DEF c
  <2>2. ~IsPrefix(c \o <<1>>, c \o z)
    BY <1>1, <1>5, <2>1, BelowChild
  <2> QED
    BY <2>1, <2>2
<1> QED
  BY <1>3, <1>4, <1>5

\* In a random collection there are the flags and the elements of its keys.
InRandom(tree, p, x) ==
  \E k \in Keys(tree, p) : \/ x = <<k + 1>> /\ At(tree, p \o x) = 1
                           \/ \E y \in Seq(Nat) : x = InElement(k + 1, y)

LEMMA RandomShape ==
  ASSUME NEW tree, IsObject(tree), NEW t, NEW p, IsShaped(tree, t, p), t.kind = "random",
         NEW x \in Seq(Nat), x # << >>, At(tree, p \o x) # 0
  PROVE  InRandom(tree, p, x)
<1>1. Part(t, p) \in Parts /\ HasShape(tree, Part(t, p))
  BY ShapedParts
<1>2. t \in Types /\ p \in Seq(Nat)
  BY <1>1 DEF Part, Parts
<1>3. /\ PartsOf(tree, Part(t, p))
           = {Part(t.of[1], p \o <<k + 1, 1>>) : k \in Keys(tree, p)}
      /\ Flags(tree, Part(t, p)) = {p \o <<k + 1>> : k \in Keys(tree, p)}
  <2>1. Part(t, p).type = t /\ Part(t, p).path = p
    BY <1>2, PartType
  <2>2. PartsOf(tree, Part(t, p))
          = {Part(t.of[1], p \o <<k + 1, 1>>) : k \in Keys(tree, p)}
    BY <2>1 DEF PartsOf
  <2>3. Flags(tree, Part(t, p)) = {p \o <<k + 1>> : k \in Keys(tree, p)}
    BY <2>1 DEF Flags
  <2> QED
    BY <2>2, <2>3
<1>4. /\ Keys(tree, p) \subseteq Nat
      /\ t.of[1] \in Types
  BY <1>2, KeysMeaning, TypesAssumption DEF Wrappers
<1>5. CASE p \o x \in Flags(tree, Part(t, p)) /\ At(tree, p \o x) = 1
  <2>1. PICK k \in Keys(tree, p) : p \o x = p \o <<k + 1>>
    BY <1>3, <1>5
  <2>2. <<k + 1>> \in Seq(Nat)
    BY <1>4
  <2>3. x = <<k + 1>>
    BY <1>2, <2>1, <2>2, ConcatSimplifications
  <2> QED
    BY <1>5, <2>3 DEF InRandom
<1>6. CASE \E sub \in PartsOf(tree, Part(t, p)) : IsPrefix(sub.path, p \o x)
  <2>1. PICK k \in Keys(tree, p) :
          IsPrefix(Part(t.of[1], p \o <<k + 1, 1>>).path, p \o x)
    BY <1>3, <1>6
  <2> DEFINE z == <<k + 1, 1>>
  <2>2. z \in Seq(Nat) /\ p \o z \in Seq(Nat)
    BY <1>2, <1>4
  <2> HIDE DEF z
  <2>3. IsPrefix(p \o z, p \o x) /\ p \o x \in Seq(Nat)
    <3>1. Part(t.of[1], p \o z).path = p \o z
      BY DEF Part
    <3>2. IsPrefix(Part(t.of[1], p \o z).path, p \o x)
      BY <2>1 DEF z
    <3>3. IsPrefix(p \o z, p \o x)
      BY <3>1, <3>2
    <3>4. p \o x \in Seq(Nat)
      BY <1>2
    <3> QED
      BY <3>3, <3>4
  <2>4. PICK y \in Seq(Nat) : p \o x = (p \o z) \o y
    BY <2>2, <2>3, PathBelow
  <2>5. (p \o z) \o y = p \o (z \o y) /\ z \o y \in Seq(Nat)
    <3> HIDE DEF z
    <3>1. z \in Seq(Nat)
      BY <2>2
    <3>2. (p \o z) \o y = p \o (z \o y)
      BY <1>2, <2>4, <3>1, PathConcat
    <3>3. z \o y \in Seq(Nat)
      BY <2>4, <3>1
    <3> QED
      BY <3>2, <3>3
  <2>6. x = z \o y
    <3> DEFINE w == z \o y
    <3>1. w \in Seq(Nat) /\ p \o x = p \o w
      BY <2>4, <2>5
    <3> HIDE DEF w
    <3>2. x = w
      BY <1>2, <3>1, ConcatSimplifications
    <3> QED
      BY <3>2 DEF w
  <2> QED
    BY <2>5, <2>6 DEF z, InElement, InRandom
<1> QED
  BY <1>1, <1>2, <1>5, <1>6, NothingElse

LEMMA RandomTyped ==
  ASSUME NEW tree, IsObject(tree), NEW t, NEW p, IsTyped(tree, t, p), t.kind = "random"
  PROVE  \A k \in Keys(tree, p) : IsTyped(tree, t.of[1], p \o <<k + 1, 1>>)
<1>1. Part(t, p) \in Parts
  BY TypedParts
<1>2. t \in Types /\ p \in Seq(Nat)
  BY <1>1 DEF Part, Parts
<1>3. ASSUME NEW k \in Keys(tree, p)
      PROVE  IsTyped(tree, t.of[1], p \o <<k + 1, 1>>)
  <2> DEFINE sub == Part(t.of[1], p \o <<k + 1, 1>>)
  <2>1. sub \in PartsOf(tree, Part(t, p))
    <3>1. Part(t, p).type = t /\ Part(t, p).path = p
      BY <1>2, PartType
    <3> QED
      BY <3>1 DEF PartsOf
  <2>2. sub.type = t.of[1] /\ sub.path = p \o <<k + 1, 1>>
    BY DEF Part
  <2>3. IsTyped(tree, sub.type, sub.path)
    BY <2>1, TypedParts
  <2> QED
    BY <2>2, <2>3
<1> QED
  BY <1>3

\* The children 1..n of a sub-object, to be read and as parts.
ReadsOfChildren(n, T, p) == [i \in 1..n |-> Task("read", T[i], p \o <<i>>)]
PartsOfChildren(n, T, e) == [i \in 1..n |-> Part(T[i], e \o <<i>>)]

\* The children of the argument are read, one after the other.
LEMMA ReadsLead ==
  ASSUME NEW sent, IsObject(sent), NEW before, IsObject(before), NEW after,
         NEW p \in Seq(Nat), NEW e \in Seq(Nat), NEW n \in Nat, NEW T \in [1..n -> Types],
         \A i \in 1..n : IsTyped(sent, T[i], e \o <<i>>) /\ IsShaped(before, T[i], p \o <<i>>),
         At(before, p) = At(sent, e),
         \A x \in Seq(Nat) : x # << >> /\ x[1] \notin 1..n =>
           At(before, p \o x) = At(sent, e \o x),
         IsPut(sent, after, before, p, e), NEW rest \in Seq(Parts)
  PROVE  Leads(sent, ReadsOfChildren(n, T, p),
               Config(before, PartsOfChildren(n, T, e) \o rest), Config(after, rest))
<1> DEFINE tasks == [i \in 1..n |-> Task("read", T[i], p \o <<i>>)]
           calls == [i \in 1..n |-> Part(T[i], e \o <<i>>)]
           tree(k) == CHOOSE g : IsGrafted(sent, g, before, p, e, 1..k, At(sent, e))
           left(k) == SubSeq(calls, k + 1, n) \o rest
           chain == [k \in 0..n |-> Config(tree(k), left(k))]
<1>1. ASSUME NEW k \in 0..n
      PROVE  IsGrafted(sent, tree(k), before, p, e, 1..k, At(sent, e))
  <2>1. At(sent, e) \in Nat
    BY ContentType
  <2>2. \E g : IsGrafted(sent, g, before, p, e, 1..k, At(sent, e))
    BY <2>1, GraftExists
  <2> QED
    BY <2>2
<1>2. tree(0) = before
  <2>1. 1..0 = {} /\ 0 \in 0..n
    OBVIOUS
  <2>2. IsGrafted(sent, tree(0), before, p, e, {}, At(before, p))
    BY <1>1, <2>1
  <2> HIDE DEF tree
  <2> QED
    BY <2>2, GraftNone
<1>3. tree(n) = after
  <2>1. n \in 0..n
    OBVIOUS
  <2>2. IsGrafted(sent, tree(n), before, p, e, 1..n, At(sent, e))
    BY <1>1, <2>1
  <2> HIDE DEF tree
  <2>3. IsPut(sent, tree(n), before, p, e)
    BY <2>2, GraftAll
  <2>4. /\ IsObject(tree(n))
        /\ \A x \in Seq(Nat) : At(tree(n), p \o x) = At(sent, e \o x)
        /\ \A q \in Seq(Nat) : ~IsPrefix(p, q) => At(tree(n), q) = At(before, q)
    BY <2>3 DEF IsPut
  <2> DEFINE other == tree(n)
  <2> HIDE DEF other
  <2> QED
    BY <2>4, PutUnique DEF other
<1>4. \A i \in 1..n : p \o <<i>> \in Seq(Nat) /\ e \o <<i>> \in Seq(Nat) /\ T[i] \in Types
  BY ChildPath
<1>5. calls \in [1..n -> Parts]
  BY <1>4, PartType
<1>6. ASSUME NEW k \in 1..n
      PROVE  Does(sent, tasks[k], chain[k - 1], chain[k])
  <2>1. k - 1 \in 0..n /\ k \in 0..n /\ (k - 1) + 1 = k /\ k \in Nat
    OBVIOUS
  <2>2. /\ IsGrafted(sent, tree(k - 1), before, p, e, 1..(k - 1), At(sent, e))
        /\ IsGrafted(sent, tree(k), before, p, e, 1..k, At(sent, e))
    BY <1>1, <2>1
  <2> HIDE DEF tree
  <2>3. 1..k = 1..(k - 1) \union {k}
    BY <2>1
  <2>4. IsPut(sent, tree(k), tree(k - 1), p \o <<k>>, e \o <<k>>)
    BY <2>1, <2>2, <2>3, GraftStep
  <2>5. IsShaped(tree(k - 1), T[k], p \o <<k>>)
    <3>1. ASSUME NEW x \in Seq(Nat)
          PROVE  At(tree(k - 1), (p \o <<k>>) \o x) = At(before, (p \o <<k>>) \o x)
      <4> DEFINE y == <<k>> \o x
      <4>1. y \in Seq(Nat) /\ y # << >> /\ y[1] = k /\ (p \o <<k>>) \o x = p \o y
        BY <2>1, BelowPath
      <4> HIDE DEF y
      <4>2. y[1] \notin 1..(k - 1)
        BY <4>1
      <4> QED
        BY <2>2, <4>1, <4>2 DEF IsGrafted
    <3>2. IsObject(tree(k - 1)) /\ IsShaped(before, T[k], p \o <<k>>)
      BY <2>2 DEF IsGrafted
    <3> QED
      BY <3>1, <3>2, ShapedElsewhere
  <2>6. left(k - 1) = <<calls[k]>> \o left(k) /\ left(k) \in Seq(Parts)
    <3> HIDE DEF calls
    <3>1. \A j \in 1..n : /\ SubSeq(calls, j + 1, n) \o rest \in Seq(Parts)
                           /\ SubSeq(calls, j, n) \o rest
                                = <<calls[j]>> \o (SubSeq(calls, j + 1, n) \o rest)
      BY <1>5, PartsLeft
    <3> QED
      BY <2>1, <3>1
  <2>7. calls[k] = Part(T[k], e \o <<k>>)
    OBVIOUS
  <2> HIDE DEF calls, left
  <2>8. /\ chain[k - 1].tree = tree(k - 1) /\ chain[k - 1].rest = left(k - 1)
        /\ chain[k].tree = tree(k) /\ chain[k].rest = left(k)
    BY <2>1 DEF Config
  <2>9. tasks[k].do = "read" /\ tasks[k].type = T[k] /\ tasks[k].path = p \o <<k>>
    BY DEF Task
  <2> HIDE DEF chain, tasks
  <2> QED
    BY <1>4, <2>4, <2>5, <2>6, <2>7, <2>8, <2>9 DEF Does
<1>7. Len(tasks) = n /\ 0 \in 0..n /\ n \in 0..n
  OBVIOUS
<1>8. left(0) = calls \o rest /\ left(n) = rest
  <2>1. 0 + 1 = 1
    OBVIOUS
  <2> HIDE DEF calls
  <2>2. SubSeq(calls, 1, n) \o rest = calls \o rest /\ SubSeq(calls, n + 1, n) \o rest = rest
    BY <1>5, PartsLeft
  <2> QED
    BY <2>1, <2>2
<1>9. chain[0] = Config(before, calls \o rest) /\ chain[n] = Config(after, rest)
  <2> HIDE DEF tree, left, calls
  <2> QED
    BY <1>2, <1>3, <1>7, <1>8
<1> HIDE DEF chain, tasks, calls
<1>10. \A k \in 1..Len(tasks) : Does(sent, tasks[k], chain[k - 1], chain[k])
  BY <1>6, <1>7
<1>11. Leads(sent, tasks, Config(before, calls \o rest), Config(after, rest))
  BY <1>7, <1>9, <1>10 DEF Leads
<1> QED
  BY <1>11 DEF tasks, calls, ReadsOfChildren, PartsOfChildren

\* Tasks two and two.
LEMMA LeadsPairs ==
  ASSUME NEW sent, NEW n \in Nat, NEW tasks, Len(tasks) = 2 * n, NEW ends,
         \A i \in 1..n : \E m : /\ Does(sent, tasks[2 * i - 1], ends[i - 1], m)
                                /\ Does(sent, tasks[2 * i], m, ends[i])
  PROVE  Leads(sent, tasks, ends[0], ends[n])
<1> DEFINE Between(i, m) == /\ Does(sent, tasks[2 * i - 1], ends[i - 1], m)
                            /\ Does(sent, tasks[2 * i], m, ends[i])
           middle(i) == CHOOSE m : Between(i, m)
           chain == [j \in 0..(2 * n) |->
                       IF j % 2 = 0 THEN ends[j \div 2] ELSE middle((j + 1) \div 2)]
<1>1. \A i \in 1..n : Between(i, middle(i))
  OBVIOUS
<1> HIDE DEF middle
<1>2. \A i \in 0..n : chain[2 * i] = ends[i]
  <2> SUFFICES ASSUME NEW i \in 0..n PROVE chain[2 * i] = ends[i]
    OBVIOUS
  <2>1. 2 * i \in 0..(2 * n) /\ (2 * i) % 2 = 0 /\ (2 * i) \div 2 = i
    OBVIOUS
  <2> QED
    BY <2>1
<1>3. \A i \in 1..n : chain[2 * i - 1] = middle(i)
  <2> SUFFICES ASSUME NEW i \in 1..n PROVE chain[2 * i - 1] = middle(i)
    OBVIOUS
  <2>1. 2 * i - 1 \in 0..(2 * n) /\ (2 * i - 1) % 2 # 0 /\ ((2 * i - 1) + 1) \div 2 = i
    OBVIOUS
  <2> QED
    BY <2>1
<1> HIDE DEF chain
<1>4. ASSUME NEW j \in 1..(2 * n)
      PROVE  Does(sent, tasks[j], chain[j - 1], chain[j])
  <2>1. CASE j % 2 = 0
    <3> DEFINE i == j \div 2
    <3>1. i \in 1..n /\ i \in 0..n /\ j = 2 * i
      BY <2>1
    <3> HIDE DEF i
    <3>2. Does(sent, tasks[2 * i], middle(i), ends[i])
      BY <1>1, <3>1
    <3> QED
      BY <1>2, <1>3, <3>1, <3>2
  <2>2. CASE j % 2 # 0
    <3> DEFINE i == (j + 1) \div 2
    <3>1. i \in 1..n /\ i - 1 \in 0..n /\ j = 2 * i - 1 /\ j - 1 = 2 * (i - 1)
      BY <2>2
    <3> HIDE DEF i
    <3>2. Does(sent, tasks[2 * i - 1], ends[i - 1], middle(i))
      BY <1>1, <3>1
    <3> QED
      BY <1>2, <1>3, <3>1, <3>2
  <2> QED
    BY <2>1, <2>2
<1>5. chain[0] = ends[0] /\ chain[2 * n] = ends[n]
  <2>1. 0 \in 0..n /\ 2 * 0 = 0 /\ n \in 0..n
    OBVIOUS
  <2> QED
    BY <1>2, <2>1
<1> QED
  BY <1>4, <1>5 DEF Leads

-----------------------------------------------------------------------------
(* What the operators do with what was put.                                *)

\* The operator for a read of a type of the kind, and for another task.
ReadsOf(kind) ==
  \/ kind = "bool" /\ DecodeBool
  \/ kind = "int" /\ DecodeInteger
  \/ kind = "big" /\ DecodeBigFixedWidthInteger
  \/ kind = "enum" /\ DecodeEnum
  \/ kind = "compact" /\ DecodeCompact
  \/ kind = "bigcompact" /\ DecodeBigCompact
  \/ kind = "as_compact" /\ DecodeCompactReflection
  \/ kind = "optbool" /\ DecodeOptionalBool
  \/ kind = "optional" /\ DecodeOptional
  \/ kind = "pointer" /\ DecodePointer
  \/ kind = "product" /\ DecodeProduct
  \/ kind = "array" /\ DecodeStaticCollection
  \/ kind = "variant" /\ DecodeVariant
  \/ kind = "boostvariant" /\ DecodeBoostVariant
  \/ kind = "resizeable" /\ DecodeResizeable
  \/ kind = "extensible" /\ DecodeExtensible
  \/ kind = "random" /\ DecodeRandomExtensible
  \/ kind = "bitvec" /\ DecodeBitVec

Finishes(do) ==
  \/ do = "assign_ref" /\ AssignReference
  \/ do = "assign" /\ AssignVariant
  \/ do = "emplace_back" /\ EmplaceBack
  \/ do = "emplace" /\ Emplace
  \/ do = "leave" /\ LeaveRandomExtensible

\* The operator that runs is the one for the task at the head.
LEMMA OperatorServes ==
  ASSUME Operator
  PROVE  /\ pending # << >>
         /\ Head(pending).do = "read" => ReadsOf(Type.kind)
         /\ Head(pending).do # "read" => Finishes(Head(pending).do)
<1>1. /\ DecodeBool => Serving("bool")
      /\ DecodeInteger => Serving("int")
      /\ DecodeBigFixedWidthInteger => Serving("big")
      /\ DecodeEnum => Serving("enum")
      /\ DecodeCompact => Serving("compact")
      /\ DecodeBigCompact => Serving("bigcompact")
  BY DEF DecodeBool, DecodeInteger, DecodeBigFixedWidthInteger, DecodeEnum, DecodeCompact, DecodeBigCompact
<1>2. /\ DecodeCompactReflection => Serving("as_compact")
      /\ DecodeOptionalBool => Serving("optbool")
      /\ DecodeOptional => Serving("optional")
      /\ DecodePointer => Serving("pointer")
      /\ DecodeProduct => Serving("product")
      /\ DecodeStaticCollection => Serving("array")
  BY DEF DecodeCompactReflection, DecodeOptionalBool, DecodeOptional, DecodePointer, DecodeProduct, DecodeStaticCollection
<1>3. /\ DecodeVariant => Serving("variant")
      /\ DecodeBoostVariant => Serving("boostvariant")
      /\ DecodeResizeable => Serving("resizeable")
      /\ DecodeExtensible => Serving("extensible")
      /\ DecodeRandomExtensible => Serving("random")
      /\ DecodeBitVec => Serving("bitvec")
  BY DEF DecodeVariant, DecodeBoostVariant, DecodeResizeable, DecodeExtensible, DecodeRandomExtensible, DecodeBitVec
<1>4. /\ AssignReference => Doing("assign_ref")
      /\ AssignVariant => Doing("assign")
      /\ EmplaceBack => Doing("emplace_back")
      /\ Emplace => Doing("emplace")
      /\ LeaveRandomExtensible => Doing("leave")
  BY DEF AssignReference, AssignVariant, EmplaceBack, Emplace, LeaveRandomExtensible
<1>5. ASSUME NEW kind, Serving(kind)
      PROVE  pending # << >> /\ Head(pending).do = "read" /\ Type.kind = kind
  BY <1>5 DEF Serving, Doing, Type
<1>6. ASSUME NEW do, Doing(do)
      PROVE  pending # << >> /\ Head(pending).do = do
  BY <1>6 DEF Doing
<1>7. DecodeBool => pending # << >> /\ Head(pending).do = "read" /\ ReadsOf(Type.kind)
  BY <1>1, <1>5 DEF ReadsOf
<1>8. DecodeInteger => pending # << >> /\ Head(pending).do = "read" /\ ReadsOf(Type.kind)
  BY <1>1, <1>5 DEF ReadsOf
<1>9. DecodeBigFixedWidthInteger => pending # << >> /\ Head(pending).do = "read" /\ ReadsOf(Type.kind)
  BY <1>1, <1>5 DEF ReadsOf
<1>10. DecodeEnum => pending # << >> /\ Head(pending).do = "read" /\ ReadsOf(Type.kind)
  BY <1>1, <1>5 DEF ReadsOf
<1>11. DecodeCompact => pending # << >> /\ Head(pending).do = "read" /\ ReadsOf(Type.kind)
  BY <1>1, <1>5 DEF ReadsOf
<1>12. DecodeBigCompact => pending # << >> /\ Head(pending).do = "read" /\ ReadsOf(Type.kind)
  BY <1>1, <1>5 DEF ReadsOf
<1>13. DecodeCompactReflection => pending # << >> /\ Head(pending).do = "read" /\ ReadsOf(Type.kind)
  BY <1>2, <1>5 DEF ReadsOf
<1>14. DecodeOptionalBool => pending # << >> /\ Head(pending).do = "read" /\ ReadsOf(Type.kind)
  BY <1>2, <1>5 DEF ReadsOf
<1>15. DecodeOptional => pending # << >> /\ Head(pending).do = "read" /\ ReadsOf(Type.kind)
  BY <1>2, <1>5 DEF ReadsOf
<1>16. DecodePointer => pending # << >> /\ Head(pending).do = "read" /\ ReadsOf(Type.kind)
  BY <1>2, <1>5 DEF ReadsOf
<1>17. DecodeProduct => pending # << >> /\ Head(pending).do = "read" /\ ReadsOf(Type.kind)
  BY <1>2, <1>5 DEF ReadsOf
<1>18. DecodeStaticCollection => pending # << >> /\ Head(pending).do = "read" /\ ReadsOf(Type.kind)
  BY <1>2, <1>5 DEF ReadsOf
<1>19. DecodeVariant => pending # << >> /\ Head(pending).do = "read" /\ ReadsOf(Type.kind)
  BY <1>3, <1>5 DEF ReadsOf
<1>20. DecodeBoostVariant => pending # << >> /\ Head(pending).do = "read" /\ ReadsOf(Type.kind)
  BY <1>3, <1>5 DEF ReadsOf
<1>21. DecodeResizeable => pending # << >> /\ Head(pending).do = "read" /\ ReadsOf(Type.kind)
  BY <1>3, <1>5 DEF ReadsOf
<1>22. DecodeExtensible => pending # << >> /\ Head(pending).do = "read" /\ ReadsOf(Type.kind)
  BY <1>3, <1>5 DEF ReadsOf
<1>23. DecodeRandomExtensible => pending # << >> /\ Head(pending).do = "read" /\ ReadsOf(Type.kind)
  BY <1>3, <1>5 DEF ReadsOf
<1>24. DecodeBitVec => pending # << >> /\ Head(pending).do = "read" /\ ReadsOf(Type.kind)
  BY <1>3, <1>5 DEF ReadsOf
<1>25. AssignReference => /\ pending # << >> /\ Head(pending).do # "read"
          /\ Finishes(Head(pending).do)
  BY <1>4, <1>6 DEF Finishes
<1>26. AssignVariant => /\ pending # << >> /\ Head(pending).do # "read"
          /\ Finishes(Head(pending).do)
  BY <1>4, <1>6 DEF Finishes
<1>27. EmplaceBack => /\ pending # << >> /\ Head(pending).do # "read"
          /\ Finishes(Head(pending).do)
  BY <1>4, <1>6 DEF Finishes
<1>28. Emplace => /\ pending # << >> /\ Head(pending).do # "read"
          /\ Finishes(Head(pending).do)
  BY <1>4, <1>6 DEF Finishes
<1>29. LeaveRandomExtensible => /\ pending # << >> /\ Head(pending).do # "read"
          /\ Finishes(Head(pending).do)
  BY <1>4, <1>6 DEF Finishes
<1> QED
  BY <1>7, <1>8, <1>9, <1>10, <1>11, <1>12, <1>13, <1>14, <1>15, <1>16, <1>17, <1>18, <1>19, <1>20, <1>21, <1>22, <1>23, <1>24, <1>25, <1>26, <1>27, <1>28, <1>29 DEF Operator

\* The operator for a read of a part of sent, in a state of the decoder, and
\* what the operator for that part puts and calls when it is encoded.
Reading(sent, e, bytes, calls) ==
  /\ IInv /\ pending # << >>
  /\ IsObject(sent) /\ IsTyped(sent, Type, e)
  /\ IsShaped(target, Type, Path)
  /\ Encodes(sent, Part(Type, e), bytes, calls)

\* It takes the bytes, and has tasks to do that with reads of what was called
\* make of the target one into which the part is copied.
Succeeds(sent, e, bytes, calls) ==
  \E tree, tasks :
    /\ Take(Len(bytes), tree, tasks)
    /\ tasks \in Seq(Tasks)
    /\ \A rest \in Seq(Parts) : \A after :
         IsPut(sent, after, target, Path, e) =>
           Leads(sent, tasks, Config(tree, calls \o rest), Config(after, rest))

EndsEarly == \E used, tree : Raise("NOT_ENOUGH_DATA", used, tree)

\* It does so when the bytes are there, and when they are cut off it ends there.
Serves(sent, e, bytes, calls) ==
  /\ HasAt(span, current_index, bytes) => Succeeds(sent, e, bytes, calls)
  /\ CutAt(span, current_index, bytes) => EndsEarly

LEMMA ReadingType ==
  ASSUME NEW sent, NEW e, NEW bytes, NEW calls, Reading(sent, e, bytes, calls)
  PROVE  /\ Type \in Types /\ Path \in Seq(Nat) /\ e \in Seq(Nat)
         /\ IsObject(target) /\ IsObject(sent)
         /\ At(sent, e) \in Nat /\ Type.n \in Nat
         /\ Part(Type, e) \in Parts
         /\ Part(Type, e).type = Type /\ Part(Type, e).path = e
         /\ HasValue(sent, Part(Type, e))
         /\ IsShaped(sent, Type, e)
         /\ span \in ByteStrings /\ span \in Seq(Byte) /\ Len(span) \in Nat
         /\ current_index \in 0..Len(span) /\ current_index \in Nat
         /\ bytes \in Seq(Byte) /\ calls \in Seq(Parts) /\ Len(bytes) \in Nat
<1>1. /\ IsObject(target) /\ IsObject(sent) /\ DecoderTypeOK /\ pending # << >>
      /\ IsTyped(sent, Type, e) /\ Encodes(sent, Part(Type, e), bytes, calls)
  BY DEF Reading, IInv
<1>2. Type \in Types /\ Path \in Seq(Nat)
  BY <1>1, HeadType
<1>3. Part(Type, e) \in Parts /\ HasValue(sent, Part(Type, e))
  BY <1>1, TypedParts
<1>4. e \in Seq(Nat)
  BY <1>3 DEF Part, Parts
<1>5. Part(Type, e).type = Type /\ Part(Type, e).path = e
  BY <1>2, <1>4, PartType
<1>6. IsShaped(sent, Type, e)
  BY <1>1, TypedIsShaped
<1>7. bytes \in Seq(Byte) /\ calls \in Seq(Parts) /\ Len(bytes) \in Nat
  BY <1>1, <1>3, EncodesType
<1>8. span \in ByteStrings /\ current_index \in 0..Len(span)
  BY <1>1 DEF DecoderTypeOK
<1>9. span \in Seq(Byte) /\ Len(span) \in Nat
  BY <1>8, ByteStringType
<1>10. At(sent, e) \in Nat /\ Type.n \in Nat
  BY <1>1, <1>2, ContentType, TypesAssumption
<1>11. current_index \in Nat
  BY <1>8, <1>9
<1> QED
  BY <1>1, <1>2, <1>3, <1>4, <1>5, <1>6, <1>7, <1>8, <1>9, <1>10, <1>11

\* A fixed number of bytes that are there, or are not.
LEMMA BytesServe ==
  ASSUME NEW sent, NEW e, NEW bytes, NEW calls, Reading(sent, e, bytes, calls),
         2 * Len(bytes) < SizeMod
  PROVE  /\ HasAt(span, current_index, bytes) =>
              Available(Len(bytes)) /\ NextBytes(Len(bytes)) = bytes
         /\ CutAt(span, current_index, bytes) => ~Available(Len(bytes))
<1>1. /\ span \in Seq(Byte) /\ Len(span) \in Nat /\ current_index \in Nat
      /\ bytes \in Seq(Byte) /\ Len(bytes) \in Nat /\ DecoderTypeOK
  BY ReadingType DEF Reading, IInv
<1>2. Available(Len(bytes)) <=> current_index + Len(bytes) <= Len(span)
  BY <1>1, AvailableMeaning
<1>3. HasAt(span, current_index, bytes) => NextBytes(Len(bytes)) = bytes
  BY <1>1, BytesHad DEF NextBytes
<1> QED
  BY <1>1, <1>2, <1>3 DEF HasAt, CutAt

LEMMA ByteServes ==
  ASSUME NEW sent, NEW e, NEW byte, NEW calls, Reading(sent, e, <<byte>>, calls)
  PROVE  /\ HasAt(span, current_index, <<byte>>) => Available(1) /\ NextByte = byte
         /\ CutAt(span, current_index, <<byte>>) => ~Available(1)
         /\ Len(<<byte>>) = 1
<1> DEFINE bytes == <<byte>>
<1>1. Len(bytes) = 1 /\ bytes[1] = byte
  OBVIOUS
<1>2. 2 * 1 < SizeMod
  BY IndexType DEF Reading, IInv
<1>3. HasAt(span, current_index, bytes) => NextByte = bytes[1]
  <2>1. 1 \in 1..1
    OBVIOUS
  <2> HIDE DEF bytes
  <2> QED
    BY <1>1, <2>1 DEF HasAt, NextByte
<1>4. /\ HasAt(span, current_index, bytes) => Available(Len(bytes))
      /\ CutAt(span, current_index, bytes) => ~Available(Len(bytes))
  <2>1. Reading(sent, e, bytes, calls) /\ 2 * Len(bytes) < SizeMod
    BY <1>1, <1>2
  <2> HIDE DEF bytes
  <2> QED
    BY <2>1, BytesServe
<1> QED
  BY <1>1, <1>3, <1>4

\* What puts no bytes cannot be cut off.
LEMMA NothingCut ==
  ASSUME NEW sent, NEW e, NEW calls, Reading(sent, e, << >>, calls)
  PROVE  ~CutAt(span, current_index, << >>) /\ Len(<< >>) = 0
<1>1. current_index \in 0..Len(span) /\ Len(span) \in Nat
  BY ReadingType
<1> QED
  BY <1>1 DEF CutAt

LEMMA ObjectsMade ==
  ASSUME NEW tree, IsObject(tree), NEW p \in Seq(Nat), NEW v \in Nat
  PROVE  /\ IsObject(Assign(tree, p, v)) /\ IsObject(Clear(tree, p))
         /\ IsObject(Truncate(tree, p, v))
<1>1. Writes(tree, Assign(tree, p, v), p)
  BY AssignWrites
<1>2. Writes(tree, Clear(tree, p), p)
  BY ClearWrites
<1>3. Writes(tree, Truncate(tree, p, v), p)
  BY TruncateWrites
<1> QED
  BY <1>1, <1>2, <1>3 DEF Writes

\* The part is copied at once.
LEMMA DoneSucceeds ==
  ASSUME NEW sent, NEW e, NEW bytes, Reading(sent, e, bytes, << >>),
         NEW tree, Take(Len(bytes), tree, << >>), IsObject(tree),
         \A x \in Seq(Nat) : At(tree, Path \o x) = At(sent, e \o x),
         \A q \in Seq(Nat) : ~IsPrefix(Path, q) => At(tree, q) = At(target, q)
  PROVE  Succeeds(sent, e, bytes, << >>)
<1>1. ASSUME NEW rest \in Seq(Parts), NEW after, IsPut(sent, after, target, Path, e)
      PROVE  Leads(sent, << >>, Config(tree, << >> \o rest), Config(after, rest))
  <2>1. << >> \o rest = rest
    BY ConcatEmptySeq
  <2>2. Path \in Seq(Nat)
    BY ReadingType
  <2> DEFINE p == Path
             before == target
  <2> HIDE DEF p, before
  <2>3. tree = after
    <3>1. /\ p \in Seq(Nat) /\ IsPut(sent, after, before, p, e)
          /\ \A x \in Seq(Nat) : At(tree, p \o x) = At(sent, e \o x)
          /\ \A q \in Seq(Nat) : ~IsPrefix(p, q) => At(tree, q) = At(before, q)
      BY <1>1, <2>2 DEF p, before
    <3> QED
      BY <3>1, PutUnique
  <2> QED
    BY <2>1, <2>3, LeadsNowhere
<1> QED
  BY <1>1, NoTasks DEF Succeeds

\* A scalar is.
LEMMA StoreSucceeds ==
  ASSUME NEW sent, NEW e, NEW bytes, Reading(sent, e, bytes, << >>),
         Type.kind \in Leaves, Store(Len(bytes), At(sent, e))
  PROVE  Succeeds(sent, e, bytes, << >>)
<1> DEFINE v == At(sent, e)
           tree == Assign(target, Path, v)
<1>1. /\ Path \in Seq(Nat) /\ e \in Seq(Nat) /\ v \in Nat
      /\ IsObject(target) /\ IsObject(sent)
      /\ IsShaped(sent, Type, e) /\ IsShaped(target, Type, Path)
  BY ReadingType DEF Reading
<1>2. Take(Len(bytes), tree, << >>)
  BY DEF Store
<1>3. IsObject(tree)
  BY <1>1, ObjectsMade
<1>4. ASSUME NEW x \in Seq(Nat)
      PROVE  At(tree, Path \o x) = At(sent, e \o x)
  <2>1. CASE x = << >>
    <3>1. Path \o x = Path /\ e \o x = e
      BY <1>1, <2>1, ConcatSimplifications
    <3> QED
      BY <3>1, ValueAssigned
  <2>2. CASE x # << >>
    <3>1. At(target, Path \o x) = 0 /\ At(sent, e \o x) = 0
      BY <1>1, <2>2, LeafShape
    <3>2. Path \o x # Path
      BY <1>1, <2>2, ConcatSimplifications
    <3> DEFINE q == Path \o x
    <3> HIDE DEF q, v
    <3>3. q # Path
      BY <3>2 DEF q
    <3>4. At(tree, q) = At(target, q)
      BY <3>3, ValueAssigned
    <3> QED
      BY <3>1, <3>4 DEF q
  <2> QED
    BY <2>1, <2>2
<1>5. ASSUME NEW q \in Seq(Nat), ~IsPrefix(Path, q)
      PROVE  At(tree, q) = At(target, q)
  <2>1. q # Path
    BY <1>1, <1>5, PrefixOfItself
  <2> QED
    BY <2>1, ValueAssigned
<1> HIDE DEF tree
<1> QED
  BY <1>2, <1>3, <1>4, <1>5, DoneSucceeds

-----------------------------------------------------------------------------
(* Scalars.                                                                *)

LEMMA BoolServes ==
  ASSUME NEW sent, NEW e, NEW bytes, NEW calls, Reading(sent, e, bytes, calls),
         Type.kind = "bool", DecodeBool
  PROVE  Serves(sent, e, bytes, calls)
<1> DEFINE v == At(sent, e)
<1>1. v \in {0, 1} /\ Type.kind \in Leaves
  BY ReadingType DEF HasValue, Leaves
<1>2. bytes = <<v>> /\ calls = << >>
  <2>1. Encodes(sent, Part(Type, e), bytes, calls)
    BY DEF Reading
  <2>2. Part(Type, e).type = Type /\ Part(Type, e).path = e
    BY ReadingType
  <2>3. bytes = <<IF v # 0 THEN 1 ELSE 0>> /\ calls = << >>
    BY <2>1, <2>2 DEF Encodes
  <2> QED
    BY <1>1, <2>3
<1>3. /\ HasAt(span, current_index, bytes) => Available(1) /\ NextByte = v
      /\ CutAt(span, current_index, bytes) => ~Available(1)
      /\ Len(bytes) = 1
  BY <1>2, ByteServes
<1> HIDE DEF v
<1>4. ASSUME HasAt(span, current_index, bytes)
      PROVE  Succeeds(sent, e, bytes, calls)
  <2>1. Store(Len(bytes), At(sent, e))
    BY <1>1, <1>3, <1>4 DEF DecodeBool, v
  <2> QED
    BY <1>1, <1>2, <2>1, StoreSucceeds
<1>5. CutAt(span, current_index, bytes) => EndsEarly
  BY <1>3 DEF DecodeBool, EndsEarly
<1> QED
  BY <1>4, <1>5 DEF Serves

LEMMA FixedServes ==
  ASSUME NEW sent, NEW e, NEW bytes, NEW calls, Reading(sent, e, bytes, calls),
         Type.kind \in {"int", "big", "enum"},
         \/ Type.kind = "int" /\ DecodeInteger
         \/ Type.kind = "big" /\ DecodeBigFixedWidthInteger
         \/ Type.kind = "enum" /\ DecodeEnum
  PROVE  Serves(sent, e, bytes, calls)
<1> DEFINE v == At(sent, e)
           n == Type.n
<1>1. /\ v \in Nat /\ n \in Nat /\ HasWidth(v, n) /\ Type.kind \in Leaves
      /\ Type.kind = "enum" => v \in Type.valid
      /\ 2 * n < SizeMod /\ ByteBits * (n - 1) < MaxBits
  BY ReadingType, SpansAssumption, EncoderWidthAssumption DEF HasValue, Leaves
<1>2. bytes = LittleEndian(v, n) /\ calls = << >>
  <2>1. /\ Encodes(sent, Part(Type, e), bytes, calls)
        /\ Part(Type, e).type = Type /\ Part(Type, e).path = e
    BY ReadingType DEF Reading
  <2> QED
    BY <2>1 DEF Encodes
<1>3. Len(bytes) = n /\ LittleEndianValue(bytes) = v
  BY <1>1, <1>2, FixedDecoded
<1>4. /\ HasAt(span, current_index, bytes) => Available(n) /\ NextBytes(n) = bytes
      /\ CutAt(span, current_index, bytes) => ~Available(n)
  BY <1>1, <1>3, BytesServe
<1> HIDE DEF v, n
<1>5. ASSUME HasAt(span, current_index, bytes)
      PROVE  Succeeds(sent, e, bytes, calls)
  <2>1. LittleEndianValue(NextBytes(n)) = v /\ Available(n)
    BY <1>3, <1>4, <1>5
  <2>2. Store(n, v)
    <3>1. CASE Type.kind = "int" /\ DecodeInteger
      BY <2>1, <3>1 DEF DecodeInteger, n
    <3>2. CASE Type.kind = "big" /\ DecodeBigFixedWidthInteger
      BY <2>1, <3>2 DEF DecodeBigFixedWidthInteger, n
    <3>3. CASE Type.kind = "enum" /\ DecodeEnum
      BY <1>1, <2>1, <3>3 DEF DecodeEnum, n
    <3> QED
      BY <3>1, <3>2, <3>3
  <2> QED
    BY <1>1, <1>2, <1>3, <2>2, StoreSucceeds DEF v
<1>6. ASSUME CutAt(span, current_index, bytes)
      PROVE  EndsEarly
  <2>1. ~Available(n)
    BY <1>4, <1>6
  <2>2. CASE Type.kind = "int" /\ DecodeInteger
    BY <2>1, <2>2 DEF DecodeInteger, n, EndsEarly
  <2>3. CASE Type.kind = "big" /\ DecodeBigFixedWidthInteger
    BY <2>1, <2>3 DEF DecodeBigFixedWidthInteger, n, EndsEarly
  <2>4. CASE Type.kind = "enum" /\ DecodeEnum
    BY <2>1, <2>4 DEF DecodeEnum, n, EndsEarly
  <2> QED
    BY <2>2, <2>3, <2>4
<1> QED
  BY <1>5, <1>6 DEF Serves

LEMMA CompactServes ==
  ASSUME NEW sent, NEW e, NEW bytes, NEW calls, Reading(sent, e, bytes, calls),
         \/ Type.kind = "compact" /\ DecodeCompact
         \/ Type.kind = "bigcompact" /\ DecodeBigCompact
  PROVE  Serves(sent, e, bytes, calls)
<1> DEFINE v == At(sent, e)
           n == Type.n
           integer == IF Type.kind = "compact"
                      THEN DecodeCompactNative(span, current_index, n)
                      ELSE DecodeCompactBig(span, current_index, n)
<1>1. /\ v \in Nat /\ n \in Nat /\ Type.kind \in Leaves
      /\ span \in ByteStrings /\ current_index \in 0..Len(span)
  BY ReadingType DEF Leaves
<1>e. /\ Encodes(sent, Part(Type, e), bytes, calls) /\ HasValue(sent, Part(Type, e))
      /\ Part(Type, e).type = Type /\ Part(Type, e).path = e
  BY ReadingType DEF Reading
<1>2. StoreOrRaise(integer)
  BY DEF DecodeCompact, DecodeBigCompact
<1>3. /\ calls = << >>
      /\ HasAt(span, current_index, bytes) => integer = ReadResult("none", Len(bytes), v)
      /\ CutAt(span, current_index, bytes) => integer.error = "NOT_ENOUGH_DATA"
  <2>1. CASE Type.kind = "compact"
    <3>1. IsNative(v, n) /\ bytes = EncodeCompactOfNative(v).bytes /\ calls = << >>
      BY <1>e, <2>1 DEF HasValue, Encodes
    <3> HIDE DEF v, n
    <3> QED
      BY <1>1, <2>1, <3>1, NativeDecoded
  <2>2. CASE Type.kind = "bigcompact"
    <3>1. /\ HasWidth(v, n) /\ EncodeCompactOfBig(v).error = "none"
          /\ bytes = EncodeCompactOfBig(v).bytes /\ calls = << >>
      BY <1>e, <2>2 DEF HasValue, Encodes
    <3> HIDE DEF v, n
    <3> QED
      BY <1>1, <2>2, <3>1, BigDecoded
  <2> QED
    BY <2>1, <2>2
<1> HIDE DEF integer
<1>4. ASSUME HasAt(span, current_index, bytes)
      PROVE  Succeeds(sent, e, bytes, calls)
  <2>1. integer.error = "none" /\ integer.used = Len(bytes) /\ integer.value = v
    BY <1>3, <1>4 DEF ReadResult
  <2>2. Store(Len(bytes), v)
    BY <1>2, <2>1 DEF StoreOrRaise
  <2> QED
    BY <1>1, <1>3, <2>2, StoreSucceeds
<1>5. CutAt(span, current_index, bytes) => EndsEarly
  BY <1>2, <1>3 DEF StoreOrRaise, EndsEarly
<1> QED
  BY <1>4, <1>5 DEF Serves

-----------------------------------------------------------------------------
(* Objects with parts, whose old content stays at first or is empty.       *)

LEMMA Outside ==
  ASSUME NEW p \in Seq(Nat), NEW q \in Seq(Nat), ~IsPrefix(p, q), NEW i \in Nat
  PROVE  q # p /\ ~IsPrefix(p \o <<i>>, q)
<1>1. p \o <<i>> \in Seq(Nat) /\ IsPrefix(p, p \o <<i>>)
  BY ChildPath
<1> DEFINE r == p \o <<i>>
<1> HIDE DEF r
<1>2. ~IsPrefix(r, q)
  BY <1>1, PrefixTransitive DEF r
<1> QED
  BY <1>2, PrefixOfItself DEF r

LEMMA SameContent ==
  ASSUME NEW a, NEW b, NEW p \in Seq(Nat), NEW e \in Seq(Nat), At(a, p) = At(b, e),
         \A x \in Seq(Nat) : x # << >> => At(a, p \o x) = At(b, e \o x)
  PROVE  \A x \in Seq(Nat) : At(a, p \o x) = At(b, e \o x)
<1>1. p \o << >> = p /\ e \o << >> = e
  BY ConcatSimplifications
<1> QED
  BY <1>1

LEMMA SameChild ==
  ASSUME NEW a, IsObject(a), NEW b, IsObject(b), NEW t, NEW p \in Seq(Nat), NEW i \in Nat,
         IsShaped(a, t, p \o <<i>>),
         \A x \in Seq(Nat) : x # << >> /\ x[1] = i => At(b, p \o x) = At(a, p \o x)
  PROVE  IsShaped(b, t, p \o <<i>>)
<1> DEFINE c == p \o <<i>>
<1>1. ASSUME NEW x \in Seq(Nat)
      PROVE  At(b, c \o x) = At(a, c \o x)
  <2> DEFINE y == <<i>> \o x
  <2>1. y \in Seq(Nat) /\ y # << >> /\ y[1] = i /\ c \o x = p \o y
    BY BelowPath
  <2> HIDE DEF y, c
  <2> QED
    BY <2>1
<1> HIDE DEF c
<1>2. IsShaped(b, t, c)
  <2>1. IsShaped(a, t, c)
    BY DEF c
  <2> QED
    BY <1>1, <2>1, ShapedElsewhere
<1> QED
  BY <1>2 DEF c

LEMMA EmptyChild ==
  ASSUME NEW tree, IsObject(tree), NEW t \in Types, NEW p \in Seq(Nat), NEW i \in Nat,
         \A x \in Seq(Nat) : x # << >> /\ x[1] = i => At(tree, p \o x) = 0
  PROVE  IsShaped(tree, t, p \o <<i>>)
<1> DEFINE c == p \o <<i>>
<1>1. ASSUME NEW x \in Seq(Nat)
      PROVE  At(tree, c \o x) = 0
  <2> DEFINE y == <<i>> \o x
  <2>1. y \in Seq(Nat) /\ y # << >> /\ y[1] = i /\ c \o x = p \o y
    BY BelowPath
  <2> HIDE DEF y, c
  <2> QED
    BY <2>1
<1>2. c \in Seq(Nat)
  BY ChildPath
<1> HIDE DEF c
<1>3. IsShaped(tree, t, c)
  BY <1>1, <1>2, EmptyIsShaped
<1> QED
  BY <1>3 DEF c

\* The parts are read where the target has nothing but what has their shape.
LEMMA ChildrenSucceed ==
  ASSUME NEW sent, NEW e, NEW bytes, NEW calls, Reading(sent, e, bytes, calls),
         Type.kind \in Parents, NEW n \in Nat, ChildrenOf(sent, Type, e) = 1..n,
         NEW tree, IsObject(tree), At(tree, Path) = At(sent, e),
         \A q \in Seq(Nat) : ~IsPrefix(Path, q) => At(tree, q) = At(target, q),
         \A i \in 1..n : IsShaped(tree, ChildType(Type, i), Path \o <<i>>),
         \A x \in Seq(Nat) : x # << >> /\ x[1] \notin 1..n => At(tree, Path \o x) = 0,
         calls = [i \in 1..n |-> Part(ChildType(Type, i), e \o <<i>>)],
         Take(Len(bytes), tree,
              [i \in 1..n |-> Task("read", ChildType(Type, i), Path \o <<i>>)])
  PROVE  Succeeds(sent, e, bytes, calls)
<1> DEFINE p == Path
           t == Type
           T == [i \in 1..n |-> ChildType(t, i)]
           tasks == [i \in 1..n |-> Task("read", T[i], p \o <<i>>)]
           before == target
<1>1. /\ t \in Types /\ p \in Seq(Nat) /\ e \in Seq(Nat)
      /\ IsObject(before) /\ IsObject(sent) /\ IsTyped(sent, t, e) /\ IsShaped(sent, t, e)
  BY ReadingType DEF Reading
<1>2. /\ t.kind \in Parents /\ ChildrenOf(sent, t, e) = 1..n
      /\ At(tree, p) = At(sent, e)
      /\ \A q \in Seq(Nat) : ~IsPrefix(p, q) => At(tree, q) = At(before, q)
      /\ \A i \in 1..n : IsShaped(tree, T[i], p \o <<i>>)
      /\ \A x \in Seq(Nat) : x # << >> /\ x[1] \notin 1..n => At(tree, p \o x) = 0
      /\ calls = [i \in 1..n |-> Part(T[i], e \o <<i>>)]
      /\ Take(Len(bytes), tree, tasks)
  OBVIOUS
<1> HIDE DEF p, t, before
<1>3. T \in [1..n -> Types] /\ \A i \in 1..n : IsTyped(sent, T[i], e \o <<i>>)
  <2>1. \A i \in 1..n : ChildType(t, i) \in Types
    BY <1>1, <1>2, ChildParts
  <2>2. \A i \in 1..n : IsTyped(sent, ChildType(t, i), e \o <<i>>)
    BY <1>1, <1>2, ChildTyped
  <2> QED
    BY <2>1, <2>2
<1>4. \A x \in Seq(Nat) : x # << >> /\ x[1] \notin 1..n => At(sent, e \o x) = 0
  BY <1>1, <1>2, ChildShape
<1> HIDE DEF T
<1>5. tasks \in Seq(Tasks)
  <2>1. \A i \in 1..n : Task("read", T[i], p \o <<i>>) \in Tasks
    <3>1. \A i \in 1..n : p \o <<i>> \in Seq(Nat) /\ T[i] \in Types
      BY <1>1, <1>3, ChildPath
    <3> QED
      BY <3>1, TaskType
  <2>2. tasks \in [1..n -> Tasks]
    BY <2>1
  <2> HIDE DEF tasks
  <2> QED
    BY <2>2, FunctionIsSeq
<1>6. ASSUME NEW rest \in Seq(Parts), NEW after, IsPut(sent, after, before, p, e)
      PROVE  Leads(sent, tasks, Config(tree, calls \o rest), Config(after, rest))
  <2>1. IsPut(sent, after, tree, p, e)
    BY <1>2, <1>6, PutElsewhere
  <2>2. \A x \in Seq(Nat) : x # << >> /\ x[1] \notin 1..n =>
          At(tree, p \o x) = At(sent, e \o x)
    BY <1>2, <1>4
  <2>a. \A i \in 1..n : IsTyped(sent, T[i], e \o <<i>>) /\ IsShaped(tree, T[i], p \o <<i>>)
    BY <1>2, <1>3
  <2>3. Leads(sent, ReadsOfChildren(n, T, p),
              Config(tree, PartsOfChildren(n, T, e) \o rest), Config(after, rest))
    BY <1>1, <1>2, <1>3, <2>a, <2>1, <2>2, ReadsLead
  <2> QED
    BY <1>2, <2>3 DEF ReadsOfChildren, PartsOfChildren
<1> HIDE DEF tasks
<1> QED
  BY <1>2, <1>5, <1>6 DEF Succeeds, p, before

LEMMA OptionalServes ==
  ASSUME NEW sent, NEW e, NEW bytes, NEW calls, Reading(sent, e, bytes, calls),
         \/ Type.kind = "optional" /\ DecodeOptional
         \/ Type.kind = "pointer" /\ DecodePointer
  PROVE  Serves(sent, e, bytes, calls)
<1> DEFINE p == Path
           t == Type
           v == At(sent, e)
           empty == Clear(target, p)
           full == Assign(empty, p, 1)
<1>1. /\ t \in Types /\ p \in Seq(Nat) /\ e \in Seq(Nat) /\ v \in {0, 1}
      /\ IsObject(target) /\ IsObject(sent)
      /\ IsTyped(sent, t, e) /\ IsShaped(sent, t, e)
      /\ Encodes(sent, Part(t, e), bytes, calls)
      /\ Part(t, e).type = t /\ Part(t, e).path = e
      /\ t.kind \in Parents
  BY ReadingType DEF Reading, HasValue, Parents
<1>2. /\ Of \in Types /\ \A i : ChildType(t, i) = Of
      /\ ChildrenOf(sent, t, e) = 1..v
  <2>1. Of \in Types
    BY <1>1, TypesAssumption DEF Of, Wrappers
  <2>2. \A i : ChildType(t, i) = Of
    BY DEF ChildType, Alternatives, Of
  <2>3. ChildrenOf(sent, t, e) = 1..v
    BY DEF ChildrenOf, Alternatives
  <2> QED
    BY <2>1, <2>2, <2>3
<1>3. IsObject(empty) /\ IsObject(full)
  BY <1>1, ObjectsMade
<1>4. /\ \A x \in Seq(Nat) : At(empty, p \o x) = 0
      /\ \A q \in Seq(Nat) : ~IsPrefix(p, q) => At(empty, q) = At(target, q)
  BY <1>1, ValueCleared, PrefixOfConcat
<1>5. /\ At(full, p) = 1
      /\ \A x \in Seq(Nat) : x # << >> => At(full, p \o x) = 0
      /\ \A q \in Seq(Nat) : ~IsPrefix(p, q) => At(full, q) = At(target, q)
  <2>1. \A x \in Seq(Nat) : x # << >> => p \o x # p
    BY <1>1, ConcatSimplifications
  <2>2. \A q \in Seq(Nat) : ~IsPrefix(p, q) => q # p
    BY <1>1, PrefixOfItself
  <2>3. \A q : At(full, q) = IF q = p THEN 1 ELSE At(empty, q)
    BY ValueAssigned
  <2> HIDE DEF empty, p, full
  <2> QED
    BY <1>4, <2>1, <2>2, <2>3
<1>6. ASSUME v = 1, calls = Elements(Part(t, e), 1), Take(Len(bytes), full, ReadChildren(1))
      PROVE  Succeeds(sent, e, bytes, calls)
  <2>1. calls = [i \in 1..1 |-> Part(ChildType(t, i), e \o <<i>>)]
    BY <1>1, <1>2, <1>6 DEF Elements, Of
  <2>2. ReadChildren(1) = [i \in 1..1 |-> Task("read", ChildType(t, i), p \o <<i>>)]
    BY <1>2 DEF ReadChildren
  <2>3. \A i \in 1..1 : IsShaped(full, ChildType(t, i), p \o <<i>>)
    BY <1>1, <1>2, <1>3, <1>5, EmptyChild
  <2>4. 1 \in Nat /\ ChildrenOf(sent, t, e) = 1..1
    BY <1>2, <1>6
  <2> HIDE DEF full
  <2>5. Take(Len(bytes), full, [i \in 1..1 |-> Task("read", ChildType(t, i), p \o <<i>>)])
    BY <1>6, <2>2
  <2> QED
    BY <1>1, <1>3, <1>5, <1>6, <2>1, <2>3, <2>4, <2>5, ChildrenSucceed
<1>7. ASSUME v = 0, calls = << >>, Take(Len(bytes), empty, << >>)
      PROVE  Succeeds(sent, e, bytes, calls)
  <2>1. \A x \in Seq(Nat) : x # << >> => At(sent, e \o x) = 0
    <3>1. ChildrenOf(sent, t, e) = {}
      BY <1>2, <1>7
    <3> QED
      BY <1>1, <3>1, ChildShape
  <2>2. p \o << >> = p
    BY <1>1, ConcatSimplifications
  <2> HIDE DEF empty
  <2>3. At(empty, p) = At(sent, e)
    BY <1>4, <1>7, <2>2, NoTasks
  <2>4. \A x \in Seq(Nat) : x # << >> => At(empty, p \o x) = At(sent, e \o x)
    BY <1>4, <2>1
  <2>5. \A x \in Seq(Nat) : At(empty, p \o x) = At(sent, e \o x)
    <3> HIDE DEF p
    <3> QED
      BY <1>1, <2>3, <2>4, SameContent
  <2> QED
    BY <1>3, <1>4, <1>7, <2>5, DoneSucceeds
<1> HIDE DEF v, empty, full
<1>8. CASE t.kind = "optional" /\ DecodeOptional
  <2>1. IF v = 0 THEN bytes = <<0>> /\ calls = << >>
                 ELSE bytes = <<1>> /\ calls = Elements(Part(t, e), 1)
    BY <1>1, <1>8 DEF Encodes, v
  <2>2. bytes = <<v>>
    BY <1>1, <2>1
  <2>3. /\ HasAt(span, current_index, bytes) => Available(1) /\ NextByte = v
        /\ CutAt(span, current_index, bytes) => ~Available(1)
        /\ Len(bytes) = 1
    BY <2>2, ByteServes
  <2>4. ASSUME HasAt(span, current_index, bytes)
        PROVE  Succeeds(sent, e, bytes, calls)
    <3>1. CASE v = 0
      <4>1. Take(Len(bytes), empty, << >>)
        BY <1>8, <2>3, <2>4, <3>1 DEF DecodeOptional, empty
      <4> QED
        BY <1>7, <2>1, <3>1, <4>1
    <3>2. CASE v = 1
      <4>1. Take(Len(bytes), full, ReadChildren(1))
        BY <1>8, <2>3, <2>4, <3>2 DEF DecodeOptional, empty, full
      <4> QED
        BY <1>6, <2>1, <3>2, <4>1
    <3> QED
      BY <1>1, <3>1, <3>2
  <2>5. CutAt(span, current_index, bytes) => EndsEarly
    BY <1>8, <2>3 DEF DecodeOptional, EndsEarly
  <2> QED
    BY <2>4, <2>5 DEF Serves
<1>9. CASE t.kind = "pointer" /\ DecodePointer
  <2>1. v # 0 /\ bytes = << >> /\ calls = Elements(Part(t, e), 1)
    BY <1>1, <1>9 DEF Encodes, v
  <2>2. ~CutAt(span, current_index, bytes) /\ Len(bytes) = 0
    BY <2>1, NothingCut
  <2>3. Take(Len(bytes), full, ReadChildren(1))
    BY <1>9, <2>2 DEF DecodePointer, empty, full
  <2> QED
    BY <1>1, <1>6, <2>1, <2>2, <2>3 DEF Serves
<1> QED
  BY <1>8, <1>9

\* Products and arrays: each element is read over what is there.
LEMMA ElementsServe ==
  ASSUME NEW sent, NEW e, NEW bytes, NEW calls, Reading(sent, e, bytes, calls),
         \/ Type.kind = "product" /\ DecodeProduct
         \/ Type.kind = "array" /\ DecodeStaticCollection
  PROVE  Serves(sent, e, bytes, calls)
<1> DEFINE p == Path
           t == Type
           n == IF t.kind = "product" THEN Len(t.of) ELSE t.n
<1>1. /\ t \in Types /\ p \in Seq(Nat) /\ e \in Seq(Nat)
      /\ IsObject(target) /\ IsObject(sent)
      /\ IsShaped(sent, t, e) /\ IsShaped(target, t, p)
      /\ Encodes(sent, Part(t, e), bytes, calls)
      /\ Part(t, e).type = t /\ Part(t, e).path = e /\ Part(t, e) \in Parts
      /\ t.kind \in Parents
  BY ReadingType DEF Reading, Parents
<1>2. /\ n \in Nat
      /\ ChildrenOf(sent, t, e) = 1..n /\ ChildrenOf(target, t, p) = 1..n
      /\ bytes = << >>
      /\ calls = [i \in 1..n |-> Part(ChildType(t, i), e \o <<i>>)]
      /\ Take(0, target, [i \in 1..n |-> Task("read", ChildType(t, i), p \o <<i>>)])
  <2>1. t.n \in Nat /\ Len(t.of) \in Nat /\ DOMAIN t.of = 1..Len(t.of)
    BY <1>1, TypesAssumption
  <2>2. CASE t.kind = "product" /\ DecodeProduct
    <3>1. n = Len(t.of) /\ \A i : ChildType(t, i) = t.of[i]
      BY <2>2 DEF ChildType
    <3>2. ChildrenOf(sent, t, e) = 1..n /\ ChildrenOf(target, t, p) = 1..n
      BY <2>1, <2>2, <3>1 DEF ChildrenOf, Alternatives
    <3>3. bytes = << >> /\ calls = [i \in 1..n |-> Part(ChildType(t, i), e \o <<i>>)]
      BY <1>1, <2>1, <2>2, <3>1 DEF Encodes
    <3>4. Take(0, target, [i \in 1..n |-> Task("read", ChildType(t, i), p \o <<i>>)])
      BY <2>1, <2>2, <3>1 DEF DecodeProduct
    <3> QED
      BY <2>1, <3>1, <3>2, <3>3, <3>4
  <2>3. CASE t.kind = "array" /\ DecodeStaticCollection
    <3>1. n = t.n /\ \A i : ChildType(t, i) = t.of[1]
      BY <2>3 DEF ChildType, Alternatives
    <3>2. ChildrenOf(sent, t, e) = 1..n /\ ChildrenOf(target, t, p) = 1..n
      BY <2>1, <2>3, <3>1 DEF ChildrenOf, Alternatives
    <3>3. bytes = << >> /\ calls = [i \in 1..n |-> Part(ChildType(t, i), e \o <<i>>)]
      BY <1>1, <2>1, <2>3, <3>1 DEF Encodes, Elements
    <3>4. Take(0, target, [i \in 1..n |-> Task("read", ChildType(t, i), p \o <<i>>)])
      BY <2>1, <2>3, <3>1 DEF DecodeStaticCollection, ReadChildren, Of
    <3> QED
      BY <2>1, <3>1, <3>2, <3>3, <3>4
  <2> QED
    BY <2>2, <2>3
<1>3. At(sent, e) = 0 /\ At(target, p) = 0
  <2>1. HasShape(sent, Part(t, e)) /\ HasShape(target, Part(t, p))
    BY <1>1, ShapedParts
  <2>2. Part(t, p).type = t /\ Part(t, p).path = p
    BY <1>1, PartType
  <2>3. t.kind \in {"product", "array"}
    OBVIOUS
  <2> HIDE DEF t, p
  <2> QED
    BY <1>1, <2>1, <2>2, <2>3 DEF HasShape
<1>4. /\ \A i \in 1..n : IsShaped(target, ChildType(t, i), p \o <<i>>)
      /\ \A x \in Seq(Nat) : x # << >> /\ x[1] \notin 1..n => At(target, p \o x) = 0
  <2> HIDE DEF t, p, n
  <2> QED
    BY <1>1, <1>2, ChildShape
<1>5. ~CutAt(span, current_index, bytes) /\ Len(bytes) = 0
  BY <1>2, NothingCut
<1> HIDE DEF n
<1>6. Succeeds(sent, e, bytes, calls)
  BY <1>1, <1>2, <1>3, <1>4, <1>5, ChildrenSucceed
<1> QED
  BY <1>5, <1>6 DEF Serves

\* The number of elements, which has been encoded as a compact integer.
LEMMA CountServes ==
  ASSUME NEW v \in Nat, IsNative(v, SizeBytes), DecoderTypeOK
  PROVE  LET bytes == EncodeCompactOfNative(v).bytes
         IN  /\ HasAt(span, current_index, bytes) =>
                  Count = ReadResult("none", Len(bytes), v)
             /\ CutAt(span, current_index, bytes) => Count.error = "NOT_ENOUGH_DATA"
<1>1. span \in ByteStrings /\ current_index \in 0..Len(span)
  BY DEF DecoderTypeOK
<1>2. SizeBytes \in Nat
  BY ByteAssumption
<1> QED
  BY <1>1, <1>2, NativeDecoded DEF Count

LEMMA ResizeableServes ==
  ASSUME NEW sent, NEW e, NEW bytes, NEW calls, Reading(sent, e, bytes, calls),
         Type.kind = "resizeable", DecodeResizeable
  PROVE  Serves(sent, e, bytes, calls)
<1> DEFINE p == Path
           t == Type
           n == At(sent, e)
           short == Truncate(target, p, n)
           tree == Assign(short, p, n)
           old == At(target, p)
<1>1. /\ t \in Types /\ p \in Seq(Nat) /\ e \in Seq(Nat) /\ n \in Nat /\ old \in Nat
      /\ IsObject(target) /\ IsObject(sent)
      /\ IsShaped(sent, t, e) /\ IsShaped(target, t, p)
      /\ Encodes(sent, Part(t, e), bytes, calls) /\ HasValue(sent, Part(t, e))
      /\ Part(t, e).type = t /\ Part(t, e).path = e
      /\ t.kind \in Parents /\ t.kind = "resizeable" /\ DecoderTypeOK
  BY ReadingType, ContentType DEF Reading, Parents, IInv
<1>2. /\ Of \in Types /\ \A i : ChildType(t, i) = Of
      /\ ChildrenOf(sent, t, e) = 1..n /\ ChildrenOf(target, t, p) = 1..old
  <2>1. Of \in Types
    BY <1>1, TypesAssumption DEF Of, Wrappers
  <2>2. \A i : ChildType(t, i) = Of
    BY DEF ChildType, Alternatives, Of
  <2>3. ChildrenOf(sent, t, e) = 1..n /\ ChildrenOf(target, t, p) = 1..old
    BY DEF ChildrenOf, Alternatives
  <2> QED
    BY <2>1, <2>2, <2>3
<1>3. IsNative(n, SizeBytes) /\ n \in 0..Allocatable
  BY <1>1, SizeAssumption DEF HasValue
<1>4. /\ bytes = EncodeCompactOfNative(n).bytes
      /\ calls = [i \in 1..n |-> Part(ChildType(t, i), e \o <<i>>)]
  BY <1>1, <1>2 DEF Encodes, Elements, Of
<1>5. IsObject(tree)
  BY <1>1, ObjectsMade
<1>6. /\ At(tree, p) = n
      /\ \A q \in Seq(Nat) : ~IsPrefix(p, q) => At(tree, q) = At(target, q)
      /\ \A x \in Seq(Nat) : x # << >> =>
           At(tree, p \o x) = IF x[1] > n THEN 0 ELSE At(target, p \o x)
  <2>1. \A q : At(tree, q) = IF q = p THEN n ELSE At(short, q)
    BY ValueAssigned
  <2>2. \A q : At(short, q) = IF IsStrictPrefix(p, q) /\ q[Len(p) + 1] > n THEN 0
                              ELSE At(target, q)
    BY ValueTruncated
  <2>3. \A x \in Seq(Nat) : x # << >> => /\ p \o x # p
                                         /\ IsStrictPrefix(p, p \o x)
                                         /\ (p \o x)[Len(p) + 1] = x[1]
    BY <1>1, BelowChild, ConcatSimplifications
  <2>4. \A q \in Seq(Nat) : ~IsPrefix(p, q) => q # p /\ ~IsStrictPrefix(p, q)
    BY <1>1, PrefixOfItself DEF IsStrictPrefix
  <2> HIDE DEF tree, short, p, n
  <2> QED
    BY <2>1, <2>2, <2>3, <2>4
<1> HIDE DEF tree, n, old
<1>7. \A i \in 1..old : IsShaped(target, Of, p \o <<i>>)
  BY <1>1, <1>2, ChildShape
<1>8. \A x \in Seq(Nat) : x # << >> /\ x[1] \notin 1..old => At(target, p \o x) = 0
  BY <1>1, <1>2, ChildShape
<1>9. ASSUME NEW i \in 1..n
      PROVE  IsShaped(tree, Of, p \o <<i>>)
  <2>1. i \in Nat /\ ~(i > n)
    BY <1>1
  <2>2. CASE i \in 1..old
    <3>1. \A x \in Seq(Nat) : x # << >> /\ x[1] = i => At(tree, p \o x) = At(target, p \o x)
      BY <1>6, <2>1
    <3>2. IsShaped(target, Of, p \o <<i>>)
      BY <1>7, <2>2
    <3> HIDE DEF p
    <3> QED
      BY <1>1, <1>5, <2>1, <3>1, <3>2, SameChild
  <2>3. CASE i \notin 1..old
    <3>1. \A x \in Seq(Nat) : x # << >> /\ x[1] = i => At(tree, p \o x) = 0
      BY <1>6, <1>8, <2>1, <2>3
    <3> HIDE DEF p
    <3> QED
      BY <1>1, <1>2, <1>5, <2>1, <3>1, EmptyChild
  <2> QED
    BY <2>2, <2>3
<1>10. \A x \in Seq(Nat) : x # << >> /\ x[1] \notin 1..n => At(tree, p \o x) = 0
  <2> SUFFICES ASSUME NEW x \in Seq(Nat), x # << >>, x[1] \notin 1..n, ~(x[1] > n)
               PROVE  At(target, p \o x) = 0
    BY <1>6
  <2>1. x[1] \in Nat
    BY FirstStep, <1>1
  <2>2. x[1] \notin 1..old
    BY <1>1, <2>1
  <2> QED
    BY <1>8, <2>2
<1>11. /\ HasAt(span, current_index, bytes) => Count = ReadResult("none", Len(bytes), n)
       /\ CutAt(span, current_index, bytes) => Count.error = "NOT_ENOUGH_DATA"
  BY <1>1, <1>3, <1>4, CountServes
<1>12. ASSUME HasAt(span, current_index, bytes)
       PROVE  Succeeds(sent, e, bytes, calls)
  <2>1. Count.error = "none" /\ Count.used = Len(bytes) /\ Count.value = n
    BY <1>11, <1>12 DEF ReadResult
  <2>2. ReadChildren(n) = [i \in 1..n |-> Task("read", ChildType(t, i), p \o <<i>>)]
    BY <1>2 DEF ReadChildren
  <2>3. Take(Len(bytes), tree, ReadChildren(n))
    BY <1>3, <2>1 DEF DecodeResizeable, tree
  <2>4. Take(Len(bytes), tree, [i \in 1..n |-> Task("read", ChildType(t, i), p \o <<i>>)])
    BY <2>2, <2>3
  <2>5. \A i \in 1..n : IsShaped(tree, ChildType(t, i), p \o <<i>>)
    BY <1>2, <1>9
  <2>6. At(tree, p) = At(sent, e) /\ ChildrenOf(sent, t, e) = 1..n
    BY <1>2, <1>6 DEF n
  <2> QED
    BY <1>1, <1>4, <1>5, <1>6, <1>10, <2>4, <2>5, <2>6, ChildrenSucceed
<1>13. CutAt(span, current_index, bytes) => EndsEarly
  BY <1>11 DEF DecodeResizeable, EndsEarly
<1> QED
  BY <1>12, <1>13 DEF Serves

\* as_compact: what is referred to is assigned when the local is read.
LEMMA ReflectionServes ==
  ASSUME NEW sent, NEW e, NEW bytes, NEW calls, Reading(sent, e, bytes, calls),
         Type.kind = "as_compact", DecodeCompactReflection
  PROVE  Serves(sent, e, bytes, calls)
<1> DEFINE p == Path
           t == Type
           v == At(sent, e)
           local == p \o <<0>>
           read == Task("read", Of, local)
           assign == Task("assign_ref", t, local)
           before == target
<1>1. /\ t \in Types /\ p \in Seq(Nat) /\ e \in Seq(Nat) /\ v \in Nat
      /\ IsObject(before) /\ IsObject(sent)
      /\ IsTyped(sent, t, e) /\ IsShaped(sent, t, e) /\ IsShaped(before, t, p)
      /\ Encodes(sent, Part(t, e), bytes, calls)
      /\ Part(t, e).type = t /\ Part(t, e).path = e /\ t.kind = "as_compact"
  BY ReadingType DEF Reading
<1>2. Of \in Types
  BY <1>1, TypesAssumption DEF Of, Wrappers
<1>3. bytes = << >> /\ calls = <<Part(Of, e)>>
  BY <1>1 DEF Encodes, Of
<1>4. ~CutAt(span, current_index, bytes) /\ Len(bytes) = 0
  BY <1>3, NothingCut
<1>5. Take(Len(bytes), before, <<read, assign>>)
  BY <1>4 DEF DecodeCompactReflection
<1>6. local \in Seq(Nat) /\ Front(local) = p
  BY <1>1, ChildPath
<1>7. <<read, assign>> \in Seq(Tasks)
  <2>1. read \in Tasks /\ assign \in Tasks
    BY <1>1, <1>2, <1>6, TaskType
  <2> HIDE DEF read, assign
  <2> QED
    BY <2>1
<1>8. \A x \in Seq(Nat) : x # << >> => At(sent, e \o x) = 0 /\ At(before, p \o x) = 0
  <2> HIDE DEF p, t, before
  <2> QED
    BY <1>1, LeafShape
<1>9. IsTyped(sent, Of, e)
  <2>1. PartsOf(sent, Part(t, e)) = {Part(Of, e)}
    BY <1>1 DEF PartsOf, Of
  <2>2. IsTyped(sent, Part(Of, e).type, Part(Of, e).path)
    BY <1>1, <2>1, TypedParts
  <2> QED
    BY <1>1, <1>2, <2>2, PartType
<1>10. IsShaped(before, Of, local)
  <2> HIDE DEF p, t, before
  <2> QED
    BY <1>1, <1>2, <1>8, EmptyChild
<1> HIDE DEF p, t, before, local
<1>11. ASSUME NEW rest \in Seq(Parts), NEW after, IsPut(sent, after, before, p, e)
       PROVE  Leads(sent, <<read, assign>>, Config(before, calls \o rest),
                    Config(after, rest))
  <2>1. PICK mid : IsPut(sent, mid, before, local, e)
    BY <1>1, <1>6, PutExists
  <2>2. IsObject(mid)
    BY <2>1 DEF IsPut
  <2>3. Does(sent, read, Config(before, calls \o rest), Config(mid, rest))
    BY <1>1, <1>3, <1>9, <1>10, <2>1 DEF Does, Config, Task
  <2> DEFINE cleared == Clear(mid, local)
             w == At(mid, local)
             result == Assign(cleared, p, w)
  <2>4. w = v
    <3>1. local \o << >> = local /\ e \o << >> = e /\ << >> \in Seq(Nat)
      BY <1>1, <1>6, ConcatSimplifications, NoTasks
    <3>2. At(mid, local \o << >>) = At(sent, e \o << >>)
      BY <2>1, <3>1 DEF IsPut
    <3> QED
      BY <3>1, <3>2
  <2>5. IsObject(result)
    BY <1>1, <1>6, <2>2, <2>4, ObjectsMade
  <2>6. \A q : At(result, q) = IF q = p THEN w ELSE At(cleared, q)
    BY ValueAssigned
  <2>7. \A q : At(cleared, q) = IF IsPrefix(local, q) THEN 0 ELSE At(mid, q)
    BY ValueCleared
  <2>8. \A q \in Seq(Nat) : ~IsPrefix(local, q) => At(mid, q) = At(before, q)
    BY <2>1 DEF IsPut
  <2> HIDE DEF result, cleared, w
  <2>9. \A q \in Seq(Nat) : ~IsPrefix(p, q) => At(result, q) = At(before, q)
    <3> SUFFICES ASSUME NEW q \in Seq(Nat), ~IsPrefix(p, q)
                 PROVE  At(result, q) = At(before, q)
      OBVIOUS
    <3>1. q # p /\ ~IsPrefix(local, q)
      BY <1>1, Outside DEF local
    <3> QED
      BY <2>6, <2>7, <2>8, <3>1
  <2>10. \A x \in Seq(Nat) : At(result, p \o x) = At(sent, e \o x)
    <3>1. At(result, p) = At(sent, e)
      BY <2>4, <2>6
    <3>2. ASSUME NEW x \in Seq(Nat), x # << >>
          PROVE  At(result, p \o x) = At(sent, e \o x)
      <4>1. p \o x # p /\ p \o x \in Seq(Nat)
        BY <1>1, <3>2, ConcatSimplifications
      <4> QED
        BY <1>8, <2>6, <2>7, <2>8, <3>2, <4>1
    <3> QED
      BY <1>1, <3>1, <3>2, SameContent
  <2>11. result = after
    BY <1>1, <1>11, <2>5, <2>9, <2>10, PutUnique
  <2>12. Does(sent, assign, Config(mid, rest), Config(after, rest))
    BY <1>6, <2>11 DEF Does, Config, Task, result, cleared, w
  <2> HIDE DEF read, assign
  <2> QED
    BY <2>3, <2>12, LeadsTwice
<1> HIDE DEF read, assign
<1>12. Succeeds(sent, e, bytes, calls)
  BY <1>5, <1>7, <1>11 DEF Succeeds, p, before
<1> QED
  BY <1>4, <1>12 DEF Serves

LEMMA OptionalBoolServes ==
  ASSUME NEW sent, NEW e, NEW bytes, NEW calls, Reading(sent, e, bytes, calls),
         Type.kind = "optbool", DecodeOptionalBool
  PROVE  Serves(sent, e, bytes, calls)
<1> DEFINE p == Path
           v == At(sent, e)
           w == At(sent, e \o <<1>>)
           empty == Clear(target, p)
           full == Assign(empty, p, 1)
           held(u) == Assign(full, p \o <<1>>, u)
           byte == IF v = 0 THEN 0 ELSE IF w # 0 THEN 1 ELSE 2
           tree == IF v = 0 THEN empty ELSE held(w)
<1>1. /\ p \in Seq(Nat) /\ e \in Seq(Nat) /\ v \in {0, 1}
      /\ IsObject(target) /\ IsObject(sent) /\ IsShaped(sent, Type, e)
      /\ Encodes(sent, Part(Type, e), bytes, calls)
      /\ Part(Type, e).type = Type /\ Part(Type, e).path = e
  BY ReadingType DEF Reading, HasValue
<1>2. bytes = <<byte>> /\ calls = << >>
  BY <1>1 DEF Encodes
<1>3. \A x \in Seq(Nat) : x # << >> =>
        \/ At(sent, e \o x) = 0
        \/ At(sent, e \o x) = 1 /\ v = 1 /\ x = <<1>>
  <2>1. \A x \in Seq(Nat) : x # << >> =>
          \/ At(sent, e \o x) = 0
          \/ At(sent, e \o x) = 1 /\ \E i \in 1..v : x = <<i>>
    BY <1>1, FlagShape
  <2>2. \A i \in 1..v : v = 1 /\ i = 1
    BY <1>1
  <2> HIDE DEF v
  <2> QED
    BY <2>1, <2>2
<1>4. w \in {0, 1}
  <2>1. <<1>> \in Seq(Nat) /\ <<1>> # << >>
    OBVIOUS
  <2> QED
    BY <1>3, <2>1
<1>5. p \o <<1>> \in Seq(Nat) /\ p \o <<1>> # p
  BY <1>1, ChildPath, ConcatSimplifications
<1>6. IsObject(tree)
  <2>1. IsObject(empty) /\ IsObject(full)
    BY <1>1, ObjectsMade
  <2>2. w \in Nat
    BY <1>4
  <2>3. IsObject(held(w))
    <3> HIDE DEF w, full
    <3> QED
      BY <1>5, <2>1, <2>2, ObjectsMade
  <2> QED
    BY <2>1, <2>3
<1>7. /\ \A q : At(held(w), q) = IF q = p \o <<1>> THEN w ELSE At(full, q)
      /\ \A q : At(full, q) = IF q = p THEN 1 ELSE At(empty, q)
      /\ \A q : At(empty, q) = IF IsPrefix(p, q) THEN 0 ELSE At(target, q)
  <2>1. \A q : At(held(w), q) = IF q = p \o <<1>> THEN w ELSE At(full, q)
    <3> DEFINE c == p \o <<1>>
    <3> HIDE DEF full, w, c
    <3>1. \A q : At(Assign(full, c, w), q) = IF q = c THEN w ELSE At(full, q)
      BY ValueAssigned
    <3> QED
      BY <3>1 DEF c
  <2>2. \A q : At(full, q) = IF q = p THEN 1 ELSE At(empty, q)
    <3> HIDE DEF empty
    <3> QED
      BY ValueAssigned
  <2>3. \A q : At(empty, q) = IF IsPrefix(p, q) THEN 0 ELSE At(target, q)
    BY ValueCleared
  <2> QED
    BY <2>1, <2>2, <2>3
<1> DEFINE h == held(w)
           c == p \o <<1>>
<1>8. /\ \A q : At(h, q) = IF q = c THEN w ELSE At(full, q)
      /\ tree = IF v = 0 THEN empty ELSE h
      /\ \A x \in Seq(Nat) : p \o x = c => x = <<1>>
      /\ \A x \in Seq(Nat) : p \o x = p => x = << >>
      /\ \A x \in Seq(Nat) : IsPrefix(p, p \o x) /\ p \o x \in Seq(Nat)
      /\ \A q \in Seq(Nat) : ~IsPrefix(p, q) => q # c /\ q # p
      /\ c # p
  <2>1. \A x \in Seq(Nat) : p \o x = p \o <<1>> => x = <<1>>
    <3>1. <<1>> \in Seq(Nat)
      OBVIOUS
    <3> QED
      BY <1>1, <3>1, ConcatSimplifications
  <2>2. \A q \in Seq(Nat) : ~IsPrefix(p, q) => q # c /\ q # p
    <3>1. IsPrefix(p, c) /\ IsPrefix(p, p)
      BY <1>1, ChildPath, PrefixOfItself
    <3> HIDE DEF c, p
    <3> QED
      BY <3>1
  <2>3. \A x \in Seq(Nat) : p \o x = p => x = << >>
    BY <1>1, ConcatSimplifications
  <2>4. \A x \in Seq(Nat) : IsPrefix(p, p \o x) /\ p \o x \in Seq(Nat)
    BY <1>1, PrefixOfConcat
  <2> QED
    BY <1>5, <1>7, <2>1, <2>2, <2>3, <2>4
<1>9. \A x \in Seq(Nat) : At(tree, p \o x) = At(sent, e \o x)
  <2>1. At(tree, p) = At(sent, e)
    <3>1. IsPrefix(p, p)
      BY <1>1, PrefixOfItself
    <3> HIDE DEF tree, h, full, empty, c
    <3> QED
      BY <1>1, <1>7, <1>8, <3>1
  <2>2. ASSUME NEW x \in Seq(Nat), x # << >>
        PROVE  At(tree, p \o x) = At(sent, e \o x)
    <3>1. CASE x = <<1>>
      <4>1. p \o x = c /\ At(sent, e \o x) = w
        BY <3>1
      <4>2. v = 0 => w = 0
        BY <1>3, <2>2, <3>1
      <4>3. IsPrefix(p, c)
        BY <1>8, <4>1
      <4> HIDE DEF tree, h, full, empty, c, v, w
      <4> QED
        BY <1>1, <1>7, <1>8, <4>1, <4>2, <4>3
    <3>2. CASE x # <<1>>
      <4>1. At(sent, e \o x) = 0
        BY <1>3, <2>2, <3>2
      <4>2. p \o x # c /\ p \o x # p /\ IsPrefix(p, p \o x)
        BY <1>8, <2>2, <3>2
      <4> HIDE DEF tree, h, full, empty, c, v, w
      <4> QED
        BY <1>1, <1>7, <1>8, <4>1, <4>2
    <3> QED
      BY <3>1, <3>2
  <2> HIDE DEF tree, p
  <2> QED
    BY <1>1, <2>1, <2>2, SameContent
<1>10. \A q \in Seq(Nat) : ~IsPrefix(p, q) => At(tree, q) = At(target, q)
  <2> HIDE DEF tree, h, full, empty, c, v, w
  <2> QED
    BY <1>7, <1>8
<1>11. /\ HasAt(span, current_index, bytes) => Available(1) /\ NextByte = byte
       /\ CutAt(span, current_index, bytes) => ~Available(1)
       /\ Len(bytes) = 1
  BY <1>2, ByteServes
<1>12. ASSUME HasAt(span, current_index, bytes)
       PROVE  Succeeds(sent, e, bytes, calls)
  <2>1. Take(Len(bytes), tree, << >>)
    <3>1. /\ NextByte = 0 => Take(1, empty, << >>)
          /\ NextByte = 1 => Take(1, held(1), << >>)
          /\ NextByte = 2 => Take(1, held(0), << >>)
      BY <1>11, <1>12 DEF DecodeOptionalBool
    <3> HIDE DEF held, empty, v, w
    <3> QED
      BY <1>1, <1>4, <1>11, <1>12, <3>1
  <2> HIDE DEF tree
  <2> QED
    BY <1>2, <1>6, <1>9, <1>10, <2>1, DoneSucceeds
<1>13. CutAt(span, current_index, bytes) => EndsEarly
  BY <1>11 DEF DecodeOptionalBool, EndsEarly
<1> QED
  BY <1>12, <1>13 DEF Serves

\* Bytes in two parts, there or cut off.
LEMMA TwoParts ==
  ASSUME NEW s \in Seq(Byte), NEW i \in Nat, NEW a \in Seq(Byte), NEW b \in Seq(Byte)
  PROVE  /\ Len(a \o b) = Len(a) + Len(b)
         /\ HasAt(s, i, a \o b) => HasAt(s, i, a) /\ HasAt(s, i + Len(a), b)
         /\ CutAt(s, i, a \o b) =>
              \/ CutAt(s, i, a)
              \/ HasAt(s, i, a) /\ Len(s) < i + Len(a) + Len(b)
<1> DEFINE c == a \o b
           m == Len(a)
           n == Len(b)
<1>1. /\ m \in Nat /\ n \in Nat /\ Len(s) \in Nat /\ c \in Seq(Byte) /\ Len(c) = m + n
      /\ \A j \in 1..(m + n) : c[j] = IF j <= m THEN a[j] ELSE b[j - m]
  BY ConcatProperties
<1>2. \A j \in 1..m : j \in 1..(m + n) /\ c[j] = a[j]
  <2> HIDE DEF c, m, n
  <2> QED
    BY <1>1
<1>3. \A j \in 1..n : m + j \in 1..(m + n) /\ c[m + j] = b[j]
  <2> SUFFICES ASSUME NEW j \in 1..n PROVE m + j \in 1..(m + n) /\ c[m + j] = b[j]
    OBVIOUS
  <2> HIDE DEF c, m, n
  <2>1. m + j \in 1..(m + n) /\ ~(m + j <= m) /\ (m + j) - m = j
    BY <1>1
  <2> QED
    BY <1>1, <2>1
<1>4. ASSUME HasAt(s, i, c)
      PROVE  HasAt(s, i, a) /\ HasAt(s, i + m, b)
  <2>1. i + (m + n) <= Len(s) /\ \A j \in 1..(m + n) : s[i + j] = c[j]
    <3> HIDE DEF c, m, n
    <3> QED
      BY <1>1, <1>4 DEF HasAt
  <2>2. \A j \in 1..n : s[(i + m) + j] = b[j]
    <3> HIDE DEF c, m, n
    <3> SUFFICES ASSUME NEW j \in 1..n PROVE s[(i + m) + j] = b[j]
      OBVIOUS
    <3>1. (i + m) + j = i + (m + j)
      BY <1>1
    <3> QED
      BY <1>3, <2>1, <3>1
  <2>3. \A j \in 1..m : s[i + j] = a[j]
    <3> HIDE DEF c, m, n
    <3> QED
      BY <1>2, <2>1
  <2>4. i + m <= Len(s) /\ (i + m) + n <= Len(s)
    <3> HIDE DEF c, m, n
    <3> QED
      BY <1>1, <2>1
  <2> QED
    BY <2>2, <2>3, <2>4 DEF HasAt
<1>5. ASSUME CutAt(s, i, c)
      PROVE  CutAt(s, i, a) \/ (HasAt(s, i, a) /\ Len(s) < i + m + n)
  <2>1. Len(s) < i + (m + n) /\ \A j \in 1..(Len(s) - i) : s[i + j] = c[j]
    <3> HIDE DEF c, m, n
    <3> QED
      BY <1>1, <1>5 DEF CutAt
  <2>2. CASE Len(s) < i + m
    <3>1. \A j \in 1..(Len(s) - i) : j \in 1..m
      <4> HIDE DEF c, m, n
      <4> QED
        BY <1>1, <2>2
    <3>2. \A j \in 1..(Len(s) - i) : s[i + j] = a[j]
      <4> HIDE DEF c, m, n
      <4> QED
        BY <1>2, <2>1, <3>1
    <3> QED
      BY <2>2, <3>2 DEF CutAt
  <2>3. CASE ~(Len(s) < i + m)
    <3>1. i + m <= Len(s) /\ \A j \in 1..m : j \in 1..(Len(s) - i)
      <4> HIDE DEF c, m, n
      <4> QED
        BY <1>1, <2>3
    <3>2. \A j \in 1..m : s[i + j] = a[j]
      <4> HIDE DEF c, m, n
      <4> QED
        BY <1>2, <2>1, <3>1
    <3>3. Len(s) < i + m + n
      <4> HIDE DEF c, m, n
      <4> QED
        BY <1>1, <2>1
    <3> QED
      BY <3>1, <3>2, <3>3 DEF HasAt
  <2> QED
    BY <2>2, <2>3
<1> QED
  BY <1>1, <1>4, <1>5

LEMMA BitsElsewhere ==
  ASSUME NEW tree, NEW p \in Seq(Nat), NEW size, NEW bytes, NEW q \in Seq(Nat),
         ~IsPrefix(p, q)
  PROVE  At(WithBits(tree, p, size, bytes), q) = At(tree, q)
<1> DEFINE set == {i \in 1..size : BitOf(bytes[((i - 1) \div ByteBits) + 1],
                                         (i - 1) % ByteBits) = 1}
           kept == Clear(tree, p)
           bits == {p \o <<i>> : i \in set}
           filled == [r \in DOMAIN kept \union bits |-> IF IsPrefix(p, r) THEN 1 ELSE kept[r]]
<1>1. WithBits(tree, p, size, bytes) = Assign(filled, p, size)
  BY DEF WithBits
<1>2. q # p
  BY PrefixOfItself
<1>3. At(Assign(filled, p, size), q) = At(filled, q)
  <2> HIDE DEF filled
  <2> QED
    BY <1>2, ValueAssigned
<1>4. q \notin bits
  <2> SUFFICES ASSUME NEW i \in set, q = p \o <<i>> PROVE FALSE
    OBVIOUS
  <2>1. i \in 1..size
    OBVIOUS
  <2>2. i \in Nat
    BY <2>1
  <2> QED
    BY <2>2, ChildPath
<1>5. At(filled, q) = At(kept, q)
  <2> HIDE DEF kept, bits
  <2> QED
    BY <1>4 DEF At
<1>6. At(kept, q) = At(tree, q)
  BY ValueCleared
<1> QED
  BY <1>1, <1>3, <1>5, <1>6

LEMMA BitVecServes ==
  ASSUME NEW sent, NEW e, NEW bytes, NEW calls, Reading(sent, e, bytes, calls),
         Type.kind = "bitvec", DecodeBitVec
  PROVE  Serves(sent, e, bytes, calls)
<1> DEFINE p == Path
           v == At(sent, e)
           length == EncodeCompactOfNative(v).bytes
           packed == Packed(sent, e, v)
           tree == WithBits(target, p, v, packed)
           m == Len(length)
           n == Len(packed)
<1>1. /\ p \in Seq(Nat) /\ e \in Seq(Nat) /\ v \in Nat
      /\ IsObject(target) /\ IsObject(sent) /\ IsShaped(sent, Type, e)
      /\ Encodes(sent, Part(Type, e), bytes, calls) /\ HasValue(sent, Part(Type, e))
      /\ Part(Type, e).type = Type /\ Part(Type, e).path = e /\ DecoderTypeOK
      /\ span \in ByteStrings /\ span \in Seq(Byte) /\ Len(span) \in Nat
      /\ current_index \in Nat
  BY ReadingType DEF Reading, IInv
<1>2. IsNative(v, SizeBytes) /\ v <= MaxBitVecSize
  BY <1>1 DEF HasValue
<1>3. bytes = length \o packed /\ calls = << >>
  BY <1>1 DEF Encodes
<1>4. /\ length \in Seq(Byte) /\ packed \in Seq(Byte) /\ m \in Nat /\ n \in Nat
      /\ n = BytesForBits(v) /\ 2 * n < SizeMod /\ v \in 0..MaxBitVecSize
  <2>1. v \in 0..MaxBitVecSize
    BY <1>1, <1>2, SpansAssumption DEF MaxBitVecSize
  <2>2. packed \in Seq(Byte) /\ n = (v + ByteBits - 1) \div ByteBits
    <3> HIDE DEF v
    <3> QED
      BY <1>1, PackedType
  <2>3. n = BytesForBits(v) /\ n \in Nat /\ 2 * n < SizeMod
    <3> HIDE DEF v, n
    <3> QED
      BY <2>1, <2>2, BytesOfBits
  <2>4. length \in Seq(Byte) /\ m \in Nat
    BY <1>1, EncodeCompactType
  <2> QED
    BY <2>1, <2>2, <2>3, <2>4
<1>5. /\ HasAt(span, current_index, length) => Count = ReadResult("none", m, v)
      /\ CutAt(span, current_index, length) => Count.error = "NOT_ENOUGH_DATA"
  <2> HIDE DEF v
  <2> QED
    BY <1>1, <1>2, CountServes
<1>6. /\ Len(bytes) = m + n
      /\ HasAt(span, current_index, bytes) =>
           HasAt(span, current_index, length) /\ HasAt(span, current_index + m, packed)
      /\ CutAt(span, current_index, bytes) =>
           \/ CutAt(span, current_index, length)
           \/ HasAt(span, current_index, length) /\ Len(span) < current_index + m + n
  <2> HIDE DEF length, packed
  <2> QED
    BY <1>1, <1>3, <1>4, TwoParts
<1>7. ASSUME HasAt(span, current_index, length)
      PROVE  /\ Count.error = "none" /\ Count.used = m /\ Count.value = v
             /\ current_index + m \in 0..Len(span)
             /\ HasMore(span, current_index + m, n) <=> (current_index + m) + n <= Len(span)
  <2>1. Count.error = "none" /\ Count.used = m /\ Count.value = v
    BY <1>5, <1>7 DEF ReadResult
  <2>2. current_index + m \in 0..Len(span)
    <3>1. current_index + m <= Len(span)
      BY <1>7 DEF HasAt
    <3> HIDE DEF m
    <3> QED
      BY <1>1, <1>4, <3>1
  <2> HIDE DEF m, n
  <2>3. HasMore(span, current_index + m, n) <=> (current_index + m) + n <= Len(span)
    BY <1>1, <1>4, <2>2, HasMoreMeaning
  <2> QED
    BY <2>1, <2>2, <2>3
<1>8. IsObject(tree)
  BY <1>1, WithBitsWrites DEF Writes
<1>9. \A q \in Seq(Nat) : ~IsPrefix(p, q) => At(tree, q) = At(target, q)
  BY <1>1, BitsElsewhere
<1>10. \A x \in Seq(Nat) : At(tree, p \o x) = At(sent, e \o x)
  <2> DEFINE Set(i) == BitOf(packed[((i - 1) \div ByteBits) + 1], (i - 1) % ByteBits) = 1
  <2>1. ASSUME NEW x \in Seq(Nat)
        PROVE  At(tree, p \o x) = IF x = << >> THEN v
                                  ELSE IF \E i \in 1..v : x = <<i>> /\ Set(i) THEN 1 ELSE 0
    <3> HIDE DEF v, packed
    <3> QED
      BY <1>1, BitsMeaning
  <2>2. \A i \in 1..v : Set(i) <=> At(sent, e \o <<i>>) # 0
    <3> HIDE DEF v
    <3> QED
      BY <1>1, PackedBit
  <2>3. \A x \in Seq(Nat) : x # << >> =>
          \/ At(sent, e \o x) = 0
          \/ At(sent, e \o x) = 1 /\ \E i \in 1..v : x = <<i>>
    BY <1>1, FlagShape
  <2> HIDE DEF Set, tree
  <2>4. At(tree, p) = At(sent, e)
    <3>1. p \o << >> = p /\ << >> \in Seq(Nat)
      BY <1>1, ConcatSimplifications, NoTasks
    <3> QED
      BY <2>1, <3>1
  <2>5. \A x \in Seq(Nat) : x # << >> => At(tree, p \o x) = At(sent, e \o x)
    <3> HIDE DEF v
    <3> QED
      BY <2>1, <2>2, <2>3
  <2> HIDE DEF p
  <2> QED
    BY <1>1, <2>4, <2>5, SameContent
<1>11. ASSUME HasAt(span, current_index, bytes)
       PROVE  Succeeds(sent, e, bytes, calls)
  <2>1. /\ HasAt(span, current_index, length)
        /\ Count.error = "none" /\ Count.used = m /\ Count.value = v
        /\ HasMore(span, current_index + m, n)
    <3>1. (current_index + m) + n <= Len(span)
      BY <1>6, <1>11 DEF HasAt
    <3> QED
      BY <1>6, <1>7, <1>11, <3>1
  <2>2. SubSeq(span, (current_index + m) + 1, (current_index + m) + n) = packed
    <3>1. HasAt(span, current_index + m, packed)
      BY <1>6, <1>11
    <3>2. current_index + m \in Nat
      BY <1>1, <1>4
    <3> HIDE DEF packed
    <3> QED
      BY <1>1, <1>4, <3>1, <3>2, BytesHad
  <2>3. Take(m + n, tree, << >>)
    <3> HIDE DEF m, n, v, packed
    <3>1. Take(m + BytesForBits(v),
               WithBits(target, Path, v, SubSeq(span, current_index + m + 1,
                                                current_index + m + BytesForBits(v))), << >>)
      BY <1>4, <2>1 DEF DecodeBitVec
    <3> QED
      BY <1>4, <2>2, <3>1
  <2> HIDE DEF tree
  <2> QED
    BY <1>3, <1>6, <1>8, <1>9, <1>10, <2>3, DoneSucceeds
<1>12. ASSUME CutAt(span, current_index, bytes)
       PROVE  EndsEarly
  <2>1. CASE CutAt(span, current_index, length)
    BY <1>5, <2>1 DEF DecodeBitVec, EndsEarly
  <2>2. CASE HasAt(span, current_index, length) /\ Len(span) < current_index + m + n
    <3>1. ~HasMore(span, current_index + m, n)
      <4> HIDE DEF m, n
      <4> QED
        BY <1>1, <1>4, <1>7, <2>2
    <3>2. Count.error = "none" /\ Count.used = m /\ Count.value = v
      BY <1>7, <2>2
    <3> HIDE DEF m, n, v
    <3> QED
      BY <1>4, <3>1, <3>2 DEF DecodeBitVec, EndsEarly
  <2> QED
    BY <1>6, <1>12, <2>1, <2>2
<1> QED
  BY <1>11, <1>12 DEF Serves

\* The local at <<0>> has become the child k, and the others are gone.
IsAlternative(after, before, p, k, v) ==
  /\ IsObject(after) /\ At(after, p) = v
  /\ \A y \in Seq(Nat) : At(after, (p \o <<k>>) \o y) = At(before, (p \o <<0>>) \o y)
  /\ \A x \in Seq(Nat) : x # << >> /\ x[1] # k => At(after, p \o x) = 0
  /\ \A q \in Seq(Nat) : ~IsPrefix(p, q) => At(after, q) = At(before, q)

LEMMA AlternativeAssigned ==
  ASSUME NEW mid, IsObject(mid), NEW p \in Seq(Nat), NEW k \in Nat \ {0}, NEW v \in Nat,
         NEW after, after = WithAlternative(mid, p, p \o <<k>>, v)
  PROVE  IsAlternative(after, mid, p, k, v)
<1> DEFINE gone(q) == IsStrictPrefix(p, q) /\ q[Len(p) + 1] # 0
           emptied == Without(mid, LAMBDA q : /\ IsStrictPrefix(p, q)
                                              /\ q[Len(p) + 1] # 0)
           s == p \o <<0>>
           d == p \o <<k>>
           moved == Move(emptied, s, d, {})
           result == Assign(moved, p, v)
<1>1. \A q : At(emptied, q) = IF gone(q) THEN 0 ELSE At(mid, q)
  BY DEF Without, At
<1>2. IsObject(emptied)
  <2>1. emptied = [q \in {r \in DOMAIN mid : ~gone(r)} |-> mid[q]]
    BY DEF Without
  <2>2. DOMAIN mid \subseteq Seq(Nat) /\ mid \in [DOMAIN mid -> Nat \ {0}]
    BY DEF IsObject
  <2> DEFINE S == {r \in DOMAIN mid : ~gone(r)}
  <2>3. S \subseteq DOMAIN mid
    OBVIOUS
  <2> HIDE DEF S
  <2>4. [q \in S |-> mid[q]] \in [S -> Nat \ {0}]
    BY <2>2, <2>3
  <2> HIDE DEF emptied
  <2> QED
    BY <2>1, <2>2, <2>3, <2>4 DEF IsObject, S
<1>3. /\ s \in Seq(Nat) /\ d \in Seq(Nat) /\ 0 \in ToSet(s)
      /\ ~IsPrefix(s, d) /\ ~IsPrefix(d, s)
  <2>1. s \in Seq(Nat) /\ d \in Seq(Nat) /\ 0 \in ToSet(s)
    BY ChildPath
  <2>2. <<0>> \in Seq(Nat) /\ <<0>>[1] = 0 /\ <<k>> \in Seq(Nat) /\ <<k>>[1] = k
    OBVIOUS
  <2>3. ~IsPrefix(s, d)
    BY <2>2, BelowChild
  <2>4. ~IsPrefix(d, s)
    BY <2>2, BelowChild
  <2> QED
    BY <2>1, <2>3, <2>4
<1> HIDE DEF emptied, s, d
<1>4. /\ \A x \in Seq(Nat) : At(moved, d \o x) = At(emptied, s \o x)
      /\ \A q \in Seq(Nat) : IsPrefix(s, q) => At(moved, q) = 0
      /\ \A q \in Seq(Nat) : ~IsPrefix(s, q) /\ ~IsPrefix(d, q) =>
                               At(moved, q) = At(emptied, q)
  <2> DEFINE none == {}
  <2>1. none = {}
    OBVIOUS
  <2> HIDE DEF none
  <2> DEFINE assigned == Move(emptied, s, d, none)
  <2>2. moved = assigned
    BY <2>1
  <2> HIDE DEF moved
  <2>3. /\ \A x \in Seq(Nat) : At(assigned, d \o x) = At(emptied, s \o x)
        /\ \A x \in Seq(Nat) : At(assigned, s \o x) = IF x \in none THEN At(emptied, s \o x)
                                                     ELSE 0
        /\ \A q \in Seq(Nat) : ~IsPrefix(s, q) /\ ~IsPrefix(d, q) =>
                                 At(assigned, q) = At(emptied, q)
    BY <1>2, <1>3, ValueMoved
  <2> HIDE DEF assigned
  <2>4. \A x \in Seq(Nat) : At(assigned, s \o x) = 0
    BY <2>1, <2>3
  <2>5. ASSUME NEW q \in Seq(Nat), IsPrefix(s, q)
        PROVE  At(assigned, q) = 0
    <3>1. PICK x \in Seq(Nat) : q = s \o x
      BY <1>3, <2>5, PathBelow
    <3> QED
      BY <2>4, <3>1
  <2>6. moved = assigned
    BY <2>2 DEF assigned
  <2> QED
    BY <2>3, <2>5, <2>6
<1>5. IsObject(moved)
  BY <1>2, <1>3, MoveWrites DEF Writes
<1> HIDE DEF moved
<1>6. IsObject(result)
  BY <1>5, ObjectsMade
<1>7. \A q : At(result, q) = IF q = p THEN v ELSE At(moved, q)
  BY ValueAssigned
<1> HIDE DEF result
<1>8. ASSUME NEW y \in Seq(Nat)
      PROVE  At(result, d \o y) = At(mid, s \o y)
  <2> DEFINE a == <<0>> \o y
             b == <<k>> \o y
  <2>1. a \in Seq(Nat) /\ a # << >> /\ a[1] = 0 /\ s \o y = p \o a
    BY BelowPath DEF s
  <2>2. b \in Seq(Nat) /\ b # << >> /\ d \o y = p \o b
    BY BelowPath DEF d
  <2> HIDE DEF a, b
  <2>3. ~gone(s \o y)
    BY <2>1, BelowChild
  <2>4. d \o y # p
    BY <2>2, ConcatSimplifications
  <2> HIDE DEF gone
  <2> QED
    BY <1>1, <1>4, <1>7, <2>3, <2>4
<1>9. ASSUME NEW x \in Seq(Nat), x # << >>, x[1] # k
      PROVE  At(result, p \o x) = 0
  <2>1. p \o x # p /\ p \o x \in Seq(Nat) /\ x[1] \in Nat
    BY <1>9, FirstStep, ConcatSimplifications
  <2>2. ~IsPrefix(d, p \o x)
    BY <1>9, BelowChild DEF d
  <2>3. CASE x[1] = 0
    <3>1. IsPrefix(s, p \o x)
      BY <1>9, <2>3, BelowChild DEF s
    <3> QED
      BY <1>4, <1>7, <2>1, <3>1
  <2>4. CASE x[1] # 0
    <3>1. ~IsPrefix(s, p \o x)
      BY <1>9, <2>4, BelowChild DEF s
    <3>2. gone(p \o x)
      BY <1>9, <2>4, BelowChild
    <3> HIDE DEF gone
    <3> QED
      BY <1>1, <1>4, <1>7, <2>1, <2>2, <3>1, <3>2
  <2> QED
    BY <2>3, <2>4
<1>10. ASSUME NEW q \in Seq(Nat), ~IsPrefix(p, q)
       PROVE  At(result, q) = At(mid, q)
  <2>1. q # p /\ ~IsPrefix(s, q) /\ ~IsPrefix(d, q)
    BY <1>10, Outside DEF s, d
  <2>2. ~gone(q)
    BY <1>10 DEF IsStrictPrefix
  <2> HIDE DEF gone
  <2> QED
    BY <1>1, <1>4, <1>7, <2>1, <2>2
<1>11. At(result, p) = v
  BY <1>7
<1>12. /\ IsObject(result) /\ At(result, p) = v
       /\ \A y \in Seq(Nat) : At(result, d \o y) = At(mid, s \o y)
       /\ \A x \in Seq(Nat) : x # << >> /\ x[1] # k => At(result, p \o x) = 0
       /\ \A q \in Seq(Nat) : ~IsPrefix(p, q) => At(result, q) = At(mid, q)
  BY <1>6, <1>8, <1>9, <1>10, <1>11
<1>13. result = after
  BY DEF WithAlternative, result, moved, emptied, s, d
<1> QED
  BY <1>12, <1>13 DEF s, d, IsAlternative

LEMMA VariantServes ==
  ASSUME NEW sent, NEW e, NEW bytes, NEW calls, Reading(sent, e, bytes, calls),
         Type.kind \in Alternatives, DecodeAlternative
  PROVE  Serves(sent, e, bytes, calls)
<1> DEFINE p == Path
           t == Type
           v == At(sent, e)
           k == v + 1
           alternative == t.of[k]
           local == p \o <<0>>
           read == Task("read", alternative, local)
           assign == Task("assign", t, p \o <<k>>)
           before == target
           part == e \o <<k>>
<1>1. /\ t \in Types /\ p \in Seq(Nat) /\ e \in Seq(Nat) /\ v \in Nat
      /\ IsObject(before) /\ IsObject(sent)
      /\ IsTyped(sent, t, e) /\ IsShaped(sent, t, e) /\ IsShaped(before, t, p)
      /\ Encodes(sent, Part(t, e), bytes, calls) /\ HasValue(sent, Part(t, e))
      /\ Part(t, e).type = t /\ Part(t, e).path = e
      /\ t.kind \in Alternatives /\ t.kind \in Parents
  BY ReadingType DEF Reading, Parents
<1>2. k \in Nat \ {0} /\ k \in DOMAIN t.of /\ alternative \in Types /\ ~(0 \in DOMAIN t.of)
  <2>1. k \in DOMAIN t.of
    BY <1>1 DEF HasValue, Alternatives
  <2>2. t.of \in Seq(Types)
    BY <1>1, TypesAssumption
  <2> QED
    BY <1>1, <2>1, <2>2
<1>3. bytes = <<v>> /\ calls = <<Part(alternative, part)>>
  BY <1>1, <1>2 DEF Encodes, Alternatives
<1>4. /\ ChildrenOf(sent, t, e) = {k} /\ 0 \notin ChildrenOf(before, t, p)
      /\ \A i : ChildType(t, i) = t.of[i]
  <2>1. t.kind \notin {"optional", "pointer", "resizeable", "extensible", "array", "product"}
    BY <1>1 DEF Alternatives
  <2>2. ChildrenOf(sent, t, e) = DOMAIN t.of \intersect {k}
    BY <1>1, <2>1 DEF ChildrenOf
  <2>3. ChildrenOf(before, t, p) \subseteq DOMAIN t.of
    BY <1>1, <2>1 DEF ChildrenOf
  <2>4. \A i : ChildType(t, i) = t.of[i]
    BY <1>1 DEF ChildType
  <2> QED
    BY <1>2, <2>2, <2>3, <2>4
<1>5. /\ local \in Seq(Nat) /\ p \o <<k>> \in Seq(Nat) /\ part \in Seq(Nat)
      /\ Front(p \o <<k>>) = p /\ Last(p \o <<k>>) = k
  <2> HIDE DEF k
  <2> QED
    BY <1>1, <1>2, ChildPath
<1>6. <<read, assign>> \in Seq(Tasks)
  <2>1. read \in Tasks /\ assign \in Tasks
    BY <1>1, <1>2, <1>5, TaskType
  <2> HIDE DEF read, assign
  <2> QED
    BY <2>1
<1>7. /\ IsTyped(sent, alternative, part)
      /\ \A x \in Seq(Nat) : x # << >> /\ x[1] # k => At(sent, e \o x) = 0
  <2>1. IsTyped(sent, ChildType(t, k), e \o <<k>>)
    BY <1>1, <1>4, ChildTyped
  <2>2. \A x \in Seq(Nat) : x # << >> /\ x[1] \notin {k} => At(sent, e \o x) = 0
    BY <1>1, <1>4, ChildShape
  <2> QED
    BY <1>4, <2>1, <2>2
<1>8. IsShaped(before, alternative, local)
  <2>1. \A x \in Seq(Nat) : x # << >> /\ x[1] = 0 => At(before, p \o x) = 0
    <3> HIDE DEF p, t, before
    <3> QED
      BY <1>1, <1>4, ChildShape
  <2> HIDE DEF p, alternative, before
  <2> QED
    BY <1>1, <1>2, <2>1, EmptyChild
<1> HIDE DEF p, t, before, local, part, alternative, k
<1>9. ASSUME NEW rest \in Seq(Parts), NEW after, IsPut(sent, after, before, p, e)
      PROVE  Leads(sent, <<read, assign>>, Config(before, calls \o rest),
                   Config(after, rest))
  <2>1. PICK mid : IsPut(sent, mid, before, local, part)
    BY <1>1, <1>5, PutExists
  <2>2. IsObject(mid)
    BY <2>1 DEF IsPut
  <2>3. Does(sent, read, Config(before, calls \o rest), Config(mid, rest))
    BY <1>3, <1>5, <1>7, <1>8, <2>1 DEF Does, Config, Task
  <2> DEFINE result == WithAlternative(mid, p, p \o <<k>>, v)
  <2>4. /\ IsObject(result) /\ At(result, p) = v
        /\ \A y \in Seq(Nat) : At(result, (p \o <<k>>) \o y) = At(mid, (p \o <<0>>) \o y)
        /\ \A x \in Seq(Nat) : x # << >> /\ x[1] # k => At(result, p \o x) = 0
        /\ \A q \in Seq(Nat) : ~IsPrefix(p, q) => At(result, q) = At(mid, q)
    <3> HIDE DEF v
    <3>1. result = WithAlternative(mid, p, p \o <<k>>, v)
      OBVIOUS
    <3>2. p \in Seq(Nat) /\ k \in Nat \ {0} /\ v \in Nat
      BY <1>1, <1>2
    <3> HIDE DEF result
    <3>3. IsAlternative(result, mid, p, k, v)
      BY <2>2, <3>1, <3>2, AlternativeAssigned
    <3> QED
      BY <3>3 DEF IsAlternative
  <2> HIDE DEF result
  <2>5. \A q \in Seq(Nat) : ~IsPrefix(p, q) => At(result, q) = At(before, q)
    <3> SUFFICES ASSUME NEW q \in Seq(Nat), ~IsPrefix(p, q)
                 PROVE  At(result, q) = At(before, q)
      OBVIOUS
    <3>1. ~IsPrefix(local, q)
      BY <1>1, Outside DEF local
    <3> QED
      BY <2>1, <2>4, <3>1 DEF IsPut
  <2>6. \A x \in Seq(Nat) : At(result, p \o x) = At(sent, e \o x)
    <3>1. ASSUME NEW x \in Seq(Nat), x # << >>
          PROVE  At(result, p \o x) = At(sent, e \o x)
      <4>1. CASE x[1] = k
        <5> DEFINE y == Tail(x)
        <5>1. y \in Seq(Nat) /\ p \o x = (p \o <<k>>) \o y /\ e \o x = (e \o <<k>>) \o y
          BY <1>1, <3>1, <4>1, FirstStep
        <5> HIDE DEF y
        <5>2. At(mid, local \o y) = At(sent, part \o y)
          BY <2>1, <5>1 DEF IsPut
        <5> QED
          BY <2>4, <5>1, <5>2 DEF local, part
      <4>2. CASE x[1] # k
        BY <1>7, <2>4, <3>1, <4>2
      <4> QED
        BY <4>1, <4>2
    <3>2. At(result, p) = At(sent, e)
      BY <2>4
    <3> QED
      BY <1>1, <3>1, <3>2, SameContent
  <2>7. result = after
    BY <1>1, <1>9, <2>4, <2>5, <2>6, PutUnique
  <2>8. Does(sent, assign, Config(mid, rest), Config(after, rest))
    <3>1. assign.do = "assign" /\ assign.path = p \o <<k>>
      BY DEF Task
    <3>2. /\ Config(mid, rest).tree = mid /\ Config(mid, rest).rest = rest
          /\ Config(after, rest).tree = after /\ Config(after, rest).rest = rest
      BY DEF Config
    <3>3. k - 1 = v
      BY <1>1 DEF k
    <3> HIDE DEF assign, v
    <3> QED
      BY <1>5, <2>7, <3>1, <3>2, <3>3 DEF Does, result
  <2> HIDE DEF read, assign
  <2> QED
    BY <2>3, <2>8, LeadsTwice
<1>10. /\ HasAt(span, current_index, bytes) => Available(1) /\ NextByte = v
       /\ CutAt(span, current_index, bytes) => ~Available(1)
       /\ Len(bytes) = 1
  BY <1>3, ByteServes
<1>11. ASSUME HasAt(span, current_index, bytes)
       PROVE  Succeeds(sent, e, bytes, calls)
  <2>1. Take(1, target, <<Task("read", Type.of[NextByte + 1], Path \o <<0>>),
                          Task("assign", Type, Path \o <<NextByte + 1>>)>>)
    BY <1>2, <1>10, <1>11 DEF DecodeAlternative, k, t
  <2>2. Take(Len(bytes), before, <<read, assign>>)
    BY <1>10, <1>11, <2>1 DEF before, k, t, p, local, alternative
  <2> HIDE DEF read, assign
  <2> QED
    BY <1>6, <1>9, <2>2 DEF Succeeds, p, before
<1>12. CutAt(span, current_index, bytes) => EndsEarly
  BY <1>10 DEF DecodeAlternative, EndsEarly
<1> QED
  BY <1>11, <1>12 DEF Serves

LEMMA GraftUnique ==
  ASSUME NEW sent, NEW a, NEW b, NEW before, NEW p \in Seq(Nat), NEW e, NEW S, NEW v,
         IsGrafted(sent, a, before, p, e, S, v), IsGrafted(sent, b, before, p, e, S, v)
  PROVE  a = b
<1>1. ASSUME NEW q \in Seq(Nat)
      PROVE  At(a, q) = At(b, q)
  <2>1. CASE ~IsPrefix(p, q)
    BY <2>1 DEF IsGrafted
  <2>2. CASE IsPrefix(p, q)
    <3>1. PICK x \in Seq(Nat) : q = p \o x
      BY <2>2, PathBelow
    <3>2. CASE x = << >>
      <4>1. q = p
        BY <3>1, <3>2, ConcatSimplifications
      <4> QED
        BY <4>1 DEF IsGrafted
    <3> QED
      BY <3>1, <3>2 DEF IsGrafted
  <2> QED
    BY <2>1, <2>2
<1> QED
  BY <1>1, EqualObjects DEF IsGrafted

\* The collection is given another size.
LEMMA GraftResized ==
  ASSUME NEW sent, NEW a, NEW before, NEW p \in Seq(Nat), NEW e, NEW S, NEW v, NEW w \in Nat,
         IsGrafted(sent, a, before, p, e, S, v)
  PROVE  IsGrafted(sent, Assign(a, p, w), before, p, e, S, w)
<1> DEFINE b == Assign(a, p, w)
<1>1. IsObject(b)
  BY ObjectsMade DEF IsGrafted
<1>2. \A q : At(b, q) = IF q = p THEN w ELSE At(a, q)
  BY ValueAssigned
<1>3. /\ \A x \in Seq(Nat) : x # << >> => p \o x # p
      /\ \A q \in Seq(Nat) : ~IsPrefix(p, q) => q # p
  BY ConcatSimplifications, PrefixOfItself
<1> HIDE DEF b
<1>4. IsGrafted(sent, b, before, p, e, S, w)
  BY <1>1, <1>2, <1>3 DEF IsGrafted
<1> QED
  BY <1>4 DEF b

LEMMA TwoAndTwo ==
  ASSUME NEW n \in Nat, NEW k \in 1..n
  PROVE  /\ k - 1 \in 0..n /\ k \in 0..n /\ (k - 1) + 1 = k /\ k \in Nat
         /\ 2 * k - 1 \in 1..(2 * n) /\ 2 * k \in 1..(2 * n)
         /\ (2 * k - 1) % 2 = 1 /\ (2 * k) % 2 # 1
         /\ ((2 * k - 1) + 1) \div 2 = k /\ (2 * k) \div 2 = k
         /\ 1..k = 1..(k - 1) \union {k} /\ k \notin 1..(k - 1)
OBVIOUS

\* Each element is emplaced, then read.
EmplacedReads(t, n, p) ==
  [j \in 1..(2 * n) |-> IF j % 2 = 1 THEN Task("emplace_back", t, p \o <<(j + 1) \div 2>>)
                        ELSE Task("read", t.of[1], p \o <<j \div 2>>)]

LEMMA EmplacedLead ==
  ASSUME NEW sent, IsObject(sent), NEW before, IsObject(before), NEW after,
         NEW t \in Types, t.of[1] \in Types, NEW p \in Seq(Nat), NEW e \in Seq(Nat),
         NEW n \in Nat, At(sent, e) = n,
         \A i \in 1..n : IsTyped(sent, t.of[1], e \o <<i>>),
         \A x \in Seq(Nat) : At(before, p \o x) = 0,
         \A x \in Seq(Nat) : x # << >> /\ x[1] \notin 1..n => At(sent, e \o x) = 0,
         IsPut(sent, after, before, p, e), NEW rest \in Seq(Parts)
  PROVE  Leads(sent, EmplacedReads(t, n, p),
               Config(before, Elements(Part(t, e), n) \o rest), Config(after, rest))
<1> DEFINE of == t.of[1]
           tasks == [j \in 1..(2 * n) |->
                       IF j % 2 = 1 THEN Task("emplace_back", t, p \o <<(j + 1) \div 2>>)
                       ELSE Task("read", of, p \o <<j \div 2>>)]
           calls == [i \in 1..n |-> Part(of, e \o <<i>>)]
           tree(k) == CHOOSE g : IsGrafted(sent, g, before, p, e, 1..k, k)
           left(k) == SubSeq(calls, k + 1, n) \o rest
           ends == [k \in 0..n |-> Config(tree(k), left(k))]
<1>1. ASSUME NEW k \in 0..n
      PROVE  IsGrafted(sent, tree(k), before, p, e, 1..k, k)
  <2>1. k \in Nat
    OBVIOUS
  <2>2. \E g : IsGrafted(sent, g, before, p, e, 1..k, k)
    BY <2>1, GraftExists
  <2> QED
    BY <2>2
<1>2. tree(0) = before
  <2>1. 1..0 = {} /\ 0 \in 0..n
    OBVIOUS
  <2>2. At(before, p) = 0
    <3>1. p \o << >> = p /\ << >> \in Seq(Nat)
      BY ConcatSimplifications, NoTasks
    <3> QED
      BY <3>1
  <2>3. IsGrafted(sent, tree(0), before, p, e, {}, At(before, p))
    BY <1>1, <2>1, <2>2
  <2> HIDE DEF tree
  <2> QED
    BY <2>3, GraftNone
<1>3. tree(n) = after
  <2>1. n \in 0..n
    OBVIOUS
  <2>2. IsGrafted(sent, tree(n), before, p, e, 1..n, At(sent, e))
    BY <1>1, <2>1
  <2> HIDE DEF tree
  <2>3. IsPut(sent, tree(n), before, p, e)
    BY <2>2, GraftAll
  <2>4. /\ IsObject(tree(n))
        /\ \A x \in Seq(Nat) : At(tree(n), p \o x) = At(sent, e \o x)
        /\ \A q \in Seq(Nat) : ~IsPrefix(p, q) => At(tree(n), q) = At(before, q)
    BY <2>3 DEF IsPut
  <2> DEFINE other == tree(n)
  <2> HIDE DEF other
  <2> QED
    BY <2>4, PutUnique DEF other
<1>4. \A i \in 1..n : p \o <<i>> \in Seq(Nat) /\ e \o <<i>> \in Seq(Nat)
  BY ChildPath
<1>5. calls \in [1..n -> Parts]
  BY <1>4, PartType
<1>10. /\ SubSeq(calls, 1, n) \o rest = calls \o rest /\ SubSeq(calls, n + 1, n) \o rest = rest
       /\ \A j \in 1..n : /\ SubSeq(calls, j + 1, n) \o rest \in Seq(Parts)
                          /\ SubSeq(calls, j, n) \o rest
                               = <<calls[j]>> \o (SubSeq(calls, j + 1, n) \o rest)
  <2> HIDE DEF calls, tree, left, ends
  <2>1. /\ SubSeq(calls, 1, n) \o rest = calls \o rest
        /\ SubSeq(calls, n + 1, n) \o rest = rest
    BY <1>5, PartsLeft
  <2>2. ASSUME NEW j \in 1..n
        PROVE  /\ SubSeq(calls, j + 1, n) \o rest \in Seq(Parts)
               /\ SubSeq(calls, j, n) \o rest
                    = <<calls[j]>> \o (SubSeq(calls, j + 1, n) \o rest)
    BY <1>5, PartsLeft
  <2> QED
    BY <2>1, <2>2
<1>6. ASSUME NEW k \in 1..n
      PROVE  \E m : /\ Does(sent, tasks[2 * k - 1], ends[k - 1], m)
                    /\ Does(sent, tasks[2 * k], m, ends[k])
  <2>1. /\ k - 1 \in 0..n /\ k \in 0..n /\ (k - 1) + 1 = k /\ k \in Nat
        /\ 2 * k - 1 \in 1..(2 * n) /\ 2 * k \in 1..(2 * n)
        /\ (2 * k - 1) % 2 = 1 /\ (2 * k) % 2 # 1
        /\ ((2 * k - 1) + 1) \div 2 = k /\ (2 * k) \div 2 = k
    BY TwoAndTwo
  <2> DEFINE a == tree(k - 1)
             b == tree(k)
             grown == Assign(a, p, k)
             c == p \o <<k>>
             r == left(k - 1)
             l == left(k)
  <2>2. tasks[2 * k - 1] = Task("emplace_back", t, c) /\ tasks[2 * k] = Task("read", of, c)
    BY <2>1
  <2>3. IsGrafted(sent, a, before, p, e, 1..(k - 1), k - 1)
        /\ IsGrafted(sent, b, before, p, e, 1..k, k)
    BY <1>1, <2>1
  <2>4. ends[k - 1] = Config(a, r) /\ ends[k] = Config(b, l)
    BY <2>1
  <2> HIDE DEF tree, ends
  <2>5. IsGrafted(sent, grown, before, p, e, 1..(k - 1), k)
    <3> HIDE DEF a
    <3> QED
      BY <2>1, <2>3, GraftResized
  <2> HIDE DEF a, b, grown
  <2>6. 1..k = 1..(k - 1) \union {k}
    BY TwoAndTwo
  <2>7. IsPut(sent, b, grown, p \o <<k>>, e \o <<k>>)
    BY <2>1, <2>3, <2>5, <2>6, GraftStep
  <2>8. IsShaped(grown, of, p \o <<k>>)
    <3>1. IsObject(grown)
      BY <2>5 DEF IsGrafted
    <3>2. k \notin 1..(k - 1)
      BY <2>1
    <3>3. \A x \in Seq(Nat) : x # << >> /\ x[1] = k => At(grown, p \o x) = 0
      BY <2>5, <3>2 DEF IsGrafted
    <3> QED
      BY <2>1, <3>1, <3>3, EmptyChild
  <2>9. r = <<calls[k]>> \o l /\ l \in Seq(Parts)
    <3> HIDE DEF calls
    <3> QED
      BY <1>10, <2>1
  <2>10. calls[k] = Part(of, e \o <<k>>)
    OBVIOUS
  <2>11. Front(c) = p /\ Last(c) = k
    BY <2>1, ChildPath
  <2> HIDE DEF r, l, left, c, calls, tasks, of
  <2>12. Does(sent, Task("emplace_back", t, c), Config(a, r), Config(grown, r))
    BY <2>11 DEF Does, Task, Config, grown
  <2>13. Does(sent, Task("read", of, c), Config(grown, r), Config(b, l))
    <3>1. c = p \o <<k>>
      BY DEF c
    <3>2. e \o <<k>> \in Seq(Nat) /\ IsTyped(sent, of, e \o <<k>>)
      BY <1>4 DEF of
    <3> QED
      BY <2>7, <2>8, <2>9, <2>10, <3>1, <3>2 DEF Does, Task, Config
  <2> QED
    BY <2>2, <2>4, <2>12, <2>13
<1>7. Len(tasks) = 2 * n /\ 0 \in 0..n /\ n \in 0..n
  OBVIOUS
<1>8. left(0) = calls \o rest /\ left(n) = rest
  <2>1. 0 + 1 = 1
    OBVIOUS
  <2> HIDE DEF calls
  <2> QED
    BY <1>10, <2>1
<1>9. ends[0] = Config(before, calls \o rest) /\ ends[n] = Config(after, rest)
  <2> HIDE DEF tree, left, calls, tasks
  <2> QED
    BY <1>2, <1>3, <1>7, <1>8
<1> HIDE DEF ends, calls, tasks
<1>11. Leads(sent, tasks, ends[0], ends[n])
  BY <1>6, <1>7, LeadsPairs
<1>12. Elements(Part(t, e), n) = calls
  BY DEF Elements, Part, calls
<1>13. EmplacedReads(t, n, p) = tasks
  BY DEF EmplacedReads, tasks
<1> QED
  BY <1>9, <1>11, <1>12, <1>13

LEMMA ExtensibleServes ==
  ASSUME NEW sent, NEW e, NEW bytes, NEW calls, Reading(sent, e, bytes, calls),
         Type.kind = "extensible", DecodeExtensible
  PROVE  Serves(sent, e, bytes, calls)
<1> DEFINE p == Path
           t == Type
           n == At(sent, e)
           before == target
           tree == Clear(before, p)
           tasks == [j \in 1..(2 * n) |->
                       IF j % 2 = 1 THEN Task("emplace_back", t, p \o <<(j + 1) \div 2>>)
                       ELSE Task("read", Of, p \o <<j \div 2>>)]
<1>1. /\ t \in Types /\ p \in Seq(Nat) /\ e \in Seq(Nat) /\ n \in Nat
      /\ IsObject(before) /\ IsObject(sent) /\ IsTyped(sent, t, e) /\ IsShaped(sent, t, e)
      /\ Encodes(sent, Part(t, e), bytes, calls) /\ HasValue(sent, Part(t, e))
      /\ Part(t, e).type = t /\ Part(t, e).path = e
      /\ t.kind \in Parents /\ t.kind = "extensible" /\ DecoderTypeOK
  BY ReadingType DEF Reading, Parents, IInv
<1>2. /\ Of \in Types /\ \A i : ChildType(t, i) = Of
      /\ ChildrenOf(sent, t, e) = 1..n
  <2>1. Of \in Types
    BY <1>1, TypesAssumption DEF Of, Wrappers
  <2>2. \A i : ChildType(t, i) = Of
    BY DEF ChildType, Alternatives, Of
  <2>3. ChildrenOf(sent, t, e) = 1..n
    BY DEF ChildrenOf, Alternatives
  <2> QED
    BY <2>1, <2>2, <2>3
<1>3. IsNative(n, SizeBytes) /\ n \in 0..Allocatable /\ n \in 0..MaxSize
  BY <1>1, SizeAssumption DEF HasValue
<1>4. bytes = EncodeCompactOfNative(n).bytes /\ calls = Elements(Part(t, e), n)
  BY <1>1, <1>2 DEF Encodes
<1>5. /\ IsObject(tree)
      /\ \A x \in Seq(Nat) : At(tree, p \o x) = 0
      /\ \A q \in Seq(Nat) : ~IsPrefix(p, q) => At(tree, q) = At(before, q)
  <2>1. IsObject(tree)
    BY <1>1, ObjectsMade
  <2> QED
    BY <1>1, <2>1, ValueCleared, PrefixOfConcat
<1>6. /\ \A i \in 1..n : IsTyped(sent, Of, e \o <<i>>)
      /\ \A x \in Seq(Nat) : x # << >> /\ x[1] \notin 1..n => At(sent, e \o x) = 0
  <2> HIDE DEF t, n
  <2>1. \A i \in 1..n : IsTyped(sent, ChildType(t, i), e \o <<i>>)
    BY <1>1, <1>2, ChildTyped
  <2>2. \A x \in Seq(Nat) : x # << >> /\ x[1] \notin 1..n => At(sent, e \o x) = 0
    BY <1>1, <1>2, ChildShape
  <2> QED
    BY <1>2, <2>1, <2>2
<1>7. tasks \in Seq(Tasks)
  <2>1. ASSUME NEW j \in 1..(2 * n)
        PROVE  tasks[j] \in Tasks
    <3>1. (j + 1) \div 2 \in Nat /\ j \div 2 \in Nat
      <4> HIDE DEF n
      <4> QED
        BY <1>1
    <3>2. p \o <<(j + 1) \div 2>> \in Seq(Nat) /\ p \o <<j \div 2>> \in Seq(Nat)
      BY <1>1, <3>1, ChildPath
    <3>3. /\ Task("emplace_back", t, p \o <<(j + 1) \div 2>>) \in Tasks
          /\ Task("read", Of, p \o <<j \div 2>>) \in Tasks
      BY <1>1, <1>2, <3>2, TaskType
    <3> QED
      BY <3>3
  <2>2. tasks \in [1..(2 * n) -> Tasks] /\ 2 * n \in Nat
    BY <1>1, <2>1
  <2> HIDE DEF tasks
  <2> QED
    BY <2>2, FunctionIsSeq
<1>8. ASSUME NEW rest \in Seq(Parts), NEW after, IsPut(sent, after, before, p, e)
      PROVE  Leads(sent, tasks, Config(tree, calls \o rest), Config(after, rest))
  <2>0. EmplacedReads(t, n, p) = tasks /\ Of = t.of[1]
    BY DEF EmplacedReads, Of
  <2> HIDE DEF tree, p, t, before, n, tasks
  <2>1. IsPut(sent, after, tree, p, e)
    BY <1>5, <1>8, PutElsewhere
  <2>2. n = At(sent, e)
    BY DEF n
  <2>4. Leads(sent, EmplacedReads(t, n, p),
              Config(tree, Elements(Part(t, e), n) \o rest), Config(after, rest))
    BY <1>1, <1>2, <1>5, <1>6, <2>0, <2>1, <2>2, EmplacedLead
  <2> QED
    BY <1>4, <2>0, <2>4
<1>9. /\ HasAt(span, current_index, bytes) => Count = ReadResult("none", Len(bytes), n)
      /\ CutAt(span, current_index, bytes) => Count.error = "NOT_ENOUGH_DATA"
  <2> HIDE DEF n
  <2> QED
    BY <1>1, <1>3, <1>4, CountServes
<1>10. ASSUME HasAt(span, current_index, bytes)
       PROVE  Succeeds(sent, e, bytes, calls)
  <2>1. Count.error = "none" /\ Count.used = Len(bytes) /\ Count.value = n
    BY <1>9, <1>10 DEF ReadResult
  <2>2. Take(Len(bytes), tree, tasks)
    <3>1. Count.value \notin (Allocatable + 1)..MaxSize
      <4> HIDE DEF n
      <4> QED
        BY <1>3, <2>1, SizeAssumption
    <3> HIDE DEF n
    <3> QED
      BY <1>3, <2>1, <3>1 DEF DecodeExtensible
  <2> HIDE DEF tasks, tree
  <2> QED
    BY <1>7, <1>8, <2>2 DEF Succeeds
<1>11. CutAt(span, current_index, bytes) => EndsEarly
  BY <1>9 DEF DecodeExtensible, EndsEarly
<1> QED
  BY <1>10, <1>11 DEF Serves

\* The local at <<0>> has become the element of the child i of the collection.
IsElement(after, before, p, i, v, stays) ==
  /\ IsObject(after) /\ At(after, p) = v /\ At(after, p \o <<i>>) = 1
  /\ \A y \in Seq(Nat) : At(after, (p \o <<0>>) \o y)
                            = IF y \in stays THEN At(before, (p \o <<0>>) \o y) ELSE 0
  /\ \A y \in Seq(Nat) : At(after, p \o InElement(i, y)) = At(before, (p \o <<0>>) \o y)
  /\ \A x \in Seq(Nat) : /\ x # << >> /\ x[1] # 0 /\ x # <<i>>
                         /\ \A y \in Seq(Nat) : x # InElement(i, y)
                         => At(after, p \o x) = At(before, p \o x)
  /\ \A q \in Seq(Nat) : ~IsPrefix(p, q) => At(after, q) = At(before, q)

LEMMA ElementEmplaced ==
  ASSUME NEW mid, IsObject(mid), NEW p \in Seq(Nat), NEW key \in Nat, NEW v \in Nat,
         NEW stays, NEW after, after = WithElement(mid, p, p \o << 0 >>, key, v, stays)
  PROVE  IsElement(after, mid, p, key + 1, v, stays)
<1> DEFINE i == key + 1
           s == p \o <<0>>
           node == p \o <<i>>
           d == ElementOf(p, i)
           moved == Move(mid, s, d, stays)
<1>0. i \in Nat /\ i # 0
  OBVIOUS
<1> HIDE DEF i
<1>1. /\ s \in Seq(Nat) /\ d \in Seq(Nat) /\ node \in Seq(Nat) /\ node \o <<1>> = d
      /\ 0 \in ToSet(s)
  BY <1>0, TwoSteps, ChildPath
<1>2. ~IsPrefix(s, d)
  <2> DEFINE x == <<i, 1>>
  <2>1. x \in Seq(Nat) /\ x # << >> /\ x[1] = i
    BY <1>0
  <2> HIDE DEF x
  <2>2. ~IsPrefix(p \o <<0>>, p \o x)
    BY <1>0, <2>1, BelowChild
  <2> QED
    BY <2>2 DEF x, ElementOf
<1>3. ~IsPrefix(d, s)
  <2> SUFFICES ASSUME IsPrefix(d, s)
               PROVE  FALSE
    OBVIOUS
  <2>1. PICK y \in Seq(Nat) : s = d \o y
    <3> HIDE DEF s, d
    <3> QED
      BY <1>1, PathBelow
  <2> DEFINE x == InElement(i, y)
  <2>2. x \in Seq(Nat) /\ x # << >> /\ x[1] = i /\ s = p \o x
    <3> HIDE DEF s
    <3> QED
      BY <1>0, <2>1, TwoSteps
  <2> HIDE DEF x
  <2>3. ~IsPrefix(p \o <<0>>, p \o x)
    BY <1>0, <2>2, BelowChild
  <2> QED
    BY <1>1, <2>2, <2>3, PrefixOfItself DEF s
<1>4. after = Assign(Assign(moved, node, 1), p, v)
  BY <1>1 DEF WithElement, i
<1> HIDE DEF s, d
<1>5. /\ \A x \in Seq(Nat) : At(moved, d \o x) = At(mid, s \o x)
      /\ \A x \in Seq(Nat) : At(moved, s \o x) = IF x \in stays THEN At(mid, s \o x) ELSE 0
      /\ \A q \in Seq(Nat) : ~IsPrefix(s, q) /\ ~IsPrefix(d, q) =>
                               At(moved, q) = At(mid, q)
  BY <1>1, <1>2, <1>3, ValueMoved
<1>6. IsObject(moved)
  BY <1>1, <1>2, <1>3, MoveWrites DEF Writes
<1> HIDE DEF moved
<1>7. \A q : At(after, q) = IF q = p THEN v ELSE IF q = node THEN 1 ELSE At(moved, q)
  <2> DEFINE flagged == Assign(moved, node, 1)
  <2>1. \A q : At(flagged, q) = IF q = node THEN 1 ELSE At(moved, q)
    <3> HIDE DEF node
    <3> QED
      BY ValueAssigned
  <2>2. after = Assign(flagged, p, v)
    BY <1>4
  <2> HIDE DEF flagged
  <2>3. \A q : At(after, q) = IF q = p THEN v ELSE At(flagged, q)
    BY <2>2, ValueAssigned
  <2> QED
    BY <2>1, <2>3
<1>8. IsObject(after)
  <2> HIDE DEF node
  <2>1. IsObject(Assign(moved, node, 1))
    BY <1>1, <1>6, ObjectsMade
  <2> DEFINE flagged == Assign(moved, node, 1)
  <2>2. IsObject(flagged) /\ after = Assign(flagged, p, v)
    BY <1>4, <2>1
  <2> HIDE DEF flagged
  <2> QED
    BY <2>2, ObjectsMade
<1>9. /\ \A x \in Seq(Nat) : x # << >> => p \o x # p
      /\ \A x \in Seq(Nat) : x # <<i>> => p \o x # node
  <2>1. ASSUME NEW x \in Seq(Nat), p \o x = node
        PROVE  x = <<i>>
    <3> DEFINE head == <<i>>
    <3>1. head \in Seq(Nat) /\ p \o x = p \o head
      BY <1>0, <2>1
    <3> HIDE DEF head
    <3>2. x = head
      BY <3>1, ConcatSimplifications
    <3> QED
      BY <3>2 DEF head
  <2> QED
    BY <2>1, ConcatSimplifications
<1>10. At(after, node) = 1
  <2>1. node # p
    BY <1>0, ChildPath, ConcatSimplifications
  <2> QED
    BY <1>7, <2>1
<1>11. ASSUME NEW y \in Seq(Nat)
       PROVE  At(after, s \o y) = IF y \in stays THEN At(mid, s \o y) ELSE 0
  <2> DEFINE x == <<0>> \o y
  <2>1. x \in Seq(Nat) /\ x # << >> /\ x[1] = 0 /\ s \o y = p \o x
    BY BelowPath DEF s
  <2> HIDE DEF x
  <2>2. x # <<i>>
    BY <1>0, <2>1
  <2>3. s \o y # p /\ s \o y # node
    BY <1>9, <2>1, <2>2
  <2> QED
    BY <1>5, <1>7, <2>3
<1>12. ASSUME NEW y \in Seq(Nat)
       PROVE  At(after, p \o (InElement(i, y))) = At(mid, s \o y)
  <2> DEFINE x == InElement(i, y)
  <2>1. x \in Seq(Nat) /\ x # << >> /\ x # <<i>> /\ d \o y = p \o x
    BY <1>0, TwoSteps DEF d
  <2> HIDE DEF x
  <2>2. At(after, p \o x) = At(mid, s \o y)
    BY <1>5, <1>7, <1>9, <2>1
  <2> QED
    BY <2>2 DEF x
<1>13. ASSUME NEW x \in Seq(Nat), x # << >>, x[1] # 0, x # <<i>>,
              \A y \in Seq(Nat) : x # InElement(i, y)
       PROVE  At(after, p \o x) = At(mid, p \o x)
  <2>1. p \o x \in Seq(Nat) /\ ~IsPrefix(s, p \o x)
    BY <1>13, BelowChild DEF s
  <2>2. ~IsPrefix(d, p \o x)
    <3>1. CASE x[1] = i
      BY <1>0, <1>13, <3>1, SecondStep DEF d
    <3>2. CASE x[1] # i
      <4>1. ~IsPrefix(p \o <<i>>, p \o x)
        BY <1>0, <1>13, <3>2, BelowChild
      <4>2. IsPrefix(d, p \o x) => IsPrefix(node, p \o x)
        <5> SUFFICES ASSUME IsPrefix(d, p \o x)
                     PROVE  IsPrefix(node, p \o x)
          OBVIOUS
        <5> DEFINE q == p \o x
        <5>1. q \in Seq(Nat) /\ IsPrefix(d, q)
          BY <2>1
        <5> HIDE DEF q, node
        <5>2. PICK y \in Seq(Nat) : q = d \o y
          BY <1>1, <5>1, PathBelow
        <5>3. <<1>> \o y \in Seq(Nat) /\ (node \o <<1>>) \o y = node \o (<<1>> \o y)
          <6>1. 1 \in Nat /\ node \in Seq(Nat) /\ y \in Seq(Nat)
            BY <1>1
          <6> HIDE DEF d
          <6> QED
            BY ONLY <6>1, BelowPath
        <5>4. IsPrefix(node, q)
          BY <1>1, <5>1, <5>2, <5>3, PathBelow
        <5> QED
          BY <5>4 DEF q
      <4> QED
        BY <4>1, <4>2
    <3> QED
      BY <3>1, <3>2
  <2> QED
    BY <1>5, <1>7, <1>9, <1>13, <2>1, <2>2
<1>14. ASSUME NEW q \in Seq(Nat), ~IsPrefix(p, q)
       PROVE  At(after, q) = At(mid, q)
  <2>1. q # p /\ ~IsPrefix(s, q) /\ ~IsPrefix(node, q)
    BY <1>0, <1>14, Outside DEF s
  <2>2. q # node
    BY <1>1, <2>1, PrefixOfItself
  <2>3. ~IsPrefix(d, q)
    <3> SUFFICES ASSUME IsPrefix(d, q)
                 PROVE  FALSE
      OBVIOUS
    <3>1. PICK y \in Seq(Nat) : q = d \o y
      BY <1>1, PathBelow
    <3> DEFINE x == InElement(i, y)
    <3>2. x \in Seq(Nat) /\ q = p \o x
      <4>1. InElement(i, y) \in Seq(Nat)
        BY <1>0, <3>1, TwoSteps
      <4>2. ElementOf(p, i) \o y = p \o InElement(i, y)
        BY <1>0, <3>1, TwoSteps, ZenonT(60)
      <4> QED
        BY <3>1, <4>1, <4>2 DEF d
    <3> HIDE DEF x
    <3> QED
      BY <1>14, <3>2, PathBelow
  <2> QED
    BY <1>5, <1>7, <2>1, <2>2, <2>3
<1>15. At(after, p) = v
  BY <1>7
<1>16. IsElement(after, mid, p, i, v, stays)
  BY <1>8, <1>10, <1>11, <1>12, <1>13, <1>14, <1>15 DEF IsElement, s
<1> QED
  BY <1>16 DEF i

\* Each key is iterated, once.
Enumerates(keys, n, K) ==
  /\ keys \in [1..n -> K]
  /\ \A i, j \in 1..n : keys[i] = keys[j] => i = j
  /\ \A k \in K : \E i \in 1..n : keys[i] = k

LEMMA AllIterated ==
  ASSUME NEW K \in SUBSET Nat, IsFiniteSet(K), NEW n \in Nat, n = Cardinality(K),
         NEW keys \in Iterations(K, n)
  PROVE  Enumerates(keys, n, K)
<1>1. keys \in [1..n -> K] /\ \A i, j \in 1..n : i < j => keys[i] < keys[j]
  BY DEF Iterations
<1>2. ASSUME NEW i \in 1..n, NEW j \in 1..n, keys[i] = keys[j]
      PROVE  i = j
  <2>1. keys[i] \in Nat /\ keys[j] \in Nat
    BY <1>1
  <2>2. ~(i < j) /\ ~(j < i)
    BY <1>1, <1>2, <2>1
  <2> QED
    BY <2>2
<1>3. keys \in Injection(1..n, K)
  BY <1>1, <1>2 DEF Injection, IsInjective
<1>4. Cardinality(1..n) = n
  <2>1. 1 \in Int /\ n \in Int
    OBVIOUS
  <2>2. Cardinality(1..n) = IF 1 > n THEN 0 ELSE n - 1 + 1
    BY <2>1, FS_Interval
  <2> QED
    BY <2>2
<1>5. keys \in Surjection(1..n, K)
  BY <1>3, <1>4, FS_Injection
<1> QED
  BY <1>1, <1>2, <1>5 DEF Surjection, Enumerates

\* What an item that has been moved from keeps.
LEMMA StayingMeaning ==
  ASSUME NEW t \in Types
  PROVE  /\ MovedFrom[t] \in SUBSET Seq(Nat)
         /\ t.kind \in Owners => MovedFrom[t] = {}
         /\ t.kind = "as_compact" => MovedFrom[t] = MovedFrom[t.of[1]]
         /\ t.kind \notin Owners \union {"as_compact"} => << >> \in MovedFrom[t]
<1>1. MovedFrom[t] \in SUBSET Seq(Nat) /\ MovedFrom[t] = Staying(t, MovedFrom)
  BY MovedFromAssumption, Zenon
<1>2. CASE t.kind \in Owners
  BY <1>1, <1>2 DEF Staying, Owners
<1>3. CASE t.kind = "as_compact"
  BY <1>1, <1>3 DEF Staying, Owners
<1>4. CASE t.kind = "optbool"
  BY <1>1, <1>4 DEF Staying, Owners
<1>5. CASE t.kind = "array"
  BY <1>1, <1>5 DEF Staying, Owners
<1>6. CASE t.kind \notin Owners \union {"as_compact", "optbool", "array"}
  BY <1>1, <1>6 DEF Staying
<1> QED
  BY <1>1, <1>2, <1>3, <1>4, <1>5, <1>6

\* So do its children, each what one of its type keeps.
Whole == {"optional", "array", "product"} \union Alternatives

LEMMA ChildrenStay ==
  ASSUME NEW tree, IsObject(tree), NEW t \in Types, NEW p \in Seq(Nat), t.kind \in Whole,
         HasValue(tree, Part(t, p)), NEW i \in ChildrenOf(tree, t, p), NEW z \in Seq(Nat)
  PROVE  <<i>> \o z \in MovedFrom[t] <=> z \in MovedFrom[ChildType(t, i)]
<1> DEFINE S == IF t.kind = "array" THEN 1..t.n ELSE DOMAIN t.of
           C(j) == IF t.kind = "array" THEN t.of[1] ELSE t.of[j]
           Inside(j) == {<<j>> \o q : q \in MovedFrom[C(j)]}
<1>1. t.of \in Seq(Types) /\ t.n \in Nat /\ At(tree, p) \in Nat
  BY TypesAssumption, ContentType
<1>2. MovedFrom[t] = {<< >>} \union UNION {Inside(j) : j \in S}
  <2>1. MovedFrom[t] = Staying(t, MovedFrom)
    BY MovedFromAssumption, Zenon
  <2>2. CASE t.kind = "array"
    BY <2>1, <2>2 DEF Staying, Owners
  <2>3. CASE t.kind # "array"
    <3>1. t.kind \notin Owners \union {"as_compact", "optbool", "array"}
      BY <2>3 DEF Owners, Whole, Alternatives
    <3>2. Staying(t, MovedFrom)
            = {<< >>} \union UNION {{<<j>> \o q : q \in MovedFrom[t.of[j]]} : j \in DOMAIN t.of}
      BY <3>1 DEF Staying
    <3> QED
      BY <2>1, <2>3, <3>2
  <2> QED
    BY <2>2, <2>3
<1>3. i \in S /\ C(i) = ChildType(t, i)
  <2>1. CASE t.kind = "array"
    BY <2>1 DEF ChildrenOf, ChildType, Alternatives
  <2>2. CASE t.kind = "optional"
    <3>1. At(tree, p) \in {0, 1} /\ i \in 1..At(tree, p)
      BY <2>2, PartType DEF HasValue, ChildrenOf, Alternatives
    <3>2. i = 1 /\ ChildType(t, i) = t.of[1] /\ Len(t.of) = 1
      BY <2>2, <3>1, TypesAssumption DEF ChildType, Alternatives, Wrappers
    <3> QED
      BY <1>1, <2>2, <3>2
  <2>3. CASE t.kind \in {"product"} \union Alternatives
    BY <2>3 DEF ChildrenOf, ChildType, Alternatives
  <2> QED
    BY <2>1, <2>2, <2>3 DEF Whole
<1>4. \A j \in S : j \in Nat /\ C(j) \in Types
  <2>1. CASE t.kind = "array"
    BY <1>1, <2>1, TypesAssumption DEF Wrappers
  <2>2. CASE t.kind # "array"
    BY <1>1, <2>2
  <2> QED
    BY <2>1, <2>2
<1>5. \A j \in S : MovedFrom[C(j)] \in SUBSET Seq(Nat)
  BY <1>4, StayingMeaning
<1> HIDE DEF S, C
<1>6. ASSUME <<i>> \o z \in MovedFrom[t]
      PROVE  z \in MovedFrom[C(i)]
  <2>1. <<i>> \o z # << >> /\ (<<i>> \o z)[1] = i
    BY <1>3, <1>4, BelowPath
  <2> DEFINE y == <<i>> \o z
  <2>a. y \in UNION {Inside(j) : j \in S}
    BY <1>2, <1>6, <2>1
  <2> HIDE DEF y
  <2>2. PICK j \in S : y \in Inside(j)
    BY <2>a
  <2>3. PICK q \in MovedFrom[C(j)] : <<i>> \o z = <<j>> \o q
    BY <2>2 DEF y
  <2>4. q \in Seq(Nat) /\ i \in Nat /\ j \in Nat
    BY <1>3, <1>4, <1>5
  <2>5. (<<j>> \o q)[1] = j
    BY <2>4, BelowPath
  <2>6. i = j
    BY <2>1, <2>3, <2>5
  <2> DEFINE head == <<i>>
  <2>7. head \in Seq(Nat) /\ head \o z = head \o q
    BY <2>3, <2>4, <2>6
  <2> HIDE DEF head
  <2>8. z = q
    BY <2>4, <2>7, ConcatSimplifications
  <2> QED
    BY <2>6, <2>8
<1>7. ASSUME z \in MovedFrom[C(i)]
      PROVE  <<i>> \o z \in MovedFrom[t]
  <2>1. <<i>> \o z \in Inside(i)
    BY <1>7
  <2> HIDE DEF Inside
  <2> QED
    BY <1>2, <1>3, <2>1
<1> QED
  BY <1>3, <1>6, <1>7

\* Next has at s what the sub-object of sent at d keeps of it when it is moved
\* from, and elsewhere what there is before.
Keeps(sent, next, s, d, stays) ==
  \A y \in Seq(Nat) : At(next, s \o y) = IF y \in stays THEN At(sent, d \o y) ELSE 0

IsLeft(sent, next, before, s, d, stays) ==
  /\ IsObject(next)
  /\ Keeps(sent, next, s, d, stays)
  /\ \A q \in Seq(Nat) : ~IsPrefix(s, q) => At(next, q) = At(before, q)

LEMMA LeftExists ==
  ASSUME NEW sent, IsObject(sent), NEW before, IsObject(before),
         NEW s \in Seq(Nat), NEW d \in Seq(Nat), NEW stays
  PROVE  \E next : IsLeft(sent, next, before, s, d, stays)
<1> DEFINE f == [q \in Seq(Nat) |->
                   IF ~IsPrefix(s, q) THEN At(before, q)
                   ELSE IF Behind(s, q) \in stays THEN At(sent, d \o Behind(s, q)) ELSE 0]
<1>1. f \in [Seq(Nat) -> Nat]
  BY ContentType
<1>2. ASSUME NEW y \in Seq(Nat)
      PROVE  f[s \o y] = IF y \in stays THEN At(sent, d \o y) ELSE 0
  <2>1. s \o y \in Seq(Nat) /\ IsPrefix(s, s \o y) /\ Behind(s, s \o y) = y
    BY PrefixOfConcat, BehindMeaning
  <2> QED
    BY <2>1
<1>3. \A q \in Seq(Nat) : ~IsPrefix(s, q) => f[q] = At(before, q)
  OBVIOUS
<1>4. \A y \in Seq(Nat) : s \o y \in Seq(Nat)
  OBVIOUS
<1> HIDE DEF f
<1>5. IsLeft(sent, TreeOf(f), before, s, d, stays)
  BY <1>1, <1>2, <1>3, <1>4, TreeOfMeaning DEF IsLeft, Keeps
<1> QED
  BY <1>5

\* A part of an item that has been moved from, and its parts.
LEMMA StalePart ==
  ASSUME NEW sent, IsObject(sent), NEW next, IsObject(next), NEW t \in Types,
         NEW p \in Seq(Nat), NEW e \in Seq(Nat), Keeps(sent, next, p, e, MovedFrom[t]),
         HasShape(sent, Part(t, e)), HasValue(sent, Part(t, e))
  PROVE  /\ HasShape(next, Part(t, p))
         /\ \A sub \in PartsOf(next, Part(t, p)) :
              \E w \in Seq(Nat) :
                /\ sub \in Parts /\ sub.path = p \o w
                /\ Part(sub.type, e \o w) \in PartsOf(sent, Part(t, e))
                /\ Keeps(sent, next, p \o w, e \o w, MovedFrom[sub.type])
<1> DEFINE mine == Part(t, p)
           its == Part(t, e)
<1>1. /\ mine \in Parts /\ mine.type = t /\ mine.path = p
      /\ its \in Parts /\ its.type = t /\ its.path = e
  BY PartType
<1>2. p \o << >> = p /\ e \o << >> = e /\ << >> \in Seq(Nat)
  BY ConcatSimplifications
<1>3. CASE t.kind \in Owners
  <2>1. \A x \in Seq(Nat) : At(next, p \o x) = 0
    BY <1>3, StayingMeaning DEF Keeps
  <2>2. IsShaped(next, t, p)
    BY <2>1, EmptyIsShaped
  <2>3. HasShape(next, mine)
    BY <2>2, ShapedParts
  <2>4. At(next, p) = 0
    BY <1>2, <2>1
  <2>5. Keys(next, p) = {}
    <3>1. ASSUME NEW k \in Nat
          PROVE  At(next, p \o <<k + 1>>) = 0
      <4> DEFINE x == <<k + 1>>
      <4>1. x \in Seq(Nat)
        OBVIOUS
      <4> HIDE DEF x
      <4>2. At(next, p \o x) = 0
        BY <2>1, <4>1
      <4> QED
        BY <4>2 DEF x
    <3> QED
      BY <3>1, KeysMeaning
  <2>6. PartsOf(next, mine) = {}
    <3> HIDE DEF mine
    <3>1. CASE t.kind \in {"pointer", "resizeable", "extensible"}
      BY <1>1, <2>4, <3>1 DEF PartsOf
    <3>2. CASE t.kind = "random"
      BY <1>1, <2>5, <3>2 DEF PartsOf
    <3>3. CASE t.kind = "bitvec"
      BY <1>1, <3>3 DEF PartsOf
    <3> QED
      BY <1>3, <3>1, <3>2, <3>3 DEF Owners
  <2> QED
    BY <2>3, <2>6
<1>4. CASE t.kind = "as_compact"
  <2>1. t.of[1] \in Types /\ MovedFrom[t] = MovedFrom[t.of[1]]
    BY <1>4, TypesAssumption, StayingMeaning DEF Wrappers
  <2>2. PartsOf(next, mine) = {Part(t.of[1], p)} /\ PartsOf(sent, its) = {Part(t.of[1], e)}
    BY <1>1, <1>4 DEF PartsOf
  <2>3. /\ Part(t.of[1], p) \in Parts /\ Part(t.of[1], p).type = t.of[1]
        /\ Part(t.of[1], p).path = p
    BY <2>1, PartType
  <2>4. HasShape(next, mine)
    <3> HIDE DEF mine
    <3> QED
      BY <1>1, <1>4, <2>2, <2>3 DEF HasShape, IsStrictPrefix
  <2> HIDE DEF mine, its
  <2>5. ASSUME NEW sub \in PartsOf(next, mine)
        PROVE  \E w \in Seq(Nat) :
                 /\ sub \in Parts /\ sub.path = p \o w
                 /\ Part(sub.type, e \o w) \in PartsOf(sent, its)
                 /\ Keeps(sent, next, p \o w, e \o w, MovedFrom[sub.type])
    <3> DEFINE none == << >>
    <3>1. /\ none \in Seq(Nat) /\ sub \in Parts /\ sub.path = p \o none
          /\ Part(sub.type, e \o none) \in PartsOf(sent, its)
          /\ Keeps(sent, next, p \o none, e \o none, MovedFrom[sub.type])
      BY <1>2, <2>1, <2>2, <2>3
    <3> HIDE DEF none
    <3> QED
      BY <3>1
  <2> QED
    BY <2>4, <2>5 DEF mine, its
<1>5. CASE t.kind \notin Owners \union {"as_compact"}
  <2>1. At(next, p) = At(sent, e)
    BY <1>2, <1>5, StayingMeaning DEF Keeps
  <2>2. \A x \in Seq(Nat) : At(next, p \o x) # 0 => At(next, p \o x) = At(sent, e \o x)
    BY DEF Keeps
  <2>3. CASE t.kind \in Whole
    <3> DEFINE S == ChildrenOf(sent, t, e)
    <3>1. t.kind \in Parents /\ ChildrenOf(next, t, p) = S
      BY <2>1, <2>3 DEF Whole, Parents, ChildrenOf
    <3>2. /\ \A i \in S : i \in Nat /\ ChildType(t, i) \in Types /\ p \o <<i>> \in Seq(Nat)
          /\ PartsOf(next, mine) = {Part(ChildType(t, i), p \o <<i>>) : i \in S}
          /\ PartsOf(sent, its) = {Part(ChildType(t, i), e \o <<i>>) : i \in S}
          /\ Flags(sent, its) = {}
      <4>1. /\ PartsOf(sent, its) = {Part(ChildType(t, i), e \o <<i>>) : i \in S}
            /\ Flags(sent, its) = {}
            /\ \A i \in S : i \in Nat /\ ChildType(t, i) \in Types
        BY <3>1, ChildParts
      <4> HIDE DEF S
      <4>2. /\ PartsOf(next, mine) = {Part(ChildType(t, i), p \o <<i>>) : i \in S}
            /\ \A i \in S : p \o <<i>> \in Seq(Nat)
        <5>1. /\ PartsOf(next, Part(t, p))
                   = {Part(ChildType(t, i), p \o <<i>>) : i \in ChildrenOf(next, t, p)}
              /\ \A i \in ChildrenOf(next, t, p) : p \o <<i>> \in Seq(Nat)
          BY <3>1, ChildParts
        <5> QED
          BY <3>1, <5>1
      <4> QED
        BY <4>1, <4>2
    <3> HIDE DEF S, mine, its
    <3>3. ASSUME NEW i \in S
          PROVE  /\ Part(ChildType(t, i), p \o <<i>>) \in Parts
                 /\ Part(ChildType(t, i), p \o <<i>>).type = ChildType(t, i)
                 /\ Part(ChildType(t, i), p \o <<i>>).path = p \o <<i>>
                 /\ <<i>> \in Seq(Nat)
                 /\ Keeps(sent, next, p \o <<i>>, e \o <<i>>, MovedFrom[ChildType(t, i)])
      <4>1. ASSUME NEW z \in Seq(Nat)
            PROVE  At(next, (p \o <<i>>) \o z)
                     = IF z \in MovedFrom[ChildType(t, i)] THEN At(sent, (e \o <<i>>) \o z)
                       ELSE 0
        <5> DEFINE y == <<i>> \o z
        <5>1. y \in Seq(Nat) /\ (p \o <<i>>) \o z = p \o y /\ (e \o <<i>>) \o z = e \o y
          <6>1. i \in Nat
            BY <3>2
          <6>2. y \in Seq(Nat) /\ (p \o <<i>>) \o z = p \o y
            BY <6>1, BelowPath, Zenon
          <6>3. (e \o <<i>>) \o z = e \o y
            BY <6>1, BelowPath, Zenon
          <6> QED
            BY <6>2, <6>3
        <5>2. y \in MovedFrom[t] <=> z \in MovedFrom[ChildType(t, i)]
          <6>1. i \in ChildrenOf(sent, t, e) /\ HasValue(sent, Part(t, e))
            BY DEF S
          <6>2. <<i>> \o z \in MovedFrom[t] <=> z \in MovedFrom[ChildType(t, i)]
            BY <2>3, <6>1, ChildrenStay
          <6> QED
            BY <6>2
        <5> HIDE DEF y
        <5> QED
          BY <5>1, <5>2 DEF Keeps
      <4>2. <<i>> \in Seq(Nat)
        BY <3>2
      <4> QED
        BY <3>2, <4>1, <4>2, PartType DEF Keeps
    <3>4. HasShape(next, mine)
      <4>1. ASSUME NEW q \in DOMAIN next, IsStrictPrefix(p, q)
            PROVE  \E sub \in PartsOf(next, mine) : IsPrefix(sub.path, q)
        <5>1. q \in Seq(Nat) /\ At(next, q) # 0 /\ IsPrefix(p, q)
          BY <4>1, ContentType DEF IsObject, IsStrictPrefix
        <5>2. PICK x \in Seq(Nat) : q = p \o x
          BY <5>1, PathBelow
        <5>3. x # << >>
          BY <1>2, <4>1, <5>2 DEF IsStrictPrefix
        <5>4. At(sent, e \o x) # 0
          BY <2>2, <5>1, <5>2
        <5>5. PICK sub \in PartsOf(sent, its) : IsPrefix(sub.path, e \o x)
          BY <3>2, <5>3, <5>4, NothingElse DEF its
        <5>6. PICK i \in S : sub = Part(ChildType(t, i), e \o <<i>>)
          BY <3>2, <5>5
        <5>7. i \in Nat /\ IsPrefix(e \o <<i>>, e \o x)
          BY <3>2, <5>5, <5>6 DEF Part
        <5>8. IsPrefix(p \o <<i>>, p \o x)
          BY <5>7, BelowChild
        <5> QED
          BY <3>2, <3>3, <5>2, <5>8
      <4>2. t.kind \in {"product", "array"} => At(next, p) = 0
        BY <1>1, <2>1 DEF HasShape, its
      <4> QED
        BY <1>1, <4>1, <4>2 DEF HasShape, mine
    <3>5. ASSUME NEW sub \in PartsOf(next, mine)
          PROVE  \E w \in Seq(Nat) :
                   /\ sub \in Parts /\ sub.path = p \o w
                   /\ Part(sub.type, e \o w) \in PartsOf(sent, its)
                   /\ Keeps(sent, next, p \o w, e \o w, MovedFrom[sub.type])
      <4>1. PICK i \in S : sub = Part(ChildType(t, i), p \o <<i>>)
        BY <3>2
      <4> DEFINE w == <<i>>
      <4>2. /\ w \in Seq(Nat) /\ sub \in Parts /\ sub.path = p \o w
            /\ Part(sub.type, e \o w) \in PartsOf(sent, its)
            /\ Keeps(sent, next, p \o w, e \o w, MovedFrom[sub.type])
        BY <3>2, <3>3, <4>1
      <4> HIDE DEF w
      <4> QED
        BY <4>2
    <3> QED
      BY <3>4, <3>5 DEF mine, its
  <2>4. CASE t.kind \notin Whole
    <3> HIDE DEF mine, its
    <3>1. PartsOf(next, mine) = {} /\ PartsOf(sent, its) = {}
      BY <1>1, <1>5, <2>4 DEF PartsOf, Whole, Alternatives, Owners
    <3>2. \A q : q \in Flags(sent, its) =>
                   \E i \in 1..At(sent, e) : q = e \o <<i>> /\ p \o <<i>> \in Flags(next, mine)
      <4>1. CASE t.kind = "optbool"
        BY <1>1, <2>1, <4>1 DEF Flags
      <4>2. CASE t.kind # "optbool"
        <5>1. t.kind # "bitvec" /\ t.kind # "random"
          BY <1>5 DEF Owners
        <5> QED
          BY <1>1, <4>2, <5>1 DEF Flags
      <4> QED
        BY <4>1, <4>2
    <3>3. ASSUME NEW q \in DOMAIN next, IsStrictPrefix(p, q)
          PROVE  q \in Flags(next, mine) /\ next[q] = 1
      <4>1. q \in Seq(Nat) /\ At(next, q) = next[q] /\ At(next, q) # 0 /\ IsPrefix(p, q)
        BY <3>3, ContentType DEF IsObject, IsStrictPrefix
      <4>2. PICK x \in Seq(Nat) : q = p \o x
        BY <4>1, PathBelow
      <4>3. x # << >>
        BY <1>2, <3>3, <4>2 DEF IsStrictPrefix
      <4>4. At(sent, e \o x) = At(next, q)
        BY <2>2, <4>1, <4>2
      <4>5. e \o x \in Flags(sent, its) /\ At(sent, e \o x) = 1
        BY <3>1, <4>1, <4>3, <4>4, NothingElse DEF its
      <4>6. PICK i \in 1..At(sent, e) : e \o x = e \o <<i>> /\ p \o <<i>> \in Flags(next, mine)
        BY <3>2, <4>5
      <4>7. x = <<i>>
        <5> DEFINE head == <<i>>
        <5>1. head \in Seq(Nat)
          <6>1. At(sent, e) \in Nat
            BY ContentType
          <6> QED
            BY <6>1
        <5>2. e \o x = e \o head
          BY <4>6
        <5> HIDE DEF head
        <5>3. x = head
          BY <5>1, <5>2, ConcatSimplifications
        <5> QED
          BY <5>3 DEF head
      <4> QED
        BY <4>1, <4>2, <4>4, <4>5, <4>6, <4>7
    <3>4. t.kind \notin {"product", "array"}
      BY <2>4 DEF Whole
    <3>5. HasShape(next, mine)
      BY <1>1, <3>3, <3>4 DEF HasShape
    <3> QED
      BY <3>1, <3>5 DEF mine
  <2> QED
    BY <2>3, <2>4
<1> QED
  BY <1>3, <1>4, <1>5

\* An item that has been moved from is still an object of its type.
LEMMA StaleShaped ==
  ASSUME NEW sent, IsObject(sent), NEW next, IsObject(next), NEW t \in Types,
         NEW p \in Seq(Nat), NEW e \in Seq(Nat), IsTyped(sent, t, e),
         Keeps(sent, next, p, e, MovedFrom[t])
  PROVE  IsShaped(next, t, p)
<1>1. PICK typed \in SUBSET Parts :
        /\ Part(t, e) \in typed
        /\ \A part \in typed : /\ PartsOf(sent, part) \subseteq typed
                               /\ HasShape(sent, part) /\ HasValue(sent, part)
  BY DEF IsTyped
<1> DEFINE parts == {part \in Parts :
                       \E d \in Seq(Nat) :
                         /\ Part(part.type, d) \in typed
                         /\ Keeps(sent, next, part.path, d, MovedFrom[part.type])}
<1>2. Part(t, p) \in parts
  BY <1>1, PartType
<1>3. ASSUME NEW part \in parts
      PROVE  PartsOf(next, part) \subseteq parts /\ HasShape(next, part)
  <2> DEFINE u == part.type
             s == part.path
  <2>1. u \in Types /\ s \in Seq(Nat) /\ part = Part(u, s)
    BY PartIsRecord
  <2>2. PICK d \in Seq(Nat) : Part(u, d) \in typed /\ Keeps(sent, next, s, d, MovedFrom[u])
    OBVIOUS
  <2>3. /\ HasShape(sent, Part(u, d)) /\ HasValue(sent, Part(u, d))
        /\ PartsOf(sent, Part(u, d)) \subseteq typed
    BY <1>1, <2>2
  <2> HIDE DEF u, s
  <2>4. /\ HasShape(next, Part(u, s))
        /\ \A sub \in PartsOf(next, Part(u, s)) :
             \E w \in Seq(Nat) :
               /\ sub \in Parts /\ sub.path = s \o w
               /\ Part(sub.type, d \o w) \in PartsOf(sent, Part(u, d))
               /\ Keeps(sent, next, s \o w, d \o w, MovedFrom[sub.type])
    BY <2>1, <2>2, <2>3, StalePart
  <2>5. ASSUME NEW sub \in PartsOf(next, Part(u, s))
        PROVE  sub \in parts
    <3>1. PICK w \in Seq(Nat) :
            /\ sub \in Parts /\ sub.path = s \o w
            /\ Part(sub.type, d \o w) \in PartsOf(sent, Part(u, d))
            /\ Keeps(sent, next, s \o w, d \o w, MovedFrom[sub.type])
      BY <2>4
    <3> DEFINE c == d \o w
    <3>2. c \in Seq(Nat) /\ Part(sub.type, c) \in typed
          /\ Keeps(sent, next, sub.path, c, MovedFrom[sub.type])
      BY <2>3, <3>1
    <3> HIDE DEF c
    <3> QED
      BY <3>1, <3>2
  <2> QED
    BY <2>1, <2>4, <2>5
<1>4. parts \in SUBSET Parts
  OBVIOUS
<1> HIDE DEF parts
<1> QED
  BY <1>2, <1>3, <1>4 DEF IsShaped

\* An element is read into the local, and emplaced.
LEMMA EmplaceStep ==
  ASSUME NEW sent, IsObject(sent), NEW before, IsObject(before),
         NEW t \in Types, t.kind = "random", t.of[1] \in Types,
         NEW p \in Seq(Nat), NEW e \in Seq(Nat), IsTyped(sent, t, e),
         IsShaped(before, t.of[1], p \o << 0 >>),
         \A x \in Seq(Nat) : x # << >> /\ x[1] # 0 => At(before, p \o x) = 0,
         NEW key \in Keys(sent, e), NEW S, key + 1 \notin S, 0 \notin S,
         NEW next, IsLeft(sent, next, before, p \o << 0 >>, ElementOf(e, key + 1),
                          MovedFrom[t.of[1]]),
         NEW v \in Nat, v < Allocatable,
         NEW a, IsGrafted(sent, a, before, p, e, S, v),
         NEW b, IsGrafted(sent, b, next, p, e, S \union {key + 1}, v + 1),
         NEW left \in Seq(Parts)
  PROVE  \E m : /\ Does(sent, Task("read", t.of[1], p \o <<0>>),
                        Config(a, <<Part(t.of[1], ElementOf(e, key + 1))>> \o left), m)
                /\ Does(sent, Task("emplace", t, p \o <<0>>), m, Config(b, left))
<1> DEFINE of == t.of[1]
           s == p \o <<0>>
           i == key + 1
           d == ElementOf(e, i)
           part == Part(t, e)
<1>1. /\ key \in Nat /\ i \in Nat /\ i # 0
      /\ \A k \in Keys(sent, e) : k \in Nat
  BY KeysMeaning
<1>2. /\ s \in Seq(Nat) /\ Front(s) = p /\ d \in Seq(Nat) /\ << >> \in Seq(Nat)
      /\ \A y \in Seq(Nat) : /\ InElement(i, y) \in Seq(Nat) /\ InElement(i, y) # << >>
                             /\ InElement(i, y)[1] = i
                             /\ d \o y = e \o InElement(i, y)
  <2>2. 0 \in Nat /\ << >> \in Seq(Nat)
    OBVIOUS
  <2>1. s \in Seq(Nat) /\ Front(s) = p /\ << >> \in Seq(Nat)
    BY <2>2, ChildPath
  <2> HIDE DEF i
  <2>3. ASSUME NEW y \in Seq(Nat)
        PROVE  /\ InElement(i, y) \in Seq(Nat) /\ InElement(i, y) # << >>
               /\ InElement(i, y)[1] = i
               /\ d \o y = e \o InElement(i, y) /\ d \in Seq(Nat)
    <3> HIDE DEF s, part
    <3>1. /\ InElement(i, y) \in Seq(Nat) /\ InElement(i, y) # << >>
          /\ InElement(i, y)[1] = i
      BY <1>1, TwoSteps
    <3>2. ElementOf(e, i) \o y = e \o InElement(i, y) /\ ElementOf(e, i) \in Seq(Nat)
      BY <1>1, TwoSteps
    <3> QED
      BY <3>1, <3>2
  <2> QED
    BY <2>1, <2>3
<1>3. /\ HasValue(sent, part) /\ part.type = t /\ part.path = e
      /\ IsShaped(sent, t, e) /\ IsTyped(sent, of, d)
  <2>1. HasValue(sent, part) /\ part.type = t /\ part.path = e
    BY TypedParts, PartType
  <2>2. IsTyped(sent, t.of[1], e \o <<key + 1, 1>>)
    BY RandomTyped
  <2> QED
    BY <2>1, <2>2, TypedIsShaped DEF ElementOf
<1>4. At(sent, KeyPath(t, d)) = key
  BY <1>3 DEF HasValue, ElementOf
<1>5. IsObject(a) /\ At(a, p) = v
  BY DEF IsGrafted
<1>6. \A x \in Seq(Nat) : x # << >> /\ x[1] # 0 /\ x[1] \notin S => At(a, p \o x) = 0
  BY DEF IsGrafted
<1>7. IsShaped(a, of, s)
  <2>1. ASSUME NEW y \in Seq(Nat)
        PROVE  At(a, s \o y) = At(before, s \o y)
    <3> DEFINE x == <<0>> \o y
    <3>1. x \in Seq(Nat) /\ x # << >> /\ x[1] = 0 /\ s \o y = p \o x
      BY BelowPath
    <3> HIDE DEF x, s
    <3> QED
      BY <3>1 DEF IsGrafted
  <2>2. IsShaped(before, of, s)
    OBVIOUS
  <2> HIDE DEF of, s
  <2> QED
    BY <1>5, <2>1, <2>2, ShapedElsewhere
<1> DEFINE stays == MovedFrom[of]
<1> HIDE DEF stays
<1>0. IsLeft(sent, next, before, s, d, stays)
  BY DEF stays
<1>8. PICK mid : IsPut(sent, mid, a, s, d)
  <2> HIDE DEF s, d
  <2> QED
    BY <1>2, <1>5, PutExists
<1> HIDE DEF of, d, s
<1>9. Does(sent, Task("read", of, s), Config(a, <<Part(of, d)>> \o left), Config(mid, left))
  BY <1>2, <1>3, <1>7, <1>8 DEF Does, Task, Config
<1>10. IsObject(mid) /\ \A y \in Seq(Nat) : At(mid, s \o y) = At(sent, d \o y)
  BY <1>8 DEF IsPut
<1>11. At(mid, KeyPath(t, s)) = key
  <2>1. CASE t.of[1].kind = "product"
    <3>1. KeyPath(t, s) = s \o <<1>> /\ KeyPath(t, d) = d \o <<1>> /\ <<1>> \in Seq(Nat)
      BY <2>1 DEF KeyPath
    <3> QED
      BY <1>4, <1>10, <3>1
  <2>2. CASE t.of[1].kind # "product"
    <3>1. KeyPath(t, s) = s /\ KeyPath(t, d) = d
      BY <2>2 DEF KeyPath
    <3>2. s \o << >> = s /\ d \o << >> = d
      BY <1>2, ConcatSimplifications
    <3> QED
      BY <1>2, <1>4, <1>10, <3>1, <3>2
  <2> QED
    BY <2>1, <2>2
<1>12. ASSUME NEW x \in Seq(Nat), x # << >>, x[1] # 0
       PROVE  At(mid, p \o x) = At(a, p \o x)
  <2>1. p \o x \in Seq(Nat) /\ ~IsPrefix(s, p \o x)
    BY <1>12, BelowChild DEF s
  <2> QED
    BY <1>8, <2>1 DEF IsPut
<1>13. At(mid, p) = v
  <2>1. ~IsPrefix(s, p)
    <3>1. p \o << >> = p /\ ~(<< >> # << >>)
      BY ConcatSimplifications
    <3>2. ~IsPrefix(p \o <<0>>, p \o << >>)
      BY <1>2, BelowChild
    <3> QED
      BY <3>1, <3>2 DEF s
  <2> QED
    BY <1>5, <1>8, <2>1 DEF IsPut
<1>14. key \notin Keys(mid, p)
  <2> DEFINE x == <<i>>
  <2>1. x \in Seq(Nat) /\ x # << >> /\ x[1] = i
    BY <1>1
  <2> HIDE DEF x
  <2>2. At(mid, p \o x) = 0
    BY <1>1, <1>6, <1>12, <2>1
  <2> QED
    BY <1>1, <1>10, <2>2, KeysMeaning DEF x
<1> DEFINE after == WithElement(mid, p, s, key, v + 1, stays)
<1>15. IsElement(after, mid, p, i, v + 1, stays)
  <2> DEFINE w == v + 1
  <2>1. w \in Nat /\ after = WithElement(mid, p, p \o <<0>>, key, w, stays)
    BY DEF s
  <2> HIDE DEF w, after
  <2>2. IsElement(after, mid, p, key + 1, w, stays)
    BY <1>1, <1>10, <2>1, ElementEmplaced
  <2> QED
    BY <2>2 DEF w
<1>16. IsGrafted(sent, after, next, p, e, S \union {i}, v + 1)
  <2>1. ASSUME NEW x \in Seq(Nat), x # << >>
        PROVE  At(after, p \o x) = IF x[1] \in S \union {i} THEN At(sent, e \o x)
                                   ELSE At(next, p \o x)
    <3> HIDE DEF after
    <3>1. CASE x[1] = 0
      <4>1. PICK y \in Seq(Nat) : p \o x = s \o y
        <5>1. IsPrefix(s, p \o x) /\ p \o x \in Seq(Nat)
          BY <2>1, <3>1, BelowChild DEF s
        <5> QED
          BY <1>2, <5>1, PathBelow
      <4>2. At(after, s \o y) = IF y \in stays THEN At(mid, s \o y) ELSE 0
        BY <1>15 DEF IsElement, s
      <4>3. At(next, s \o y) = IF y \in stays THEN At(sent, d \o y) ELSE 0
        BY <1>0 DEF IsLeft, Keeps
      <4>4. At(mid, s \o y) = At(sent, d \o y)
        BY <1>10
      <4> QED
        BY <1>1, <3>1, <4>1, <4>2, <4>3, <4>4
    <3>2. CASE x[1] # 0 /\ x # <<i>> /\ \A y \in Seq(Nat) : x # InElement(i, y)
      <4>1. At(after, p \o x) = At(a, p \o x)
        BY <1>12, <1>15, <2>1, <3>2 DEF IsElement
      <4>2. CASE x[1] # i
        <5>1. p \o x \in Seq(Nat) /\ ~IsPrefix(s, p \o x)
          BY <2>1, <3>2, BelowChild DEF s
        <5>2. At(next, p \o x) = At(before, p \o x)
          BY <1>0, <5>1 DEF IsLeft
        <5> QED
          BY <2>1, <4>1, <4>2, <5>2 DEF IsGrafted
      <4>3. CASE x[1] = i
        <5>1. At(a, p \o x) = 0
          BY <1>1, <1>6, <2>1, <4>3
        <5>2. At(sent, e \o x) = 0
          <6> SUFFICES ASSUME At(sent, e \o x) # 0
                       PROVE  FALSE
            OBVIOUS
          <6>0. InRandom(sent, e, x)
            BY <1>3, <2>1, RandomShape
          <6>1. PICK k \in Keys(sent, e) :
                  \/ x = <<k + 1>> /\ At(sent, e \o x) = 1
                  \/ \E y \in Seq(Nat) : x = InElement(k + 1, y)
            BY <6>0 DEF InRandom
          <6>2. k \in Nat
            BY <1>1
          <6>3. CASE x = <<k + 1>>
            <7>1. x[1] = k + 1
              BY <6>3
            <7> QED
              BY <3>2, <4>3, <6>3, <7>1
          <6>4. CASE \E y \in Seq(Nat) : x = InElement(k + 1, y)
            <7>1. PICK y \in Seq(Nat) : x = InElement(k + 1, y)
              BY <6>4
            <7>2. k + 1 \in Nat
              BY <6>2
            <7>3. x[1] = k + 1
              BY <7>1, <7>2, TwoSteps
            <7> QED
              BY <3>2, <4>3, <7>1, <7>3
          <6> QED
            BY <6>1, <6>3, <6>4
        <5> QED
          BY <4>1, <4>3, <5>1, <5>2
      <4> QED
        BY <4>2, <4>3
    <3>3. CASE x = <<i>>
      <4>1. x[1] = i /\ At(after, p \o x) = 1
        BY <1>15, <3>3 DEF IsElement
      <4>2. At(sent, e \o x) # 0
        BY <1>1, <3>3, KeysMeaning
      <4>3. At(sent, e \o x) = 1
        <5>0. InRandom(sent, e, x)
          BY <1>3, <2>1, <4>2, RandomShape
        <5>1. PICK k \in Keys(sent, e) :
                \/ x = <<k + 1>> /\ At(sent, e \o x) = 1
                \/ \E y \in Seq(Nat) : x = InElement(k + 1, y)
          BY <5>0 DEF InRandom
        <5>2. ASSUME NEW y \in Seq(Nat), x = InElement(k + 1, y)
              PROVE  FALSE
          <6>1. k + 1 \in Nat /\ x = InElement(k + 1, y)
            BY <1>1, <5>2
          <6>2. x[1] = k + 1 /\ x # <<k + 1>>
            BY <6>1, TwoSteps
          <6> QED
            BY <3>3, <4>1, <6>2
        <5> QED
          BY <5>1, <5>2
      <4> QED
        BY <4>1, <4>3
    <3>4. CASE \E y \in Seq(Nat) : x = InElement(i, y)
      <4>1. PICK y \in Seq(Nat) : x = InElement(i, y)
        BY <3>4
      <4>2. x[1] = i
        BY <1>2, <4>1
      <4>3. At(after, p \o x) = At(mid, s \o y)
        BY <1>15, <4>1 DEF IsElement, s
      <4>4. At(sent, e \o x) = At(sent, d \o y)
        BY <1>2, <4>1
      <4> QED
        BY <1>10, <4>2, <4>3, <4>4
    <3> QED
      BY <3>1, <3>2, <3>3, <3>4
  <2>2. ASSUME NEW q \in Seq(Nat), ~IsPrefix(p, q)
        PROVE  At(after, q) = At(next, q)
    <3>1. ~IsPrefix(s, q)
      BY <2>2, Outside DEF s
    <3>2. At(after, q) = At(mid, q)
      BY <1>15, <2>2 DEF IsElement
    <3>3. At(mid, q) = At(a, q) /\ At(next, q) = At(before, q)
      BY <1>0, <1>8, <3>1 DEF IsPut, IsLeft
    <3> QED
      BY <2>2, <3>2, <3>3 DEF IsGrafted
  <2>3. IsObject(after) /\ At(after, p) = v + 1
    BY <1>15 DEF IsElement
  <2> HIDE DEF after
  <2> QED
    BY <2>1, <2>2, <2>3 DEF IsGrafted
<1>17. after = b
  <2> DEFINE T == S \union {i}
             w == v + 1
  <2>1. IsGrafted(sent, after, next, p, e, T, w) /\ IsGrafted(sent, b, next, p, e, T, w)
    BY <1>16
  <2> HIDE DEF T, w, after
  <2> QED
    BY <2>1, GraftUnique
<1>18. Does(sent, Task("emplace", t, s), Config(mid, left), Config(b, left))
  <2> HIDE DEF after
  <2>1. b = WithElement(mid, p, s, key, v + 1, MovedFrom[t.of[1]])
    BY <1>17 DEF after, stays, of
  <2> QED
    BY <1>2, <1>11, <1>13, <1>14, <2>1 DEF Does, Task, Config
<1> QED
  BY <1>9, <1>18 DEF of, d, s, i

LEMMA BeforeIt ==
  ASSUME NEW n \in Nat, NEW k \in 1..n, NEW m \in Nat, n <= m
  PROVE  /\ k - 1 \in Nat /\ k - 1 < m /\ k = (k - 1) + 1
         /\ \A i \in 1..(k - 1) : i \in 1..n /\ i # k
OBVIOUS

\* All elements, in the order of the keys.
EmplaceReads(t, n, p) ==
  [j \in 1..(2 * n) |-> IF j % 2 = 1 THEN Task("read", t.of[1], p \o <<0>>)
                        ELSE Task("emplace", t, p \o <<0>>)]
LeaveTask(t, p) == Task("leave", t, p \o <<0>>)
KeyParts(t, n, e, keys) == [i \in 1..n |-> Part(t.of[1], ElementOf(e, keys[i] + 1))]

LEMMA EmplaceLead ==
  ASSUME NEW sent, IsObject(sent), NEW before, IsObject(before), NEW after,
         NEW t \in Types, t.kind = "random", t.of[1] \in Types,
         NEW p \in Seq(Nat), NEW e \in Seq(Nat), IsTyped(sent, t, e),
         \A x \in Seq(Nat) : At(before, p \o x) = 0,
         NEW n \in Nat, At(sent, e) = n, NEW keys \in Iterations(Keys(sent, e), n),
         IsPut(sent, after, before, p, e), NEW rest \in Seq(Parts)
  PROVE  \E m : /\ Leads(sent, EmplaceReads(t, n, p),
                         Config(before, KeyParts(t, n, e, keys) \o rest), m)
                /\ Does(sent, LeaveTask(t, p), m, Config(after, rest))
<1> DEFINE of == t.of[1]
           s == p \o <<0>>
           tasks == [j \in 1..(2 * n) |->
                       IF j % 2 = 1 THEN Task("read", of, s) ELSE Task("emplace", t, s)]
           calls == [i \in 1..n |-> Part(of, ElementOf(e, keys[i] + 1))]
           S(k) == {keys[i] + 1 : i \in 1..k}
           d(k) == ElementOf(e, keys[k] + 1)
           stays == MovedFrom[of]
           base(k) == IF k = 0 THEN before
                      ELSE CHOOSE g : IsLeft(sent, g, before, s, d(k), stays)
           tree(k) == CHOOSE g : IsGrafted(sent, g, base(k), p, e, S(k), k)
           left(k) == SubSeq(calls, k + 1, n) \o rest
           ends == [k \in 0..n |-> Config(tree(k), left(k))]
<1>2. /\ n <= Allocatable /\ n = Cardinality(Keys(sent, e)) /\ IsFiniteSet(Keys(sent, e))
      /\ IsShaped(sent, t, e) /\ Keys(sent, e) \in SUBSET Nat
  <2>1. HasValue(sent, Part(t, e)) /\ Part(t, e).type = t /\ Part(t, e).path = e
    BY TypedParts, PartType
  <2>2. Keys(sent, e) \in SUBSET Nat
    BY KeysMeaning
  <2> QED
    BY <2>1, <2>2, TypedIsShaped DEF HasValue
<1>3. /\ keys \in [1..n -> Keys(sent, e)]
      /\ \A i, j \in 1..n : keys[i] = keys[j] => i = j
      /\ \A k \in Keys(sent, e) : \E i \in 1..n : keys[i] = k
  <2> DEFINE K == Keys(sent, e)
  <2>1. K \in SUBSET Nat /\ IsFiniteSet(K) /\ n = Cardinality(K) /\ keys \in Iterations(K, n)
    BY <1>2
  <2> HIDE DEF K
  <2>2. Enumerates(keys, n, K)
    BY <2>1, AllIterated
  <2> QED
    BY <2>2 DEF K, Enumerates
<1>4. \A i \in 1..n : keys[i] \in Nat
  BY <1>2, <1>3
<1>16. s \in Seq(Nat) /\ Front(s) = p /\ \A k \in 1..n : d(k) \in Seq(Nat)
  <2>1. 0 \in Nat
    OBVIOUS
  <2>2. s \in Seq(Nat) /\ Front(s) = p
    BY <2>1, ChildPath
  <2>3. ASSUME NEW k \in 1..n
        PROVE  d(k) \in Seq(Nat)
    <3>1. keys[k] + 1 \in Nat
      BY <1>4
    <3> QED
      BY <3>1, TwoSteps
  <2> QED
    BY <2>2, <2>3
<1>17. ASSUME NEW k \in 1..n
       PROVE  IsLeft(sent, base(k), before, s, d(k), stays)
  <2>1. k # 0 /\ d(k) \in Seq(Nat)
    BY <1>16
  <2> HIDE DEF s, d, stays
  <2>2. \E g : IsLeft(sent, g, before, s, d(k), stays)
    BY <1>16, <2>1, LeftExists
  <2> QED
    BY <2>1, <2>2
<1>18. ASSUME NEW k \in 0..n
       PROVE  /\ IsObject(base(k)) /\ IsShaped(base(k), of, s)
              /\ \A q \in Seq(Nat) : ~IsPrefix(s, q) => At(base(k), q) = At(before, q)
              /\ \A x \in Seq(Nat) : x # << >> /\ x[1] # 0 => At(base(k), p \o x) = 0
  <2>1. /\ IsObject(base(k)) /\ IsShaped(base(k), of, s)
        /\ \A q \in Seq(Nat) : ~IsPrefix(s, q) => At(base(k), q) = At(before, q)
    <3>1. CASE k = 0
      <4>1. IsShaped(before, of, p \o <<0>>)
        <5>1. 0 \in Nat /\ of \in Types
          OBVIOUS
        <5> HIDE DEF of
        <5> QED
          BY <5>1, EmptyChild
      <4> HIDE DEF of
      <4> QED
        BY <3>1, <4>1
    <3>2. CASE k # 0
      <4>0. k \in 1..n
        BY <3>2
      <4> DEFINE next == base(k)
                 c == d(k)
      <4>1. IsLeft(sent, next, before, s, c, stays) /\ c \in Seq(Nat)
        BY <1>16, <1>17, <4>0
      <4>2. IsTyped(sent, of, c)
        <5>1. keys[k] \in Keys(sent, e)
          BY <1>3, <4>0
        <5>2. IsTyped(sent, t.of[1], e \o <<keys[k] + 1, 1>>)
          BY <5>1, RandomTyped
        <5> QED
          BY <5>2 DEF ElementOf
      <4>3. stays = MovedFrom[of] /\ of \in Types
        OBVIOUS
      <4> HIDE DEF base, c, next, s, d, of, stays
      <4>4. IsShaped(next, of, s)
        BY <1>16, <4>1, <4>2, <4>3, StaleShaped DEF IsLeft
      <4> QED
        BY <4>1, <4>4 DEF IsLeft, next
    <3> QED
      BY <3>1, <3>2
  <2>2. ASSUME NEW x \in Seq(Nat), x # << >>, x[1] # 0
        PROVE  At(base(k), p \o x) = 0
    <3>1. p \o x \in Seq(Nat) /\ ~IsPrefix(s, p \o x)
      BY <2>2, BelowChild
    <3> HIDE DEF base, s
    <3> QED
      BY <2>1, <3>1
  <2> QED
    BY <2>1, <2>2
<1> HIDE DEF base
<1>1. ASSUME NEW k \in 0..n
      PROVE  IsGrafted(sent, tree(k), base(k), p, e, S(k), k)
  <2>1. k \in Nat /\ IsObject(base(k))
    BY <1>18
  <2> HIDE DEF S
  <2>2. \E g : IsGrafted(sent, g, base(k), p, e, S(k), k)
    BY <2>1, GraftExists
  <2> QED
    BY <2>2
<1>5. At(before, p) = 0
  <2>1. p \o << >> = p /\ << >> \in Seq(Nat)
    BY ConcatSimplifications
  <2> QED
    BY <2>1
<1>6. tree(0) = before
  <2>1. S(0) = {} /\ 0 \in 0..n
    OBVIOUS
  <2>2. IsGrafted(sent, tree(0), before, p, e, {}, At(before, p))
    BY <1>1, <1>5, <2>1 DEF base
  <2> HIDE DEF tree
  <2> QED
    BY <2>2, GraftNone
<1>7. IsObject(tree(n)) /\ Clear(tree(n), s) = after
  <2>1. IsGrafted(sent, tree(n), base(n), p, e, S(n), At(sent, e))
    <3>1. n \in 0..n
      OBVIOUS
    <3> HIDE DEF tree, S
    <3> QED
      BY <1>1, <3>1
  <2>2. ASSUME NEW x \in Seq(Nat), x # << >>, x[1] = 0 \/ x[1] \notin S(n)
        PROVE  At(sent, e \o x) = 0
    <3> SUFFICES ASSUME At(sent, e \o x) # 0
                 PROVE  FALSE
      OBVIOUS
    <3>1. InRandom(sent, e, x)
      BY <1>2, <2>2, RandomShape
    <3>2. PICK k \in Keys(sent, e) :
            \/ x = <<k + 1>> /\ At(sent, e \o x) = 1
            \/ \E y \in Seq(Nat) : x = InElement(k + 1, y)
      BY <3>1 DEF InRandom
    <3>3. k + 1 \in Nat /\ <<k + 1>>[1] = k + 1
      BY <1>2
    <3>4. x[1] = k + 1
      <4>1. CASE x = <<k + 1>>
        BY <3>3, <4>1
      <4>2. ASSUME NEW y \in Seq(Nat), x = InElement(k + 1, y)
            PROVE  x[1] = k + 1
        BY <3>3, <4>2, TwoSteps
      <4> QED
        BY <3>2, <4>1, <4>2
    <3>5. k + 1 \in S(n) /\ k + 1 # 0
      BY <1>2, <1>3
    <3> QED
      BY <2>2, <3>4, <3>5
  <2> DEFINE last == tree(n)
             under == base(n)
             other == Clear(last, s)
             T == S(n)
  <2>3. IsGrafted(sent, last, under, p, e, T, At(sent, e))
    BY <2>1
  <2>4. /\ \A q \in Seq(Nat) : ~IsPrefix(s, q) => At(under, q) = At(before, q)
        /\ \A x \in Seq(Nat) : x # << >> /\ x[1] # 0 => At(under, p \o x) = 0
    <3>1. n \in 0..n
      OBVIOUS
    <3> QED
      BY <1>18, <3>1
  <2>5. \A x \in Seq(Nat) : x # << >> /\ (x[1] = 0 \/ x[1] \notin T) => At(sent, e \o x) = 0
    BY <2>2
  <2> HIDE DEF tree, S, last, under, T
  <2>6. IsObject(last) /\ IsObject(other)
    <3>1. IsObject(last)
      BY <2>3 DEF IsGrafted
    <3> HIDE DEF s
    <3> QED
      BY <1>16, <3>1, ObjectsMade
  <2>7. \A q \in Seq(Nat) : At(other, q) = IF IsPrefix(s, q) THEN 0 ELSE At(last, q)
    BY ValueCleared
  <2> HIDE DEF other
  <2>8. ASSUME NEW x \in Seq(Nat)
        PROVE  At(other, p \o x) = At(sent, e \o x)
    <3>1. p \o x \in Seq(Nat) /\ (IsPrefix(s, p \o x) <=> x # << >> /\ x[1] = 0)
      BY BelowChild
    <3>2. CASE x = << >>
      <4>1. p \o x = p /\ e \o x = e
        BY <3>2, ConcatSimplifications
      <4> HIDE DEF s
      <4> QED
        BY <2>3, <2>7, <3>1, <3>2, <4>1 DEF IsGrafted
    <3>3. CASE x # << >> /\ x[1] = 0
      <4> HIDE DEF s
      <4> QED
        BY <2>5, <2>7, <3>1, <3>3
    <3>4. CASE x # << >> /\ x[1] # 0
      <4> HIDE DEF s
      <4> QED
        BY <2>3, <2>4, <2>5, <2>7, <3>1, <3>4 DEF IsGrafted
    <3> QED
      BY <3>2, <3>3, <3>4
  <2>9. ASSUME NEW q \in Seq(Nat), ~IsPrefix(p, q)
        PROVE  At(other, q) = At(before, q)
    <3>1. ~IsPrefix(s, q)
      BY <2>9, Outside
    <3> HIDE DEF s
    <3> QED
      BY <2>3, <2>4, <2>7, <2>9, <3>1 DEF IsGrafted
  <2>10. other = after
    <3> HIDE DEF s, of, tasks, calls, d, stays, left, ends
    <3>1. IsObject(other) /\ p \in Seq(Nat) /\ IsPut(sent, after, before, p, e)
      BY <2>6
    <3> QED
      BY <3>1, <2>8, <2>9, PutUnique
  <2> QED
    BY <2>6, <2>10 DEF other, last
<1>8. calls \in [1..n -> Parts]
  <2>1. ASSUME NEW i \in 1..n
        PROVE  Part(of, ElementOf(e, keys[i] + 1)) \in Parts
    <3>1. keys[i] + 1 \in Nat
      BY <1>4
    <3>2. ElementOf(e, keys[i] + 1) \in Seq(Nat)
      BY <3>1, TwoSteps
    <3> QED
      BY <3>2, PartType
  <2> QED
    BY <2>1
<1>9. /\ SubSeq(calls, 1, n) \o rest = calls \o rest /\ SubSeq(calls, n + 1, n) \o rest = rest
      /\ \A j \in 1..n : /\ SubSeq(calls, j + 1, n) \o rest \in Seq(Parts)
                         /\ SubSeq(calls, j, n) \o rest
                              = <<calls[j]>> \o (SubSeq(calls, j + 1, n) \o rest)
  <2> HIDE DEF calls
  <2> QED
    BY <1>8, PartsLeft
<1>10. ASSUME NEW k \in 1..n
       PROVE  \E m : /\ Does(sent, tasks[2 * k - 1], ends[k - 1], m)
                     /\ Does(sent, tasks[2 * k], m, ends[k])
  <2>1. /\ k - 1 \in 0..n /\ k \in 0..n /\ (k - 1) + 1 = k /\ k \in Nat
        /\ 2 * k - 1 \in 1..(2 * n) /\ 2 * k \in 1..(2 * n)
        /\ (2 * k - 1) % 2 = 1 /\ (2 * k) % 2 # 1
    BY TwoAndTwo
  <2> DEFINE a == tree(k - 1)
             b == tree(k)
             r == left(k - 1)
             l == left(k)
             T == S(k - 1)
             key == keys[k]
             v == k - 1
             from == base(k - 1)
             next == base(k)
  <2>2. tasks[2 * k - 1] = Task("read", of, s) /\ tasks[2 * k] = Task("emplace", t, s)
    BY <2>1
  <2>3. IsGrafted(sent, a, from, p, e, T, k - 1) /\ IsGrafted(sent, b, next, p, e, S(k), k)
    BY <1>1, <2>1
  <2>13. /\ IsObject(from) /\ IsShaped(from, t.of[1], p \o <<0>>)
         /\ \A x \in Seq(Nat) : x # << >> /\ x[1] # 0 => At(from, p \o x) = 0
         /\ \A q \in Seq(Nat) : ~IsPrefix(s, q) => At(from, q) = At(before, q)
    BY <1>18, <2>1
  <2>14. IsLeft(sent, next, from, p \o <<0>>, ElementOf(e, key + 1), MovedFrom[t.of[1]])
    <3>1. IsLeft(sent, next, before, s, d(k), stays)
      BY <1>17, <2>1
    <3> DEFINE c == d(k)
    <3> HIDE DEF next, from, stays, s, c
    <3>2. IsLeft(sent, next, from, s, c, stays)
      BY <2>13, <3>1 DEF IsLeft, c
    <3> QED
      BY <3>2 DEF s, c, stays
  <2>4. ends[k - 1] = Config(a, r) /\ ends[k] = Config(b, l)
    BY <2>1
  <2>5. S(k) = T \union {key + 1}
    <3>1. 1..k = 1..(k - 1) \union {k}
      BY TwoAndTwo
    <3> QED
      BY <3>1
  <2>6. key + 1 \notin T /\ 0 \notin T
    <3>1. ASSUME NEW i \in 1..(k - 1)
          PROVE  keys[i] + 1 # key + 1 /\ keys[i] + 1 # 0
      <4>1. i \in 1..n /\ i # k
        <5>1. n <= n
          OBVIOUS
        <5> QED
          BY <5>1, BeforeIt
      <4>2. keys[i] \in Nat /\ keys[k] \in Nat /\ keys[i] # keys[k]
        BY <1>3, <1>4, <4>1
      <4> QED
        BY <4>2
    <3> QED
      BY <3>1
  <2>7. key \in Keys(sent, e)
    BY <1>3
  <2>8. v \in Nat /\ v < Allocatable /\ k = v + 1
    <3>1. Allocatable \in Nat
      BY SizeAssumption
    <3> QED
      BY <1>2, <3>1, BeforeIt
  <2>9. r = <<calls[k]>> \o l /\ l \in Seq(Parts)
    <3> HIDE DEF calls
    <3> QED
      BY <1>9, <2>1
  <2>10. calls[k] = Part(of, ElementOf(e, key + 1))
    OBVIOUS
  <2>11. IsGrafted(sent, b, next, p, e, T \union {key + 1}, v + 1)
         /\ IsGrafted(sent, a, from, p, e, T, v)
    <3> HIDE DEF a, b, S, T, key, from, next
    <3> QED
      BY <2>3, <2>5, <2>8
  <2> HIDE DEF a, b, r, l, T, key, v, from, next, tree, ends, calls, tasks, left, S
  <2>12. \E m : /\ Does(sent, Task("read", t.of[1], p \o <<0>>),
                        Config(a, <<Part(t.of[1], ElementOf(e, key + 1))>> \o l), m)
                /\ Does(sent, Task("emplace", t, p \o <<0>>), m, Config(b, l))
    BY <2>6, <2>7, <2>8, <2>9, <2>11, <2>13, <2>14, EmplaceStep
  <2> QED
    BY <2>2, <2>4, <2>9, <2>10, <2>12
<1>11. Len(tasks) = 2 * n /\ 0 \in 0..n /\ n \in 0..n
  OBVIOUS
<1>12. ends[0] = Config(before, calls \o rest) /\ ends[n] = Config(tree(n), rest)
  <2>1. 0 + 1 = 1
    OBVIOUS
  <2> HIDE DEF tree, calls, tasks
  <2> QED
    BY <1>6, <1>9, <1>11, <2>1
<1>19. Does(sent, LeaveTask(t, p), ends[n], Config(after, rest))
  <2> DEFINE last == tree(n)
  <2>1. ends[n] = Config(last, rest) /\ after = Clear(last, s)
    BY <1>7, <1>12
  <2> HIDE DEF last, ends
  <2> QED
    BY <2>1 DEF Does, LeaveTask, Task, Config
<1> HIDE DEF ends, calls, tasks
<1>13. Leads(sent, tasks, ends[0], ends[n])
  BY <1>10, <1>11, LeadsPairs
<1>14. KeyParts(t, n, e, keys) = calls
  BY DEF KeyParts, calls
<1>15. EmplaceReads(t, n, p) = tasks
  BY DEF EmplaceReads, tasks
<1> QED
  BY <1>12, <1>13, <1>14, <1>15, <1>19

\* What there is to do is just that.
LEMMA ReadsOfItemMeaning ==
  ASSUME NEW n \in Nat, Of = Type.of[1]
  PROVE  ReadsOfItem(n) = EmplaceReads(Type, n, Path) \o <<LeaveTask(Type, Path)>>
<1> DEFINE a == EmplaceReads(Type, n, Path)
           z == LeaveTask(Type, Path)
<1>1. Len(a) = 2 * n /\ a \in Seq({a[j] : j \in 1..(2 * n)})
  <2>1. 2 * n \in Nat /\ DOMAIN a = 1..(2 * n)
    BY DEF EmplaceReads
  <2>2. a \in [1..(2 * n) -> {a[j] : j \in 1..(2 * n)}]
    BY <2>1 DEF EmplaceReads
  <2> HIDE DEF a
  <2> QED
    BY <2>1, <2>2, FunctionIsSeq
<1>2. \A j \in 1..(2 * n + 1) : ReadsOfItem(n)[j] = IF j <= 2 * n THEN a[j] ELSE z
  BY DEF ReadsOfItem, EmplaceReads, LeaveTask
<1>3. ReadsOfItem(n) = [j \in 1..(2 * n + 1) |-> ReadsOfItem(n)[j]]
  BY DEF ReadsOfItem
<1> HIDE DEF a, z
<1>4. a \o <<z>> = [j \in 1..(2 * n + 1) |-> IF j <= 2 * n THEN a[j] ELSE z]
  <2>1. Len(<<z>>) = 1 /\ <<z>>[1] = z
    OBVIOUS
  <2>2. a \o <<z>> = [j \in 1..(Len(a) + Len(<<z>>)) |->
                        IF j <= Len(a) THEN a[j] ELSE <<z>>[j - Len(a)]]
    BY <1>1
  <2>3. \A j \in 1..(2 * n + 1) : ~(j <= 2 * n) => j - 2 * n = 1
    OBVIOUS
  <2> QED
    BY <1>1, <2>1, <2>2, <2>3
<1> QED
  BY <1>2, <1>3, <1>4 DEF a, z

LEMMA RandomServes ==
  ASSUME NEW sent, NEW e, NEW bytes, NEW calls, Reading(sent, e, bytes, calls),
         Type.kind = "random", DecodeRandomExtensible
  PROVE  Serves(sent, e, bytes, calls)
<1> DEFINE p == Path
           t == Type
           n == At(sent, e)
           before == target
           tree == Clear(before, p)
           reads == EmplaceReads(t, n, p)
           leave == LeaveTask(t, p)
           tasks == ReadsOfItem(n)
<1>1. /\ t \in Types /\ p \in Seq(Nat) /\ e \in Seq(Nat) /\ n \in Nat
      /\ IsObject(before) /\ IsObject(sent) /\ IsTyped(sent, t, e)
      /\ Encodes(sent, Part(t, e), bytes, calls) /\ HasValue(sent, Part(t, e))
      /\ Part(t, e).type = t /\ Part(t, e).path = e
      /\ t.kind = "random" /\ DecoderTypeOK
  BY ReadingType DEF Reading, IInv
<1>2. Of \in Types /\ Of = t.of[1]
  BY <1>1, TypesAssumption DEF Of, Wrappers
<1>3. IsNative(n, SizeBytes) /\ n \in 0..Allocatable /\ n \in 0..MaxSize
  BY <1>1, SizeAssumption DEF HasValue
<1>4. PICK keys \in Iterations(Keys(sent, e), n) :
         /\ bytes = EncodeCompactOfNative(n).bytes
         /\ calls = KeyParts(t, n, e, keys)
  <2>1. PICK keys \in Iterations(Keys(sent, e), n) :
         /\ bytes = EncodeCompactOfNative(n).bytes
         /\ calls = [i \in 1..n |-> Part(t.of[1], e \o <<keys[i] + 1, 1>>)]
    BY <1>1 DEF Encodes
  <2>2. calls = KeyParts(t, n, e, keys)
    BY <2>1 DEF KeyParts, ElementOf
  <2> QED
    BY <2>1, <2>2
<1>5. /\ IsObject(tree)
      /\ \A x \in Seq(Nat) : At(tree, p \o x) = 0
      /\ \A q \in Seq(Nat) : ~IsPrefix(p, q) => At(tree, q) = At(before, q)
  <2>1. IsObject(tree)
    BY <1>1, ObjectsMade
  <2> QED
    BY <1>1, <2>1, ValueCleared, PrefixOfConcat
<1>6. tasks \in Seq(Tasks) /\ reads \in Seq(Tasks) /\ leave \in Tasks /\ tasks = reads \o <<leave>>
  <2>1. p \o <<0>> \in Seq(Nat)
    BY <1>1, ChildPath
  <2>2. /\ Task("read", Of, p \o <<0>>) \in Tasks /\ Task("emplace", t, p \o <<0>>) \in Tasks
        /\ leave \in Tasks
    BY <1>1, <1>2, <2>1, TaskType DEF LeaveTask
  <2>3. reads \in [1..(2 * n) -> Tasks] /\ 2 * n \in Nat
    BY <1>1, <1>2, <2>2 DEF EmplaceReads
  <2> HIDE DEF reads, leave, n
  <2>4. reads \in Seq(Tasks)
    BY <2>3, FunctionIsSeq
  <2>5. tasks = reads \o <<leave>>
    BY <1>1, <1>2, ReadsOfItemMeaning DEF reads, leave
  <2>6. <<leave>> \in Seq(Tasks)
    BY <2>2
  <2> QED
    BY <2>2, <2>4, <2>5, <2>6
<1>7. ASSUME NEW rest \in Seq(Parts), NEW after, IsPut(sent, after, before, p, e)
      PROVE  Leads(sent, tasks, Config(tree, calls \o rest), Config(after, rest))
  <2> HIDE DEF tree, p, t, before, n, tasks
  <2>2. IsPut(sent, after, tree, p, e)
    BY <1>5, <1>7, PutElsewhere
  <2>3. n = At(sent, e)
    BY DEF n
  <2>4. \E m : /\ Leads(sent, EmplaceReads(t, n, p),
                         Config(tree, KeyParts(t, n, e, keys) \o rest), m)
               /\ Does(sent, LeaveTask(t, p), m, Config(after, rest))
    BY <1>1, <1>2, <1>4, <1>5, <2>2, <2>3, EmplaceLead
  <2>5. PICK m : /\ Leads(sent, reads, Config(tree, calls \o rest), m)
                 /\ Does(sent, leave, m, Config(after, rest))
    BY <1>4, <2>4
  <2> HIDE DEF reads, leave
  <2>6. Leads(sent, <<leave>>, m, Config(after, rest)) /\ <<leave>> \in Seq(Tasks)
    BY <1>6, <2>5, LeadsOnce
  <2>7. Leads(sent, reads \o <<leave>>, Config(tree, calls \o rest), Config(after, rest))
    BY <1>6, <2>5, <2>6, LeadsOn
  <2> QED
    BY <1>6, <2>7
<1>8. /\ HasAt(span, current_index, bytes) => Count = ReadResult("none", Len(bytes), n)
      /\ CutAt(span, current_index, bytes) => Count.error = "NOT_ENOUGH_DATA"
  <2> HIDE DEF n
  <2> QED
    BY <1>1, <1>3, <1>4, CountServes
<1>9. ASSUME HasAt(span, current_index, bytes)
      PROVE  Succeeds(sent, e, bytes, calls)
  <2>1. Count.error = "none" /\ Count.used = Len(bytes) /\ Count.value = n
    BY <1>8, <1>9 DEF ReadResult
  <2>2. Take(Len(bytes), tree, tasks)
    <3> HIDE DEF n
    <3> QED
      BY <1>3, <2>1 DEF DecodeRandomExtensible
  <2> HIDE DEF tasks, tree
  <2> QED
    BY <1>6, <1>7, <2>2 DEF Succeeds
<1>10. CutAt(span, current_index, bytes) => EndsEarly
  BY <1>8 DEF DecodeRandomExtensible, EndsEarly
<1> QED
  BY <1>9, <1>10 DEF Serves

-----------------------------------------------------------------------------
(* Every operator.                                                         *)

LEMMA ReadServes ==
  ASSUME NEW sent, NEW e, NEW bytes, NEW calls, Reading(sent, e, bytes, calls),
         Operator, Head(pending).do = "read"
  PROVE  Serves(sent, e, bytes, calls)
<1>1. ReadsOf(Type.kind)
  BY OperatorServes
<1>2. CASE Type.kind = "bool" /\ DecodeBool
  BY <1>2, BoolServes
<1>3. CASE \/ Type.kind = "int" /\ DecodeInteger
           \/ Type.kind = "big" /\ DecodeBigFixedWidthInteger
           \/ Type.kind = "enum" /\ DecodeEnum
  BY <1>3, FixedServes
<1>4. CASE \/ Type.kind = "compact" /\ DecodeCompact
           \/ Type.kind = "bigcompact" /\ DecodeBigCompact
  BY <1>4, CompactServes
<1>5. CASE Type.kind = "as_compact" /\ DecodeCompactReflection
  BY <1>5, ReflectionServes
<1>6. CASE Type.kind = "optbool" /\ DecodeOptionalBool
  BY <1>6, OptionalBoolServes
<1>7. CASE \/ Type.kind = "optional" /\ DecodeOptional
           \/ Type.kind = "pointer" /\ DecodePointer
  BY <1>7, OptionalServes
<1>8. CASE \/ Type.kind = "product" /\ DecodeProduct
           \/ Type.kind = "array" /\ DecodeStaticCollection
  BY <1>8, ElementsServe
<1>9. CASE \/ Type.kind = "variant" /\ DecodeVariant
           \/ Type.kind = "boostvariant" /\ DecodeBoostVariant
  <2>1. Type.kind \in Alternatives /\ DecodeAlternative
    BY <1>9 DEF DecodeVariant, DecodeBoostVariant, Alternatives
  <2> QED
    BY <2>1, VariantServes
<1>10. CASE Type.kind = "resizeable" /\ DecodeResizeable
  BY <1>10, ResizeableServes
<1>11. CASE Type.kind = "extensible" /\ DecodeExtensible
  BY <1>11, ExtensibleServes
<1>12. CASE Type.kind = "random" /\ DecodeRandomExtensible
  BY <1>12, RandomServes
<1>13. CASE Type.kind = "bitvec" /\ DecodeBitVec
  BY <1>13, BitVecServes
<1> QED
  BY <1>1, <1>2, <1>3, <1>4, <1>5, <1>6, <1>7, <1>8, <1>9, <1>10, <1>11, <1>12, <1>13
     DEF ReadsOf

\* The other tasks are done as they are meant to be.
LEMMA FinishServes ==
  ASSUME IInv, Operator, Head(pending).do # "read", NEW sent, NEW rest, NEW m,
         Does(sent, Head(pending), Config(target, rest), m)
  PROVE  Take(0, m.tree, << >>) /\ m.rest = rest
<1> DEFINE a == Config(target, rest)
<1>1. Finishes(Head(pending).do)
  BY OperatorServes
<1>2. a.tree = target /\ a.rest = rest
  BY DEF Config
<1> HIDE DEF a
<1>3. Does(sent, Head(pending), a, m)
  BY DEF a
<1>4. CASE Head(pending).do = "assign_ref" /\ AssignReference
  <2>1. m.rest = rest /\ m.tree = Assign(Clear(target, Path), Front(Path), At(target, Path))
    BY <1>2, <1>3, <1>4 DEF Does, Path
  <2>2. Take(0, Assign(Clear(target, Path), Front(Path), At(target, Path)), << >>)
    BY <1>4 DEF AssignReference
  <2> QED
    BY <2>1, <2>2
<1>5. CASE Head(pending).do = "assign" /\ AssignVariant
  <2>1. /\ m.rest = rest
        /\ m.tree = WithAlternative(target, Front(Path), Path, Last(Path) - 1)
    BY <1>2, <1>3, <1>5 DEF Does, Path
  <2>2. Take(0, WithAlternative(target, Front(Path), Path, Last(Path) - 1), << >>)
    BY <1>5, Zenon DEF AssignVariant, WithAlternative
  <2> QED
    BY <2>1, <2>2
<1>6. CASE Head(pending).do = "emplace_back" /\ EmplaceBack
  <2>1. m.rest = rest /\ m.tree = Assign(target, Front(Path), Last(Path))
    BY <1>2, <1>3, <1>6 DEF Does, Path
  <2>2. Take(0, Assign(target, Front(Path), Last(Path)), << >>)
    BY <1>6 DEF EmplaceBack
  <2> QED
    BY <2>1, <2>2
<1>7. CASE Head(pending).do = "emplace" /\ Emplace
  <2> DEFINE key == At(target, KeyPath(Type, Path))
             size == At(target, Front(Path))
  <2>1. /\ m.rest = rest
        /\ size < Allocatable /\ key \notin Keys(target, Front(Path))
        /\ m.tree = WithElement(target, Front(Path), Path, key, size + 1, MovedFrom[Of])
    BY <1>2, <1>3, <1>7 DEF Does, Path, Type, Of
  <2>2. ~(size >= Allocatable)
    <3>1. size \in Nat /\ Allocatable \in Nat
      BY ContentType, SizeAssumption DEF IInv
    <3> HIDE DEF size
    <3> QED
      BY <2>1, <3>1
  <2>3. Take(0, WithElement(target, Front(Path), Path, key, size + 1, MovedFrom[Of]), << >>)
    BY <1>7, <2>1, <2>2, Zenon DEF Emplace, WithElement
  <2> QED
    BY <2>1, <2>3
<1>8. CASE Head(pending).do = "leave" /\ LeaveRandomExtensible
  <2>1. m.rest = rest /\ m.tree = Clear(target, Path)
    BY <1>2, <1>3, <1>8 DEF Does, Path
  <2>2. Take(0, Clear(target, Path), << >>)
    BY <1>8 DEF LeaveRandomExtensible
  <2> QED
    BY <2>1, <2>2
<1> QED
  BY <1>1, <1>4, <1>5, <1>6, <1>7, <1>8 DEF Finishes

\* Only the tree and what is to be read count.
LEMMA LeadsSame ==
  ASSUME NEW sent, NEW tasks \in Seq(Tasks), NEW a, NEW tree, NEW rest,
         Leads(sent, tasks, a, Config(tree, rest))
  PROVE  Leads(sent, tasks, Config(a.tree, a.rest), Config(tree, rest))
<1> DEFINE b == Config(tree, rest)
           c == Config(a.tree, a.rest)
<1>1. CASE tasks = << >>
  <2>1. a = b
    BY <1>1, LeadsNowhere
  <2>2. c = b
    BY <2>1 DEF Config
  <2> QED
    BY <1>1, <2>2, LeadsNowhere
<1>2. CASE tasks # << >>
  <2>1. PICK chain : /\ chain[0] = a /\ chain[Len(tasks)] = b
                     /\ \A j \in 1..Len(tasks) : Does(sent, tasks[j], chain[j - 1], chain[j])
    BY DEF Leads
  <2>2. Len(tasks) \in Nat \ {0}
    BY <1>2
  <2> DEFINE other == [j \in 0..Len(tasks) |-> IF j = 0 THEN c ELSE chain[j]]
  <2>3. c.tree = a.tree /\ c.rest = a.rest
    BY DEF Config
  <2>4. other[0] = c /\ other[Len(tasks)] = b
    <3> HIDE DEF b, c
    <3> QED
      BY <2>1, <2>2
  <2>5. ASSUME NEW j \in 1..Len(tasks)
        PROVE  Does(sent, tasks[j], other[j - 1], other[j])
    <3>1. j - 1 \in 0..Len(tasks) /\ j \in 0..Len(tasks) /\ j # 0
      BY <2>2
    <3>2. other[j] = chain[j]
      BY <3>1
    <3>3. /\ other[j - 1].tree = chain[j - 1].tree
          /\ other[j - 1].rest = chain[j - 1].rest
      <4> HIDE DEF c
      <4> QED
        BY <2>1, <2>3, <3>1
    <3>4. Does(sent, tasks[j], chain[j - 1], chain[j])
      BY <2>1
    <3> DEFINE x == chain[j - 1]
               y == other[j - 1]
               z == chain[j]
               task == tasks[j]
    <3>5. Does(sent, task, x, z) /\ y.tree = x.tree /\ y.rest = x.rest
      BY <3>3, <3>4
    <3> HIDE DEF x, y, z, task, other
    <3>6. Does(sent, task, y, z)
      BY <3>5 DEF Does
    <3> QED
      BY <3>2, <3>6 DEF x, y, z, task
  <2> HIDE DEF other, b, c
  <2>6. Leads(sent, tasks, c, b)
    BY <2>4, <2>5 DEF Leads
  <2> QED
    BY <2>6 DEF b, c
<1> QED
  BY <1>1, <1>2

-----------------------------------------------------------------------------
(* The trace of the encoder.                                               *)

\* The operator at the head of a stack puts the bytes that are at i, and the
\* operators that it calls take its place.
TraceStep(sent, bytes, stack, i, next, j) ==
  /\ stack # << >>
  /\ \E put, calls : /\ Encodes(sent, Head(stack), put, calls)
                     /\ HasAt(bytes, i, put)
                     /\ next = calls \o Tail(stack)
                     /\ j = i + Len(put)

\* The stacks from that of the call to the one that is left, each with how many
\* bytes have been put before.
Traced(sent, t, bytes, left, n, stacks, at) ==
  /\ stacks[0] = <<Part(t, << >>)>> /\ at[0] = 0
  /\ stacks[n] = left /\ at[n] = Len(bytes)
  /\ \A k \in 0..n : stacks[k] \in Seq(Parts) /\ at[k] \in 0..Len(bytes)
  /\ \A k \in 0..(n - 1) : TraceStep(sent, bytes, stacks[k], at[k], stacks[k + 1], at[k + 1])

HasTrace(sent, t, bytes, left) ==
  \E n \in Nat : \E stacks, at : Traced(sent, t, bytes, left, n, stacks, at)

LEMMA TraceBegins ==
  ASSUME NEW sent, NEW t \in Types
  PROVE  HasTrace(sent, t, << >>, <<Part(t, << >>)>>)
<1> DEFINE call == <<Part(t, << >>)>>
           stacks == [k \in 0..0 |-> call]
           at == [k \in 0..0 |-> 0]
<1>1. call \in Seq(Parts)
  <2>1. Part(t, << >>) \in Parts
    BY NoTasks, PartType
  <2> QED
    BY <2>1
<1>2. stacks[0] = call /\ at[0] = 0 /\ Len(<< >>) = 0
  OBVIOUS
<1> DEFINE none == << >>
<1>3. Len(none) = 0 /\ 0..0 = {0} /\ 0..(0 - 1) = {} /\ 0 \in Nat
  OBVIOUS
<1> HIDE DEF stacks, at, none, call
<1>4. /\ \A k \in 0..0 : stacks[k] \in Seq(Parts) /\ at[k] \in 0..Len(none)
      /\ \A k \in 0..(0 - 1) :
           TraceStep(sent, none, stacks[k], at[k], stacks[k + 1], at[k + 1])
  BY <1>1, <1>2, <1>3
<1>5. Traced(sent, t, none, call, 0, stacks, at)
  BY <1>2, <1>3, <1>4 DEF Traced, call
<1> QED
  BY <1>3, <1>5 DEF HasTrace, none, call

\* What has been put stays where it is.
LEMMA StaysPut ==
  ASSUME NEW bytes \in Seq(Byte), NEW more \in Seq(Byte), NEW i \in Nat, NEW put,
         Len(put) \in Nat
  PROVE  /\ Len(bytes \o more) = Len(bytes) + Len(more)
         /\ HasAt(bytes, i, put) => HasAt(bytes \o more, i, put)
         /\ HasAt(bytes \o more, Len(bytes), more)
<1>1. /\ Len(bytes \o more) = Len(bytes) + Len(more)
      /\ \A j \in 1..Len(bytes) : (bytes \o more)[j] = bytes[j]
      /\ \A j \in 1..Len(more) : (bytes \o more)[Len(bytes) + j] = more[j]
  OBVIOUS
<1> DEFINE all == bytes \o more
<1> HIDE DEF all
<1>2. HasAt(bytes, i, put) => HasAt(all, i, put)
  <2> SUFFICES ASSUME HasAt(bytes, i, put)
               PROVE  HasAt(all, i, put)
    OBVIOUS
  <2> DEFINE l == Len(bytes)
             m == Len(more)
             n == Len(put)
  <2>1. /\ l \in Nat /\ m \in Nat /\ n \in Nat
        /\ i + n <= l /\ \A j \in 1..n : bytes[i + j] = put[j]
        /\ Len(all) = l + m /\ \A j \in 1..l : all[j] = bytes[j]
    BY <1>1 DEF HasAt, all
  <2> HIDE DEF l, m, n
  <2>2. \A j \in 1..n : all[i + j] = put[j]
    BY <2>1
  <2> QED
    BY <2>1, <2>2 DEF HasAt, n
<1>3. HasAt(all, Len(bytes), more)
  <2>1. Len(bytes) \in Nat /\ Len(more) \in Nat
    OBVIOUS
  <2> QED
    BY <1>1, <2>1 DEF HasAt, all
<1> QED
  BY <1>1, <1>2, <1>3 DEF all

LEMMA TraceGrows ==
  ASSUME NEW sent, IsObject(sent), NEW t \in Types, NEW bytes \in Seq(Byte),
         NEW left \in Seq(Parts), left # << >>, HasTrace(sent, t, bytes, left),
         NEW put, NEW calls, Encodes(sent, Head(left), put, calls)
  PROVE  HasTrace(sent, t, bytes \o put, calls \o Tail(left))
<1>1. PICK n \in Nat : \E stacks, at : Traced(sent, t, bytes, left, n, stacks, at)
  BY DEF HasTrace
<1>2. PICK stacks, at : Traced(sent, t, bytes, left, n, stacks, at)
  BY <1>1
<1>3. /\ put \in Seq(Byte) /\ calls \in Seq(Parts) /\ Tail(left) \in Seq(Parts)
      /\ Len(put) \in Nat /\ Len(bytes) \in Nat
  <2>1. Head(left) \in Parts /\ Tail(left) \in Seq(Parts)
    BY HeadTailType
  <2> QED
    BY <2>1, EncodesType
<1> DEFINE all == bytes \o put
           next == calls \o Tail(left)
           m == n + 1
           stacks2 == [k \in 0..m |-> IF k = m THEN next ELSE stacks[k]]
           at2 == [k \in 0..m |-> IF k = m THEN Len(all) ELSE at[k]]
<1>4. next \in Seq(Parts) /\ Len(all) = Len(bytes) + Len(put)
  BY <1>3
<1>5. /\ \A k \in 0..n : stacks2[k] = stacks[k] /\ at2[k] = at[k]
      /\ stacks2[m] = next /\ at2[m] = Len(all)
  <2> HIDE DEF all, next
  <2> QED
    OBVIOUS
<1> HIDE DEF stacks2, at2, all, next
<1>6. ASSUME NEW k \in 0..m
      PROVE  stacks2[k] \in Seq(Parts) /\ at2[k] \in 0..Len(all)
  <2>1. CASE k = m
    BY <1>3, <1>4, <1>5, <2>1
  <2>2. CASE k # m
    <3>1. k \in 0..n
      BY <2>2
    <3>2. stacks[k] \in Seq(Parts) /\ at[k] \in 0..Len(bytes)
      BY <1>2, <3>1 DEF Traced
    <3> QED
      BY <1>3, <1>4, <1>5, <3>1, <3>2
  <2> QED
    BY <2>1, <2>2
<1>7. ASSUME NEW k \in 0..n
      PROVE  TraceStep(sent, all, stacks2[k], at2[k], stacks2[k + 1], at2[k + 1])
  <2>1. CASE k = n
    <3>1. stacks2[k] = left /\ at2[k] = Len(bytes) /\ stacks2[k + 1] = next
          /\ at2[k + 1] = Len(bytes) + Len(put)
      BY <1>2, <1>4, <1>5, <2>1 DEF Traced
    <3>2. HasAt(all, Len(bytes), put)
      BY <1>3, StaysPut DEF all
    <3> QED
      BY <3>1, <3>2 DEF TraceStep, next
  <2>2. CASE k # n
    <3>1. k \in 0..(n - 1) /\ k + 1 \in 0..n
      BY <2>2
    <3>2. /\ TraceStep(sent, bytes, stacks[k], at[k], stacks[k + 1], at[k + 1])
          /\ stacks[k] \in Seq(Parts) /\ at[k] \in Nat
      BY <1>2, <1>3, <3>1 DEF Traced
    <3>3. PICK p, c : /\ Encodes(sent, Head(stacks[k]), p, c) /\ HasAt(bytes, at[k], p)
                      /\ stacks[k + 1] = c \o Tail(stacks[k]) /\ at[k + 1] = at[k] + Len(p)
      BY <3>2 DEF TraceStep
    <3>4. Len(p) \in Nat
      <4>1. stacks[k] # << >>
        BY <3>2 DEF TraceStep
      <4>2. Head(stacks[k]) \in Parts
        BY <3>2, <4>1, HeadTailType
      <4>3. p \in Seq(Byte)
        BY <3>3, <4>2, EncodesType
      <4> QED
        BY <4>3
    <3>5. HasAt(all, at[k], p)
      BY <1>3, <3>2, <3>3, <3>4, StaysPut DEF all
    <3>6. TraceStep(sent, all, stacks[k], at[k], stacks[k + 1], at[k + 1])
      BY <3>2, <3>3, <3>5 DEF TraceStep
    <3> QED
      BY <1>5, <3>1, <3>6
  <2> QED
    BY <2>1, <2>2
<1>8. m \in Nat /\ m - 1 = n /\ 0 \in 0..n
  OBVIOUS
<1>9. stacks2[0] = <<Part(t, << >>)>> /\ at2[0] = 0
  BY <1>2, <1>5, <1>8 DEF Traced
<1> HIDE DEF m
<1>10. Traced(sent, t, all, next, m, stacks2, at2)
  BY <1>5, <1>6, <1>7, <1>8, <1>9 DEF Traced
<1> QED
  BY <1>8, <1>10 DEF HasTrace, all, next

-----------------------------------------------------------------------------
(* The decoder is at a point of the trace.                                 *)

\* So far as both go, the span is the stream that was put.
Agree(a, b) == \A j \in 1..Len(a) : j <= Len(b) => a[j] = b[j]

\* What has been put up to stack i has been taken, and what there is to do
\* makes the object out of what is left to be read.
OnTrack(stacks, at, i) ==
  /\ outcome = "none" /\ current_index = at[i]
  /\ Leads(object, pending, Config(target, stacks[i]), Config(object, << >>))

CutOff == pending = << >> /\ outcome = "NOT_ENOUGH_DATA" /\ Len(span) < Len(stream)

LEMMA DecodeKeepsTrack ==
  ASSUME IInv, IsObject(object), stream \in Seq(Byte), Agree(span, stream), Operator,
         object' = object, stream' = stream,
         NEW n \in Nat, NEW stacks, NEW at, Traced(object, type, stream, << >>, n, stacks, at),
         NEW i \in 0..n, OnTrack(stacks, at, i)
  PROVE  /\ span' = span /\ type' = type
         /\ CutOff' \/ \E j \in 0..n : OnTrack(stacks, at, j)'
<1> DEFINE a == Config(target, stacks[i])
           b == Config(object, << >>)
<1>1. /\ pending # << >> /\ pending \in Seq(Tasks) /\ Tail(pending) \in Seq(Tasks)
      /\ span \in Seq(Byte) /\ Len(span) \in Nat /\ current_index \in 0..Len(span)
  <2>1. pending # << >>
    BY OperatorServes
  <2>2. pending \in Seq(Tasks) /\ span \in ByteStrings /\ current_index \in 0..Len(span)
    BY DEF IInv, DecoderTypeOK
  <2>3. Tail(pending) \in Seq(Tasks)
    BY <2>1, <2>2, HeadTailType
  <2> QED
    BY <2>1, <2>2, <2>3, ByteStringType
<1>2. PICK m : Does(object, Head(pending), a, m) /\ Leads(object, Tail(pending), m, b)
  BY <1>1, LeadsFirst DEF OnTrack
<1>3. Leads(object, Tail(pending), Config(m.tree, m.rest), b)
  BY <1>1, <1>2, LeadsSame
<1>4. a.tree = target /\ a.rest = stacks[i]
  BY DEF Config
<1> HIDE DEF a, b
<1>5. CASE Head(pending).do # "read"
  <2>1. Take(0, m.tree, << >>) /\ m.rest = stacks[i]
    BY <1>2, <1>5, FinishServes DEF a
  <2>2. /\ current_index' = current_index /\ target' = m.tree
        /\ pending' = Tail(pending) /\ span' = span /\ type' = type /\ outcome' = outcome
    <3>1. << >> \o Tail(pending) = Tail(pending) /\ current_index + 0 = current_index
      BY <1>1, ConcatSimplifications
    <3> QED
      BY <2>1, <3>1 DEF Take
  <2>3. OnTrack(stacks, at, i)'
    BY <1>3, <2>1, <2>2 DEF OnTrack, b
  <2> QED
    BY <2>2, <2>3
<1>6. CASE Head(pending).do = "read"
  <2>1. PICK e \in Seq(Nat) :
          /\ stacks[i] = <<Part(Type, e)>> \o m.rest
          /\ m.rest \in Seq(Parts)
          /\ IsTyped(object, Type, e) /\ IsShaped(target, Type, Path)
          /\ IsPut(object, m.tree, target, Path, e)
    BY <1>2, <1>4, <1>6 DEF Does, Type, Path
  <2>2. stacks[i] # << >> /\ Head(stacks[i]) = Part(Type, e) /\ Tail(stacks[i]) = m.rest
    <3>1. Part(Type, e) \in Parts
      BY <2>1, TypedParts
    <3> DEFINE part == Part(Type, e)
               rest == m.rest
    <3> HIDE DEF part, rest
    <3>2. part \in Parts /\ rest \in Seq(Parts) /\ stacks[i] = <<part>> \o rest
      BY <2>1, <3>1 DEF part, rest
    <3>3. <<part>> \o rest # << >> /\ Head(<<part>> \o rest) = part
          /\ Tail(<<part>> \o rest) = rest
      BY <3>2
    <3> QED
      BY <3>2, <3>3 DEF part, rest
  <2>3. i \in 0..(n - 1) /\ i + 1 \in 0..n
    <3>1. stacks[n] = << >>
      BY DEF Traced
    <3>2. i # n
      BY <2>2, <3>1
    <3> QED
      BY <3>2
  <2>4. PICK put, calls :
          /\ Encodes(object, Part(Type, e), put, calls)
          /\ HasAt(stream, at[i], put)
          /\ stacks[i + 1] = calls \o m.rest
          /\ at[i + 1] = at[i] + Len(put)
    BY <2>2, <2>3 DEF Traced, TraceStep
  <2>5. Reading(object, e, put, calls)
    BY <1>1, <2>1, <2>4 DEF Reading
  <2>6. Serves(object, e, put, calls)
    BY <1>6, <2>5, ReadServes
  <2>7. /\ put \in Seq(Byte) /\ Len(put) \in Nat /\ calls \in Seq(Parts)
    BY <2>5, ReadingType
  <2>8. current_index = at[i]
    BY DEF OnTrack
  <2>9. HasAt(span, current_index, put) \/ CutAt(span, current_index, put)
    <3> DEFINE l == Len(put)
               c == current_index
               k == Len(span)
    <3>1. /\ l \in Nat /\ c \in Nat /\ k \in Nat /\ c <= k
          /\ c + l <= Len(stream) /\ Len(stream) \in Nat
          /\ \A j \in 1..l : stream[c + j] = put[j]
          /\ \A j \in 1..k : j <= Len(stream) => span[j] = stream[j]
      <4>1. HasAt(stream, c, put)
        BY <2>4, <2>8
      <4>2. c + l <= Len(stream) /\ \A j \in 1..l : stream[c + j] = put[j]
        BY <4>1 DEF HasAt
      <4>3. \A j \in 1..k : j <= Len(stream) => span[j] = stream[j]
        BY DEF Agree
      <4>4. l \in Nat /\ c \in Nat /\ k \in Nat /\ c <= k /\ Len(stream) \in Nat
        BY <1>1, <2>7
      <4> QED
        BY <4>2, <4>3, <4>4
    <3> HIDE DEF l, c, k
    <3>2. CASE c + l <= k
      <4>1. \A j \in 1..l : span[c + j] = put[j]
        BY <3>1, <3>2
      <4> QED
        BY <3>2, <4>1 DEF HasAt, l, c, k
    <3>3. CASE k < c + l
      <4>1. \A j \in 1..(k - c) : span[c + j] = put[j]
        BY <3>1, <3>3
      <4> QED
        BY <3>3, <4>1 DEF CutAt, l, c, k
    <3> QED
      BY <3>1, <3>2, <3>3
  <2>10. CASE HasAt(span, current_index, put)
    <3>1. PICK tree, tasks :
            /\ Take(Len(put), tree, tasks)
            /\ tasks \in Seq(Tasks)
            /\ \A rest \in Seq(Parts) : \A after :
                 IsPut(object, after, target, Path, e) =>
                   Leads(object, tasks, Config(tree, calls \o rest), Config(after, rest))
      BY <2>6, <2>10 DEF Serves, Succeeds
    <3>2. Leads(object, tasks, Config(tree, calls \o m.rest), Config(m.tree, m.rest))
      BY <2>1, <3>1
    <3>3. Leads(object, tasks \o Tail(pending), Config(tree, stacks[i + 1]), b)
      BY <1>1, <1>3, <2>4, <3>1, <3>2, LeadsOn
    <3>4. /\ current_index' = at[i + 1] /\ target' = tree
          /\ pending' = tasks \o Tail(pending) /\ span' = span /\ type' = type
          /\ outcome' = outcome
      BY <2>4, <2>8, <3>1 DEF Take
    <3>5. OnTrack(stacks, at, i + 1)'
      BY <3>3, <3>4 DEF OnTrack, b
    <3> QED
      BY <2>3, <3>4, <3>5
  <2>11. CASE CutAt(span, current_index, put)
    <3>1. PICK used, tree : Raise("NOT_ENOUGH_DATA", used, tree)
      BY <2>6, <2>11 DEF Serves, EndsEarly
    <3>2. /\ pending' = << >> /\ outcome' = "NOT_ENOUGH_DATA" /\ span' = span /\ type' = type
      BY <3>1 DEF Raise
    <3>3. Len(span) < Len(stream)
      <4> DEFINE l == Len(put)
                 c == current_index
                 k == Len(span)
                 w == Len(stream)
      <4>1. l \in Nat /\ c \in Nat /\ k \in Nat /\ w \in Nat /\ k < c + l /\ c + l <= w
        BY <1>1, <2>4, <2>7, <2>8, <2>11 DEF HasAt, CutAt
      <4> HIDE DEF l, c, k, w
      <4>2. k < w
        BY <4>1
      <4> QED
        BY <4>2 DEF k, w
    <3> QED
      BY <3>2, <3>3 DEF CutOff
  <2> QED
    BY <2>9, <2>10, <2>11
<1> QED
  BY <1>5, <1>6

-----------------------------------------------------------------------------
(* What is sent is received.                                               *)

\* While the object is encoded there is a trace of it, up to where it is.
EncodesObject ==
  phase = "encoding" =>
    /\ source = object /\ IsTyped(object, type, << >>)
    /\ enc_outcome = "none" => HasTrace(object, type, stream, enc_pending)

\* While it is decoded the decoder is at a point of its trace, until it comes
\* to where the bytes have been cut off.
DecodesObject ==
  phase = "decoding" /\ stream # << >> =>
    /\ Agree(span, stream)
    /\ \E n \in Nat : \E stacks, at :
         /\ Traced(object, type, stream, << >>, n, stacks, at)
         /\ CutOff \/ \E i \in 0..n : OnTrack(stacks, at, i)

CodecTrackInv == CodecIInv /\ EncodesObject /\ DecodesObject

LEMMA TrackInit ==
  ASSUME ObjectsOfTheirTypes, CodecInit
  PROVE  CodecTrackInv
<1>1. CodecIInv
  BY CodecInitInv
<1>2. CASE InitSend
  <2>1. PICK c \in Calls :
          /\ phase = "encoding" /\ object = c.object
          /\ source = c.object /\ stream = << >>
          /\ enc_pending = EncodeCall(c.type) /\ type = c.type
    BY <1>2 DEF InitSend
  <2>2. type \in Types /\ IsTyped(object, type, << >>)
    BY <2>1, CodecAssumption, RequestsAssumption DEF ObjectsOfTheirTypes
  <2>3. EncodeCall(type) = <<Part(type, << >>)>>
    BY EncoderOperators DEF EncodeCall
  <2>4. HasTrace(object, type, << >>, EncodeCall(type))
    BY <2>2, <2>3, TraceBegins
  <2> QED
    BY <1>1, <2>1, <2>2, <2>4 DEF CodecTrackInv, EncodesObject, DecodesObject
<1>3. CASE InitForeign
  <2>1. phase = "decoding" /\ stream = << >>
    BY <1>3 DEF InitForeign
  <2> QED
    BY <1>1, <2>1 DEF CodecTrackInv, EncodesObject, DecodesObject
<1> QED
  BY <1>2, <1>3 DEF CodecInit

LEMMA EncodeKeepsTrack ==
  ASSUME CodecTrackInv, Encode
  PROVE  EncodesObject' /\ DecodesObject'
<1>1. /\ phase' = phase /\ object' = object /\ type' = type /\ Encoder!Operator
      /\ phase \in {"encoding", "reencoding"}
  BY DEF Encode, vars
<1>2. CASE phase = "reencoding"
  BY <1>1, <1>2 DEF EncodesObject, DecodesObject
<1>3. CASE phase = "encoding"
  <2>1. /\ source = object /\ IsTyped(object, type, << >>)
        /\ enc_outcome = "none" => HasTrace(object, type, stream, enc_pending)
        /\ IsObject(object) /\ type \in Types
        /\ stream \in Seq(Byte) /\ enc_pending \in Seq(Parts)
    BY <1>3, EncoderOperators, RequestsAssumption
       DEF CodecTrackInv, EncodesObject, CodecIInv, IInv, DecoderTypeOK, Encoder!TypeOK
  <2>2. enc_pending # << >>
    BY <1>1, EncoderStep
  <2>3. ASSUME NEW bytes, NEW calls, Encodes(source, Head(enc_pending), bytes, calls),
               EncoderPuts(bytes, calls)
        PROVE  EncodesObject'
    <3>1. /\ stream' = stream \o bytes /\ enc_pending' = calls \o Tail(enc_pending)
          /\ enc_outcome' = enc_outcome /\ source' = source
      BY <2>3 DEF EncoderPuts
    <3>2. enc_outcome = "none" =>
            HasTrace(object, type, stream \o bytes, calls \o Tail(enc_pending))
      BY <2>1, <2>2, <2>3, TraceGrows
    <3> QED
      BY <1>1, <2>1, <3>1, <3>2 DEF EncodesObject
  <2>4. ASSUME NEW error \in Encoder!EncodeErrors, EncoderRaises(error)
        PROVE  EncodesObject'
    <3>1. enc_outcome' # "none" /\ source' = source
      BY <2>4 DEF EncoderRaises, Encoder!EncodeErrors
    <3> QED
      BY <1>1, <2>1, <3>1 DEF EncodesObject
  <2>5. EncodesObject'
    BY <1>1, <2>3, <2>4, EncoderStep
  <2> QED
    BY <1>1, <1>3, <2>5 DEF DecodesObject
<1> QED
  BY <1>1, <1>2, <1>3

LEMMA DeliveredAgrees ==
  ASSUME NEW s \in Seq(Byte), NEW d, d \in Prefixes(s) \union {s \o tail : tail \in Tails}
  PROVE  Agree(d, s)
<1>1. CASE d \in Prefixes(s)
  <2>1. PICK l \in 0..Len(s) : d = SubSeq(s, 1, l)
    BY <1>1 DEF Prefixes
  <2>2. \A j \in 1..Len(d) : d[j] = s[j]
    BY <2>1
  <2> QED
    BY <2>2 DEF Agree
<1>2. CASE d \in {s \o tail : tail \in Tails}
  <2>1. PICK tail \in Tails : d = s \o tail
    BY <1>2
  <2>2. tail \in Seq(Byte)
    BY <2>1, CodecAssumption
  <2>3. \A j \in 1..Len(d) : j <= Len(s) => d[j] = s[j]
    BY <2>1, <2>2
  <2> QED
    BY <2>3 DEF Agree
<1> QED
  BY <1>1, <1>2

LEMMA DeliverBegins ==
  ASSUME ObjectsOfTheirTypes, CodecTrackInv, Deliver
  PROVE  EncodesObject' /\ DecodesObject'
<1>1. /\ phase = "encoding" /\ enc_pending = << >> /\ enc_outcome = "none"
      /\ phase' = "decoding" /\ object' = object /\ type' = type /\ stream' = stream
      /\ span' \in Prefixes(stream) \union {stream \o tail : tail \in Tails}
      /\ current_index' = 0 /\ target' \in {Default} \union Used[type]
      /\ pending' = DecodeCall(type) /\ outcome' = "none"
  BY DEF Deliver, encoder
<1>2. /\ IsTyped(object, type, << >>) /\ HasTrace(object, type, stream, << >>)
      /\ IsObject(object) /\ type \in Requests /\ type \in Types /\ stream \in Seq(Byte)
  BY <1>1, EncoderOperators, RequestsAssumption
     DEF CodecTrackInv, EncodesObject, CodecIInv, IInv, DecoderTypeOK, Encoder!TypeOK
<1>3. Agree(span', stream)
  BY <1>1, <1>2, DeliveredAgrees
<1>4. PICK n \in Nat : \E stacks, at : Traced(object, type, stream, << >>, n, stacks, at)
  BY <1>2 DEF HasTrace
<1>5. PICK stacks, at : Traced(object, type, stream, << >>, n, stacks, at)
  BY <1>4
<1>6. IsObject(target') /\ IsShaped(target', type, << >>)
  <2>1. IsObject(Default) /\ \A x \in Seq(Nat) : At(Default, << >> \o x) = 0
    BY DEF Default, IsObject, At
  <2>2. CASE target' = Default
    BY <1>2, <2>1, <2>2, NoTasks, EmptyIsShaped
  <2>3. CASE target' \in Used[type]
    BY <1>2, <2>3, CodecAssumption DEF ObjectsOfTheirTypes
  <2> QED
    BY <1>1, <2>2, <2>3
<1> DEFINE a == Config(target', stacks[0])
           b == Config(object, << >>)
           task == Task("read", type, << >>)
<1>7. Does(object, task, a, b)
  <2>1. task.do = "read" /\ task.type = type /\ task.path = << >>
    BY DEF Task
  <2>2. a.tree = target' /\ a.rest = stacks[0] /\ b.tree = object /\ b.rest = << >>
    BY DEF Config
  <2>3. stacks[0] = <<Part(type, << >>)>> /\ <<Part(type, << >>)>> \o << >> = <<Part(type, << >>)>>
    <3>1. stacks[0] = <<Part(type, << >>)>>
      BY <1>5 DEF Traced
    <3> DEFINE part == Part(type, << >>)
    <3> HIDE DEF part
    <3>2. <<part>> \o << >> = <<part>>
      OBVIOUS
    <3> QED
      BY <3>1, <3>2 DEF part
  <2>4. IsPut(object, object, target', << >>, << >>)
    <3>1. \A q \in Seq(Nat) : IsPrefix(<< >>, q)
      <4> SUFFICES ASSUME NEW q \in Seq(Nat)
                   PROVE  IsPrefix(<< >>, q)
        OBVIOUS
      <4>1. << >> \in Seq(Nat) /\ << >> \o q = q
        OBVIOUS
      <4> QED
        BY <4>1, PathBelow
    <3> QED
      BY <1>2, <3>1 DEF IsPut
  <2>5. << >> \in Seq(Nat) /\ << >> \in Seq(Parts)
    OBVIOUS
  <2> HIDE DEF a, b, task
  <2> QED
    BY <1>2, <1>6, <2>1, <2>2, <2>3, <2>4, <2>5 DEF Does
<1>8. Leads(object, pending', a, b)
  <2>1. pending' = <<task>>
    BY <1>1 DEF DecodeCall
  <2> HIDE DEF a, b, task
  <2> QED
    BY <1>7, <2>1, LeadsOnce
<1>9. OnTrack(stacks, at, 0)'
  <2>1. at[0] = 0
    BY <1>5 DEF Traced
  <2> QED
    BY <1>1, <1>8, <2>1 DEF OnTrack
<1>10. 0 \in 0..n
  OBVIOUS
<1> QED
  BY <1>1, <1>3, <1>5, <1>9, <1>10 DEF EncodesObject, DecodesObject

LEMMA DecodeKeeps ==
  ASSUME CodecTrackInv, Decode
  PROVE  EncodesObject' /\ DecodesObject'
<1>1. /\ phase = "decoding" /\ phase' = "decoding" /\ object' = object /\ stream' = stream
      /\ Operator
  BY DEF Decode, encoder
<1>2. CASE stream = << >>
  BY <1>1, <1>2 DEF EncodesObject, DecodesObject
<1>3. CASE stream # << >>
  <2>1. /\ IInv /\ IsObject(object) /\ stream \in Seq(Byte) /\ Agree(span, stream)
    BY <1>1, <1>3, EncoderOperators DEF CodecTrackInv, DecodesObject, CodecIInv, Encoder!TypeOK
  <2>2. PICK n \in Nat : \E stacks, at :
          /\ Traced(object, type, stream, << >>, n, stacks, at)
          /\ CutOff \/ \E i \in 0..n : OnTrack(stacks, at, i)
    BY <1>1, <1>3 DEF CodecTrackInv, DecodesObject
  <2>3. PICK stacks, at :
          /\ Traced(object, type, stream, << >>, n, stacks, at)
          /\ CutOff \/ \E i \in 0..n : OnTrack(stacks, at, i)
    BY <2>2
  <2>4. ~CutOff
    BY <1>1, OperatorServes DEF CutOff
  <2>5. PICK i \in 0..n : OnTrack(stacks, at, i)
    BY <2>3, <2>4
  <2>6. /\ span' = span /\ type' = type
        /\ CutOff' \/ \E j \in 0..n : OnTrack(stacks, at, j)'
    BY <1>1, <2>1, <2>3, <2>5, DecodeKeepsTrack
  <2> QED
    BY <1>1, <2>1, <2>3, <2>6 DEF EncodesObject, DecodesObject
<1> QED
  BY <1>2, <1>3

LEMMA TrackNext ==
  ASSUME ObjectsOfTheirTypes, CodecTrackInv, [CodecNext]_codec_vars
  PROVE  CodecTrackInv'
<1>1. CodecIInv'
  BY CodecNextInv DEF CodecTrackInv
<1>2. CASE Encode
  BY <1>1, <1>2, EncodeKeepsTrack DEF CodecTrackInv
<1>3. CASE Deliver
  BY <1>1, <1>3, DeliverBegins DEF CodecTrackInv
<1>4. CASE Decode
  BY <1>1, <1>4, DecodeKeeps DEF CodecTrackInv
<1>5. CASE Reencode
  <2>1. phase' = "reencoding"
    BY <1>5 DEF Reencode
  <2> QED
    BY <1>1, <2>1 DEF CodecTrackInv, EncodesObject, DecodesObject
<1>6. CASE UNCHANGED codec_vars
  <2>1. EncodesObject' /\ DecodesObject'
    BY <1>6 DEF CodecTrackInv, EncodesObject, DecodesObject, CutOff, OnTrack, codec_vars,
                encoder, vars
  <2> QED
    BY <1>1, <2>1 DEF CodecTrackInv
<1> QED
  BY <1>2, <1>3, <1>4, <1>5, <1>6 DEF CodecNext

LEMMA TrackInductive ==
  ASSUME ObjectsOfTheirTypes
  PROVE  CodecSpec => []CodecTrackInv
<1>1. CodecInit => CodecTrackInv
  BY TrackInit
<1>2. CodecTrackInv /\ [CodecNext]_codec_vars => CodecTrackInv'
  BY TrackNext
<1> QED
  BY <1>1, <1>2, PTL DEF CodecSpec

\* At the end the object is made, or the bytes have been cut off.
LEMMA ReceivedWhole ==
  ASSUME CodecTrackInv, Received, stream # << >>
  PROVE  /\ stream \in Seq(Byte) /\ span \in Seq(Byte)
         /\ \/ outcome = "NOT_ENOUGH_DATA" /\ Len(span) < Len(stream)
            \/ /\ outcome = "none" /\ target = object
               /\ current_index = Len(stream) /\ Len(stream) <= Len(span)
<1>1. phase = "decoding" /\ pending = << >>
  BY DEF Received
<1>2. /\ stream \in Seq(Byte) /\ span \in Seq(Byte) /\ current_index \in 0..Len(span)
  BY EncoderOperators, ByteStringType
     DEF CodecTrackInv, CodecIInv, IInv, DecoderTypeOK, Encoder!TypeOK
<1>3. PICK n \in Nat : \E stacks, at :
        /\ Traced(object, type, stream, << >>, n, stacks, at)
        /\ CutOff \/ \E i \in 0..n : OnTrack(stacks, at, i)
  BY <1>1 DEF CodecTrackInv, DecodesObject
<1>4. PICK stacks, at :
        /\ Traced(object, type, stream, << >>, n, stacks, at)
        /\ CutOff \/ \E i \in 0..n : OnTrack(stacks, at, i)
  BY <1>3
<1>5. CASE CutOff
  BY <1>2, <1>5 DEF CutOff
<1>6. ASSUME NEW i \in 0..n, OnTrack(stacks, at, i)
      PROVE  /\ outcome = "none" /\ target = object
             /\ current_index = Len(stream) /\ Len(stream) <= Len(span)
  <2>1. /\ outcome = "none" /\ current_index = at[i]
        /\ Leads(object, << >>, Config(target, stacks[i]), Config(object, << >>))
    BY <1>1, <1>6 DEF OnTrack
  <2>2. Config(target, stacks[i]) = Config(object, << >>)
    BY <2>1, LeadsNowhere
  <2>3. target = object /\ stacks[i] = << >>
    BY <2>2 DEF Config
  <2>4. i = n
    <3> SUFFICES ASSUME i # n
                 PROVE  FALSE
      OBVIOUS
    <3>1. i \in 0..(n - 1)
      OBVIOUS
    <3> QED
      BY <1>4, <2>3, <3>1 DEF Traced, TraceStep
  <2>5. current_index = Len(stream)
    BY <1>4, <2>1, <2>4 DEF Traced
  <2> QED
    BY <1>2, <2>1, <2>3, <2>5
<1> QED
  BY <1>2, <1>4, <1>5, <1>6

LEMMA PrefixLength ==
  ASSUME NEW a \in Seq(Byte), NEW b \in Seq(Byte)
  PROVE  /\ IsPrefix(a, b) => Len(a) <= Len(b)
         /\ IsStrictPrefix(a, b) => Len(a) < Len(b)
<1>1. a \in Seq(Nat) /\ b \in Seq(Nat) /\ Len(a) \in Nat /\ Len(b) \in Nat
  <2>1. ASSUME NEW s \in Seq(Byte)
        PROVE  s \in Seq(Nat) /\ Len(s) \in Nat
    <3>1. Byte \subseteq Nat
      BY DEF Byte
    <3>2. Len(s) \in Nat /\ s \in [1..Len(s) -> Byte]
      OBVIOUS
    <3>3. s \in [1..Len(s) -> Nat]
      BY <3>1, <3>2
    <3> QED
      BY <3>2, <3>3, FunctionIsSeq
  <2> QED
    BY <2>1
<1>2. IsPrefix(a, b) => Len(a) <= Len(b) /\ \A j \in 1..Len(a) : a[j] = b[j]
  BY <1>1, PrefixMeaning
<1>3. ASSUME IsStrictPrefix(a, b)
      PROVE  Len(a) < Len(b)
  <2>1. IsPrefix(a, b) /\ a # b
    BY <1>3 DEF IsStrictPrefix
  <2>2. Len(a) # Len(b)
    <3> SUFFICES ASSUME Len(a) = Len(b)
                 PROVE  FALSE
      OBVIOUS
    <3>1. a = b
      BY <1>2, <2>1, SeqEqual
    <3> QED
      BY <2>1, <3>1
  <2> QED
    BY <1>1, <1>2, <2>1, <2>2
<1> QED
  BY <1>2, <1>3

\* An object of any type of the library's, sent in any state that a program can
\* have it in, is decoded to an equal one whatever follows the bytes and whatever
\* is in the target, and the stream stands right behind the encoding.
THEOREM RoundTripCorrect ==
  ASSUME ObjectsOfTheirTypes
  PROVE  CodecSpec => []RoundTrip
<1>1. CodecTrackInv => RoundTrip
  <2> SUFFICES ASSUME CodecTrackInv, Received, stream # << >>, IsPrefix(stream, span)
               PROVE  outcome = "none" /\ target = object /\ current_index = Len(stream)
    BY DEF RoundTrip
  <2>1. /\ stream \in Seq(Byte) /\ span \in Seq(Byte)
        /\ \/ outcome = "NOT_ENOUGH_DATA" /\ Len(span) < Len(stream)
           \/ /\ outcome = "none" /\ target = object
              /\ current_index = Len(stream) /\ Len(stream) <= Len(span)
    BY ReceivedWhole
  <2>2. Len(stream) <= Len(span) /\ Len(stream) \in Nat /\ Len(span) \in Nat
    BY <2>1, PrefixLength
  <2> QED
    BY <2>1, <2>2
<1> QED
  BY <1>1, TrackInductive, PTL

\* An encoding that is cut off anywhere is reported as just that, whatever the
\* object and whatever is in the target.
THEOREM TruncationCorrect ==
  ASSUME ObjectsOfTheirTypes
  PROVE  CodecSpec => []TruncationDetected
<1>1. CodecTrackInv => TruncationDetected
  <2> SUFFICES ASSUME CodecTrackInv, Received, IsStrictPrefix(span, stream)
               PROVE  outcome = "NOT_ENOUGH_DATA"
    BY DEF TruncationDetected
  <2>1. stream \in Seq(Byte) /\ span \in Seq(Byte)
    BY EncoderOperators, ByteStringType
       DEF CodecTrackInv, CodecIInv, IInv, DecoderTypeOK, Encoder!TypeOK
  <2>2. Len(span) < Len(stream) /\ Len(stream) \in Nat /\ Len(span) \in Nat
    BY <2>1, PrefixLength
  <2>3. stream # << >>
    BY <2>2
  <2>4. \/ outcome = "NOT_ENOUGH_DATA" /\ Len(span) < Len(stream)
        \/ /\ outcome = "none" /\ target = object
           /\ current_index = Len(stream) /\ Len(stream) <= Len(span)
    BY <2>3, ReceivedWhole
  <2> QED
    BY <2>2, <2>4
<1> QED
  BY <1>1, TrackInductive, PTL
=============================================================================
