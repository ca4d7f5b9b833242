---------------------- MODULE ScaleEncoderStream_proofs ----------------------
(***************************************************************************)
(* Theorems about ScaleEncoderStream, for every byte width, set of types   *)
(* and set of calls.                                                       *)
(***************************************************************************)
EXTENDS ScaleEncoderStream, CompactCoding_proofs

-----------------------------------------------------------------------------
(* Type correctness.                                                       *)

\* Any choice of bits is put as a byte.
LEMMA ByteWithType ==
  ASSUME NEW bits \in SUBSET (0..(ByteBits - 1))
  PROVE  ByteWith(bits) \in Byte
BY BitsAssumption DEF ByteWith, BitOf

LEMMA HeadTailType ==
  ASSUME NEW S, NEW s \in Seq(S), s # << >>
  PROVE  Head(s) \in S /\ Tail(s) \in Seq(S)
OBVIOUS

LEMMA FunctionIsSeq ==
  ASSUME NEW S, NEW n \in Nat, NEW f \in [1..n -> S]
  PROVE  f \in Seq(S)
OBVIOUS

LEMMA OperandType ==
  ASSUME NEW t \in Types, NEW p \in Seq(Nat)
  PROVE  Operand(t, p) \in Operands
BY DEF Operand, Operands

LEMMA EmptySequences ==
  /\ << >> \in Seq(Byte)
  /\ << >> \in Seq(Nat)
  /\ << >> \in Seq(Operands)
OBVIOUS

\* The type, the path and the content of the next operator's argument.
LEMMA HeadType ==
  ASSUME TypeOK, pending # << >>
  PROVE  /\ Type \in Types
         /\ Path \in Seq(Nat)
         /\ Tail(pending) \in Seq(Operands)
         /\ Content \in Nat
         /\ \A p : At(source, p) \in Nat
<1>1. Head(pending) \in Operands /\ Tail(pending) \in Seq(Operands)
  BY HeadTailType DEF TypeOK
<1>2. \A p : At(source, p) \in Nat
  BY DEF TypeOK, IsObject, At
<1>3. Type \in Types /\ Path \in Seq(Nat)
  BY <1>1 DEF Type, Path, Operands
<1> QED
  BY <1>1, <1>2, <1>3 DEF Content

\* The children of a wrapper's argument are operands of the instance.
LEMMA ChildrenType ==
  ASSUME TypeOK, pending # << >>, Type.kind \in Wrappers, NEW n \in Nat
  PROVE  Children(Type.of[1], n) \in Seq(Operands)
<1>1. Type \in Types /\ Path \in Seq(Nat)
  BY HeadType
<1>2. Type.of[1] \in Types
  BY <1>1, TypesAssumption
<1>3. \A i \in 1..n : Path \o <<i>> \in Seq(Nat)
  BY <1>1
<1>4. \A i \in 1..n : Operand(Type.of[1], Path \o <<i>>) \in Operands
  BY <1>2, <1>3, OperandType
<1>5. Children(Type.of[1], n) \in [1..n -> Operands]
  BY <1>4 DEF Children
<1> QED
  BY <1>5, FunctionIsSeq

\* An operator puts bytes and enters operators of the instance, or it raises:
\* there is nothing else it does.
LEMMA PutsOrRaises ==
  ASSUME TypeOK, Operator
  PROVE  /\ pending # << >>
         /\ \/ \E bytes \in Seq(Byte), operands \in Seq(Operands) : Put(bytes, operands)
            \/ \E error \in EncodeErrors : Raise(error)
<1>1. CASE EncodeBool
  <2>1. pending # << >> /\ Put(<<IF Content # 0 THEN 1 ELSE 0>>, << >>)
    BY <1>1 DEF EncodeBool, Serving
  <2>2. <<IF Content # 0 THEN 1 ELSE 0>> \in Seq(Byte)
    BY LimitsType DEF Byte
  <2> QED
    BY <2>1, <2>2, EmptySequences
<1>2. CASE EncodeInteger \/ EncodeBigFixedWidthInteger \/ EncodeEnum
  <2>1. pending # << >> /\ Type.kind \in {"int", "big", "enum"}
    BY <1>2 DEF EncodeInteger, EncodeBigFixedWidthInteger, EncodeEnum, Serving, Type
  <2>2. Put(LittleEndian(Content, Type.n), << >>)
    BY <1>2 DEF EncodeInteger, EncodeBigFixedWidthInteger, EncodeEnum
  <2>3. Type.n \in Nat /\ ByteBits * (Type.n - 1) < MaxBits
    BY <2>1, HeadType, TypesAssumption, WidthAssumption
  <2>4. LittleEndian(Content, Type.n) \in Seq(Byte)
    BY <2>1, <2>3, HeadType, LittleEndianType
  <2> QED
    BY <2>1, <2>2, <2>4, EmptySequences
<1>3. CASE EncodeCompact
  <2>1. pending # << >> /\ Put(EncodeCompactOfNative(Content).bytes, << >>)
    BY <1>3 DEF EncodeCompact, Serving
  <2> QED
    BY <2>1, HeadType, EncodeCompactType, EmptySequences
<1>4. CASE EncodeBigCompact
  <2>1. pending # << >>
    BY <1>4 DEF EncodeBigCompact, Serving
  <2>2. CASE EncodeCompactOfBig(Content).error = "none"
    <3>1. Put(EncodeCompactOfBig(Content).bytes, << >>)
      BY <1>4, <2>2 DEF EncodeBigCompact
    <3> QED
      BY <2>1, <3>1, HeadType, EncodeCompactType, EmptySequences
  <2>3. CASE EncodeCompactOfBig(Content).error # "none"
    <3>1. Raise(EncodeCompactOfBig(Content).error)
      BY <1>4, <2>3 DEF EncodeBigCompact
    <3>2. EncodeCompactOfBig(Content).error \in EncodeErrors
      BY <2>1, <2>3, HeadType, EncodeCompactType DEF EncodeErrors
    <3> QED
      BY <2>1, <3>1, <3>2
  <2> QED
    BY <2>2, <2>3
<1>5. CASE EncodeOptionalBool
  <2>1. pending # << >>
    BY <1>5 DEF EncodeOptionalBool, Serving
  <2>2. PICK byte \in 0..2 : Put(<<byte>>, << >>)
    BY <1>5 DEF EncodeOptionalBool
  <2>3. <<byte>> \in Seq(Byte)
    BY LimitsType DEF Byte
  <2> QED
    BY <2>1, <2>2, <2>3, EmptySequences
<1>6. CASE EncodeOptional
  <2>1. pending # << >> /\ Type.kind \in Wrappers
    BY <1>6 DEF EncodeOptional, Serving, Type, Wrappers
  <2>2. <<0>> \in Seq(Byte) /\ <<1>> \in Seq(Byte)
    BY LimitsType DEF Byte
  <2>3. Children(Type.of[1], 1) \in Seq(Operands)
    BY <2>1, ChildrenType
  <2>4. Put(<<0>>, << >>) \/ Put(<<1>>, Children(Type.of[1], 1))
    BY <1>6 DEF EncodeOptional
  <2> QED
    BY <2>1, <2>2, <2>3, <2>4, EmptySequences
<1>7. CASE EncodePointer
  <2>1. pending # << >> /\ Type.kind \in Wrappers
    BY <1>7 DEF EncodePointer, Serving, Type, Wrappers
  <2>2. Children(Type.of[1], 1) \in Seq(Operands)
    BY <2>1, ChildrenType
  <2>3. Raise("DEREF_NULLPOINTER") \/ Put(<< >>, Children(Type.of[1], 1))
    BY <1>7 DEF EncodePointer
  <2> QED
    BY <2>1, <2>2, <2>3, EmptySequences DEF EncodeErrors
<1>8. CASE EncodeProduct
  <2> DEFINE operands ==
        [i \in DOMAIN Type.of |-> Operand(Type.of[i], Path \o <<i>>)]
  <2>1. pending # << >> /\ Put(<< >>, operands)
    BY <1>8 DEF EncodeProduct, Serving
  <2>2. Type.of \in Seq(Types) /\ Path \in Seq(Nat)
    BY <2>1, HeadType, TypesAssumption
  <2>3. ASSUME NEW i \in DOMAIN Type.of
        PROVE  Operand(Type.of[i], Path \o <<i>>) \in Operands
    <3>1. Type.of[i] \in Types /\ Path \o <<i>> \in Seq(Nat)
      BY <2>2
    <3> QED
      BY <3>1, OperandType
  <2>4. operands \in [1..Len(Type.of) -> Operands] /\ Len(Type.of) \in Nat
    BY <2>2, <2>3
  <2>5. operands \in Seq(Operands)
    BY <2>4, FunctionIsSeq
  <2> QED
    BY <2>1, <2>5, EmptySequences
<1>9. CASE EncodeStaticCollection
  <2>1. pending # << >> /\ Type.kind \in Wrappers
    BY <1>9 DEF EncodeStaticCollection, Serving, Type, Wrappers
  <2>2. Put(<< >>, Children(Type.of[1], Type.n))
    BY <1>9 DEF EncodeStaticCollection
  <2>3. Type.n \in Nat
    BY <2>1, HeadType, TypesAssumption
  <2> QED
    BY <2>1, <2>2, <2>3, ChildrenType, EmptySequences
<1>10. CASE EncodeSequence
  <2>1. pending # << >> /\ Type.kind \in Wrappers
    BY <1>10 DEF EncodeSequence, Serving, Type, Wrappers
  <2>2. Put(LengthBytes(Content), Children(Type.of[1], Content))
    BY <1>10 DEF EncodeSequence
  <2>3. LengthBytes(Content) \in Seq(Byte)
    BY <2>1, HeadType, EncodeCompactType DEF LengthBytes
  <2>4. Children(Type.of[1], Content) \in Seq(Operands)
    BY <2>1, HeadType, ChildrenType
  <2> QED
    BY <2>1, <2>2, <2>3, <2>4, EmptySequences
<1>11. CASE EncodeRandomCollection
  <2>1. pending # << >> /\ Type.kind \in Wrappers
    BY <1>11 DEF EncodeRandomCollection, Serving, Type, Wrappers
  <2>2. PICK keys \in Iterations(Keys(source, Path), Content) :
          Put(LengthBytes(Content),
              [i \in 1..Content |->
                 Operand(Type.of[1], Path \o <<keys[i] + 1, 1>>)])
    BY <1>11 DEF EncodeRandomCollection
  <2>3. Type.of[1] \in Types /\ Path \in Seq(Nat) /\ Content \in Nat
    BY <2>1, HeadType, TypesAssumption
  <2>4. ASSUME NEW k \in Keys(source, Path)
        PROVE  k + 1 \in Nat
    <3>1. PICK q \in DOMAIN source : /\ Len(q) = Len(Path) + 1
                                     /\ k = q[Len(Path) + 1] - 1
      BY DEF Keys
    <3>2. q \in Seq(Nat)
      BY DEF TypeOK, IsObject
    <3>3. q[Len(Path) + 1] \in Nat
      BY <2>3, <3>1, <3>2
    <3> QED
      BY <3>1, <3>3
  <2>5. ASSUME NEW i \in 1..Content
        PROVE  Operand(Type.of[1], Path \o <<keys[i] + 1, 1>>) \in Operands
    <3>1. keys[i] \in Keys(source, Path)
      BY <2>2 DEF Iterations
    <3>2. Path \o <<keys[i] + 1, 1>> \in Seq(Nat)
      BY <2>3, <2>4, <3>1
    <3> QED
      BY <2>3, <3>2, OperandType
  <2>6. [i \in 1..Content |-> Operand(Type.of[1], Path \o <<keys[i] + 1, 1>>)]
          \in Seq(Operands)
    BY <2>3, <2>5, FunctionIsSeq
  <2>7. LengthBytes(Content) \in Seq(Byte)
    BY <2>3, EncodeCompactType DEF LengthBytes
  <2> QED
    BY <2>1, <2>2, <2>6, <2>7, EmptySequences
<1>12. CASE EncodeBitVec
  <2>1. pending # << >> /\ Put(LengthBytes(Content) \o PackBits(Content), << >>)
    BY <1>12 DEF EncodeBitVec, Serving
  <2>2. LengthBytes(Content) \in Seq(Byte)
    BY <2>1, HeadType, EncodeCompactType DEF LengthBytes
  <2> DEFINE n == (Content + ByteBits - 1) \div ByteBits
  <2>3. Content \in Nat
    BY <2>1, HeadType
  <2>4. n \in Nat
    BY <2>3, ByteAssumption
  <2> HIDE DEF n
  <2>5. PackBits(Content) \in [1..n -> Byte]
    BY ByteWithType DEF PackBits, n
  <2>6. PackBits(Content) \in Seq(Byte)
    BY <2>4, <2>5, FunctionIsSeq
  <2>7. LengthBytes(Content) \o PackBits(Content) \in Seq(Byte)
    BY <2>2, <2>6
  <2> QED
    BY <2>1, <2>7, EmptySequences
<1>13. CASE EncodeVariant \/ EncodeBoostVariant
  <2>1. pending # << >> /\ Type.kind \in {"variant", "boostvariant"}
    BY <1>13 DEF EncodeVariant, EncodeBoostVariant, Serving, Type
  <2>2. CASE Content + 1 \in DOMAIN Type.of
    <3> DEFINE operand == Operand(Type.of[Content + 1], Path \o <<Content + 1>>)
    <3>1. Put(<<Content>>, <<operand>>)
      BY <1>13, <2>2 DEF EncodeVariant, EncodeBoostVariant
    <3>2. Type \in Types /\ Path \in Seq(Nat) /\ Content \in Nat
      BY <2>1, HeadType
    <3>3. Type.of \in Seq(Types) /\ Len(Type.of) <= Base
      BY <2>1, <3>2, TypesAssumption, WidthAssumption
    <3>4. Content \in Byte
      BY <2>2, <3>2, <3>3, ByteAssumption DEF Byte
    <3>5. Type.of[Content + 1] \in Types /\ Path \o <<Content + 1>> \in Seq(Nat)
      BY <2>2, <3>2, <3>3
    <3>6. operand \in Operands
      BY <3>5, OperandType
    <3> HIDE DEF operand
    <3>7. <<Content>> \in Seq(Byte) /\ <<operand>> \in Seq(Operands)
      BY <3>4, <3>6
    <3> QED
      BY <2>1, <3>1, <3>7
  <2>3. CASE Content + 1 \notin DOMAIN Type.of
    <3>1. Put(<< >>, << >>)
      BY <1>13, <2>3 DEF EncodeVariant, EncodeBoostVariant
    <3> QED
      BY <2>1, <3>1, EmptySequences
  <2> QED
    BY <2>2, <2>3
<1>14. CASE EncodeCompactReflection
  <2>1. pending # << >> /\ Type.kind \in Wrappers
    BY <1>14 DEF EncodeCompactReflection, Serving, Type, Wrappers
  <2>2. Put(<< >>, <<Operand(Type.of[1], Path)>>)
    BY <1>14 DEF EncodeCompactReflection
  <2>3. Type.of[1] \in Types /\ Path \in Seq(Nat)
    BY <2>1, HeadType, TypesAssumption
  <2>4. <<Operand(Type.of[1], Path)>> \in Seq(Operands)
    BY <2>3, OperandType
  <2> QED
    BY <2>1, <2>2, <2>4, EmptySequences
<1> QED
  BY <1>1, <1>2, <1>3, <1>4, <1>5, <1>6, <1>7, <1>8, <1>9, <1>10, <1>11,
     <1>12, <1>13, <1>14 DEF Operator

\* Every call of the client and every operator of it, also one that raises,
\* leaves bytes in the stream and operands in pending.
THEOREM TypeCorrect == Spec => []TypeOK
<1>1. Init => TypeOK
  BY DEF Init, TypeOK, Default, IsObject
<1>2. TypeOK /\ [Next]_vars => TypeOK'
  <2> SUFFICES ASSUME TypeOK, [Next]_vars PROVE TypeOK'
    OBVIOUS
  <2>1. ASSUME pending # << >>,
               NEW bytes \in Seq(Byte), NEW operands \in Seq(Operands),
               Put(bytes, operands)
        PROVE  TypeOK'
    <3>1. Tail(pending) \in Seq(Operands)
      BY <2>1, HeadType
    <3>2. pending' \in Seq(Operands)
      BY <2>1, <3>1 DEF Put
    <3>3. stream' \in Seq(Byte) /\ bytes_written' \in Nat
      BY <2>1 DEF TypeOK, Put, PutBytes
    <3> QED
      BY <2>1, <3>2, <3>3 DEF TypeOK, Put
  <2>2. ASSUME NEW error \in EncodeErrors, Raise(error)
        PROVE  TypeOK'
    BY <2>2 DEF TypeOK, Raise
  <2>3. CASE Operator
    BY <2>1, <2>2, <2>3, PutsOrRaises
  <2>4. ASSUME NEW c \in Calls, Call(c)
        PROVE  TypeOK'
    <3>1. c.type \in Types /\ IsObject(c.object)
      BY CallsAssumption
    <3>2. Operand(c.type, << >>) \in Operands
      BY <3>1, EmptySequences, OperandType
    <3>3. pending' \in Seq(Operands)
      BY <2>4, <3>2 DEF Call
    <3> QED
      BY <2>4, <3>1, <3>3 DEF Call, TypeOK
  <2>5. CASE UNCHANGED vars
    BY <2>5 DEF vars, TypeOK
  <2> QED
    BY <2>3, <2>4, <2>5 DEF Next
<1> QED
  BY <1>1, <1>2, PTL DEF Spec

-----------------------------------------------------------------------------
(* The count and the buffer.                                               *)

\* What a step of an operator does to the count and the buffer: both grow by
\* the same bytes, and the buffer not at all when bytes are dropped.
LEMMA OperatorGrows ==
  ASSUME TypeOK, Operator
  PROVE  \E bytes \in Seq(Byte) :
           /\ bytes_written' = bytes_written + Len(bytes)
           /\ stream' = IF drop_data THEN stream ELSE stream \o bytes
           /\ drop_data' = drop_data
<1>1. ASSUME NEW error \in EncodeErrors, Raise(error)
      PROVE  /\ bytes_written' = bytes_written + Len(<< >>)
             /\ stream' = IF drop_data THEN stream ELSE stream \o << >>
             /\ drop_data' = drop_data
  BY <1>1 DEF Raise, TypeOK
<1>2. ASSUME NEW bytes \in Seq(Byte), NEW operands \in Seq(Operands),
             Put(bytes, operands)
      PROVE  /\ bytes_written' = bytes_written + Len(bytes)
             /\ stream' = IF drop_data THEN stream ELSE stream \o bytes
             /\ drop_data' = drop_data
  BY <1>2 DEF Put, PutBytes
<1> QED
  BY <1>1, <1>2, EmptySequences, PutsOrRaises

\* size() is the number of bytes kept, or none is kept.  By itself this is
\* inductive only as long as what is put are sequences: TypeOK says so.
THEOREM SizeExact == Spec => []SizeIsExact
<1>1. Init => SizeIsExact
  BY DEF Init, SizeIsExact
<1>2. TypeOK /\ SizeIsExact /\ [Next]_vars => SizeIsExact'
  <2> SUFFICES ASSUME TypeOK, SizeIsExact, [Next]_vars PROVE SizeIsExact'
    OBVIOUS
  <2>1. CASE Operator
    <3>1. PICK bytes \in Seq(Byte) :
             /\ bytes_written' = bytes_written + Len(bytes)
             /\ stream' = IF drop_data THEN stream ELSE stream \o bytes
             /\ drop_data' = drop_data
      BY <2>1, OperatorGrows
    <3> QED
      BY <3>1 DEF SizeIsExact, TypeOK
  <2>2. ASSUME NEW c \in Calls, Call(c)
        PROVE  SizeIsExact'
    BY <2>2 DEF Call, SizeIsExact
  <2>3. CASE UNCHANGED vars
    BY <2>3 DEF vars, SizeIsExact
  <2> QED
    BY <2>1, <2>2, <2>3 DEF Next
<1> QED
  BY <1>1, <1>2, TypeCorrect, PTL DEF Spec

\* No step takes back or overwrites a byte that is in the stream.
THEOREM NothingTakenBack == Spec => AppendOnly
<1>1. TypeOK /\ [Next]_vars => [KeepsBytes]_vars
  <2> SUFFICES ASSUME TypeOK, Next PROVE KeepsBytes
    OBVIOUS
  <2>1. \A t \in Seq(Byte) : IsPrefix(stream, stream) /\ IsPrefix(stream, stream \o t)
    BY DEF IsPrefix, TypeOK
  <2>2. CASE Operator
    <3>1. PICK bytes \in Seq(Byte) :
             /\ stream' = IF drop_data THEN stream ELSE stream \o bytes
             /\ drop_data' = drop_data
      BY <2>2, OperatorGrows
    <3> QED
      BY <2>1, <3>1 DEF KeepsBytes
  <2>3. ASSUME NEW c \in Calls, Call(c)
        PROVE  KeepsBytes
    BY <2>1, <2>3, EmptySequences DEF Call, KeepsBytes
  <2> QED
    BY <2>2, <2>3 DEF Next
<1> QED
  BY <1>1, TypeCorrect, PTL DEF Spec, AppendOnly
-----------------------------------------------------------------------------
(* Counting.                                                               *)

Counter == INSTANCE ScaleEncoderStream WITH drop_data <- TRUE, stream <- << >>

\* The instance has the same constants, so its constant operators are the same.
LEMMA CounterOperators ==
  /\ Counter!Default = Default
  /\ \A object, p : Counter!At(object, p) = At(object, p)
  /\ \A object, p : Counter!Keys(object, p) = Keys(object, p)
  /\ \A keys, n : Counter!Iterations(keys, n) = Iterations(keys, n)
  /\ \A bits : Counter!ByteWith(bits) = ByteWith(bits)
  /\ \A v, n : Counter!LittleEndian(v, n) = LittleEndian(v, n)
  /\ \A v : Counter!EncodeCompactOfNative(v) = EncodeCompactOfNative(v)
  /\ \A v : Counter!EncodeCompactOfBig(v) = EncodeCompactOfBig(v)
<1>1. Counter!Default = Default
  BY DEF Default, Counter!Default
<1>2. \A object, p : Counter!At(object, p) = At(object, p)
  BY DEF At, Counter!At
<1>3. \A object, p : Counter!Keys(object, p) = Keys(object, p)
  BY DEF Keys, Counter!Keys, IsPrefix, Counter!IsPrefix
<1>4. \A keys, n : Counter!Iterations(keys, n) = Iterations(keys, n)
  BY DEF Iterations, Counter!Iterations
<1>5. \A bits : Counter!ByteWith(bits) = ByteWith(bits)
  BY DEF ByteWith, Counter!ByteWith, BitOf, Counter!BitOf, Byte, Counter!Byte
<1>6. \A v, n : Counter!LittleEndian(v, n) = LittleEndian(v, n)
  BY DEF LittleEndian, Counter!LittleEndian, ByteOf, Counter!ByteOf
<1>7. Counter!Quarter = Quarter
  BY DEF Quarter, Counter!Quarter
<1>8. /\ Counter!kMinUint16 = kMinUint16 /\ Counter!kMinUint32 = kMinUint32
      /\ Counter!kMinBigInteger = kMinBigInteger /\ Counter!MaxBigBytes = MaxBigBytes
  BY <1>7 DEF kMinUint16, Counter!kMinUint16, kMinUint32, Counter!kMinUint32,
              kMinBigInteger, Counter!kMinBigInteger, MaxBigBytes, Counter!MaxBigBytes
<1>9. \A v : Counter!EncodeSmallCompact(v) = EncodeSmallCompact(v)
  BY <1>6, <1>7, <1>8 DEF EncodeSmallCompact, Counter!EncodeSmallCompact,
                          WithFlag, Counter!WithFlag
<1>10. \A v : Counter!BitWidth(v) = BitWidth(v) /\ Counter!ByteCount(v) = ByteCount(v)
  <2>1. \A S : Counter!Cardinality(S) = Cardinality(S)
    BY DEF Cardinality, Counter!Cardinality
  <2> QED
    BY <2>1 DEF BitWidth, Counter!BitWidth, ByteCount, Counter!ByteCount
<1>11. \A v, n : Counter!EncodeBigMode(v, n) = EncodeBigMode(v, n)
  BY <1>6, <1>10 DEF EncodeBigMode, Counter!EncodeBigMode
<1>12. \A v : /\ Counter!EncodeCompactNative(v) = EncodeCompactNative(v)
              /\ Counter!EncodeCompactBig(v) = EncodeCompactBig(v)
  BY <1>8, <1>9, <1>10, <1>11 DEF EncodeCompactNative, Counter!EncodeCompactNative,
                                  EncodeCompactBig, Counter!EncodeCompactBig
<1>13. \A v, k : Counter!Shifted(v, k) = Shifted(v, k)
  BY <1>10 DEF Shifted, Counter!Shifted
<1>14. \A v, k : Counter!JamFits(v, k) = JamFits(v, k)
  BY <1>13 DEF JamFits, Counter!JamFits, JamRoom, Counter!JamRoom
<1>15. \A v : Counter!JamExtraBytes(v) = JamExtraBytes(v)
  BY <1>14 DEF JamExtraBytes, Counter!JamExtraBytes
<1>16. \A v : Counter!JamBytes(v) = JamBytes(v)
  BY <1>6, <1>13, <1>15 DEF JamBytes, Counter!JamBytes, JamPrefix, Counter!JamPrefix
<1>17. \A v : /\ Counter!EncodeJamNative(v) = EncodeJamNative(v)
              /\ Counter!EncodeJamBig(v) = EncodeJamBig(v)
  BY <1>10, <1>16 DEF EncodeJamNative, Counter!EncodeJamNative,
                      EncodeJamBig, Counter!EncodeJamBig
<1>18. \A v : /\ Counter!EncodeCompactOfNative(v) = EncodeCompactOfNative(v)
              /\ Counter!EncodeCompactOfBig(v) = EncodeCompactOfBig(v)
  BY <1>12, <1>17 DEF EncodeCompactOfNative, Counter!EncodeCompactOfNative,
                      EncodeCompactOfBig, Counter!EncodeCompactOfBig
<1> QED
  BY <1>1, <1>2, <1>3, <1>4, <1>5, <1>6, <1>18

\* What a stream does, a stream that drops the bytes does in the same steps:
\* the same count, the same errors.  (The safety part of CountingAgrees.)
THEOREM CountingSimulates ==
  Spec => Counter!Init /\ [][Counter!Next]_Counter!vars
<1> USE DEF Serving, Counter!Serving, Type, Counter!Type, Path, Counter!Path,
            Content, Counter!Content, Operand, Counter!Operand
<1>1. Init => Counter!Init
  BY CounterOperators DEF Init, Counter!Init
<1>2. [Next]_vars => [Counter!Next]_Counter!vars
  <2> SUFFICES ASSUME Next PROVE Counter!Next
    BY DEF vars, Counter!vars
  <2> USE DEF Put, Counter!Put, PutBytes, Counter!PutBytes, Raise, Counter!Raise,
              Children, Counter!Children, LengthBytes, Counter!LengthBytes
  <2>1. CASE EncodeBool
    <3>1. Counter!EncodeBool
      BY <2>1, CounterOperators DEF EncodeBool, Counter!EncodeBool
    <3> QED
      BY <3>1 DEF Counter!Next, Counter!Operator
  <2>2. CASE EncodeInteger
    <3>1. Counter!EncodeInteger
      BY <2>2, CounterOperators DEF EncodeInteger, Counter!EncodeInteger
    <3> QED
      BY <3>1 DEF Counter!Next, Counter!Operator
  <2>3. CASE EncodeBigFixedWidthInteger
    <3>1. Counter!EncodeBigFixedWidthInteger
      BY <2>3, CounterOperators DEF EncodeBigFixedWidthInteger, Counter!EncodeBigFixedWidthInteger
    <3> QED
      BY <3>1 DEF Counter!Next, Counter!Operator
  <2>4. CASE EncodeEnum
    <3>1. Counter!EncodeEnum
      BY <2>4, CounterOperators DEF EncodeEnum, Counter!EncodeEnum
    <3> QED
      BY <3>1 DEF Counter!Next, Counter!Operator
  <2>5. CASE EncodeCompact
    <3>1. Counter!EncodeCompact
      BY <2>5, CounterOperators DEF EncodeCompact, Counter!EncodeCompact
    <3> QED
      BY <3>1 DEF Counter!Next, Counter!Operator
  <2>6. CASE EncodeBigCompact
    <3>1. Counter!EncodeBigCompact
      BY <2>6, CounterOperators DEF EncodeBigCompact, Counter!EncodeBigCompact
    <3> QED
      BY <3>1 DEF Counter!Next, Counter!Operator
  <2>7. CASE EncodeOptionalBool
    <3>1. Counter!EncodeOptionalBool
      BY <2>7, CounterOperators DEF EncodeOptionalBool, Counter!EncodeOptionalBool
    <3> QED
      BY <3>1 DEF Counter!Next, Counter!Operator
  <2>8. CASE EncodeOptional
    <3>1. Counter!EncodeOptional
      BY <2>8, CounterOperators DEF EncodeOptional, Counter!EncodeOptional
    <3> QED
      BY <3>1 DEF Counter!Next, Counter!Operator
  <2>9. CASE EncodePointer
    <3>1. Counter!EncodePointer
      BY <2>9, CounterOperators DEF EncodePointer, Counter!EncodePointer
    <3> QED
      BY <3>1 DEF Counter!Next, Counter!Operator
  <2>10. CASE EncodeProduct
    <3>1. Counter!EncodeProduct
      BY <2>10, CounterOperators DEF EncodeProduct, Counter!EncodeProduct
    <3> QED
      BY <3>1 DEF Counter!Next, Counter!Operator
  <2>11. CASE EncodeStaticCollection
    <3>1. Counter!EncodeStaticCollection
      BY <2>11, CounterOperators DEF EncodeStaticCollection, Counter!EncodeStaticCollection
    <3> QED
      BY <3>1 DEF Counter!Next, Counter!Operator
  <2>12. CASE EncodeSequence
    <3>1. Counter!EncodeSequence
      BY <2>12, CounterOperators DEF EncodeSequence, Counter!EncodeSequence
    <3> QED
      BY <3>1 DEF Counter!Next, Counter!Operator
  <2>13. CASE EncodeRandomCollection
    <3>1. Counter!EncodeRandomCollection
      BY <2>13, CounterOperators DEF EncodeRandomCollection, Counter!EncodeRandomCollection
    <3> QED
      BY <3>1 DEF Counter!Next, Counter!Operator
  <2>14. CASE EncodeBitVec
    <3>1. Counter!EncodeBitVec
      BY <2>14, CounterOperators DEF EncodeBitVec, Counter!EncodeBitVec, PackBits, Counter!PackBits
    <3> QED
      BY <3>1 DEF Counter!Next, Counter!Operator
  <2>15. CASE EncodeVariant
    <3>1. Counter!EncodeVariant
      BY <2>15, CounterOperators DEF EncodeVariant, Counter!EncodeVariant
    <3> QED
      BY <3>1 DEF Counter!Next, Counter!Operator
  <2>16. ASSUME NEW c \in Calls, Call(c)
         PROVE  Counter!Next
    <3>1. Counter!Call(c)
      BY <2>16 DEF Call, Counter!Call
    <3> QED
      BY <3>1 DEF Counter!Next
  <2>17. CASE EncodeCompactReflection
    <3>1. Counter!EncodeCompactReflection
      BY <2>17, CounterOperators DEF EncodeCompactReflection, Counter!EncodeCompactReflection
    <3> QED
      BY <3>1 DEF Counter!Next, Counter!Operator
  <2>18. CASE EncodeBoostVariant
    <3>1. Counter!EncodeBoostVariant
      BY <2>18, CounterOperators DEF EncodeBoostVariant, Counter!EncodeBoostVariant
    <3> QED
      BY <3>1 DEF Counter!Next, Counter!Operator
  <2> QED
    BY <2>1, <2>2, <2>3, <2>4, <2>5, <2>6, <2>7, <2>8, <2>9, <2>10, <2>11,
       <2>12, <2>13, <2>14, <2>15, <2>16, <2>17, <2>18 DEF Next, Operator
<1> QED
  BY <1>1, <1>2, PTL DEF Spec
=============================================================================
