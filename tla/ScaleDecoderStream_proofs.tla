---------------------- MODULE ScaleDecoderStream_proofs ----------------------
(***************************************************************************)
(* Theorems about ScaleDecoderStream, for every byte width, set of types   *)
(* and set of byte strings.                                                *)
(***************************************************************************)
EXTENDS ScaleDecoderStream, CompactCoding_proofs, SequenceTheorems, TLAPS

-----------------------------------------------------------------------------
(* The stream's checks keep what it takes within the span.                 *)

\* hasMore(n) is what its name says as long as the sum does not wrap.
LEMMA HasMoreMeaning ==
  ASSUME NEW s \in ByteStrings, NEW i \in 0..Len(s), NEW n \in Nat, 2 * n < SizeMod
  PROVE  HasMore(s, i, n) <=> i + n <= Len(s)
<1>1. s \in Seq(Byte) /\ 2 * Len(s) < SizeMod /\ SizeMod \in Nat
  BY SpansAssumption DEF ByteStrings
<1>2. Len(s) \in Nat
  BY <1>1
<1>3. i + n \in Nat /\ i + n < SizeMod
  BY <1>1, <1>2
<1>4. (i + n) % SizeMod = i + n
  BY <1>1, <1>3
<1> QED
  BY <1>4 DEF HasMore

\* What a compact integer's first byte makes of the rest.
LEMMA ExtraBytesType ==
  ASSUME NEW first \in Byte
  PROVE  ExtraBytes(first) \in 0..MaxBigBytes
<1>1. Quarter \in Nat \ {0} /\ Base = 4 * Quarter
  BY ByteAssumption DEF Quarter
<1>2. first \in Nat /\ first <= 4 * Quarter - 1
  BY <1>1 DEF Byte
<1>3. first % 4 \in 0..3 /\ first \div 4 \in 0..(Quarter - 1)
  BY <1>1, <1>2
<1>4. ExtraBytes(first) \in {0, 1, 3, 4 + first \div 4}
  BY <1>3 DEF ExtraBytes
<1> QED
  BY <1>1, <1>3, <1>4 DEF MaxBigBytes

\* A compact integer is taken from within the span, whether it is accepted or
\* not.
LEMMA DecodeCompactIntegerType ==
  ASSUME NEW s \in ByteStrings, NEW i \in 0..Len(s)
  PROVE  /\ DecodeCompactInteger(s, i).used \in Nat
         /\ i + DecodeCompactInteger(s, i).used <= Len(s)
         /\ DecodeCompactInteger(s, i).error
              \in {"none", "NOT_ENOUGH_DATA", "REDUNDANT_COMPACT_ENCODING"}
<1> DEFINE first == s[i + 1]
           extra == ExtraBytes(first)
<1>1. s \in Seq(Byte) /\ Len(s) \in Nat /\ i \in Nat /\ i <= Len(s)
  BY SpansAssumption DEF ByteStrings
<1>2. Quarter \in Nat /\ SizeMod \in Nat /\ 2 * MaxBigBytes < SizeMod
  BY ByteAssumption, SpansAssumption DEF Quarter
<1>3. MaxBigBytes \in Nat /\ 1 <= MaxBigBytes
  BY ByteAssumption DEF MaxBigBytes, Quarter
<1>4. CASE ~HasMore(s, i, 1)
  <2>1. DecodeCompactInteger(s, i) = ReadResult("NOT_ENOUGH_DATA", 0, 0)
    BY <1>4 DEF DecodeCompactInteger
  <2> QED
    BY <1>1, <2>1 DEF ReadResult
<1>5. CASE HasMore(s, i, 1)
  <2>1. i + 1 <= Len(s)
    BY <1>2, <1>3, <1>5, HasMoreMeaning
  <2>2. first \in Byte
    BY <1>1, <2>1
  <2>3. extra \in 0..MaxBigBytes
    BY <2>2, ExtraBytesType
  <2> HIDE DEF first, extra
  <2>4. CASE ~HasMore(s, i + 1, extra)
    <3>1. DecodeCompactInteger(s, i) = ReadResult("NOT_ENOUGH_DATA", 1, 0)
      BY <1>5, <2>4 DEF DecodeCompactInteger, first, extra
    <3> QED
      BY <2>1, <3>1 DEF ReadResult
  <2>5. CASE HasMore(s, i + 1, extra)
    <3>1. i + 1 + extra <= Len(s)
      BY <1>1, <1>2, <1>3, <2>1, <2>3, <2>5, HasMoreMeaning
    <3>2. \E value : \E error \in {"none", "REDUNDANT_COMPACT_ENCODING"} :
            DecodeCompactInteger(s, i) = ReadResult(error, 1 + extra, value)
      BY <1>5, <2>5 DEF DecodeCompactInteger, first, extra
    <3> QED
      BY <1>1, <1>3, <2>3, <3>1, <3>2 DEF ReadResult
  <2> QED
    BY <2>4, <2>5
<1> QED
  BY <1>4, <1>5

\* So is one of JAM, whose bytes are taken one by one as far as there are any.
LEMMA DecodeJamCompactIntegerType ==
  ASSUME NEW s \in ByteStrings, NEW i \in 0..Len(s)
  PROVE  /\ DecodeJamCompactInteger(s, i).used \in Nat
         /\ i + DecodeJamCompactInteger(s, i).used <= Len(s)
         /\ DecodeJamCompactInteger(s, i).error
              \in {"none", "NOT_ENOUGH_DATA", "REDUNDANT_COMPACT_ENCODING"}
<1> DEFINE extra == LeadingOnes(s[i + 1])
<1>1. Len(s) \in Nat /\ i \in Nat /\ i <= Len(s)
  BY SpansAssumption DEF ByteStrings
<1>2. extra \in Nat
  BY LeadingOnesType, ByteAssumption
<1> HIDE DEF extra
<1>3. CASE ~HasMore(s, i, 1)
  <2>1. DecodeJamCompactInteger(s, i) = ReadResult("NOT_ENOUGH_DATA", 0, 0)
    BY <1>3 DEF DecodeJamCompactInteger
  <2> QED
    BY <1>1, <2>1 DEF ReadResult
<1>4. CASE HasMore(s, i, 1) /\ Len(s) < i + 1 + extra
  <2>1. DecodeJamCompactInteger(s, i) = ReadResult("NOT_ENOUGH_DATA", Len(s) - i, 0)
    BY <1>4 DEF DecodeJamCompactInteger, extra
  <2> QED
    BY <1>1, <2>1 DEF ReadResult
<1>5. CASE HasMore(s, i, 1) /\ ~(Len(s) < i + 1 + extra)
  <2>1. \E value : \E error \in {"none", "REDUNDANT_COMPACT_ENCODING"} :
          DecodeJamCompactInteger(s, i) = ReadResult(error, 1 + extra, value)
    BY <1>5 DEF DecodeJamCompactInteger, extra
  <2> QED
    BY <1>1, <1>2, <1>5, <2>1 DEF ReadResult
<1> QED
  BY <1>3, <1>4, <1>5

\* The compact integer of either build.
LEMMA ReadCompactType ==
  ASSUME NEW s \in ByteStrings, NEW i \in 0..Len(s)
  PROVE  /\ ReadCompact(s, i).used \in Nat
         /\ i + ReadCompact(s, i).used <= Len(s)
         /\ ReadCompact(s, i).error
              \in {"none", "NOT_ENOUGH_DATA", "REDUNDANT_COMPACT_ENCODING"}
         /\ \E error, used, value : ReadCompact(s, i) = ReadResult(error, used, value)
<1>1. \E error, used, value : DecodeCompactInteger(s, i) = ReadResult(error, used, value)
  BY DEF DecodeCompactInteger
<1>2. \E error, used, value : DecodeJamCompactInteger(s, i) = ReadResult(error, used, value)
  BY DEF DecodeJamCompactInteger
<1>3. ReadCompact(s, i) \in {DecodeCompactInteger(s, i), DecodeJamCompactInteger(s, i)}
  BY DEF ReadCompact
<1> QED
  BY <1>1, <1>2, <1>3, DecodeCompactIntegerType, DecodeJamCompactIntegerType

LEMMA DecodeCompactType ==
  ASSUME NEW s \in ByteStrings, NEW i \in 0..Len(s), NEW width,
         NEW integer \in {DecodeCompactNative(s, i, width), DecodeCompactBig(s, i, width)}
  PROVE  /\ integer.used \in Nat
         /\ i + integer.used <= Len(s)
         /\ integer.error \in DecodeErrors \union {"none"}
<1>1. /\ ReadCompact(s, i).used \in Nat
      /\ i + ReadCompact(s, i).used <= Len(s)
      /\ ReadCompact(s, i).error
              \in {"none", "NOT_ENOUGH_DATA", "REDUNDANT_COMPACT_ENCODING"}
  BY ReadCompactType
<1>2. CASE integer = DecodeCompactNative(s, i, width)
  <2>1. \/ integer = ReadCompact(s, i)
        \/ integer = ReadResult("DECODED_VALUE_OVERFLOWS_TARGET",
                                ReadCompact(s, i).used, 0)
    BY <1>2 DEF DecodeCompactNative
  <2> QED
    BY <1>1, <2>1 DEF ReadResult, DecodeErrors
<1>3. CASE integer = DecodeCompactBig(s, i, width)
  <2>1. PICK error, used, value :
           ReadCompact(s, i) = ReadResult(error, used, value)
    BY ReadCompactType
  <2>2. /\ integer.error = ReadCompact(s, i).error
        /\ integer.used = ReadCompact(s, i).used
    BY <1>3, <2>1 DEF DecodeCompactBig, ReadResult
  <2> QED
    BY <1>1, <2>2 DEF DecodeErrors
<1> QED
  BY <1>2, <1>3
-----------------------------------------------------------------------------
(* Type correctness.                                                       *)

LEMMA HeadTailType ==
  ASSUME NEW S, NEW s \in Seq(S), s # << >>
  PROVE  Head(s) \in S /\ Tail(s) \in Seq(S)
OBVIOUS

LEMMA FunctionIsSeq ==
  ASSUME NEW S, NEW n \in Nat, NEW f \in [1..n -> S]
  PROVE  f \in Seq(S)
OBVIOUS

LEMMA TaskType ==
  ASSUME NEW do \in {"read", "emplace_back", "emplace", "leave", "assign", "assign_ref"},
         NEW t \in Types, NEW path \in Seq(Nat)
  PROVE  Task(do, t, path) \in Tasks
BY DEF Task, Tasks

LEMMA NoTasks == << >> \in Seq(Tasks) /\ << >> \in Seq(Nat)
OBVIOUS

\* The type and the path of the argument of the next operator.
LEMMA HeadType ==
  ASSUME DecoderTypeOK, pending # << >>
  PROVE  /\ Type \in Types
         /\ Path \in Seq(Nat)
         /\ Tail(pending) \in Seq(Tasks)
<1>1. Head(pending) \in Tasks /\ Tail(pending) \in Seq(Tasks)
  BY HeadTailType DEF DecoderTypeOK
<1> QED
  BY <1>1 DEF Type, Path, Tasks

\* A wrapper has one component; reads of the argument's children and the
\* alternation of another task with a read are tasks of the instance.
LEMMA ChildTasksType ==
  ASSUME DecoderTypeOK, pending # << >>, Type.kind \in Wrappers, NEW n \in Nat
  PROVE  /\ Of \in Types
         /\ ReadChildren(n) \in Seq(Tasks)
<1>1. Type \in Types /\ Path \in Seq(Nat)
  BY HeadType
<1>2. Of \in Types
  BY <1>1, TypesAssumption DEF Of
<1>3. \A i \in 1..n : Path \o <<i>> \in Seq(Nat)
  BY <1>1
<1>4. ReadChildren(n) \in [1..n -> Tasks]
  BY <1>2, <1>3, TaskType DEF ReadChildren
<1> QED
  BY <1>2, <1>4, FunctionIsSeq

\* A stream asks for bytes before it takes them.
LEMMA AvailableMeaning ==
  ASSUME DecoderTypeOK, NEW n \in Nat, 2 * n < SizeMod
  PROVE  Available(n) <=> current_index + n <= Len(span)
BY HasMoreMeaning DEF DecoderTypeOK, Available

LEMMA IndexType ==
  ASSUME DecoderTypeOK
  PROVE  /\ span \in Seq(Byte)
         /\ Len(span) \in Nat
         /\ current_index \in Nat
         /\ 0 \in 0..(Len(span) - current_index)
         /\ 2 < SizeMod
         /\ Available(1) => 1 \in 0..(Len(span) - current_index) /\ NextByte \in Byte
<1>1. /\ span \in Seq(Byte) /\ Len(span) \in Nat /\ current_index \in Nat
      /\ current_index <= Len(span)
  BY SpansAssumption DEF DecoderTypeOK, ByteStrings
<1>2. SizeMod \in Nat /\ 2 * 1 < SizeMod
  BY SpansAssumption, ByteAssumption DEF MaxBigBytes, Quarter
<1>3. Available(1) => current_index + 1 <= Len(span)
  BY <1>2, AvailableMeaning
<1> QED
  BY <1>1, <1>2, <1>3 DEF NextByte

\* What an operator's step may be: it takes bytes from within the span.
Takes ==
  \E object : \E bytes \in 0..(Len(span) - current_index), tasks \in Seq(Tasks) :
    Take(bytes, object, tasks)

Raises ==
  \E object : \E error \in Outcomes, bytes \in 0..(Len(span) - current_index) :
    Raise(error, bytes, object)

LEMMA StoreTakes ==
  ASSUME NEW bytes \in 0..(Len(span) - current_index), NEW v, Store(bytes, v)
  PROVE  Takes
BY NoTasks DEF Store, Takes

\* The number of elements of a collection is taken from within the span.
LEMMA CountType ==
  ASSUME DecoderTypeOK
  PROVE  /\ Count.used \in 0..(Len(span) - current_index)
         /\ Count.error \in DecodeErrors \union {"none"}
<1>1. span \in ByteStrings /\ current_index \in 0..Len(span)
  BY DEF DecoderTypeOK
<1>2. /\ Count.used \in Nat
      /\ current_index + Count.used <= Len(span)
      /\ Count.error \in DecodeErrors \union {"none"}
  BY <1>1, DecodeCompactType DEF Count
<1> QED
  BY <1>1, <1>2, IndexType

\* An operator takes bytes of the span and leaves tasks of the instance, or it
\* takes some and raises.
LEMMA TakesOrRaises ==
  ASSUME DecoderTypeOK, Operator
  PROVE  pending # << >> /\ (Takes \/ Raises)
<1> DEFINE left == 0..(Len(span) - current_index)
<1>0. DecodeErrors \subseteq Outcomes /\ "length_error" \in Outcomes
  BY DEF Outcomes
<1>1. CASE DecodeBool
  <2>1. pending # << >>
    BY <1>1 DEF DecodeBool, Serving, Doing
  <2>2. CASE Raise("NOT_ENOUGH_DATA", 0, target)
    BY <2>1, <2>2, <1>0, IndexType DEF Raises, DecodeErrors
  <2>3. CASE Available(1) /\ Raise("UNEXPECTED_VALUE", 1, target)
    BY <2>1, <2>3, <1>0, IndexType DEF Raises, DecodeErrors
  <2>4. CASE Available(1) /\ Store(1, NextByte)
    BY <2>1, <2>4, IndexType, StoreTakes
  <2> QED
    BY <1>1, <2>2, <2>3, <2>4 DEF DecodeBool
<1>2. CASE DecodeInteger \/ DecodeEnum
  <2>1. pending # << >> /\ Type.kind \in {"int", "enum"}
    BY <1>2 DEF DecodeInteger, DecodeEnum, Serving, Doing, Type
  <2>2. Type.n \in Nat /\ 2 * Type.n < SizeMod
    BY <2>1, HeadType, TypesAssumption, SpansAssumption
  <2>3. Available(Type.n) => Type.n \in left
    BY <2>2, AvailableMeaning, IndexType
  <2>4. CASE Raise("NOT_ENOUGH_DATA", 0, target)
    BY <2>1, <2>4, <1>0, IndexType DEF Raises, DecodeErrors
  <2>5. CASE Available(Type.n) /\ Raise("INVALID_ENUM_VALUE", Type.n, target)
    BY <2>1, <2>3, <2>5, <1>0 DEF Raises, DecodeErrors
  <2>6. CASE /\ Available(Type.n)
             /\ Store(Type.n, LittleEndianValue(NextBytes(Type.n)))
    BY <2>1, <2>3, <2>6, StoreTakes
  <2> QED
    BY <1>2, <2>4, <2>5, <2>6 DEF DecodeInteger, DecodeEnum
<1>3. CASE DecodeBigFixedWidthInteger
  <2>1. pending # << >> /\ Type.kind = "big"
    BY <1>3 DEF DecodeBigFixedWidthInteger, Serving, Doing, Type
  <2>2. Type.n \in Nat /\ 2 * Type.n < SizeMod
    BY <2>1, HeadType, TypesAssumption, SpansAssumption
  <2>3. CASE Available(Type.n) /\ Store(Type.n, LittleEndianValue(NextBytes(Type.n)))
    BY <2>1, <2>2, <2>3, AvailableMeaning, IndexType, StoreTakes
  <2> DEFINE rest == Len(span) - current_index
  <2>4. CASE Raise("NOT_ENOUGH_DATA", rest,
                   Assign(target, Path, LittleEndianValue(NextBytes(rest))))
    <3>1. rest \in left
      BY IndexType
    <3> HIDE DEF rest
    <3> QED
      BY <2>1, <2>4, <3>1, <1>0 DEF Raises, DecodeErrors
  <2> QED
    BY <1>3, <2>3, <2>4 DEF DecodeBigFixedWidthInteger
<1>4. CASE DecodeCompact \/ DecodeBigCompact
  <2>1. pending # << >>
    BY <1>4 DEF DecodeCompact, DecodeBigCompact, Serving, Doing
  <2>2. PICK integer \in {DecodeCompactNative(span, current_index, Type.n),
                          DecodeCompactBig(span, current_index, Type.n)} :
          \/ integer.error = "none" /\ Store(integer.used, integer.value)
          \/ integer.error # "none" /\ Raise(integer.error, integer.used, target)
    BY <1>4 DEF DecodeCompact, DecodeBigCompact, StoreOrRaise
  <2>3. span \in ByteStrings /\ current_index \in 0..Len(span)
    BY DEF DecoderTypeOK
  <2>4. /\ integer.used \in Nat /\ current_index + integer.used <= Len(span)
        /\ integer.error \in DecodeErrors \union {"none"}
    BY <2>3, DecodeCompactType
  <2>5. integer.used \in left
    BY <2>4, IndexType
  <2>6. CASE integer.error = "none" /\ Store(integer.used, integer.value)
    BY <2>1, <2>5, <2>6, StoreTakes
  <2>7. CASE integer.error # "none" /\ Raise(integer.error, integer.used, target)
    BY <2>1, <2>4, <2>5, <2>7, <1>0 DEF Raises
  <2> QED
    BY <2>2, <2>6, <2>7
<1>5. CASE DecodeOptionalBool
  <2>1. pending # << >>
    BY <1>5 DEF DecodeOptionalBool, Serving, Doing
  <2>2. CASE Raise("NOT_ENOUGH_DATA", 0, target)
    BY <2>1, <2>2, <1>0, IndexType DEF Raises, DecodeErrors
  <2>3. CASE Available(1) /\ Raise("UNEXPECTED_VALUE", 1, target)
    BY <2>1, <2>3, <1>0, IndexType DEF Raises, DecodeErrors
  <2>4. CASE Available(1) /\ \E object : Take(1, object, << >>)
    BY <2>1, <2>4, IndexType, NoTasks DEF Takes
  <2> QED
    BY <1>5, <2>2, <2>3, <2>4 DEF DecodeOptionalBool
<1>6. CASE DecodeOptional
  <2>1. pending # << >> /\ Type.kind \in Wrappers
    BY <1>6 DEF DecodeOptional, Serving, Doing, Type, Wrappers
  <2>2. ReadChildren(1) \in Seq(Tasks)
    BY <2>1, ChildTasksType
  <2>3. CASE Raise("NOT_ENOUGH_DATA", 0, target)
    BY <2>1, <2>3, <1>0, IndexType DEF Raises, DecodeErrors
  <2>4. CASE Available(1) /\ Raise("UNEXPECTED_VALUE", 1, target)
    BY <2>1, <2>4, <1>0, IndexType DEF Raises, DecodeErrors
  <2>5. CASE Available(1) /\ \E object : \E tasks \in Seq(Tasks) : Take(1, object, tasks)
    BY <2>1, <2>5, IndexType DEF Takes
  <2> QED
    BY <1>6, <2>2, <2>3, <2>4, <2>5, NoTasks DEF DecodeOptional
<1>7. CASE DecodePointer
  <2>1. pending # << >> /\ Type.kind \in Wrappers
    BY <1>7 DEF DecodePointer, Serving, Doing, Type, Wrappers
  <2>2. ReadChildren(1) \in Seq(Tasks)
    BY <2>1, ChildTasksType
  <2> QED
    BY <1>7, <2>1, <2>2, IndexType DEF DecodePointer, Takes
<1>8. CASE DecodeProduct
  <2> DEFINE tasks ==
        [i \in DOMAIN Type.of |-> Task("read", Type.of[i], Path \o <<i>>)]
  <2>1. pending # << >> /\ Take(0, target, tasks)
    BY <1>8 DEF DecodeProduct, Serving, Doing
  <2>2. Type.of \in Seq(Types) /\ Path \in Seq(Nat)
    BY <2>1, HeadType, TypesAssumption
  <2>3. ASSUME NEW i \in DOMAIN Type.of
        PROVE  Task("read", Type.of[i], Path \o <<i>>) \in Tasks
    <3>1. Type.of[i] \in Types /\ Path \o <<i>> \in Seq(Nat)
      BY <2>2
    <3> QED
      BY <3>1, TaskType
  <2>4. tasks \in [1..Len(Type.of) -> Tasks] /\ Len(Type.of) \in Nat
    BY <2>2, <2>3
  <2>5. tasks \in Seq(Tasks)
    BY <2>4, FunctionIsSeq
  <2> HIDE DEF tasks
  <2> QED
    BY <2>1, <2>5, IndexType DEF Takes
<1>9. CASE DecodeStaticCollection
  <2>1. pending # << >> /\ Type.kind \in Wrappers
    BY <1>9 DEF DecodeStaticCollection, Serving, Doing, Type, Wrappers
  <2>2. Type.n \in Nat
    BY <2>1, HeadType, TypesAssumption
  <2>3. ReadChildren(Type.n) \in Seq(Tasks)
    BY <2>1, <2>2, ChildTasksType
  <2> QED
    BY <1>9, <2>1, <2>3, IndexType DEF DecodeStaticCollection, Takes
<1>10. CASE DecodeVariant \/ DecodeBoostVariant
  <2>1. pending # << >> /\ DecodeAlternative
    BY <1>10 DEF DecodeVariant, DecodeBoostVariant, Serving, Doing
  <2>2. CASE Raise("NOT_ENOUGH_DATA", 0, target)
    BY <2>1, <2>2, <1>0, IndexType DEF Raises, DecodeErrors
  <2>3. CASE Available(1) /\ Raise("WRONG_TYPE_INDEX", 1, target)
    BY <2>1, <2>3, <1>0, IndexType DEF Raises, DecodeErrors
  <2> DEFINE tasks == <<Task("read", Type.of[NextByte + 1], Path \o <<0>>),
                        Task("assign", Type, Path \o <<NextByte + 1>>)>>
  <2>4. CASE Available(1) /\ NextByte + 1 \in DOMAIN Type.of /\ Take(1, target, tasks)
    <3>1. Type \in Types /\ Type.of \in Seq(Types) /\ Path \in Seq(Nat)
      BY <2>1, HeadType, TypesAssumption
    <3>2. NextByte \in Nat
      BY <2>4, IndexType DEF Byte
    <3>3. /\ Type.of[NextByte + 1] \in Types
          /\ Path \o <<0>> \in Seq(Nat) /\ Path \o <<NextByte + 1>> \in Seq(Nat)
      BY <2>4, <3>1, <3>2
    <3>4. /\ Task("read", Type.of[NextByte + 1], Path \o <<0>>) \in Tasks
          /\ Task("assign", Type, Path \o <<NextByte + 1>>) \in Tasks
      BY <3>1, <3>3, TaskType
    <3>5. tasks \in Seq(Tasks)
      BY <3>4
    <3> HIDE DEF tasks
    <3> QED
      BY <2>1, <2>4, <3>5, IndexType DEF Takes
  <2> QED
    BY <2>1, <2>2, <2>3, <2>4 DEF DecodeAlternative
<1>11. CASE AssignVariant \/ AssignReference \/ EmplaceBack \/ LeaveRandomExtensible
  <2>1. pending # << >> /\ \E object : Take(0, object, << >>)
    BY <1>11 DEF AssignVariant, AssignReference, EmplaceBack, LeaveRandomExtensible, Doing
  <2> QED
    BY <2>1, IndexType, NoTasks DEF Takes
<1>12. CASE DecodeResizeable
  <2>1. pending # << >> /\ Type.kind \in Wrappers
    BY <1>12 DEF DecodeResizeable, Serving, Doing, Type, Wrappers
  <2>2. CASE Count.error # "none" /\ Raise(Count.error, Count.used, target)
    BY <2>1, <2>2, <1>0, CountType DEF Raises
  <2>3. CASE Raise("TOO_MANY_ITEMS", Count.used, target)
    BY <2>1, <2>3, <1>0, CountType DEF Raises, DecodeErrors
  <2>4. CASE /\ Count.value \in 0..Allocatable
             /\ \E object : Take(Count.used, object, ReadChildren(Count.value))
    <3>1. Count.value \in Nat
      BY <2>4
    <3>2. ReadChildren(Count.value) \in Seq(Tasks)
      BY <2>1, <3>1, ChildTasksType
    <3> QED
      BY <2>1, <2>4, <3>2, CountType DEF Takes
  <2> QED
    BY <1>12, <2>2, <2>3, <2>4 DEF DecodeResizeable
<1>13. CASE DecodeExtensible \/ DecodeRandomExtensible
  <2> DEFINE n == Count.value
             emplaced == [j \in 1..(2 * n) |->
                            IF j % 2 = 1
                            THEN Task("emplace_back", Type, Path \o <<(j + 1) \div 2>>)
                            ELSE Task("read", Of, Path \o <<j \div 2>>)]
             inserted == ReadsOfItem(n)
  <2>1. pending # << >> /\ Type.kind \in Wrappers
    BY <1>13 DEF DecodeExtensible, DecodeRandomExtensible, Serving, Doing, Type, Wrappers
  <2>2. CASE Count.error # "none" /\ Raise(Count.error, Count.used, target)
    BY <2>1, <2>2, <1>0, CountType DEF Raises
  <2>3. CASE \E object : Raise("TOO_MANY_ITEMS", Count.used, object)
    BY <2>1, <2>3, <1>0, CountType DEF Raises, DecodeErrors
  <2>4. CASE /\ Count.value \in 0..MaxSize
             /\ \E object : \/ Take(Count.used, object, emplaced)
                            \/ Take(Count.used, object, inserted)
    <3>1. n \in Nat /\ 2 * n \in Nat /\ 2 * n + 1 \in Nat
      BY <2>4, SizeAssumption
    <3>2. Type \in Types /\ Of \in Types /\ Path \in Seq(Nat)
      BY <2>1, HeadType, ChildTasksType
    <3> HIDE DEF n
    <3>3. ASSUME NEW j \in 1..(2 * n + 1)
          PROVE  /\ Task("emplace_back", Type, Path \o <<(j + 1) \div 2>>) \in Tasks
                 /\ Task("read", Of, Path \o <<j \div 2>>) \in Tasks
                 /\ Task("read", Of, Path \o <<0>>) \in Tasks
                 /\ Task("emplace", Type, Path \o <<0>>) \in Tasks
                 /\ Task("leave", Type, Path \o <<0>>) \in Tasks
      <4>1. (j + 1) \div 2 \in Nat /\ j \div 2 \in Nat
        BY <3>1
      <4>2. /\ Path \o <<(j + 1) \div 2>> \in Seq(Nat)
            /\ Path \o <<j \div 2>> \in Seq(Nat)
            /\ Path \o <<0>> \in Seq(Nat)
        BY <3>2, <4>1
      <4> QED
        BY <3>2, <4>2, TaskType
    <3>4. emplaced \in [1..(2 * n) -> Tasks] /\ inserted \in [1..(2 * n + 1) -> Tasks]
      <4>1. 1..(2 * n) \subseteq 1..(2 * n + 1)
        BY <3>1
      <4> QED
        BY <3>3, <4>1 DEF ReadsOfItem
    <3>5. emplaced \in Seq(Tasks) /\ inserted \in Seq(Tasks)
      BY <3>1, <3>4, FunctionIsSeq
    <3> HIDE DEF emplaced, inserted
    <3> QED
      BY <2>1, <2>4, <3>5, CountType DEF Takes
  <2>5. Allocatable <= MaxSize /\ Allocatable \in Nat
    BY SizeAssumption
  <2>6. Count.value \in 0..Allocatable => Count.value \in 0..MaxSize
    BY <2>5, SizeAssumption
  <2> HIDE DEF emplaced, inserted
  <2>7. CASE DecodeExtensible
    BY <2>2, <2>3, <2>4, <2>6, <2>7 DEF DecodeExtensible, emplaced
  <2>8. CASE DecodeRandomExtensible
    BY <2>2, <2>3, <2>4, <2>8 DEF DecodeRandomExtensible, inserted
  <2> QED
    BY <1>13, <2>7, <2>8
<1>14. CASE Emplace
  <2>1. pending # << >>
    BY <1>14 DEF Emplace, Doing
  <2>2. CASE Raise("TOO_MANY_ITEMS", 0, target)
    BY <2>1, <2>2, <1>0, IndexType DEF Raises, DecodeErrors
  <2>3. CASE \E object : Take(0, object, << >>)
    BY <2>1, <2>3, IndexType, NoTasks DEF Takes
  <2> QED
    BY <1>14, <2>2, <2>3 DEF Emplace
<1>15. CASE DecodeBitVec
  <2> DEFINE bytes == BytesForBits(Count.value)
             covered == HasMore(span, current_index + Count.used, bytes)
  <2>1. pending # << >>
    BY <1>15 DEF DecodeBitVec, Serving, Doing
  <2>2. CASE Count.error # "none" /\ Raise(Count.error, Count.used, target)
    BY <2>1, <2>2, <1>0, CountType DEF Raises
  <2>3. CASE \/ Raise("NOT_ENOUGH_DATA", Count.used, target)
             \/ Raise("length_error", Count.used, target)
    BY <2>1, <2>3, <1>0, CountType DEF Raises, DecodeErrors
  <2>4. CASE /\ covered /\ Count.value \in 0..MaxBitVecSize
             /\ \E object : Take(Count.used + bytes, object, << >>)
    <3>1. SizeMod \in Nat /\ 2 < SizeMod /\ Count.value \in Nat
      BY <2>4, SpansAssumption, IndexType
    <3>2. bytes \in Nat /\ 2 * bytes < SizeMod
      <4> DEFINE rounded == (Count.value + ByteBits - 1) % SizeMod
      <4>1. rounded \in 0..(SizeMod - 1)
        BY <3>1, ByteAssumption
      <4>2. bytes = rounded \div ByteBits
        BY DEF BytesForBits
      <4> HIDE DEF rounded
      <4> QED
        BY <3>1, <4>1, <4>2, ByteAssumption
    <3>3. /\ Count.used \in 0..(Len(span) - current_index)
          /\ span \in ByteStrings /\ current_index + Count.used \in 0..Len(span)
      BY CountType, IndexType DEF DecoderTypeOK
    <3> HIDE DEF bytes
    <3>4. current_index + Count.used + bytes <= Len(span)
      BY <2>4, <3>2, <3>3, HasMoreMeaning
    <3>5. Count.used + bytes \in left
      BY <3>2, <3>3, <3>4, IndexType
    <3> QED
      BY <2>1, <2>4, <3>5, NoTasks DEF Takes
  <2> QED
    BY <1>15, <2>2, <2>3, <2>4 DEF DecodeBitVec
<1>16. CASE DecodeCompactReflection
  <2> DEFINE tasks == <<Task("read", Of, Path \o <<0>>),
                        Task("assign_ref", Type, Path \o <<0>>)>>
  <2>1. pending # << >> /\ Type.kind \in Wrappers /\ Take(0, target, tasks)
    BY <1>16 DEF DecodeCompactReflection, Serving, Doing, Type, Wrappers
  <2>2. Type \in Types /\ Of \in Types /\ Path \in Seq(Nat)
    BY <2>1, HeadType, ChildTasksType
  <2>3. Path \o <<0>> \in Seq(Nat)
    BY <2>2
  <2>4. /\ Task("read", Of, Path \o <<0>>) \in Tasks
        /\ Task("assign_ref", Type, Path \o <<0>>) \in Tasks
    BY <2>2, <2>3, TaskType
  <2>5. tasks \in Seq(Tasks)
    BY <2>4
  <2> HIDE DEF tasks
  <2> QED
    BY <2>1, <2>5, IndexType DEF Takes
<1> QED
  BY <1>1, <1>2, <1>3, <1>4, <1>5, <1>6, <1>7, <1>8, <1>9, <1>10, <1>11,
     <1>12, <1>13, <1>14, <1>15, <1>16 DEF Operator

LEMMA InitTypeOK ==
  ASSUME Init
  PROVE  DecoderTypeOK
<1>1. 0 \in 0..Len(span)
  BY SpansAssumption DEF Init, ByteStrings
<1> QED
  BY <1>1, SpansAssumption DEF Init, DecoderTypeOK, Outcomes

LEMMA NextKeepsTypeOK ==
  ASSUME DecoderTypeOK, [Next]_vars
  PROVE  DecoderTypeOK'
<1>1. ASSUME NEW bytes \in 0..(Len(span) - current_index)
      PROVE  current_index + bytes \in 0..Len(span)
  BY <1>1, IndexType
<1>2. ASSUME pending # << >>, Takes
      PROVE  DecoderTypeOK'
  <2>1. PICK object :
          \E bytes \in 0..(Len(span) - current_index), tasks \in Seq(Tasks) :
            Take(bytes, object, tasks)
    BY <1>2 DEF Takes
  <2>2. PICK bytes \in 0..(Len(span) - current_index), tasks \in Seq(Tasks) :
          Take(bytes, object, tasks)
    BY <2>1
  <2>3. Tail(pending) \in Seq(Tasks)
    BY <1>2, HeadType
  <2>4. pending' \in Seq(Tasks)
    BY <2>2, <2>3 DEF Take
  <2> QED
    BY <1>1, <2>2, <2>4 DEF Take, DecoderTypeOK
<1>3. ASSUME Raises
      PROVE  DecoderTypeOK'
  BY <1>1, <1>3, NoTasks DEF Raises, Raise, DecoderTypeOK
<1>4. CASE Operator
  BY <1>2, <1>3, <1>4, TakesOrRaises
<1>5. CASE Call
  <2>1. type \in Types
    BY RequestsAssumption DEF DecoderTypeOK
  <2>2. Task("read", type, << >>) \in Tasks
    BY <2>1, NoTasks, TaskType
  <2>3. pending' \in Seq(Tasks)
    BY <1>5, <2>2 DEF Call
  <2> QED
    BY <1>5, <2>3 DEF Call, DecoderTypeOK, Outcomes
<1>6. CASE UNCHANGED vars
  BY <1>6 DEF vars, DecoderTypeOK
<1> QED
  BY <1>4, <1>5, <1>6 DEF Next

\* Whatever is in the span, no operator reads behind its end: the index stays
\* within the span, in the middle of calls and after any number of failed ones.
THEOREM TypeCorrect == Spec => []DecoderTypeOK
<1>1. Init => DecoderTypeOK
  BY InitTypeOK
<1>2. DecoderTypeOK /\ [Next]_vars => DecoderTypeOK'
  BY NextKeepsTypeOK
<1> QED
  BY <1>1, <1>2, PTL DEF Spec

\* What hasMore(n) tells a client, who may ask for any n that a size_t can
\* hold: whether n more bytes are there, until the sum with the index wraps;
\* from then on, that they are, which they never are.
HasMoreUntilWrap ==
  /\ \A n \in 0..(SizeMod - 1) :
       current_index + n < SizeMod => (Available(n) <=> current_index + n <= Len(span))
  /\ \A n \in 0..(SizeMod - 1) :
       current_index + n >= SizeMod => Available(n) /\ current_index + n > Len(span)

\* In any state of the stream, between calls and within them.
THEOREM HasMoreAnswers == Spec => []HasMoreUntilWrap
<1>1. DecoderTypeOK => HasMoreUntilWrap
  <2> SUFFICES ASSUME DecoderTypeOK, NEW n \in 0..(SizeMod - 1)
               PROVE  /\ current_index + n < SizeMod =>
                           (Available(n) <=> current_index + n <= Len(span))
                      /\ current_index + n >= SizeMod =>
                           Available(n) /\ current_index + n > Len(span)
    BY DEF HasMoreUntilWrap
  <2>1. span \in Seq(Byte) /\ 2 * Len(span) < SizeMod /\ SizeMod \in Nat
    BY SpansAssumption DEF DecoderTypeOK, ByteStrings
  <2>2. Len(span) \in Nat /\ current_index \in 0..Len(span) /\ n \in Nat /\ n < SizeMod
    BY <2>1 DEF DecoderTypeOK
  <2>3. CASE current_index + n < SizeMod
    <3>1. (current_index + n) % SizeMod = current_index + n
      BY <2>1, <2>2, <2>3
    <3> QED
      BY <2>1, <2>2, <2>3, <3>1 DEF Available, HasMore
  <2>4. CASE current_index + n >= SizeMod
    <3>1. (current_index + n) % SizeMod = current_index + n - SizeMod
      BY <2>1, <2>2, <2>4
    <3> QED
      BY <2>1, <2>2, <2>4, <3>1 DEF Available, HasMore
  <2> QED
    BY <2>1, <2>2, <2>3, <2>4
<1> QED
  BY <1>1, TypeCorrect, PTL

-----------------------------------------------------------------------------
(* Paths.                                                                  *)

\* One path is a prefix of another when they agree as far as it goes.
LEMMA PrefixMeaning ==
  ASSUME NEW p \in Seq(Nat), NEW q \in Seq(Nat)
  PROVE  IsPrefix(p, q) <=> Len(p) <= Len(q) /\ \A i \in 1..Len(p) : p[i] = q[i]
<1>1. /\ Len(p) \in Nat /\ Len(q) \in Nat
      /\ SubSeq(p, 1, Len(p)) = p
  BY SubSeqFull
<1>2. ASSUME Len(p) <= Len(q)
      PROVE  /\ SubSeq(q, 1, Len(p)) \in Seq(Nat)
             /\ Len(SubSeq(q, 1, Len(p))) = Len(p)
             /\ \A i \in 1..Len(p) : SubSeq(q, 1, Len(p))[i] = q[i]
  BY <1>1, <1>2
<1>3. ASSUME Len(p) <= Len(q), \A i \in 1..Len(p) : p[i] = q[i]
      PROVE  p = SubSeq(q, 1, Len(p))
  <2> DEFINE r == SubSeq(q, 1, Len(p))
  <2>1. r \in Seq(Nat) /\ Len(r) = Len(p) /\ \A i \in 1..Len(p) : p[i] = r[i]
    BY <1>2, <1>3
  <2> HIDE DEF r
  <2>2. p = r
    BY <2>1, SeqEqual
  <2> QED
    BY <2>2 DEF r
<1> QED
  BY <1>1, <1>2, <1>3 DEF IsPrefix

LEMMA PrefixTransitive ==
  ASSUME NEW p \in Seq(Nat), NEW q \in Seq(Nat), NEW r \in Seq(Nat),
         IsPrefix(p, q), IsPrefix(q, r)
  PROVE  IsPrefix(p, r)
<1>1. /\ Len(p) <= Len(q) /\ \A i \in 1..Len(p) : p[i] = q[i]
      /\ Len(q) <= Len(r) /\ \A i \in 1..Len(q) : q[i] = r[i]
  BY PrefixMeaning
<1>2. Len(p) \in Nat /\ Len(q) \in Nat /\ Len(r) \in Nat
  OBVIOUS
<1>3. Len(p) <= Len(r) /\ \A i \in 1..Len(p) : p[i] = r[i]
  BY <1>1, <1>2
<1> QED
  BY <1>3, PrefixMeaning

LEMMA PrefixOfItself ==
  ASSUME NEW p \in Seq(Nat)
  PROVE  IsPrefix(p, p)
BY PrefixMeaning

LEMMA PrefixOfConcat ==
  ASSUME NEW p \in Seq(Nat), NEW t \in Seq(Nat)
  PROVE  p \o t \in Seq(Nat) /\ IsPrefix(p, p \o t)
<1>1. p \o t \in Seq(Nat) /\ Len(p) <= Len(p \o t)
  OBVIOUS
<1>2. \A i \in 1..Len(p) : p[i] = (p \o t)[i]
  OBVIOUS
<1> QED
  BY <1>1, <1>2, PrefixMeaning

\* The path of a child or of a local, and the object it belongs to.
LEMMA ChildPath ==
  ASSUME NEW p \in Seq(Nat), NEW i \in Nat
  PROVE  /\ p \o <<i>> \in Seq(Nat) /\ p \o <<i>> # << >>
         /\ IsPrefix(p, p \o <<i>>)
         /\ Front(p \o <<i>>) = p /\ Last(p \o <<i>>) = i
         /\ i \in ToSet(p \o <<i>>)
<1> DEFINE c == p \o <<i>>
<1>1. <<i>> \in Seq(Nat) /\ Len(<<i>>) = 1 /\ Len(p) \in Nat
  OBVIOUS
<1>2. /\ c \in Seq(Nat) /\ Len(c) = Len(p) + 1
      /\ c[Len(p) + 1] = i /\ \A j \in 1..Len(p) : c[j] = p[j]
  BY <1>1
<1>3. IsPrefix(p, c)
  BY <1>1, PrefixOfConcat
<1>4. Last(c) = i /\ i \in ToSet(c) /\ c # << >>
  <2>1. Len(p) + 1 \in DOMAIN c /\ c[Len(c)] = i /\ Len(c) # 0
    BY <1>1, <1>2
  <2> HIDE DEF c
  <2> QED
    BY <1>2, <2>1, EmptySeq DEF Last, ToSet
<1>5. Front(c) = p
  <2>1. IsPrefix(p, c) <=> Len(p) <= Len(c) /\ SubSeq(p, 1, Len(p)) = SubSeq(c, 1, Len(p))
    BY DEF IsPrefix
  <2>2. SubSeq(c, 1, Len(p)) = p
    BY <1>3, <2>1, SubSeqFull
  <2>3. Len(c) - 1 = Len(p)
    BY <1>1, <1>2
  <2> HIDE DEF c
  <2> QED
    BY <2>2, <2>3 DEF Front
<1> QED
  BY <1>2, <1>3, <1>4, <1>5

\* The object whose child or local a path leads to.
LEMMA ParentPath ==
  ASSUME NEW p \in Seq(Nat), p # << >>
  PROVE  /\ Front(p) \in Seq(Nat) /\ IsPrefix(Front(p), p)
         /\ Last(p) \in Nat
         /\ p = Front(p) \o <<Last(p)>>
<1> DEFINE n == Len(p)
<1>1. n \in Nat \ {0}
  BY EmptySeq
<1>2. SubSeq(p, 1, n - 1) \in Seq(Nat) /\ p[n] \in Nat
  BY <1>1
<1>3. SubSeq(p, 1, n) = SubSeq(p, 1, n - 1) \o <<p[n]>>
  BY <1>1, SubSeqRecursiveSecond
<1>4. SubSeq(p, 1, n) = p
  BY SubSeqFull
<1>5. Front(p) \in Seq(Nat) /\ Last(p) \in Nat /\ p = Front(p) \o <<Last(p)>>
  BY <1>2, <1>3, <1>4 DEF Front, Last
<1> QED
  BY <1>5, ChildPath

\* What is below a local is known by the 0 in its path.
LEMMA LocalBelow ==
  ASSUME NEW p \in Seq(Nat), NEW q \in Seq(Nat), IsPrefix(p, q), 0 \in ToSet(p)
  PROVE  0 \in ToSet(q)
<1>1. PICK i \in 1..Len(p) : p[i] = 0
  BY DEF ToSet
<1>2. Len(p) <= Len(q) /\ p[i] = q[i]
  BY <1>1, PrefixMeaning
<1>3. i \in 1..Len(q)
  BY <1>1, <1>2
<1> QED
  BY <1>1, <1>2, <1>3 DEF ToSet

\* What is below a path, moved below another.
LEMMA SuffixMeaning ==
  ASSUME NEW p \in Seq(Nat), NEW q \in Seq(Nat), IsPrefix(p, q)
  PROVE  /\ SubSeq(q, Len(p) + 1, Len(q)) \in Seq(Nat)
         /\ q = p \o SubSeq(q, Len(p) + 1, Len(q))
<1>1. Len(p) <= Len(q) /\ Len(p) \in Nat /\ Len(q) \in Nat
      /\ SubSeq(p, 1, Len(p)) = SubSeq(q, 1, Len(p))
  BY DEF IsPrefix
<1>2. SubSeq(p, 1, Len(p)) = p /\ SubSeq(q, 1, Len(q)) = q
  BY SubSeqFull
<1>3. 1 \in 1..(Len(q) + 1) /\ Len(p) \in (1 - 1)..Len(q) /\ Len(q) \in Len(p)..Len(q)
  BY <1>1
<1>4. SubSeq(q, 1, Len(p)) \o SubSeq(q, Len(p) + 1, Len(q)) = SubSeq(q, 1, Len(q))
  BY <1>3, ConcatAdjacentSubSeq, Zenon
<1>5. SubSeq(q, Len(p) + 1, Len(q)) \in Seq(Nat)
  BY <1>1
<1> QED
  BY <1>1, <1>2, <1>4, <1>5, Zenon

LEMMA SuffixOfConcat ==
  ASSUME NEW p \in Seq(Nat), NEW t \in Seq(Nat)
  PROVE  SubSeq(p \o t, Len(p) + 1, Len(p \o t)) = t
<1> DEFINE q == p \o t
           s == SubSeq(q, Len(p) + 1, Len(q))
<1>1. q \in Seq(Nat) /\ IsPrefix(p, q)
  BY PrefixOfConcat
<1>2. s \in Seq(Nat) /\ q = p \o s
  BY <1>1, SuffixMeaning, Zenon
<1> HIDE DEF s
<1>3. s = t
  BY <1>2, ConcatSimplifications
<1> QED
  BY <1>3 DEF s

-----------------------------------------------------------------------------
(* Objects.                                                                *)

\* What becomes of an object when only its sub-object at p and locals are
\* written.
Changes(before, after, p) ==
  \A q \in Seq(Nat) : \/ At(after, q) = At(before, q)
                      \/ IsPrefix(p, q)
                      \/ 0 \in ToSet(q)

\* An operator with its argument at p makes of one object another.
Writes(before, after, p) == IsObject(after) /\ Changes(before, after, p)

LEMMA ValueType ==
  ASSUME NEW object, IsObject(object), NEW p
  PROVE  At(object, p) \in Nat
BY DEF IsObject, At

LEMMA WritesNothing ==
  ASSUME NEW object, IsObject(object), NEW p
  PROVE  Writes(object, object, p)
BY DEF Writes, Changes

LEMMA WritesTwice ==
  ASSUME NEW a, NEW b, NEW c, NEW p, Writes(a, b, p), Writes(b, c, p)
  PROVE  Writes(a, c, p)
BY DEF Writes, Changes

\* What is written below a sub-object is written below the object.
LEMMA WritesBelow ==
  ASSUME NEW p \in Seq(Nat), NEW r \in Seq(Nat), IsPrefix(p, r),
         NEW a, NEW b, Writes(a, b, r)
  PROVE  Writes(a, b, p)
<1>1. \A q \in Seq(Nat) : IsPrefix(r, q) => IsPrefix(p, q)
  BY PrefixTransitive
<1> QED
  BY <1>1 DEF Writes, Changes

\* What is written below a local is written below any object.
LEMMA WritesLocal ==
  ASSUME NEW r \in Seq(Nat), 0 \in ToSet(r), NEW a, NEW b, Writes(a, b, r), NEW p
  PROVE  Writes(a, b, p)
<1>1. \A q \in Seq(Nat) : IsPrefix(r, q) => 0 \in ToSet(q)
  BY LocalBelow
<1> QED
  BY <1>1 DEF Writes, Changes

LEMMA AssignWrites ==
  ASSUME NEW object, IsObject(object), NEW p \in Seq(Nat), NEW v \in Nat
  PROVE  Writes(object, Assign(object, p, v), p)
<1> DEFINE after == Assign(object, p, v)
<1>1. IsObject(after)
  BY DEF IsObject, Assign
<1>2. \A q : q # p => At(after, q) = At(object, q)
  BY DEF At, Assign
<1>3. IsPrefix(p, p)
  BY PrefixOfItself
<1> QED
  BY <1>1, <1>2, <1>3 DEF Writes, Changes

\* What is left of an object when some of what is below p, and locals, go.
LEMMA RestrictWrites ==
  ASSUME NEW object, IsObject(object), NEW p, NEW S \in SUBSET DOMAIN object,
         \A q \in DOMAIN object : q \notin S => IsPrefix(p, q) \/ 0 \in ToSet(q)
  PROVE  Writes(object, [q \in S |-> object[q]], p)
<1> DEFINE after == [q \in S |-> object[q]]
<1>1. IsObject(after)
  BY DEF IsObject
<1>2. ASSUME NEW q \in Seq(Nat), ~(IsPrefix(p, q) \/ 0 \in ToSet(q))
      PROVE  At(after, q) = At(object, q)
  BY <1>2 DEF At
<1> QED
  BY <1>1, <1>2 DEF Writes, Changes

LEMMA ClearWrites ==
  ASSUME NEW object, IsObject(object), NEW p
  PROVE  Writes(object, Clear(object, p), p)
<1> DEFINE S == {q \in DOMAIN object : ~IsPrefix(p, q)}
<1>1. Clear(object, p) = [q \in S |-> object[q]]
  BY DEF Clear, Without
<1> QED
  BY <1>1, RestrictWrites

LEMMA MovedOutWrites ==
  ASSUME NEW object, IsObject(object), NEW p, NEW stays
  PROVE  Writes(object, MovedOut(object, p, stays), p)
<1> DEFINE S == {q \in DOMAIN object :
                   ~(IsPrefix(p, q) /\ SubSeq(q, Len(p) + 1, Len(q)) \notin stays)}
<1>1. MovedOut(object, p, stays) = [q \in S |-> object[q]]
  BY DEF MovedOut, Without
<1> QED
  BY <1>1, RestrictWrites

LEMMA TruncateWrites ==
  ASSUME NEW object, IsObject(object), NEW p, NEW n
  PROVE  Writes(object, Truncate(object, p, n), p)
<1> DEFINE S == {q \in DOMAIN object : ~(IsStrictPrefix(p, q) /\ q[Len(p) + 1] > n)}
<1>1. Truncate(object, p, n) = [q \in S |-> object[q]]
  BY DEF Truncate, Without
<1>2. \A q \in DOMAIN object : q \notin S => IsPrefix(p, q)
  BY DEF IsStrictPrefix
<1> HIDE DEF S
<1>3. S \in SUBSET DOMAIN object
  BY DEF S
<1> QED
  BY <1>1, <1>2, <1>3, RestrictWrites

LEMMA UnwoundWrites ==
  ASSUME NEW object, IsObject(object), NEW p
  PROVE  Writes(object, Unwound(object), p)
<1> DEFINE S == {q \in DOMAIN object : ~(0 \in ToSet(q))}
<1>1. Unwound(object) = [q \in S |-> object[q]]
  BY DEF Unwound, Without
<1> QED
  BY <1>1, RestrictWrites

\* A local at source is moved over what is at destination.
LEMMA MoveWrites ==
  ASSUME NEW object, IsObject(object), NEW source \in Seq(Nat), 0 \in ToSet(source),
         NEW destination \in Seq(Nat), NEW stays
  PROVE  Writes(object, Move(object, source, destination, stays), destination)
<1> DEFINE Suffix(q, p) == SubSeq(q, Len(p) + 1, Len(q))
           kept == {q \in DOMAIN object :
                      /\ ~(IsPrefix(source, q) /\ Suffix(q, source) \notin stays)
                      /\ ~IsPrefix(destination, q)}
           moved == {destination \o Suffix(q, source) :
                       q \in {r \in DOMAIN object : IsPrefix(source, r)}}
           after == Move(object, source, destination, stays)
<1>1. after = [q \in kept \union moved |->
                 IF q \in moved THEN object[source \o Suffix(q, destination)]
                                ELSE object[q]]
  <2>1. DOMAIN MovedOut(object, source, stays) =
          {q \in DOMAIN object : ~(IsPrefix(source, q) /\ Suffix(q, source) \notin stays)}
    BY DEF MovedOut, Without
  <2>2. kept = {q \in DOMAIN MovedOut(object, source, stays) : ~IsPrefix(destination, q)}
    BY <2>1
  <2> HIDE DEF kept
  <2> QED
    BY <2>2 DEF Move
<1>2. ASSUME NEW q \in moved
      PROVE  /\ q \in Seq(Nat) /\ IsPrefix(destination, q)
             /\ source \o Suffix(q, destination) \in DOMAIN object
  <2>1. PICK r \in DOMAIN object : /\ IsPrefix(source, r)
                                   /\ q = destination \o Suffix(r, source)
    OBVIOUS
  <2>2. r \in Seq(Nat)
    BY DEF IsObject
  <2> DEFINE t == Suffix(r, source)
  <2>3. t \in Seq(Nat) /\ r = source \o t
    BY <2>1, <2>2, SuffixMeaning, Zenon
  <2> HIDE DEF t
  <2>4. q = destination \o t
    BY <2>1 DEF t
  <2>5. q \in Seq(Nat) /\ IsPrefix(destination, q)
    BY <2>3, <2>4, PrefixOfConcat
  <2>6. Suffix(q, destination) = t
    BY <2>3, <2>4, SuffixOfConcat
  <2> QED
    BY <2>1, <2>3, <2>5, <2>6
<1> HIDE DEF moved
<1>3. IsObject(after)
  <2>1. DOMAIN after = kept \union moved
    BY <1>1
  <2>2. DOMAIN after \subseteq Seq(Nat)
    BY <1>2, <2>1 DEF IsObject
  <2>3. ASSUME NEW q \in DOMAIN after
        PROVE  after[q] \in Nat \ {0}
    <3>1. CASE q \in moved
      BY <1>1, <1>2, <2>1, <3>1 DEF IsObject
    <3>2. CASE q \notin moved
      BY <1>1, <2>1, <3>2 DEF IsObject
    <3> QED
      BY <3>1, <3>2
  <2>4. after = [q \in DOMAIN after |-> after[q]]
    BY <1>1
  <2> HIDE DEF after
  <2>5. after \in [DOMAIN after -> Nat \ {0}]
    BY <2>3, <2>4
  <2> QED
    BY <2>2, <2>5 DEF IsObject
<1>4. ASSUME NEW q \in Seq(Nat), ~IsPrefix(destination, q), 0 \notin ToSet(q)
      PROVE  At(after, q) = At(object, q)
  <2>1. ~IsPrefix(source, q)
    BY <1>4, LocalBelow
  <2>2. q \notin moved
    BY <1>2, <1>4
  <2> QED
    BY <1>1, <1>4, <2>1, <2>2 DEF At
<1> HIDE DEF after
<1>5. Changes(object, after, destination)
  BY <1>4 DEF Changes
<1> QED
  BY <1>3, <1>5 DEF Writes, after

-----------------------------------------------------------------------------
(* What the operators write.                                               *)

\* The tasks that finish what an operator has begun are those of a child or a
\* local: it is an alternative that is assigned, and a local that is emplaced.
TaskOK(task) ==
  /\ task.do # "read" => task.path # << >>
  /\ task.do = "assign" => Last(task.path) # 0
  /\ task.do \in {"emplace", "leave"} => Last(task.path) = 0

\* Until an alternative is assigned, all that is done is done to its local.
LocalsFirst(tasks) ==
  \A i, j \in DOMAIN tasks :
    i < j /\ tasks[j].do = "assign" =>
      IsPrefix(Front(tasks[j].path) \o <<0>>, Argument(tasks[i]))

IInv ==
  /\ DecoderTypeOK
  /\ IsObject(target)
  /\ \A i \in DOMAIN pending : TaskOK(pending[i])
  /\ LocalsFirst(pending)

\* The object that the next operator serves.
LEMMA HeadArgument ==
  ASSUME IInv, pending # << >>
  PROVE  /\ Argument(Head(pending)) \in Seq(Nat)
         /\ Doing("read") => Argument(Head(pending)) = Path
         /\ ~Doing("read") =>
              /\ Argument(Head(pending)) = Front(Path)
              /\ Path = Front(Path) \o <<Last(Path)>>
              /\ IsPrefix(Front(Path), Path)
              /\ Last(Path) \in Nat
         /\ Doing("assign") => Last(Path) # 0
         /\ Doing("emplace") \/ Doing("leave") => Last(Path) = 0
<1>1. Path \in Seq(Nat)
  BY HeadType DEF IInv
<1>2. /\ Head(pending).do # "read" => Path # << >>
      /\ Head(pending).do = "assign" => Last(Path) # 0
      /\ Head(pending).do \in {"emplace", "leave"} => Last(Path) = 0
  <2>1. 1 \in DOMAIN pending /\ pending[1] = Head(pending)
    BY EmptySeq DEF IInv, DecoderTypeOK
  <2> QED
    BY <2>1 DEF IInv, TaskOK, Path
<1>3. /\ Doing("read") => Argument(Head(pending)) = Path
      /\ ~Doing("read") => Argument(Head(pending)) = Front(Path) /\ Path # << >>
      /\ Doing("assign") => Last(Path) # 0
      /\ Doing("emplace") \/ Doing("leave") => Last(Path) = 0
  BY <1>2 DEF Doing, Argument, Path
<1> QED
  BY <1>1, <1>3, ParentPath

\* Bytes from within the span make a number.
LEMMA NumberType ==
  ASSUME DecoderTypeOK, NEW n \in Nat, current_index + n <= Len(span)
  PROVE  LittleEndianValue(NextBytes(n)) \in Nat
<1>1. span \in Seq(Byte) /\ Len(span) \in Nat /\ current_index \in Nat
  BY IndexType
<1>2. NextBytes(n) \in Seq(Byte) /\ 0 \in 0..Len(NextBytes(n))
  BY <1>1 DEF NextBytes
<1> QED
  BY <1>2, SuffixValueType DEF LittleEndianValue

LEMMA CompactNumberType ==
  ASSUME DecoderTypeOK, NEW width \in Nat,
         NEW integer \in {DecodeCompactNative(span, current_index, width),
                          DecodeCompactBig(span, current_index, width)},
         integer.error = "none"
  PROVE  integer.value \in Nat
<1> DEFINE read == ReadCompact(span, current_index)
           width_ == ByteBits * width
<1>1. PICK error, used, value : read = ReadResult(error, used, value)
  BY ReadCompactType DEF DecoderTypeOK
<1>2. \/ integer = read
      \/ /\ BitWidth(value) > width_
         /\ read.error = "none" /\ integer.value = value % 2^width_
  BY <1>1 DEF DecodeCompactNative, DecodeCompactBig, ReadResult
<1>3. read.error = "none"
  BY <1>2
<1>4. read.value \in Nat /\ value = read.value
  <2>1. span \in Seq(Byte) /\ current_index \in 0..Len(span)
    BY IndexType DEF DecoderTypeOK
  <2>2. SizeMod \in Nat /\ 2 * MaxBigBytes < SizeMod /\ 2 * Len(span) < SizeMod
    BY SpansAssumption DEF DecoderTypeOK, ByteStrings
  <2>3. MaxBigBytes \in Nat
    BY LimitsType DEF MaxBigBytes
  <2>4. Len(span) + MaxBigBytes < SizeMod
    BY <2>1, <2>2, <2>3
  <2> QED
    BY <1>1, <1>3, <2>1, <2>4, ReadType DEF ReadResult
<1>5. CASE integer = read
  BY <1>4, <1>5
<1>6. CASE BitWidth(value) > width_ /\ integer.value = value % 2^width_
  <2>1. BitWidth(value) \in 0..MaxBits
    BY <1>4, BitWidthType
  <2>2. width_ \in Nat
    BY ByteAssumption
  <2>3. width_ < MaxBits
    BY <1>6, <2>1, <2>2, MaxBitsAssumption
  <2>4. 2^width_ \in Nat \ {0}
    BY <2>2, <2>3, PowerType
  <2> HIDE DEF width_
  <2> DEFINE m == 2^width_
  <2>5. m \in Nat \ {0} /\ integer.value = value % m /\ value \in Nat
    BY <1>4, <1>6, <2>4
  <2> HIDE DEF m
  <2> QED
    BY <2>5
<1> QED
  BY <1>2, <1>5, <1>6

LEMMA StoreWrites ==
  ASSUME IInv, Doing("read"), NEW bytes, NEW v \in Nat, Store(bytes, v)
  PROVE  Writes(target, target', Argument(Head(pending)))
<1>1. /\ IsObject(target) /\ Path \in Seq(Nat)
      /\ target' = Assign(target, Path, v)
      /\ Argument(Head(pending)) = Path
  BY HeadType, HeadArgument DEF IInv, Store, Take, Doing
<1> QED
  BY <1>1, AssignWrites

LEMMA RaiseWrites ==
  ASSUME NEW object, NEW p, Writes(target, object, p),
         NEW error, NEW bytes, Raise(error, bytes, object)
  PROVE  Writes(target, target', p)
<1>1. Writes(object, Unwound(object), p)
  BY UnwoundWrites DEF Writes
<1> QED
  BY <1>1, WritesTwice DEF Raise

\* A bit vector is written as a whole.
LEMMA WithBitsWrites ==
  ASSUME NEW object, IsObject(object), NEW p \in Seq(Nat), NEW size \in Nat, NEW bytes
  PROVE  Writes(object, WithBits(object, p, size, bytes), p)
<1> DEFINE set == {i \in 1..size : BitOf(bytes[((i - 1) \div ByteBits) + 1],
                                         (i - 1) % ByteBits) = 1}
           kept == Clear(object, p)
           bits == {p \o <<i>> : i \in set}
           filled == [q \in DOMAIN kept \union bits |->
                        IF IsPrefix(p, q) THEN 1 ELSE kept[q]]
<1>1. WithBits(object, p, size, bytes) = Assign(filled, p, size)
  BY DEF WithBits
<1>2. Writes(object, kept, p)
  BY ClearWrites
<1>3. set \subseteq Nat
  OBVIOUS
<1> HIDE DEF set, kept
<1>4. \A q \in bits : q \in Seq(Nat) /\ IsPrefix(p, q)
  BY <1>3, ChildPath
<1> HIDE DEF bits
<1>5. IsObject(filled)
  BY <1>2, <1>4 DEF IsObject, Writes
<1>6. ASSUME NEW q \in Seq(Nat), ~IsPrefix(p, q)
      PROVE  At(filled, q) = At(kept, q)
  BY <1>4, <1>6 DEF At
<1>7. Writes(kept, filled, p)
  BY <1>5, <1>6 DEF Writes, Changes
<1> HIDE DEF filled
<1>8. Writes(filled, Assign(filled, p, size), p)
  BY <1>7, AssignWrites DEF Writes
<1> QED
  BY <1>1, <1>2, <1>7, <1>8, WritesTwice

\* An operator writes the object it serves, and locals.
LEMMA OperatorWrites ==
  ASSUME IInv, Operator
  PROVE  Writes(target, target', Argument(Head(pending)))
<1> DEFINE p == Argument(Head(pending))
<1>1. pending # << >>
  BY TakesOrRaises DEF IInv
<1>2. /\ DecoderTypeOK /\ IsObject(target)
      /\ p \in Seq(Nat) /\ Path \in Seq(Nat) /\ Type \in Types
      /\ Writes(target, target, p)
  BY <1>1, HeadArgument, HeadType, WritesNothing DEF IInv
<1>3. ASSUME Doing("read")
      PROVE  p = Path
  BY <1>1, <1>3, HeadArgument
<1> HIDE DEF p
<1> SUFFICES Writes(target, target', p)
  BY DEF p
<1>4. ASSUME NEW error, NEW bytes, Raise(error, bytes, target)
      PROVE  Writes(target, target', p)
  BY <1>2, <1>4, RaiseWrites
<1>5. ASSUME NEW bytes, NEW tasks, Take(bytes, target, tasks)
      PROVE  Writes(target, target', p)
  BY <1>2, <1>5 DEF Take
<1>6. ASSUME Doing("read"), NEW bytes, NEW v \in Nat, Store(bytes, v)
      PROVE  Writes(target, target', p)
  BY <1>6, StoreWrites DEF p
<1>7. ASSUME NEW n \in Nat, Available(n), 2 * n < SizeMod
      PROVE  LittleEndianValue(NextBytes(n)) \in Nat
  BY <1>2, <1>7, AvailableMeaning, NumberType
<1>8. Writes(target, Clear(target, p), p)
  BY <1>2, ClearWrites
<1>9. ASSUME NEW v \in Nat
      PROVE  Writes(target, Assign(Clear(target, p), p, v), p)
  BY <1>2, <1>8, AssignWrites, WritesTwice DEF Writes
<1>11. CASE DecodeBool
  <2>1. Doing("read")
    BY <1>11 DEF DecodeBool, Serving
  <2>2. CASE NextByte \in {0, 1} /\ Store(1, NextByte)
    BY <1>6, <2>1, <2>2
  <2> QED
    BY <1>4, <1>11, <2>2 DEF DecodeBool
<1>12. CASE DecodeInteger \/ DecodeEnum
  <2>1. Doing("read") /\ Type.kind \in {"int", "enum"}
    BY <1>12 DEF DecodeInteger, DecodeEnum, Serving, Type
  <2>2. Type.n \in Nat /\ 2 * Type.n < SizeMod
    BY <1>2, <2>1, TypesAssumption, SpansAssumption
  <2>3. CASE Available(Type.n) /\ Store(Type.n, LittleEndianValue(NextBytes(Type.n)))
    BY <1>6, <1>7, <2>1, <2>2, <2>3
  <2> QED
    BY <1>4, <1>12, <2>3 DEF DecodeInteger, DecodeEnum
<1>13. CASE DecodeBigFixedWidthInteger
  <2> DEFINE rest == Len(span) - current_index
             object == Assign(target, Path, LittleEndianValue(NextBytes(rest)))
  <2>1. Doing("read") /\ Type.kind = "big"
    BY <1>13 DEF DecodeBigFixedWidthInteger, Serving, Type
  <2>2. Type.n \in Nat /\ 2 * Type.n < SizeMod
    BY <1>2, <2>1, TypesAssumption, SpansAssumption
  <2>3. CASE Available(Type.n) /\ Store(Type.n, LittleEndianValue(NextBytes(Type.n)))
    BY <1>6, <1>7, <2>1, <2>2, <2>3
  <2>4. CASE Raise("NOT_ENOUGH_DATA", rest, object)
    <3>1. rest \in Nat /\ current_index + rest <= Len(span)
      BY <1>2, IndexType DEF DecoderTypeOK
    <3> HIDE DEF rest
    <3>2. LittleEndianValue(NextBytes(rest)) \in Nat
      BY <1>2, <3>1, NumberType
    <3>3. Writes(target, object, p)
      BY <1>2, <1>3, <2>1, <3>2, AssignWrites
    <3> HIDE DEF object
    <3> QED
      BY <2>4, <3>3, RaiseWrites
  <2> QED
    BY <1>13, <2>3, <2>4 DEF DecodeBigFixedWidthInteger
<1>14. CASE DecodeCompact \/ DecodeBigCompact
  <2>1. Doing("read")
    BY <1>14 DEF DecodeCompact, DecodeBigCompact, Serving
  <2>2. PICK integer \in {DecodeCompactNative(span, current_index, Type.n),
                          DecodeCompactBig(span, current_index, Type.n)} :
          \/ integer.error = "none" /\ Store(integer.used, integer.value)
          \/ integer.error # "none" /\ Raise(integer.error, integer.used, target)
    BY <1>14 DEF DecodeCompact, DecodeBigCompact, StoreOrRaise
  <2>3. Type.n \in Nat
    BY <1>2, TypesAssumption
  <2>4. CASE integer.error = "none" /\ Store(integer.used, integer.value)
    <3>1. integer.value \in Nat
      BY <1>2, <2>3, <2>4, CompactNumberType
    <3> QED
      BY <1>6, <2>1, <2>4, <3>1
  <2> QED
    BY <1>4, <2>2, <2>4
<1>15. CASE DecodeOptionalBool
  <2> DEFINE empty == Clear(target, Path)
             held(v) == Assign(Assign(empty, Path, 1), Path \o <<1>>, v)
  <2>1. Doing("read")
    BY <1>15 DEF DecodeOptionalBool, Serving
  <2>2. ASSUME NEW v \in {0, 1}
        PROVE  Writes(target, held(v), p)
    <3> DEFINE emplaced == Assign(empty, Path, 1)
    <3>1. Writes(target, emplaced, p)
      BY <1>3, <1>9, <2>1
    <3>2. Path \o <<1>> \in Seq(Nat) /\ IsPrefix(p, Path \o <<1>>)
      BY <1>2, <1>3, <2>1, ChildPath
    <3> HIDE DEF emplaced
    <3>3. Writes(emplaced, Assign(emplaced, Path \o <<1>>, v), Path \o <<1>>)
      BY <3>1, <3>2, AssignWrites DEF Writes
    <3>4. Writes(emplaced, Assign(emplaced, Path \o <<1>>, v), p)
      BY <1>2, <3>2, <3>3, WritesBelow
    <3> QED
      BY <3>1, <3>4, WritesTwice DEF emplaced
  <2>3. CASE Take(1, empty, << >>)
    BY <1>3, <1>8, <2>1, <2>3 DEF Take
  <2>4. CASE Take(1, held(1), << >>) \/ Take(1, held(0), << >>)
    BY <2>2, <2>4 DEF Take
  <2> QED
    BY <1>4, <1>15, <2>3, <2>4 DEF DecodeOptionalBool
<1>16. CASE DecodeOptional \/ DecodePointer
  <2>1. Doing("read")
    BY <1>16 DEF DecodeOptional, DecodePointer, Serving
  <2>2. CASE Take(1, Clear(target, Path), << >>)
    BY <1>3, <1>8, <2>1, <2>2 DEF Take
  <2>3. ASSUME NEW bytes, Take(bytes, Assign(Clear(target, Path), Path, 1), ReadChildren(1))
        PROVE  Writes(target, target', p)
    BY <1>3, <1>9, <2>1, <2>3 DEF Take
  <2> QED
    BY <1>4, <1>16, <2>2, <2>3 DEF DecodeOptional, DecodePointer
<1>17. CASE \/ DecodeProduct \/ DecodeStaticCollection \/ DecodeCompactReflection
            \/ DecodeVariant \/ DecodeBoostVariant
  BY <1>4, <1>5, <1>17 DEF DecodeProduct, DecodeStaticCollection, DecodeCompactReflection,
                           DecodeVariant, DecodeBoostVariant, DecodeAlternative
<1>18. CASE AssignReference
  <2>1. /\ ~Doing("read") /\ p = Front(Path) /\ IsPrefix(p, Path)
        /\ target' = Assign(Clear(target, Path), p, At(target, Path))
    BY <1>1, <1>18, HeadArgument DEF AssignReference, Doing, Take, p
  <2>2. At(target, Path) \in Nat
    BY <1>2, ValueType
  <2>3. Writes(target, Clear(target, Path), p)
    BY <1>2, <2>1, ClearWrites, WritesBelow
  <2> DEFINE cleared == Clear(target, Path)
  <2> HIDE DEF cleared
  <2>4. Writes(cleared, Assign(cleared, p, At(target, Path)), p)
    BY <1>2, <2>2, <2>3, AssignWrites DEF Writes, cleared
  <2> QED
    BY <2>1, <2>3, <2>4, WritesTwice DEF cleared
<1>19. CASE AssignVariant
  <2> DEFINE S == {q \in DOMAIN target : ~(/\ IsStrictPrefix(p, q)
                                           /\ q[Len(p) + 1] # 0)}
             emptied == [q \in S |-> target[q]]
             assigned == Move(emptied, p \o <<0>>, Path, {})
  <2>1. /\ p = Front(Path) /\ IsPrefix(p, Path) /\ Last(Path) \in Nat \ {0}
    BY <1>1, <1>19, HeadArgument DEF AssignVariant, Doing, p
  <2>2. target' = Assign(assigned, p, Last(Path) - 1)
    BY <1>19, <2>1 DEF AssignVariant, Take, Without
  <2>3. Writes(target, emptied, p)
    <3>1. \A q \in DOMAIN target : q \notin S => IsPrefix(p, q)
      BY DEF IsStrictPrefix
    <3> HIDE DEF S
    <3>2. S \in SUBSET DOMAIN target
      BY DEF S
    <3> QED
      BY <1>2, <3>1, <3>2, RestrictWrites
  <2> HIDE DEF emptied
  <2>4. p \o <<0>> \in Seq(Nat) /\ 0 \in ToSet(p \o <<0>>)
    BY <1>2, ChildPath
  <2>5. Writes(emptied, assigned, Path)
    BY <1>2, <2>3, <2>4, MoveWrites DEF Writes
  <2>6. Writes(emptied, assigned, p)
    BY <1>2, <2>1, <2>5, WritesBelow
  <2> HIDE DEF assigned
  <2>7. Last(Path) - 1 \in Nat
    BY <2>1
  <2>8. Writes(assigned, Assign(assigned, p, Last(Path) - 1), p)
    BY <1>2, <2>6, <2>7, AssignWrites DEF Writes
  <2> QED
    BY <2>2, <2>3, <2>6, <2>8, WritesTwice
<1>20. CASE DecodeResizeable
  <2> DEFINE truncated == Truncate(target, Path, Count.value)
  <2>1. Doing("read")
    BY <1>20 DEF DecodeResizeable, Serving
  <2>2. CASE /\ Count.value \in 0..Allocatable
             /\ Take(Count.used, Assign(truncated, Path, Count.value),
                     ReadChildren(Count.value))
    <3>1. Writes(target, truncated, p)
      BY <1>2, <1>3, <2>1, TruncateWrites
    <3>2. Count.value \in Nat
      BY <2>2
    <3> HIDE DEF truncated
    <3>3. Writes(truncated, Assign(truncated, p, Count.value), p)
      BY <1>2, <3>1, <3>2, AssignWrites DEF Writes
    <3> QED
      BY <1>3, <2>1, <2>2, <3>1, <3>3, WritesTwice DEF Take
  <2> QED
    BY <1>4, <1>20, <2>2 DEF DecodeResizeable
<1>21. CASE DecodeExtensible \/ DecodeRandomExtensible
  <2>1. Doing("read")
    BY <1>21 DEF DecodeExtensible, DecodeRandomExtensible, Serving
  <2>2. \/ Raise(Count.error, Count.used, target)
        \/ Raise("TOO_MANY_ITEMS", Count.used, target)
        \/ Raise("TOO_MANY_ITEMS", Count.used, Clear(target, Path))
        \/ \E tasks : Take(Count.used, Clear(target, Path), tasks)
    BY <1>21 DEF DecodeExtensible, DecodeRandomExtensible
  <2>3. Writes(target, Clear(target, Path), p)
    BY <1>3, <1>8, <2>1
  <2>4. CASE Raise("TOO_MANY_ITEMS", Count.used, Clear(target, Path))
    BY <2>3, <2>4, RaiseWrites
  <2>5. CASE \E tasks : Take(Count.used, Clear(target, Path), tasks)
    BY <2>3, <2>5 DEF Take
  <2> QED
    BY <1>4, <2>2, <2>4, <2>5
<1>22. CASE EmplaceBack
  <2>1. /\ p = Front(Path) /\ Last(Path) \in Nat
        /\ target' = Assign(target, Front(Path), Last(Path))
    BY <1>1, <1>22, HeadArgument DEF EmplaceBack, Doing, Take, p
  <2> QED
    BY <1>2, <2>1, AssignWrites
<1>23. CASE Emplace
  <2> DEFINE key == At(target, KeyPath(Type, Path))
             node == p \o <<key + 1>>
             size == At(target, p)
             stays == MovedFrom[Of]
             moved == Move(target, Path, node \o <<1>>, stays)
             emplaced == Assign(moved, node, 1)
  <2>1. /\ p = Front(Path) /\ IsPrefix(p, Path) /\ Path = p \o <<0>>
    BY <1>1, <1>23, HeadArgument DEF Emplace, Doing, p
  <2>2. \/ Raise("TOO_MANY_ITEMS", 0, target)
        \/ Take(0, MovedOut(target, Path, stays), << >>)
        \/ Take(0, Assign(emplaced, p, size + 1), << >>)
    BY <1>23, <2>1 DEF Emplace
  <2> HIDE DEF stays
  <2>3. CASE Take(0, MovedOut(target, Path, stays), << >>)
    BY <1>2, <2>1, <2>3, MovedOutWrites, WritesBelow DEF Take
  <2>4. CASE Take(0, Assign(emplaced, p, size + 1), << >>)
    <3>1. key + 1 \in Nat /\ size + 1 \in Nat
      BY <1>2, ValueType
    <3> HIDE DEF key, size
    <3>2. /\ node \in Seq(Nat) /\ IsPrefix(p, node)
      BY <1>2, <3>1, ChildPath
    <3> HIDE DEF node
    <3>3. node \o <<1>> \in Seq(Nat) /\ IsPrefix(node, node \o <<1>>)
      BY <3>2, ChildPath
    <3>4. IsPrefix(p, node \o <<1>>)
      BY <1>2, <3>2, <3>3, PrefixTransitive
    <3>6. 0 \in ToSet(Path)
      BY <1>2, <2>1, ChildPath
    <3>7. Writes(target, moved, node \o <<1>>)
      BY <1>2, <3>3, <3>6, MoveWrites
    <3>8. Writes(target, moved, p)
      BY <1>2, <3>3, <3>4, <3>7, WritesBelow
    <3> HIDE DEF moved
    <3>9. Writes(moved, emplaced, p)
      BY <1>2, <3>2, <3>8, AssignWrites, WritesBelow DEF Writes
    <3> HIDE DEF emplaced
    <3>10. Writes(emplaced, Assign(emplaced, p, size + 1), p)
      BY <1>2, <3>1, <3>9, AssignWrites DEF Writes
    <3> QED
      BY <2>4, <3>8, <3>9, <3>10, WritesTwice DEF Take
  <2> QED
    BY <1>4, <2>2, <2>3, <2>4
<1>25. CASE LeaveRandomExtensible
  <2>1. /\ IsPrefix(p, Path) /\ target' = Clear(target, Path)
    BY <1>1, <1>25, HeadArgument DEF LeaveRandomExtensible, Doing, Take, p
  <2> QED
    BY <1>2, <2>1, ClearWrites, WritesBelow
<1>24. CASE DecodeBitVec
  <2> DEFINE bytes == BytesForBits(Count.value)
             object == WithBits(target, Path, Count.value,
                                SubSeq(span, current_index + Count.used + 1,
                                       current_index + Count.used + bytes))
  <2>1. Doing("read")
    BY <1>24 DEF DecodeBitVec, Serving
  <2>2. \/ Raise(Count.error, Count.used, target)
        \/ Raise("NOT_ENOUGH_DATA", Count.used, target)
        \/ Raise("length_error", Count.used, target)
        \/ Count.value \in 0..MaxBitVecSize /\ Take(Count.used + bytes, object, << >>)
    BY <1>24 DEF DecodeBitVec
  <2>3. CASE Count.value \in 0..MaxBitVecSize /\ Take(Count.used + bytes, object, << >>)
    <3>1. Count.value \in Nat
      BY <2>3
    <3>2. Writes(target, object, p)
      BY <1>2, <1>3, <2>1, <3>1, WithBitsWrites
    <3> QED
      BY <2>3, <3>2 DEF Take
  <2> QED
    BY <1>4, <2>2, <2>3
<1> QED
  BY <1>11, <1>12, <1>13, <1>14, <1>15, <1>16, <1>17, <1>18, <1>19, <1>20, <1>21,
     <1>22, <1>23, <1>24, <1>25 DEF Operator, p

\* What an operator leaves to do is done to what it serves.
Within(tasks, p) ==
  /\ tasks \in Seq(Tasks)
  /\ \A i \in DOMAIN tasks : TaskOK(tasks[i]) /\ IsPrefix(p, Argument(tasks[i]))
  /\ LocalsFirst(tasks)

LEMMA ArgumentType ==
  ASSUME NEW task \in Tasks, TaskOK(task)
  PROVE  /\ Argument(task) \in Seq(Nat)
         /\ task.do = "assign" => Front(task.path) \o <<0>> \in Seq(Nat)
<1>1. task.path \in Seq(Nat)
  BY DEF Tasks
<1>2. task.do # "read" => Front(task.path) \in Seq(Nat)
  BY <1>1, ParentPath DEF TaskOK
<1>3. task.do = "assign" => task.do # "read"
  OBVIOUS
<1> QED
  BY <1>1, <1>2, <1>3, ChildPath DEF Argument

LEMMA TaskWithin ==
  ASSUME NEW do \in {"read", "emplace_back", "emplace", "leave", "assign", "assign_ref"},
         NEW t \in Types, NEW p \in Seq(Nat), NEW i \in Nat,
         do = "assign" => i # 0, do \in {"emplace", "leave"} => i = 0
  PROVE  LET task == Task(do, t, p \o <<i>>)
         IN  /\ task \in Tasks /\ TaskOK(task) /\ task.do = do
             /\ IsPrefix(p, Argument(task))
             /\ do = "read" => Argument(task) = p \o <<i>>
             /\ do = "assign" => Front(task.path) = p
<1> DEFINE path == p \o <<i>>
<1>1. /\ path \in Seq(Nat) /\ path # << >> /\ IsPrefix(p, path)
      /\ Front(path) = p /\ Last(path) = i
  BY ChildPath
<1>2. IsPrefix(p, p)
  BY PrefixOfItself
<1> HIDE DEF path
<1>3. Task(do, t, path) \in Tasks
  BY <1>1, TaskType
<1> QED
  BY <1>1, <1>2, <1>3 DEF path, Task, TaskOK, Argument

LEMMA NothingWithin ==
  ASSUME NEW p
  PROVE  Within(<< >>, p)
BY NoTasks DEF Within, LocalsFirst

\* Tasks without an assignment.
LEMMA FunctionWithin ==
  ASSUME NEW p, NEW n \in Nat, NEW tasks,
         tasks = [i \in 1..n |-> tasks[i]],
         \A i \in 1..n : /\ tasks[i] \in Tasks /\ TaskOK(tasks[i])
                         /\ IsPrefix(p, Argument(tasks[i]))
                         /\ tasks[i].do # "assign"
  PROVE  Within(tasks, p)
<1>1. tasks \in [1..n -> Tasks] /\ DOMAIN tasks = 1..n
  OBVIOUS
<1>2. tasks \in Seq(Tasks)
  BY <1>1, FunctionIsSeq
<1> QED
  BY <1>1, <1>2 DEF Within, LocalsFirst

LEMMA ReadChildrenWithin ==
  ASSUME IInv, pending # << >>, Type.kind \in Wrappers, NEW n \in Nat
  PROVE  Within(ReadChildren(n), Path)
<1> DEFINE tasks == ReadChildren(n)
<1>1. Of \in Types /\ Path \in Seq(Nat)
  BY ChildTasksType, HeadType DEF IInv
<1>2. ASSUME NEW i \in 1..n
      PROVE  /\ tasks[i] \in Tasks /\ TaskOK(tasks[i])
             /\ IsPrefix(Path, Argument(tasks[i])) /\ tasks[i].do # "assign"
  <2>1. tasks[i] = Task("read", Of, Path \o <<i>>) /\ i \in Nat
    BY DEF ReadChildren
  <2> HIDE DEF tasks
  <2> QED
    BY <1>1, <2>1, TaskWithin
<1>3. tasks = [i \in 1..n |-> tasks[i]]
  BY DEF ReadChildren
<1> HIDE DEF tasks
<1>4. Within(tasks, Path)
  BY <1>2, <1>3, FunctionWithin
<1> QED
  BY <1>4 DEF tasks

\* A local is decoded, then finished with.
LEMMA LocalWithin ==
  ASSUME NEW t \in Types, NEW u \in Types, NEW p \in Seq(Nat), NEW i \in Nat,
         NEW do \in {"assign", "assign_ref"}, do = "assign" => i # 0
  PROVE  Within(<<Task("read", t, p \o <<0>>), Task(do, u, p \o <<i>>)>>, p)
<1> DEFINE read == Task("read", t, p \o <<0>>)
           finish == Task(do, u, p \o <<i>>)
           tasks == <<read, finish>>
<1>1. /\ read \in Tasks /\ TaskOK(read) /\ read.do = "read"
      /\ IsPrefix(p, Argument(read)) /\ Argument(read) = p \o <<0>>
  BY TaskWithin
<1>2. /\ finish \in Tasks /\ TaskOK(finish) /\ finish.do = do
      /\ IsPrefix(p, Argument(finish))
      /\ do = "assign" => Front(finish.path) = p
  BY TaskWithin
<1>3. IsPrefix(p \o <<0>>, p \o <<0>>)
  BY ChildPath, PrefixOfItself
<1> HIDE DEF read, finish
<1>4. /\ tasks \in Seq(Tasks) /\ DOMAIN tasks = {1, 2}
      /\ tasks[1] = read /\ tasks[2] = finish
  BY <1>1, <1>2
<1> HIDE DEF tasks
<1>5. ASSUME NEW a \in DOMAIN tasks, NEW b \in DOMAIN tasks, a < b,
             tasks[b].do = "assign"
      PROVE  IsPrefix(Front(tasks[b].path) \o <<0>>, Argument(tasks[a]))
  <2>1. a = 1 /\ b = 2
    BY <1>4, <1>5
  <2> QED
    BY <1>1, <1>2, <1>3, <1>4, <1>5, <2>1
<1>6. Within(tasks, p)
  BY <1>1, <1>2, <1>4, <1>5 DEF Within, LocalsFirst
<1> QED
  BY <1>6 DEF tasks, read, finish

\* Tasks that an operator puts before those there are.
LEMMA NestedTasks ==
  ASSUME IInv, pending # << >>, NEW tasks, Within(tasks, Argument(Head(pending)))
  PROVE  LET all == tasks \o Tail(pending)
         IN  LocalsFirst(all) /\ \A i \in DOMAIN all : TaskOK(all[i])
<1> DEFINE p == Argument(Head(pending))
           all == tasks \o Tail(pending)
           n == Len(tasks)
<1>1. /\ pending \in Seq(Tasks) /\ Tail(pending) \in Seq(Tasks) /\ tasks \in Seq(Tasks)
      /\ Head(pending) = pending[1] /\ Len(pending) \in Nat \ {0}
      /\ p \in Seq(Nat)
  BY HeadArgument, EmptySeq, HeadTailType DEF IInv, DecoderTypeOK, Within
<1>2. n \in Nat /\ DOMAIN tasks = 1..n /\ DOMAIN pending = 1..Len(pending)
  BY <1>1
<1>3. DOMAIN all = 1..(n + Len(pending) - 1)
  BY <1>1, <1>2
<1>4. \A i \in DOMAIN all :
        /\ i <= n => i \in DOMAIN tasks /\ all[i] = tasks[i]
        /\ i > n => i - n + 1 \in DOMAIN pending /\ all[i] = pending[i - n + 1]
  <2> SUFFICES ASSUME NEW i \in 1..(n + Len(pending) - 1)
               PROVE  /\ i <= n => i \in DOMAIN tasks /\ all[i] = tasks[i]
                      /\ i > n => i - n + 1 \in DOMAIN pending /\ all[i] = pending[i - n + 1]
    BY <1>3
  <2>1. CASE i <= n
    BY <1>1, <1>2, <2>1
  <2>2. CASE i > n
    <3>1. i - n \in 1..(Len(pending) - 1) /\ Len(Tail(pending)) = Len(pending) - 1
      BY <1>1, <1>2, <2>2
    <3>2. all[i] = Tail(pending)[i - n]
      BY <1>1, <1>2, <2>2, <3>1
    <3>3. Tail(pending)[i - n] = pending[i - n + 1]
      BY <1>1, <3>1, HeadTailProperties
    <3> QED
      BY <1>1, <1>2, <2>2, <3>1, <3>2, <3>3
  <2> QED
    BY <1>2, <2>1, <2>2
<1> HIDE DEF p, all, n
<1>5. ASSUME NEW i \in DOMAIN all
      PROVE  TaskOK(all[i])
  BY <1>2, <1>3, <1>4 DEF IInv, Within
<1>6. ASSUME NEW i \in DOMAIN all, NEW j \in DOMAIN all, i < j, all[j].do = "assign"
      PROVE  IsPrefix(Front(all[j].path) \o <<0>>, Argument(all[i]))
  <2> DEFINE local == Front(all[j].path) \o <<0>>
  <2>1. i \in Nat /\ j \in Nat
    BY <1>2, <1>3
  <2>2. CASE j <= n
    BY <1>2, <1>4, <1>6, <2>1, <2>2 DEF Within, LocalsFirst
  <2>3. CASE i > n
    <3>1. i - n + 1 < j - n + 1 /\ j > n
      BY <1>2, <1>6, <2>1, <2>3
    <3> QED
      BY <1>4, <1>6, <2>3, <3>1 DEF IInv, LocalsFirst
  <2>4. CASE i <= n /\ j > n
    <3>1. 1 < j - n + 1 /\ 1 \in DOMAIN pending
      BY <1>1, <1>2, <2>1, <2>4
    <3>2. IsPrefix(local, p)
      BY <1>1, <1>4, <1>6, <2>4, <3>1 DEF IInv, LocalsFirst, p
    <3>3. IsPrefix(p, Argument(all[i]))
      BY <1>4, <2>4 DEF Within, p
    <3>4. all[i] \in Tasks /\ all[j] \in Tasks
      BY <1>1, <1>4, <2>4
    <3>5. local \in Seq(Nat) /\ Argument(all[i]) \in Seq(Nat)
      BY <1>5, <1>6, <3>4, ArgumentType
    <3> QED
      BY <1>1, <3>2, <3>3, <3>5, PrefixTransitive
  <2> QED
    BY <1>2, <2>1, <2>2, <2>3, <2>4
<1>7. LocalsFirst(all)
  BY <1>6 DEF LocalsFirst
<1> QED
  BY <1>5, <1>7 DEF all

\* An operator leaves nothing to do (it is done, or it raises), or tasks that
\* are done to what it serves.
LEMMA OperatorTasks ==
  ASSUME IInv, Operator
  PROVE  LocalsFirst(pending') /\ \A i \in DOMAIN pending' : TaskOK(pending'[i])
<1> DEFINE p == Argument(Head(pending))
<1>1. pending # << >>
  BY TakesOrRaises DEF IInv
<1>2. DecoderTypeOK /\ Path \in Seq(Nat) /\ Type \in Types
  BY <1>1, HeadType DEF IInv
<1> SUFFICES \/ pending' = << >>
             \/ \E tasks : Within(tasks, p) /\ pending' = tasks \o Tail(pending)
  <2>1. CASE pending' = << >>
    BY <2>1 DEF LocalsFirst
  <2>2. ASSUME NEW tasks, Within(tasks, p), pending' = tasks \o Tail(pending)
        PROVE  LocalsFirst(pending') /\ \A i \in DOMAIN pending' : TaskOK(pending'[i])
    BY <1>1, <2>2, NestedTasks
  <2> QED
    BY <2>1, <2>2
<1> DEFINE Goal == \/ pending' = << >>
                   \/ \E tasks : Within(tasks, p) /\ pending' = tasks \o Tail(pending)
<1> SUFFICES Goal
  OBVIOUS
<1>3. ASSUME Doing("read")
      PROVE  p = Path
  BY <1>1, <1>3, HeadArgument
<1> HIDE DEF p
<1>4. ASSUME \E error, bytes, object : Raise(error, bytes, object)
      PROVE  Goal
  BY <1>4 DEF Raise
<1>5. ASSUME NEW tasks, Within(tasks, p), \E bytes, object : Take(bytes, object, tasks)
      PROVE  Goal
  BY <1>5 DEF Take
<1>6. ASSUME \E bytes, object : Take(bytes, object, << >>)
      PROVE  Goal
  BY <1>5, <1>6, NothingWithin
<1>7. ASSUME \E bytes, v : Store(bytes, v)
      PROVE  Goal
  BY <1>6, <1>7 DEF Store
<1>8. ASSUME NEW n \in Nat, Doing("read"), Type.kind \in Wrappers,
             \E bytes, object : Take(bytes, object, ReadChildren(n))
      PROVE  Goal
  BY <1>1, <1>3, <1>5, <1>8, ReadChildrenWithin
<1> HIDE DEF Goal
<1>11. CASE \/ DecodeBool \/ DecodeInteger \/ DecodeBigFixedWidthInteger \/ DecodeEnum
            \/ DecodeCompact \/ DecodeBigCompact
  BY <1>4, <1>7, <1>11 DEF DecodeBool, DecodeInteger, DecodeBigFixedWidthInteger, DecodeEnum,
                           DecodeCompact, DecodeBigCompact, StoreOrRaise
<1>12. CASE \/ DecodeOptionalBool \/ AssignReference \/ AssignVariant \/ EmplaceBack
            \/ Emplace \/ LeaveRandomExtensible \/ DecodeBitVec
  BY <1>4, <1>6, <1>12 DEF DecodeOptionalBool, AssignReference, AssignVariant, EmplaceBack,
                           Emplace, LeaveRandomExtensible, DecodeBitVec
<1>13. CASE DecodeOptional \/ DecodePointer
  <2>1. Doing("read") /\ Type.kind \in Wrappers
    BY <1>13 DEF DecodeOptional, DecodePointer, Serving, Type, Wrappers
  <2> QED
    BY <1>4, <1>6, <1>8, <1>13, <2>1 DEF DecodeOptional, DecodePointer
<1>14. CASE DecodeStaticCollection
  <2>1. Doing("read") /\ Type.kind \in Wrappers /\ Type.n \in Nat
    BY <1>2, <1>14, TypesAssumption DEF DecodeStaticCollection, Serving, Type, Wrappers
  <2> QED
    BY <1>8, <1>14, <2>1 DEF DecodeStaticCollection
<1>15. CASE DecodeResizeable
  <2>1. Doing("read") /\ Type.kind \in Wrappers
    BY <1>15 DEF DecodeResizeable, Serving, Type, Wrappers
  <2>2. Count.value \in 0..Allocatable => Count.value \in Nat
    OBVIOUS
  <2> QED
    BY <1>4, <1>8, <1>15, <2>1, <2>2 DEF DecodeResizeable
<1>16. CASE DecodeProduct
  <2> DEFINE tasks == [i \in DOMAIN Type.of |-> Task("read", Type.of[i], Path \o <<i>>)]
  <2>1. Doing("read") /\ Take(0, target, tasks)
    BY <1>16 DEF DecodeProduct, Serving
  <2>2. Type.of \in Seq(Types)
    BY <1>2, TypesAssumption
  <2>3. ASSUME NEW i \in DOMAIN Type.of
        PROVE  /\ tasks[i] \in Tasks /\ TaskOK(tasks[i])
               /\ IsPrefix(Path, Argument(tasks[i])) /\ tasks[i].do # "assign"
    <3>1. Type.of[i] \in Types /\ i \in Nat
      BY <2>2
    <3>2. tasks[i] = Task("read", Type.of[i], Path \o <<i>>)
      OBVIOUS
    <3> HIDE DEF tasks
    <3> QED
      BY <1>2, <3>1, <3>2, TaskWithin
  <2> DEFINE n == Len(Type.of)
  <2>4. tasks = [i \in 1..n |-> tasks[i]] /\ n \in Nat /\ DOMAIN Type.of = 1..n
    BY <2>2
  <2> HIDE DEF tasks, n
  <2>5. Within(tasks, Path)
    BY <2>3, <2>4, FunctionWithin
  <2> QED
    BY <1>3, <1>5, <2>1, <2>5
<1>17. CASE DecodeCompactReflection
  <2>1. Doing("read") /\ Type.kind \in Wrappers
    BY <1>17 DEF DecodeCompactReflection, Serving, Type, Wrappers
  <2>2. Of \in Types
    BY <1>2, <2>1, TypesAssumption DEF Of
  <2>3. Within(<<Task("read", Of, Path \o <<0>>),
                 Task("assign_ref", Type, Path \o <<0>>)>>, Path)
    BY <1>2, <2>2, LocalWithin
  <2> QED
    BY <1>3, <1>5, <1>17, <2>1, <2>3 DEF DecodeCompactReflection
<1>18. CASE DecodeVariant \/ DecodeBoostVariant
  <2>1. Doing("read") /\ DecodeAlternative
    BY <1>18 DEF DecodeVariant, DecodeBoostVariant, Serving
  <2> DEFINE i == NextByte + 1
             tasks == <<Task("read", Type.of[i], Path \o <<0>>),
                        Task("assign", Type, Path \o <<i>>)>>
  <2>2. CASE Available(1) /\ i \in DOMAIN Type.of /\ Take(1, target, tasks)
    <3>1. NextByte \in Nat
      BY <1>2, <2>2, IndexType DEF Byte
    <3>2. i \in Nat /\ i # 0
      BY <3>1
    <3> HIDE DEF i
    <3>3. Type.of[i] \in Types
      BY <1>2, <2>2, TypesAssumption
    <3>4. Within(tasks, Path)
      BY <1>2, <3>2, <3>3, LocalWithin
    <3> QED
      BY <1>3, <1>5, <2>1, <2>2, <3>4
  <2> QED
    BY <1>4, <2>1, <2>2 DEF DecodeAlternative
<1>19. CASE DecodeExtensible \/ DecodeRandomExtensible
  <2> DEFINE n == Count.value
             emplaced == [j \in 1..(2 * n) |->
                            IF j % 2 = 1
                            THEN Task("emplace_back", Type, Path \o <<(j + 1) \div 2>>)
                            ELSE Task("read", Of, Path \o <<j \div 2>>)]
             inserted == ReadsOfItem(n)
  <2>1. Doing("read") /\ Type.kind \in Wrappers
    BY <1>19 DEF DecodeExtensible, DecodeRandomExtensible, Serving, Type, Wrappers
  <2>2. Of \in Types
    BY <1>2, <2>1, TypesAssumption DEF Of
  <2>3. CASE n \in 0..MaxSize /\ \E bytes, object : \/ Take(bytes, object, emplaced)
                                                    \/ Take(bytes, object, inserted)
    <3>1. n \in Nat /\ 2 * n \in Nat /\ 2 * n + 1 \in Nat
      BY <2>3, SizeAssumption
    <3> HIDE DEF n
    <3>2. ASSUME NEW j, NEW task,
                 \/ j \in 1..(2 * n) /\ task = emplaced[j]
                 \/ j \in 1..(2 * n + 1) /\ task = inserted[j]
          PROVE  /\ task \in Tasks /\ TaskOK(task)
                 /\ IsPrefix(Path, Argument(task)) /\ task.do # "assign"
      <4>0. j \in Nat
        BY <3>1, <3>2
      <4>1. (j + 1) \div 2 \in Nat /\ j \div 2 \in Nat /\ 0 \in Nat
        BY <4>0
      <4>2. task \in {Task("emplace_back", Type, Path \o <<(j + 1) \div 2>>),
                      Task("read", Of, Path \o <<j \div 2>>),
                      Task("read", Of, Path \o <<0>>),
                      Task("emplace", Type, Path \o <<0>>),
                      Task("leave", Type, Path \o <<0>>)}
        BY <3>2 DEF ReadsOfItem
      <4>3. CASE task \in {Task("emplace", Type, Path \o <<0>>),
                           Task("leave", Type, Path \o <<0>>)}
        BY <1>2, <4>1, <4>3, TaskWithin
      <4>4. CASE task = Task("emplace_back", Type, Path \o <<(j + 1) \div 2>>)
        BY <1>2, <4>1, <4>4, TaskWithin
      <4>5. ASSUME NEW i \in Nat, task = Task("read", Of, Path \o <<i>>)
            PROVE  /\ task \in Tasks /\ TaskOK(task)
                   /\ IsPrefix(Path, Argument(task)) /\ task.do # "assign"
        BY <1>2, <2>2, <4>5, TaskWithin
      <4> QED
        BY <4>1, <4>2, <4>3, <4>4, <4>5
    <3>3. /\ emplaced = [j \in 1..(2 * n) |-> emplaced[j]]
          /\ inserted = [j \in 1..(2 * n + 1) |-> inserted[j]]
      BY DEF ReadsOfItem
    <3> HIDE DEF emplaced, inserted
    <3>4. Within(emplaced, Path) /\ Within(inserted, Path)
      <4> DEFINE OK(task) == /\ task \in Tasks /\ TaskOK(task)
                             /\ IsPrefix(Path, Argument(task)) /\ task.do # "assign"
      <4>1. \A j \in 1..(2 * n) : OK(emplaced[j])
        BY <3>2
      <4>2. \A j \in 1..(2 * n + 1) : OK(inserted[j])
        BY <3>2
      <4>3. Within(emplaced, Path)
        BY <3>1, <3>3, <4>1, FunctionWithin
      <4>4. Within(inserted, Path)
        BY <3>1, <3>3, <4>2, FunctionWithin
      <4> QED
        BY <4>3, <4>4
    <3> QED
      BY <1>3, <1>5, <2>1, <2>3, <3>4
  <2>4. n \in 0..Allocatable => n \in 0..MaxSize
    BY SizeAssumption
  <2> HIDE DEF emplaced, inserted
  <2>5. CASE DecodeExtensible
    BY <1>4, <2>3, <2>4, <2>5 DEF DecodeExtensible, emplaced
  <2>6. CASE DecodeRandomExtensible
    BY <1>4, <2>3, <2>6 DEF DecodeRandomExtensible, inserted
  <2> QED
    BY <1>19, <2>5, <2>6
<1> QED
  BY <1>11, <1>12, <1>13, <1>14, <1>15, <1>16, <1>17, <1>18, <1>19 DEF Operator

LEMMA OperatorKeepsInv ==
  ASSUME IInv, Operator
  PROVE  IInv'
<1>1. DecoderTypeOK'
  BY NextKeepsTypeOK DEF IInv, Next
<1> QED
  BY <1>1, OperatorWrites, OperatorTasks DEF IInv, Writes

LEMMA InvInductive == Spec => []IInv
<1>1. Init => IInv
  <2> SUFFICES ASSUME Init PROVE IInv
    OBVIOUS
  <2>1. IsObject(target)
    BY DEF Init, Default, IsObject
  <2>2. DecoderTypeOK
    BY InitTypeOK
  <2> QED
    BY <2>1, <2>2 DEF Init, IInv, LocalsFirst
<1>2. IInv /\ [Next]_vars => IInv'
  <2> SUFFICES ASSUME IInv, [Next]_vars PROVE IInv'
    OBVIOUS
  <2>1. DecoderTypeOK'
    BY NextKeepsTypeOK DEF IInv
  <2>2. CASE Operator
    BY <2>2, OperatorKeepsInv
  <2>3. CASE Call
    <3>1. IsObject(target')
      BY <2>3 DEF Call, IInv, Default, IsObject
    <3> DEFINE task == Task("read", type, << >>)
    <3>2. TaskOK(task) /\ task.do = "read"
      BY DEF Task, TaskOK
    <3> HIDE DEF task
    <3>3. pending' = <<task>>
      BY <2>3 DEF Call, task
    <3>4. LocalsFirst(pending') /\ \A i \in DOMAIN pending' : TaskOK(pending'[i])
      BY <3>2, <3>3 DEF LocalsFirst
    <3> QED
      BY <2>1, <3>1, <3>4 DEF IInv
  <2>4. CASE UNCHANGED vars
    BY <2>1, <2>4 DEF vars, IInv
  <2> QED
    BY <2>2, <2>3, <2>4 DEF Next
<1> QED
  BY <1>1, <1>2, PTL DEF Spec

\* An operator changes its argument and locals only: what earlier operators of
\* the call have decoded elsewhere in the client's object stays, whatever the
\* operator is, and also when it raises.
THEOREM OnlyArgumentWritten == Spec => WritesOnlyItsArgument
<1> DEFINE A == pending # << >> =>
                  \A q \in DOMAIN target \union DOMAIN target' :
                    \/ At(target', q) = At(target, q)
                    \/ IsPrefix(Argument(Head(pending)), q)
                    \/ 0 \in ToSet(q)
<1>1. IInv /\ IInv' /\ [Next]_vars => [A]_vars
  <2> SUFFICES ASSUME IInv, IInv', Next, pending # << >> PROVE A
    OBVIOUS
  <2>1. Operator
    BY DEF Next, Call
  <2>2. DOMAIN target \union DOMAIN target' \subseteq Seq(Nat)
    BY DEF IInv, IsObject
  <2> QED
    BY <2>1, <2>2, OperatorWrites DEF Writes, Changes
<1> QED
  BY <1>1, InvInductive, PTL DEF Spec, WritesOnlyItsArgument

\* While an alternative is decoded, all that is done is done to its local: the
\* variant keeps its value until the alternative is complete, and when it fails.
THEOREM VariantKept == Spec => VariantKeptUntilAssigned
<1> DEFINE A == \A i \in 2..Len(pending) :
                  LET variant == Front(pending[i].path)
                  IN  pending[i].do = "assign" /\ 0 \notin ToSet(variant) =>
                        PartOf(target', variant) = PartOf(target, variant)
<1>1. IInv /\ IInv' /\ [Next]_vars => [A]_vars
  <2> SUFFICES ASSUME IInv, IInv', Next,
                      NEW i \in 2..Len(pending), pending[i].do = "assign"
               PROVE  LET variant == Front(pending[i].path)
                      IN  0 \notin ToSet(variant) =>
                            PartOf(target', variant) = PartOf(target, variant)
    OBVIOUS
  <2> DEFINE variant == Front(pending[i].path)
             argument == Argument(Head(pending))
             In(object) == {q \in DOMAIN object : ~(~IsPrefix(variant, q) \/ 0 \in ToSet(q))}
  <2>1. /\ pending \in Seq(Tasks) /\ i \in DOMAIN pending /\ 1 \in DOMAIN pending
        /\ 1 < i /\ pending # << >> /\ Head(pending) = pending[1]
    BY DEF IInv, DecoderTypeOK
  <2>2. Operator
    BY <2>1 DEF Next, Call
  <2>3. IsPrefix(variant \o <<0>>, argument)
    BY <2>1 DEF IInv, LocalsFirst
  <2>4. /\ argument \in Seq(Nat) /\ variant \in Seq(Nat)
        /\ variant \o <<0>> \in Seq(Nat) /\ 0 \in ToSet(variant \o <<0>>)
    <3>1. pending[i] \in Tasks /\ TaskOK(pending[i])
      BY <2>1 DEF IInv
    <3>2. pending[i].path \in Seq(Nat) /\ pending[i].path # << >>
      BY <3>1 DEF Tasks, TaskOK
    <3>3. variant \in Seq(Nat)
      BY <3>2, ParentPath
    <3>4. argument \in Seq(Nat)
      BY <2>1, HeadArgument
    <3> HIDE DEF variant, argument
    <3> QED
      BY <3>3, <3>4, ChildPath
  <2>5. Writes(target, target', argument)
    BY <2>2, OperatorWrites
  <2>6. IsObject(target) /\ IsObject(target')
    BY DEF IInv
  <2> HIDE DEF variant, argument
  <2>7. ASSUME NEW q \in Seq(Nat), 0 \notin ToSet(q)
        PROVE  At(target', q) = At(target, q)
    <3>1. 0 \in ToSet(argument)
      BY <2>3, <2>4, LocalBelow
    <3>2. ~IsPrefix(argument, q)
      BY <2>4, <2>7, <3>1, LocalBelow
    <3> QED
      BY <2>5, <2>7, <3>2 DEF Writes, Changes
  <2>8. \A q \in Seq(Nat) : 0 \notin ToSet(q) =>
           /\ q \in DOMAIN target' <=> q \in DOMAIN target
           /\ q \in DOMAIN target => target'[q] = target[q]
    BY <2>6, <2>7 DEF At, IsObject
  <2>9. In(target') = In(target) /\ \A q \in In(target) : target'[q] = target[q]
    BY <2>6, <2>8 DEF IsObject
  <2>10. /\ PartOf(target', variant) = [q \in In(target') |-> target'[q]]
         /\ PartOf(target, variant) = [q \in In(target) |-> target[q]]
    BY DEF PartOf, Without
  <2> HIDE DEF In
  <2>11. PartOf(target', variant) = PartOf(target, variant)
    BY <2>9, <2>10
  <2> QED
    BY <2>11 DEF variant
<1> QED
  BY <1>1, InvInductive, PTL DEF Spec, VariantKeptUntilAssigned
=============================================================================
