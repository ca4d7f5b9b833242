------------------------- MODULE ScaleDecoderStream -------------------------
(***************************************************************************)
(* scale_decoder_stream.hpp and scale_decoder_stream.cpp, with the enum    *)
(* operator of enum_traits.hpp: the stream that objects are decoded from,  *)
(* and its operator>> for every kind of type.                              *)
(*                                                                         *)
(* A client makes calls stream >> target.  A call runs as a sequence of    *)
(* steps, one for each operator>> that is entered and one for each thing   *)
(* an operator does to its own argument between the operators it calls     *)
(* (emplace_back, emplace, the assignment of a variant); what is left to   *)
(* do is at the head of pending.  An exception leaves through all of them: *)
(* the bytes taken stay taken, what is decoded in the target stays there,  *)
(* and only the local variables are destroyed.  The client may go on with  *)
(* the same stream and the same target.                                    *)
(***************************************************************************)
EXTENDS CompactCoding, ScaleTypes

CONSTANTS
  Spans,        \* byte strings a stream may be made on
  Requests,     \* types of the target
  MaxSize,      \* max_size() of a container
  Allocatable   \* elements a container can get memory for

ASSUME RequestsAssumption == Requests \subseteq Types

\* No object in memory, hence no span and no integer, is larger than half of
\* what a size_t counts: in the streams' own calls hasMore's sum cannot wrap.
ByteStrings == {s \in Seq(Byte) : 2 * Len(s) < SizeMod}

ASSUME SpansAssumption ==
  /\ SizeMod \in Nat
  /\ 2 * MaxBigBytes < SizeMod
  /\ Spans \subseteq ByteStrings
  /\ \A t \in Types : t.kind \in {"int", "big", "enum"} => 2 * t.n < SizeMod

ASSUME SizeAssumption ==
  /\ MaxSize \in Nat
  /\ Allocatable \in 0..MaxSize

VARIABLES
  span,            \* span_
  current_index,   \* current_index_
  type,            \* the static type of target
  target,          \* the object of the client that is decoded into
  pending,         \* what the current call has left to do, the next first
  outcome          \* how the last call ended, "running" or "idle"

vars == <<span, current_index, type, target, pending, outcome>>

DecodeErrors ==
  { "NOT_ENOUGH_DATA", "UNEXPECTED_VALUE", "TOO_MANY_ITEMS", "WRONG_TYPE_INDEX",
    "INVALID_ENUM_VALUE", "REDUNDANT_COMPACT_ENCODING",
    "DECODED_VALUE_OVERFLOWS_TARGET" }

\* Also what is thrown without raise(): outcomeCatch does not catch it.
Outcomes == DecodeErrors \union {"idle", "none", "length_error"}

\* Tasks: to read the sub-object at path, or to finish what an operator has
\* begun with its argument, the object path[1..n-1].
Task(do, t, path) == [do |-> do, type |-> t, path |-> path]

Tasks == [do : {"read", "emplace_back", "emplace", "leave", "assign", "assign_ref"},
          type : Types, path : Seq(Nat)]

DecoderTypeOK ==
  /\ span \in ByteStrings
  /\ current_index \in 0..Len(span)
  /\ type \in Requests
  /\ pending \in Seq(Tasks)
  /\ outcome \in Outcomes

Init ==
  /\ span \in Spans
  /\ current_index = 0
  /\ type \in Requests
  /\ target = Default
  /\ pending = << >>
  /\ outcome = "idle"

-----------------------------------------------------------------------------

Doing(do) == pending # << >> /\ Head(pending).do = do
Serving(kind) == Doing("read") /\ Head(pending).type.kind = kind
Type == Head(pending).type
Path == Head(pending).path
Of == Type.of[1]

Available(n) == HasMore(span, current_index, n)
NextByte == span[current_index + 1]
NextBytes(n) == SubSeq(span, current_index + 1, current_index + n)

\* The operator takes bytes, leaves target as object, and has tasks to do.
Take(bytes, object, tasks) ==
  /\ current_index' = current_index + bytes
  /\ target' = object
  /\ pending' = tasks \o Tail(pending)
  /\ UNCHANGED <<span, type, outcome>>

\* Mutants: the client's object is reset; what has failed is tried again.
Raise_ResetsTarget(error, bytes, object) ==
  /\ current_index' = current_index + bytes
  /\ target' = Default
  /\ pending' = << >>
  /\ outcome' = error
  /\ UNCHANGED <<span, type>>

Raise_Retries(error, bytes, object) ==
  outcome' = error /\ UNCHANGED <<span, current_index, type, target, pending>>

\* It takes bytes, leaves target as object, and raises.
Raise(error, bytes, object) ==
  /\ current_index' = current_index + bytes
  /\ target' = Unwound(object)
  /\ pending' = << >>
  /\ outcome' = error
  /\ UNCHANGED <<span, type>>

\* The argument, a scalar, is assigned v.
Store(bytes, v) == Take(bytes, Assign(target, Path, v), << >>)

\* Reads of the first n children of the argument.
ReadChildren(n) == [i \in 1..n |-> Task("read", Of, Path \o <<i>>)]

-----------------------------------------------------------------------------
(* Scalars.                                                                *)

DecodeBool ==
  /\ Serving("bool")
  /\ \/ ~Available(1) /\ Raise("NOT_ENOUGH_DATA", 0, target)
     \/ Available(1) /\ NextByte \in {0, 1} /\ Store(1, NextByte)
     \/ Available(1) /\ NextByte \notin {0, 1} /\ Raise("UNEXPECTED_VALUE", 1, target)

\* All bytes or none: the stream asks for sizeof(T) before it takes any.
DecodeInteger ==
  /\ Serving("int")
  /\ \/ ~Available(Type.n) /\ Raise("NOT_ENOUGH_DATA", 0, target)
     \/ Available(Type.n) /\ Store(Type.n, LittleEndianValue(NextBytes(Type.n)))

\* Mutants: the index moves past the end; what there is of it is accepted.
DecodeBigFixedWidthInteger_PastEnd ==
  /\ Serving("big")
  /\ \/ Available(Type.n) /\ Store(Type.n, LittleEndianValue(NextBytes(Type.n)))
     \/ ~Available(Type.n) /\ Raise("NOT_ENOUGH_DATA", Type.n, target)

DecodeBigFixedWidthInteger_Short ==
  /\ Serving("big")
  /\ LET left == Len(span) - current_index
         taken == IF Available(Type.n) THEN Type.n ELSE left
     IN  Store(taken, LittleEndianValue(NextBytes(taken)))

\* The argument is set to 0, then each byte is or-ed in as it is taken.  When
\* the span ends early they are taken and the argument is what they make.
DecodeBigFixedWidthInteger ==
  /\ Serving("big")
  /\ \/ Available(Type.n) /\ Store(Type.n, LittleEndianValue(NextBytes(Type.n)))
     \/ /\ ~Available(Type.n)
        /\ LET left == Len(span) - current_index
           IN  Raise("NOT_ENOUGH_DATA", left,
                     Assign(target, Path, LittleEndianValue(NextBytes(left))))

\* enum_traits.hpp: the argument is assigned only what is an enumerator.
DecodeEnum ==
  /\ Serving("enum")
  /\ LET value == LittleEndianValue(NextBytes(Type.n))
     IN  \/ ~Available(Type.n) /\ Raise("NOT_ENOUGH_DATA", 0, target)
         \/ Available(Type.n) /\ value \in Type.valid /\ Store(Type.n, value)
         \/ /\ Available(Type.n) /\ value \notin Type.valid
            /\ Raise("INVALID_ENUM_VALUE", Type.n, target)

StoreOrRaise(integer) ==
  \/ integer.error = "none" /\ Store(integer.used, integer.value)
  \/ integer.error # "none" /\ Raise(integer.error, integer.used, target)

DecodeCompact ==
  Serving("compact") /\ StoreOrRaise(DecodeCompactNative(span, current_index, Type.n))

DecodeBigCompact ==
  Serving("bigcompact") /\ StoreOrRaise(DecodeCompactBig(span, current_index, Type.n))

\* A local of the compact type is decoded, then what is referred to assigned.
DecodeCompactReflection ==
  /\ Serving("as_compact")
  /\ Take(0, target, <<Task("read", Of, Path \o <<0>>),
                       Task("assign_ref", Type, Path \o <<0>>)>>)

\* value.ref = untagged(tmp)
AssignReference ==
  /\ Doing("assign_ref")
  /\ Take(0, Assign(Clear(target, Path), Front(Path), At(target, Path)), << >>)

\* decodeOptionalBool: NONE = 0, OPT_TRUE = 1, OPT_FALSE = 2.
DecodeOptionalBool ==
  /\ Serving("optbool")
  /\ LET empty == Clear(target, Path)
         held(v) == Assign(Assign(empty, Path, 1), Path \o <<1>>, v)
     IN  \/ ~Available(1) /\ Raise("NOT_ENOUGH_DATA", 0, target)
         \/ Available(1) /\ NextByte = 0 /\ Take(1, empty, << >>)
         \/ Available(1) /\ NextByte = 1 /\ Take(1, held(1), << >>)
         \/ Available(1) /\ NextByte = 2 /\ Take(1, held(0), << >>)
         \/ Available(1) /\ NextByte \notin 0..2 /\ Raise("UNEXPECTED_VALUE", 1, target)

-----------------------------------------------------------------------------
(* Wrappers and products.                                                  *)

\* The flag is decoded as a bool; the optional is reset or emplaced after it.
DecodeOptional ==
  /\ Serving("optional")
  /\ \/ ~Available(1) /\ Raise("NOT_ENOUGH_DATA", 0, target)
     \/ Available(1) /\ NextByte = 0 /\ Take(1, Clear(target, Path), << >>)
     \/ /\ Available(1) /\ NextByte = 1
        /\ Take(1, Assign(Clear(target, Path), Path, 1), ReadChildren(1))
     \/ Available(1) /\ NextByte \notin {0, 1} /\ Raise("UNEXPECTED_VALUE", 1, target)

\* A new object replaces the old one before it is decoded.
DecodePointer ==
  /\ Serving("pointer")
  /\ Take(0, Assign(Clear(target, Path), Path, 1), ReadChildren(1))

\* Pairs, tuples, aggregates and custom decompositions: (*this >> ... >> args).
DecodeProduct ==
  /\ Serving("product")
  /\ Take(0, target,
          [i \in DOMAIN Type.of |-> Task("read", Type.of[i], Path \o <<i>>)])

DecodeStaticCollection ==
  Serving("array") /\ Take(0, target, ReadChildren(Type.n))

\* Mutant: an alternative is decoded in the variant.
DecodeAlternative_InPlace ==
  \/ ~Available(1) /\ Raise("NOT_ENOUGH_DATA", 0, target)
  \/ /\ Available(1) /\ NextByte + 1 \notin DOMAIN Type.of
     /\ Raise("WRONG_TYPE_INDEX", 1, target)
  \/ /\ Available(1) /\ NextByte + 1 \in DOMAIN Type.of
     /\ Take(1, target,
             <<Task("read", Type.of[NextByte + 1], Path \o <<NextByte + 1>>),
               Task("assign", Type, Path \o <<NextByte + 1>>)>>)

\* An alternative is decoded into a local of its type, then assigned.
DecodeAlternative ==
  \/ ~Available(1) /\ Raise("NOT_ENOUGH_DATA", 0, target)
  \/ /\ Available(1) /\ NextByte + 1 \notin DOMAIN Type.of
     /\ Raise("WRONG_TYPE_INDEX", 1, target)
  \/ /\ Available(1) /\ NextByte + 1 \in DOMAIN Type.of
     /\ Take(1, target,
             <<Task("read", Type.of[NextByte + 1], Path \o <<0>>),
               Task("assign", Type, Path \o <<NextByte + 1>>)>>)

DecodeVariant == Serving("variant") /\ DecodeAlternative

DecodeBoostVariant == Serving("boostvariant") /\ DecodeAlternative

\* v = std::forward<T>(val), and val goes out of scope.
AssignVariant ==
  /\ Doing("assign")
  /\ LET variant == Front(Path)
         emptied == Without(target, LAMBDA q : /\ IsStrictPrefix(variant, q)
                                               /\ q[Len(variant) + 1] # 0)
     IN  Take(0, Assign(Move(emptied, variant \o <<0>>, Path, {}), variant, Last(Path) - 1),
              << >>)

-----------------------------------------------------------------------------
(* Collections.                                                            *)

\* decodeCompact<size_t>()
Count == DecodeCompactNative(span, current_index, SizeBytes)

\* Resized, with the old elements kept, then decoded element by element.
\* std::vector<bool> does the same with a local for each element.
DecodeResizeable ==
  /\ Serving("resizeable")
  /\ \/ Count.error # "none" /\ Raise(Count.error, Count.used, target)
     \/ /\ Count.error = "none" /\ Count.value \notin 0..Allocatable
        /\ Raise("TOO_MANY_ITEMS", Count.used, target)
     \/ /\ Count.error = "none" /\ Count.value \in 0..Allocatable
        /\ Take(Count.used,
                Assign(Truncate(target, Path, Count.value), Path, Count.value),
                ReadChildren(Count.value))

\* Cleared, reserved, then each element is emplaced and decoded.  The memory
\* is asked for after the old elements are gone.
DecodeExtensible ==
  /\ Serving("extensible")
  /\ \/ Count.error # "none" /\ Raise(Count.error, Count.used, target)
     \/ /\ Count.error = "none" /\ Count.value \notin 0..MaxSize
        /\ Raise("TOO_MANY_ITEMS", Count.used, target)
     \/ /\ Count.error = "none" /\ Count.value \in (Allocatable + 1)..MaxSize
        /\ Raise("TOO_MANY_ITEMS", Count.used, Clear(target, Path))
     \/ /\ Count.error = "none" /\ Count.value \in 0..Allocatable
        /\ Take(Count.used, Clear(target, Path),
                [j \in 1..(2 * Count.value) |->
                   IF j % 2 = 1
                   THEN Task("emplace_back", Type, Path \o <<(j + 1) \div 2>>)
                   ELSE Task("read", Of, Path \o <<j \div 2>>)])

EmplaceBack ==
  Doing("emplace_back") /\ Take(0, Assign(target, Front(Path), Last(Path)), << >>)

\* What is left to do with the local "item" and n elements.
ReadsOfItem(n) ==
  [j \in 1..(2 * n + 1) |->
     IF j = 2 * n + 1 THEN Task("leave", Type, Path \o <<0>>)
     ELSE IF j % 2 = 1 THEN Task("read", Of, Path \o <<0>>)
     ELSE Task("emplace", Type, Path \o <<0>>)]

\* Mutant: the old elements stay.
DecodeRandomExtensible_NotCleared ==
  /\ Serving("random")
  /\ \/ Count.error # "none" /\ Raise(Count.error, Count.used, target)
     \/ /\ Count.error = "none" /\ Count.value \notin 0..MaxSize
        /\ Raise("TOO_MANY_ITEMS", Count.used, target)
     \/ /\ Count.error = "none" /\ Count.value \in 0..MaxSize
        /\ Take(Count.used, target, ReadsOfItem(Count.value))

\* Cleared, then each element is decoded into the one local item and emplaced.
DecodeRandomExtensible ==
  /\ Serving("random")
  /\ \/ Count.error # "none" /\ Raise(Count.error, Count.used, target)
     \/ /\ Count.error = "none" /\ Count.value \notin 0..MaxSize
        /\ Raise("TOO_MANY_ITEMS", Count.used, target)
     \/ /\ Count.error = "none" /\ Count.value \in 0..MaxSize
        /\ Take(Count.used, Clear(target, Path), ReadsOfItem(Count.value))

\* Mutant: an element is counted although its key is there already.
Emplace_CountsDuplicates ==
  /\ Doing("emplace")
  /\ LET collection == Front(Path)
         key == At(target, KeyPath(Type, Path))
         node == collection \o <<key + 1>>
         size == At(target, collection)
     IN  \/ size >= Allocatable /\ Raise("TOO_MANY_ITEMS", 0, target)
         \/ /\ size < Allocatable
            /\ LET moved == Move(target, Path, node \o <<1>>, MovedFrom[Of])
               IN  Take(0, Assign(Assign(moved, node, 1), collection, size + 1), << >>)

\* collection.emplace(std::move(item)): a node is allocated, then dropped if
\* its key is there already.  Item is moved from in both cases, and the next
\* element is decoded into what is left of it.
Emplace ==
  /\ Doing("emplace")
  /\ LET collection == Front(Path)
         key == At(target, KeyPath(Type, Path))
         node == collection \o <<key + 1>>
         size == At(target, collection)
     IN  \/ size >= Allocatable /\ Raise("TOO_MANY_ITEMS", 0, target)
         \/ /\ size < Allocatable /\ key \in Keys(target, collection)
            /\ Take(0, MovedOut(target, Path, MovedFrom[Of]), << >>)
         \/ /\ size < Allocatable /\ key \notin Keys(target, collection)
            /\ LET moved == Move(target, Path, node \o <<1>>, MovedFrom[Of])
               IN  Take(0, Assign(Assign(moved, node, 1), collection, size + 1), << >>)

\* The loop is done and item goes out of scope.
LeaveRandomExtensible == Doing("leave") /\ Take(0, Clear(target, Path), << >>)

\* (size + 7) / 8 in size_t arithmetic.
BytesForBits(size) == ((size + ByteBits - 1) % SizeMod) \div ByteBits

\* std::vector<bool>::max_size(), beyond which resize() throws length_error.
MaxBitVecSize == SizeMod \div 2 - 1

\* The bit vector at p with the bits of bytes, the least significant first.
WithBits(object, p, size, bytes) ==
  LET set == {i \in 1..size : BitOf(bytes[((i - 1) \div ByteBits) + 1],
                                    (i - 1) % ByteBits) = 1}
      kept == Clear(object, p)
  IN  Assign([q \in DOMAIN kept \union {p \o <<i>> : i \in set} |->
                IF IsPrefix(p, q) THEN 1 ELSE kept[q]], p, size)

DecodeBitVec ==
  /\ Serving("bitvec")
  /\ LET counted == Count.error = "none"
         bytes == BytesForBits(Count.value)
         covered == HasMore(span, current_index + Count.used, bytes)
     IN  \/ ~counted /\ Raise(Count.error, Count.used, target)
         \/ counted /\ ~covered /\ Raise("NOT_ENOUGH_DATA", Count.used, target)
         \/ /\ counted /\ covered /\ Count.value \notin 0..MaxBitVecSize
            /\ Raise("length_error", Count.used, target)
         \/ /\ counted /\ covered /\ Count.value \in 0..MaxBitVecSize
            /\ Take(Count.used + bytes,
                    WithBits(target, Path, Count.value,
                             SubSeq(span, current_index + Count.used + 1,
                                    current_index + Count.used + bytes)), << >>)

-----------------------------------------------------------------------------

Operator ==
  \/ DecodeBool
  \/ DecodeInteger
  \/ DecodeBigFixedWidthInteger
  \/ DecodeEnum
  \/ DecodeCompact
  \/ DecodeBigCompact
  \/ DecodeCompactReflection
  \/ AssignReference
  \/ DecodeOptionalBool
  \/ DecodeOptional
  \/ DecodePointer
  \/ DecodeProduct
  \/ DecodeStaticCollection
  \/ DecodeVariant
  \/ DecodeBoostVariant
  \/ AssignVariant
  \/ DecodeResizeable
  \/ DecodeExtensible
  \/ EmplaceBack
  \/ DecodeRandomExtensible
  \/ Emplace
  \/ LeaveRandomExtensible
  \/ DecodeBitVec

\* stream >> target, where target is a new object (as in decode<T>(stream)) or
\* the one the client has been using.
Call ==
  /\ pending = << >>
  /\ target' \in {target, Default}
  /\ pending' = <<Task("read", type, << >>)>>
  /\ outcome' = "none"
  /\ UNCHANGED <<span, current_index, type>>

Next == Operator \/ Call

\* A call that has begun runs to its end; the client need not call again.
Spec == Init /\ [][Next]_vars /\ WF_vars(Operator)

-----------------------------------------------------------------------------
\* An operator changes its argument and its locals only, whatever else of the
\* target earlier operators of the call have decoded.
Argument(task) == IF task.do = "read" THEN task.path ELSE Front(task.path)
WritesOnlyItsArgument ==
  [][pending # << >> =>
       \A q \in DOMAIN target \union DOMAIN target' :
         \/ At(target', q) = At(target, q)
         \/ IsPrefix(Argument(Head(pending)), q)
         \/ 0 \in ToSet(q)]_vars

\* Until an alternative is decoded completely, the variant keeps the value it
\* has, and it has it still when the alternative fails.  (Other than an
\* optional, a pointer or a collection, whose old content is gone by then.)
PartOf(object, p) == Without(object, LAMBDA q : ~IsPrefix(p, q) \/ 0 \in ToSet(q))
VariantKeptUntilAssigned ==
  [][\A i \in 2..Len(pending) :
       LET variant == Front(pending[i].path)
       IN  pending[i].do = "assign" /\ 0 \notin ToSet(variant) =>
             PartOf(target', variant) = PartOf(target, variant)]_vars
=============================================================================
