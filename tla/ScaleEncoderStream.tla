------------------------- MODULE ScaleEncoderStream -------------------------
(***************************************************************************)
(* scale_encoder_stream.hpp and scale_encoder_stream.cpp: the stream that  *)
(* objects are encoded to, and its operator<< for every kind of type.      *)
(*                                                                         *)
(* A client makes calls stream << object one after the other.  A call runs *)
(* as a sequence of steps, one for each operator<< that is entered: the    *)
(* step puts the operator's own bytes and leaves the operators it calls,   *)
(* in order, at the head of pending.  An operator that raises ends the     *)
(* whole call: the exception leaves through every operator in progress,    *)
(* none of which catches it, and nothing is undone.  The stream stays      *)
(* usable.                                                                 *)
(***************************************************************************)
EXTENDS CompactCoding, ScaleTypes

CONSTANTS
  Calls,       \* what the client may encode: records of a type and an object
  MaxWritten   \* bound: no new call when more bytes than this are written

ASSUME CallsAssumption ==
  \A c \in Calls : c.type \in Types /\ IsObject(c.object)

\* The integers of the instance cover the integer types, and a byte the index
\* of a variant.
ASSUME WidthAssumption ==
  \A t \in Types :
    /\ t.kind \in {"int", "big", "enum"} => ByteBits * (t.n - 1) < MaxBits
    /\ t.kind \in {"variant", "boostvariant"} => Len(t.of) <= Base

VARIABLES
  drop_data,       \* drop_data_: count the bytes, do not keep them
  stream,          \* stream_
  bytes_written,   \* bytes_written_
  source,          \* the object given to the current or last call
  pending,         \* operator<< calls to be entered, the next one first
  outcome          \* error of the current or last call, "none" without one

vars == <<drop_data, stream, bytes_written, source, pending, outcome>>

EncodeErrors ==
  { "COMPACT_INTEGER_TOO_BIG", "VALUE_TOO_BIG_FOR_COMPACT_REPRESENTATION",
    "DEREF_NULLPOINTER" }

\* One operator<< to be entered, on the sub-object of source at path.
Operand(type, path) == [type |-> type, path |-> path]
Operands == [type : Types, path : Seq(Nat)]

TypeOK ==
  /\ drop_data \in BOOLEAN
  /\ stream \in Seq(Byte)
  /\ bytes_written \in Nat
  /\ IsObject(source)
  /\ pending \in Seq(Operands)
  /\ outcome \in EncodeErrors \union {"none"}

Init ==
  /\ drop_data \in BOOLEAN
  /\ stream = << >>
  /\ bytes_written = 0
  /\ source = Default
  /\ pending = << >>
  /\ outcome = "none"

-----------------------------------------------------------------------------

\* The operator at the head of pending: its type, and its argument's path
\* and content.
Serving(kind) == pending # << >> /\ Head(pending).type.kind = kind
Type == Head(pending).type
Path == Head(pending).path
Content == At(source, Path)

\* Mutants: dropped bytes are kept; only kept bytes are counted.
PutBytes_KeepsDropped(bytes) ==
  /\ bytes_written' = bytes_written + Len(bytes)
  /\ stream' = stream \o bytes

PutBytes_CountsKept(bytes) ==
  /\ bytes_written' = IF drop_data THEN bytes_written ELSE bytes_written + Len(bytes)
  /\ stream' = IF drop_data THEN stream ELSE stream \o bytes

\* putByte for each of bytes.
PutBytes(bytes) ==
  /\ bytes_written' = bytes_written + Len(bytes)
  /\ stream' = IF drop_data THEN stream ELSE stream \o bytes

\* The operator puts bytes, then calls the given operators in order.
Put(bytes, operands) ==
  /\ PutBytes(bytes)
  /\ pending' = operands \o Tail(pending)
  /\ drop_data' = drop_data
  /\ UNCHANGED <<source, outcome>>

\* Mutant: the bytes put so far are taken back.
Raise_RollsBack(error) ==
  /\ outcome' = error
  /\ pending' = << >>
  /\ drop_data' = drop_data
  /\ stream' = << >>
  /\ bytes_written' = 0
  /\ UNCHANGED source

Raise(error) ==
  /\ outcome' = error
  /\ pending' = << >>
  /\ drop_data' = drop_data
  /\ UNCHANGED <<stream, bytes_written, source>>

\* Operands for the first n children of the argument.
Children(type, n) == [i \in 1..n |-> Operand(type, Path \o <<i>>)]

\* Length(n): a compact size_t.
LengthBytes(n) == EncodeCompactOfNative(n).bytes

-----------------------------------------------------------------------------
(* The operators.                                                          *)

EncodeBool == Serving("bool") /\ Put(<<IF Content # 0 THEN 1 ELSE 0>>, << >>)

\* One byte at a time, the least significant one first.
EncodeInteger == Serving("int") /\ Put(LittleEndian(Content, Type.n), << >>)

EncodeBigFixedWidthInteger ==
  Serving("big") /\ Put(LittleEndian(Content, Type.n), << >>)

\* The underlying value; it is not checked to be an enumerator.
EncodeEnum == Serving("enum") /\ Put(LittleEndian(Content, Type.n), << >>)

EncodeCompact ==
  /\ Serving("compact")
  /\ Put(EncodeCompactOfNative(Content).bytes, << >>)

EncodeBigCompact ==
  /\ Serving("bigcompact")
  /\ LET encoded == EncodeCompactOfBig(Content)
     IN  IF encoded.error = "none"
         THEN Put(encoded.bytes, << >>)
         ELSE Raise(encoded.error)

\* stream << Compact<T>(value.ref)
EncodeCompactReflection ==
  Serving("as_compact") /\ Put(<< >>, <<Operand(Type.of[1], Path)>>)

\* encodeOptionalBool: NONE = 0, OPT_TRUE = 1, OPT_FALSE = 2.
EncodeOptionalBool ==
  /\ Serving("optbool")
  /\ Put(<<CASE Content = 0 -> 0
             [] Content # 0 /\ At(source, Path \o <<1>>) # 0 -> 1
             [] OTHER -> 2>>, << >>)

EncodeOptional ==
  /\ Serving("optional")
  /\ \/ Content = 0 /\ Put(<<0>>, << >>)
     \/ Content # 0 /\ Put(<<1>>, Children(Type.of[1], 1))

EncodePointer ==
  /\ Serving("pointer")
  /\ \/ Content = 0 /\ Raise("DEREF_NULLPOINTER")
     \/ Content # 0 /\ Put(<< >>, Children(Type.of[1], 1))

\* Pairs, tuples, aggregates and custom decompositions: (*this << ... << args).
EncodeProduct ==
  /\ Serving("product")
  /\ Put(<< >>, [i \in DOMAIN Type.of |-> Operand(Type.of[i], Path \o <<i>>)])

EncodeStaticCollection ==
  Serving("array") /\ Put(<< >>, Children(Type.of[1], Type.n))

\* encodeDynamicCollection of a sequence, and the operator of
\* std::vector<bool>, which does the same.
EncodeSequence ==
  /\ Serving("resizeable") \/ Serving("extensible")
  /\ Put(LengthBytes(Content), Children(Type.of[1], Content))

\* encodeDynamicCollection of a set or a map: in the order of the keys.
EncodeRandomCollection ==
  /\ Serving("random")
  /\ \E keys \in Iterations(Keys(source, Path), Content) :
       Put(LengthBytes(Content),
           [i \in 1..Content |->
              Operand(Type.of[1], Path \o <<keys[i] + 1, 1>>)])

\* Mutant: a last byte that is not full is left out.
PackBits_FullBytesOnly(size) ==
  [k \in 1..(size \div ByteBits) |->
     ByteWith({b \in 0..(ByteBits - 1) :
                 At(source, Path \o <<ByteBits * (k - 1) + b + 1>>) # 0})]

\* Bit i of the vector is bit i % 8 of byte i / 8; the last byte is put even
\* when it is not full.
PackBits(size) ==
  [k \in 1..((size + ByteBits - 1) \div ByteBits) |->
     ByteWith({b \in 0..(ByteBits - 1) :
                 At(source, Path \o <<ByteBits * (k - 1) + b + 1>>) # 0})]

EncodeBitVec ==
  Serving("bitvec") /\ Put(LengthBytes(Content) \o PackBits(Content), << >>)

\* Mutant: the search for the alternative does not stop behind the last one.
EncodeVariant_SearchesOn ==
  /\ Serving("variant")
  /\ \/ /\ Content + 1 \in DOMAIN Type.of
        /\ Put(<<Content>>,
               <<Operand(Type.of[Content + 1], Path \o <<Content + 1>>)>>)
     \/ Content + 1 \notin DOMAIN Type.of /\ UNCHANGED vars

\* tryEncodeAsOneOfVariant tries the alternatives in order.  None matches a
\* variant that is valueless by exception: nothing is put, nothing raised.
EncodeVariant ==
  /\ Serving("variant")
  /\ \/ /\ Content + 1 \in DOMAIN Type.of
        /\ Put(<<Content>>,
               <<Operand(Type.of[Content + 1], Path \o <<Content + 1>>)>>)
     \/ Content + 1 \notin DOMAIN Type.of /\ Put(<< >>, << >>)

\* The alternatives are tried by their type; a boost::variant has one always.
EncodeBoostVariant ==
  /\ Serving("boostvariant")
  /\ Content + 1 \in DOMAIN Type.of
  /\ Put(<<Content>>, <<Operand(Type.of[Content + 1], Path \o <<Content + 1>>)>>)

-----------------------------------------------------------------------------

\* The client calls stream << object.
Call(c) ==
  /\ pending = << >>
  /\ bytes_written <= MaxWritten
  /\ source' = c.object
  /\ pending' = <<Operand(c.type, << >>)>>
  /\ outcome' = "none"
  /\ drop_data' = drop_data
  /\ UNCHANGED <<stream, bytes_written>>

Operator ==
  \/ EncodeBool
  \/ EncodeInteger
  \/ EncodeBigFixedWidthInteger
  \/ EncodeEnum
  \/ EncodeCompact
  \/ EncodeBigCompact
  \/ EncodeCompactReflection
  \/ EncodeOptionalBool
  \/ EncodeOptional
  \/ EncodePointer
  \/ EncodeProduct
  \/ EncodeStaticCollection
  \/ EncodeSequence
  \/ EncodeRandomCollection
  \/ EncodeBitVec
  \/ EncodeVariant
  \/ EncodeBoostVariant

Next == Operator \/ \E c \in Calls : Call(c)

\* A call that has begun runs to its end; the client need not call again.
Spec == Init /\ [][Next]_vars /\ WF_vars(Operator)

-----------------------------------------------------------------------------

\* size() is the number of bytes kept, unless they are dropped: putByte's
\* count and its buffer agree after any calls, failed ones among them.
SizeIsExact ==
  IF drop_data THEN stream = << >> ELSE bytes_written = Len(stream)

\* What is in the stream stays: no operator, not even one that raises, takes
\* back or overwrites a byte, or begins to drop bytes.
KeepsBytes == IsPrefix(stream, stream') /\ drop_data' = drop_data
AppendOnly == [][KeepsBytes]_vars
=============================================================================
