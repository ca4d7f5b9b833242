----------------------------- MODULE ScaleCodec -----------------------------
(***************************************************************************)
(* An encoder stream and a decoder stream put together: scale::encode and  *)
(* scale::decode of scale.hpp on two sides of a medium.                    *)
(*                                                                         *)
(* An object is encoded; the bytes are delivered whole, cut off anywhere,  *)
(* or with other bytes behind them; they are decoded into a new object or  *)
(* into one that is in use; and what has been decoded is encoded again.    *)
(* The bytes may also come from somebody else.                             *)
(*                                                                         *)
(* The decoder stream is that of the module extended here, with its        *)
(* variables and operators; the encoder stream is an instance.             *)
(***************************************************************************)
EXTENDS ScaleDecoderStream

CONSTANTS
  Calls,         \* what may be encoded: records of a type and an object
  Foreign,       \* what may come from elsewhere: records of a type and a span
  Used,          \* of each type, objects in use that may be decoded into
  Tails          \* what may follow an encoding in a span

ASSUME CodecAssumption ==
  /\ \A c \in Calls : c.type \in Requests /\ IsObject(c.object)
  /\ \A f \in Foreign : f.type \in Requests /\ f.span \in Spans
  /\ \A t \in Requests : \A used \in Used[t] : IsObject(used)
  /\ Tails \subseteq Seq(Byte)

VARIABLES
  phase,         \* "encoding", "decoding" or "reencoding"
  object,        \* the object that is sent
  source, stream, bytes_written, enc_pending, enc_outcome

encoder == <<source, stream, bytes_written, enc_pending, enc_outcome>>
codec_vars == <<phase, object, encoder, vars>>

Encoder == INSTANCE ScaleEncoderStream
  WITH drop_data <- FALSE, pending <- enc_pending, outcome <- enc_outcome,
       MaxWritten <- 0

ASSUME EncoderWidthAssumption ==
  \A t \in Types :
    /\ t.kind \in {"int", "big", "enum"} => ByteBits * (t.n - 1) < MaxBits
    /\ t.kind \in {"variant", "boostvariant"} => Len(t.of) <= Base

-----------------------------------------------------------------------------

\* stream << value and stream >> target, about to begin on a new stream.
EncodeCall(t) == <<Encoder!Operand(t, << >>)>>
DecodeCall(t) == <<Task("read", t, << >>)>>

InitSend ==
  \E c \in Calls :
    /\ phase = "encoding"
    /\ object = c.object
    /\ source = c.object /\ stream = << >> /\ bytes_written = 0
    /\ enc_pending = EncodeCall(c.type) /\ enc_outcome = "none"
    /\ type = c.type
    /\ span = << >> /\ current_index = 0 /\ target = Default
    /\ pending = << >> /\ outcome = "idle"

InitForeign ==
  \E f \in Foreign : \E used \in {Default} \union Used[f.type] :
    /\ phase = "decoding"
    /\ object = Default
    /\ source = Default /\ stream = << >> /\ bytes_written = 0
    /\ enc_pending = << >> /\ enc_outcome = "none"
    /\ type = f.type
    /\ span = f.span /\ current_index = 0 /\ target = used
    /\ pending = DecodeCall(f.type) /\ outcome = "none"

CodecInit == InitSend \/ InitForeign

Encode ==
  /\ phase \in {"encoding", "reencoding"}
  /\ Encoder!Operator
  /\ UNCHANGED <<phase, object, vars>>

\* to_vector() reaches the other side, or a part of it, or more.
Deliver ==
  /\ phase = "encoding" /\ enc_pending = << >> /\ enc_outcome = "none"
  /\ phase' = "decoding"
  /\ span' \in Prefixes(stream) \union {stream \o tail : tail \in Tails}
  /\ span' \in ByteStrings
  /\ current_index' = 0
  /\ target' \in {Default} \union Used[type]
  /\ pending' = DecodeCall(type)
  /\ outcome' = "none"
  /\ UNCHANGED <<object, encoder, type>>

Decode ==
  /\ phase = "decoding"
  /\ Operator
  /\ UNCHANGED <<phase, object, encoder>>

Reencode ==
  /\ phase = "decoding" /\ pending = << >> /\ outcome = "none"
  /\ phase' = "reencoding"
  /\ source' = target
  /\ stream' = << >>
  /\ bytes_written' = 0
  /\ enc_pending' = EncodeCall(type)
  /\ enc_outcome' = "none"
  /\ UNCHANGED <<object, vars>>

CodecNext == Encode \/ Deliver \/ Decode \/ Reencode

CodecSpec == CodecInit /\ [][CodecNext]_codec_vars

-----------------------------------------------------------------------------
(* Objects of their types: what a program can hold in a C++ object.        *)

\* A sub-object and its type.
Part(t, p) == [type |-> t, path |-> p]
Parts == [type : Types, path : Seq(Nat)]

\* The parts that a part consists of.
PartsOf(tree, part) ==
  LET t == part.type
      p == part.path
      v == At(tree, p)
      Elements(n) == {Part(t.of[1], p \o <<i>>) : i \in 1..n}
  IN  CASE t.kind = "as_compact" -> {Part(t.of[1], p)}
        [] t.kind \in {"optional", "pointer", "resizeable", "extensible"} -> Elements(v)
        [] t.kind = "array" -> Elements(t.n)
        [] t.kind = "product" -> {Part(t.of[i], p \o <<i>>) : i \in DOMAIN t.of}
        [] t.kind \in {"variant", "boostvariant"} ->
             {Part(t.of[i], p \o <<i>>) : i \in DOMAIN t.of \intersect {v + 1}}
        [] t.kind = "random" ->
             {Part(t.of[1], p \o <<k + 1, 1>>) : k \in Keys(tree, p)}
        [] OTHER -> {}

\* Its other nodes, which are 1 if they are there.
Flags(tree, part) ==
  LET p == part.path
  IN  CASE part.type.kind \in {"optbool", "bitvec"} -> {p \o <<i>> : i \in 1..At(tree, p)}
        [] part.type.kind = "random" -> {p \o <<k + 1>> : k \in Keys(tree, p)}
        [] OTHER -> {}

\* A part has no nodes but those its type has a place for.
HasShape(tree, part) ==
  /\ part.type.kind \in {"product", "array"} => At(tree, part.path) = 0
  /\ \A q \in DOMAIN tree :
       IsStrictPrefix(part.path, q) =>
         \/ q \in Flags(tree, part) /\ tree[q] = 1
         \/ \E sub \in PartsOf(tree, part) : IsPrefix(sub.path, q)

HasWidth(v, n) == Representable(v) /\ BitWidth(v) <= ByteBits * n

\* A built-in integer of n bytes.  None is wider than size_t in a JAM build; in
\* the other the encoding of those from kMinBigInteger on is wrong.
IsNative(v, n) ==
  /\ HasWidth(v, n)
  /\ IF JAM_COMPATIBILITY_ENABLED THEN HasWidth(v, SizeBytes) ELSE v < kMinBigInteger

\* A part's own content is a value of its type; there is memory for it.  (A
\* variant that is valueless by exception has no encoding, nor has a null
\* pointer.)
HasValue(tree, part) ==
  LET t == part.type
      v == At(tree, part.path)
      keys == Keys(tree, part.path)
  IN  CASE t.kind \in {"bool", "optional", "optbool", "pointer"} -> v \in {0, 1}
        [] t.kind \in {"int", "big", "bigcompact"} -> HasWidth(v, t.n)
        [] t.kind = "enum" -> HasWidth(v, t.n) /\ v \in t.valid
        [] t.kind = "compact" -> IsNative(v, t.n)
        [] t.kind \in {"resizeable", "extensible"} ->
             IsNative(v, SizeBytes) /\ v <= Allocatable
        [] t.kind = "random" ->
             /\ IsNative(v, SizeBytes) /\ v <= Allocatable
             /\ IsFiniteSet(keys) /\ v = Cardinality(keys)
             /\ \A k \in keys : At(tree, KeyPath(t, part.path \o <<k + 1, 1>>)) = k
        [] t.kind = "bitvec" -> IsNative(v, SizeBytes) /\ v <= MaxBitVecSize
        [] t.kind \in {"variant", "boostvariant"} -> v + 1 \in DOMAIN t.of
        [] OTHER -> TRUE

\* The part of type t at p and all parts of it are of that shape, and have
\* such values.
IsShaped(tree, t, p) ==
  \E parts \in SUBSET Parts :
    /\ Part(t, p) \in parts
    /\ \A part \in parts : PartsOf(tree, part) \subseteq parts /\ HasShape(tree, part)

IsTyped(tree, t, p) ==
  \E parts \in SUBSET Parts :
    /\ Part(t, p) \in parts
    /\ \A part \in parts : /\ PartsOf(tree, part) \subseteq parts
                           /\ HasShape(tree, part) /\ HasValue(tree, part)

\* What is sent are objects of their types, and so far as there is something
\* in them, what is decoded into.
ObjectsOfTheirTypes ==
  /\ \A c \in Calls : IsTyped(c.object, c.type, << >>)
  /\ \A t \in Requests : \A used \in Used[t] : IsShaped(used, t, << >>)

-----------------------------------------------------------------------------

CodecTypeOK ==
  /\ phase \in {"encoding", "decoding", "reencoding"}
  /\ IsObject(object)
  /\ Encoder!TypeOK
  /\ DecoderTypeOK

Received == phase = "decoding" /\ pending = << >> /\ outcome # "idle"

\* What is encoded and arrives, with anything behind it, is decoded to an
\* equal object whatever was in the target before, and the stream stands
\* right behind the encoding.
RoundTrip ==
  Received /\ stream # << >> /\ IsPrefix(stream, span) =>
    /\ outcome = "none"
    /\ target = object
    /\ current_index = Len(stream)

\* An encoding that is cut off anywhere is reported as just that: it is never
\* taken for another object, nor for malformed data.
TruncationDetected ==
  Received /\ IsStrictPrefix(span, stream) => outcome = "NOT_ENOUGH_DATA"

\* Bytes of whatever origin that are accepted are the encoding of what they
\* are decoded to: no object has a second encoding, and what was in the target
\* before leaves no trace in it.
AcceptsOnlyEncodings ==
  phase = "reencoding" /\ enc_pending = << >> =>
    /\ enc_outcome = "none"
    /\ stream = SubSeq(span, 1, current_index)
=============================================================================
