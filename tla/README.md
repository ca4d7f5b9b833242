# A verification model of scale-codec-cpp

TLA+ modules, TLC runs and TLAPS proofs for the SCALE codec in `src/`: the encoder
stream, the decoder stream, the compact integers of both builds (SCALE and JAM), the
two streams put together as `scale::encode` and `scale::decode` do, the append to an
encoded vector, and the registry of configurations that a stream carries.

The library is sequential C++ templates; no thread, clock or network is involved.
What is hard about it is that

- an object is encoded or decoded by operators that call each other recursively
  and share one buffer and one index;
- an exception may leave from any depth of that recursion, nothing is rolled back,
  and the stream and the target stay usable, so each later call begins in the state
  the failed one has left;
- `operator>>` writes into an object that may be in use: it is resized with old
  elements kept, cleared, replaced or assigned at the end, depending on its type;
- sizes and indexes come out of the input, and meet `size_t` arithmetic,
  `max_size()` and memory;
- every limit of the compact encoding exists four times (encode, decode, length,
  redundancy check) and twice over (built-in and multiprecision integers), and all of
  it once more for the JAM build;
- `append_or_new_vec` edits an encoded vector in place, in five steps each of which
  may throw;
- a stream holds references to configuration objects whose life it does not control.

## 1. Inventory

| Component | State | Operations | Correct when |
|---|---|---|---|
| Encoder stream (`scale_encoder_stream.hpp/.cpp`) | `drop_data_`, `stream_`, `bytes_written_` | one `operator<<` per kind of type; `size()`, `to_vector()` | a call puts exactly the encoding of its object, or the part before what it cannot encode; nothing is taken back; a counting stream counts the same |
| Decoder stream (`scale_decoder_stream.hpp/.cpp`) | `span_`, `current_index_`, and the caller's target | one `operator>>` per kind of type; `hasMore`, `nextByte` | never reads behind the span; the target is an object of its type at any time; old content leaves no trace in a decoded one; every call ends |
| Compact integers (`detail/compact_integer.hpp`) | none | `encodeCompactInteger`, `decodeCompactInteger`, `lengthOfEncodedCompactInteger`, `decodeCompact<T>` | one encoding for each number, decoded to that number or refused; the length agrees |
| Fixed-width integers (`detail/fixed_width_integer.hpp`) | none | `encodeInteger`, `decodeInteger` | little-endian, all bytes or an error |
| Convenience API (`scale.hpp`) | none | `encode`, `decode`, `outcomeCatch` | round trip; truncation is reported |
| Enum traits (`enum_traits.hpp`) | none | `is_valid_enum_value`, enum `operator>>` | an enum never holds a value outside its set |
| Type concepts (`types.hpp`) | none | pick the overload | the kind of a type, see `ScaleTypes` |
| Aggregates, custom decomposition (`detail/aggregate.hpp.in`, `custom_decomposing.hpp`) | none | bind the fields | fields in order |
| Errors (`scale_error.*`, `outcome_throw.hpp`) | none | `raise` | every failure is a `std::system_error` |
| `boost::variant` support (in the streams) | none | operators of their own, with the alternative encoded and decoded as for `std::variant` | as `std::variant` |
| `as_compact` (`CompactReflection` in `types.hpp`) | a reference to an integer | `operator<<`, `operator>>` through a temporary | the integer changes only when all is decoded |
| JAM compact integers (`detail/jam_compact_integer.hpp`) | none | a second encoding, chosen when the library is built | as the compact integers |
| `encode_append` (`encode_append.hpp/.cpp`) | an encoded vector | `append_or_new_vec` | the encoding of the vector with one more item |
| Configurable streams (`configurable.hpp`) | references to the caller's configuration objects | `addConfig`, `getConfig` | a configuration that is found is the one that was given |
| Build and tests | – | – | – |

The streams call the integer functions, which call back to put or take bytes. The
API constructs one stream for each call. The enum operator, custom decomposition and
`Compact<T>` are entered from, and enter, the operators of the streams. Otherwise
components share only the stream passed along.

Hazards, each with its line and the properties meant for it, are in `PROJECT.json`.

## 2. The modules

| Module | Models |
|---|---|
| `CompactInteger` | the integer functions as constant operators; the number of bits of a byte is a constant |
| `JamCompactInteger` | the same for `jam_compact_integer.hpp`; EXTENDS `CompactInteger` for bytes and widths |
| `CompactCoding` | which of the two the build has (`JAM_COMPATIBILITY_ENABLED`, a constant), and `decodeCompact<T>`, which is common to both |
| `CompactValues` | what the two promise of a number, which is its state |
| `ScaleTypes` | the C++ types the codec serves, and objects as trees |
| `ScaleEncoderStream` | `ScaleEncoderStream` |
| `ScaleDecoderStream` | `ScaleDecoderStream` and the enum operator |
| `ScaleCodec` | an encoder and a decoder and what arrives in between; EXTENDS `ScaleDecoderStream`, whose variables are the decoder's, and has the encoder as an `INSTANCE` |
| `OpaqueVector` | what `append_or_new_vec` promises: a number of values and their bytes, to which one is added, whatever a byte, a value and the length of a header are |
| `EncodeAppend` | `append_or_new_vec`, shown to implement `OpaqueVector` |
| `Configurable` | the registry of configurations, a stream that is constructed with some, and its client |
| `ScaleSamples` | types and objects to fill instances with, and the reference definition of the format |
| `MC...` | instances for TLC, and the properties that need the samples or recursion over types |
| `..._proofs` | the theorems about the module of that name |

### Types and objects

Overload resolution is by static type, so a type is a record whose `kind` names the
overload. An object is the tree of its sub-objects: a function from paths to the
contents of the nodes (the value of a scalar, `has_value()`, `size()`, `index()`).
A node that is 0 is left out, so the empty function is the value-initialized object
of every type and equality of trees is equality of objects. The local variables of
operators in progress (`val` of a variant, `item` of a set or map) are nodes with a
0 in their path, and `Unwound` removes them when an exception passes. A parent that
is changed under its children (resize, clear, reset, replace, move) is a change of a
set of paths, which is how stale content would show.

A set or map keeps the element with key k at path `<<k+1, 1>>`; keys are integers.
`std::map`'s pair is decoded as a pair; that the element is then found under its key
is part of `TargetIsAnObject`.

What has been moved from is valid, and not empty by that alone: a pointer and a
container of dynamic size have handed over what they own (`Owners`), while scalars,
flags, `has_value()` and indexes are copied and stay. `MovedFrom` gives the nodes that
stay for each type. It is a recursive function on types; `MovedFromAssumption`
says that there is such a function, which is so because no type contains itself.

### Calls as steps

A call `stream << object` or `stream >> target` is a list `pending` of what is left
to do. One step enters one operator: it puts or takes the operator's own bytes,
changes its own argument and replaces itself at the head of `pending` by the
operators it calls. What an operator of the decoder does to its argument *between*
the operators it calls is a task of its own in the list: `emplace_back` of an
extensible collection, `emplace` of a set or map and the end of its `item`, the
assignment of a variant.
`Raise` empties the list: no operator catches anything. A step therefore is the
smallest piece of code after which an exception can show what has been done so far.

The actions have the operators' names: `EncodeOptional` is
`operator<<(const std::optional<T> &)`, `DecodeExtensible` with `EmplaceBack` is
`operator>>(ExtensibleBackCollection &)`, and so on; `map` in `PROJECT.json` gives
the lines. `NOT_ENOUGH_DATA` and the other codes are values of `outcome`; a
`std::length_error`, which does not come from `raise`, is one, too.

Details that are modelled because they can be seen from outside:

- an integer of built-in type takes all its bytes or none, one of multiprecision
  type takes what there is and leaves its argument half decoded;
- a compact integer takes its first byte before it finds that the others are
  missing, and all of them before it finds that it is redundant;
- a resizeable collection keeps its old elements if the new size cannot be had, an
  extensible one is empty by then, a set or map fails in the middle;
- an extensible collection whose size is above `max_size()` is refused with its old
  elements in place;
- the elements of a set or map are decoded into one local `item`, each into what its
  predecessor left of it when it was moved from, also when the key was there already;
  `item` is gone after the loop (`LeaveRandomExtensible`);
- an optional and a pointer are replaced before their content is decoded, a variant
  is assigned after it;
- sums of sizes are modulo `SizeMod`, in `hasMore` as in `(size + 7) / 8`;
- `as_compact` reads a temporary (`<<0>>`, a local node) and assigns it to the integer in
  a task of its own, so a failure leaves the integer alone;
- `boost::variant` and `std::variant` have an action each, as they have an operator
  each, and share `DecodeAlternative`.

### The append

`append_or_new_vec(self_encoded, input)` is the only operation of the library with
an effect between two allocations, so its call is not one step. `pc` names the next
one: the empty vector is replaced (`EncodeNew`), or else the lengths are found
(`ExtractLengthData`), memory is reserved (`Reserve`), the bytes are shifted if the
header grows (`Shift`), the new number is written over the old one (`ReplaceLen`),
and the value is inserted (`Insert`). A step that needs more than `capacity` may throw
`std::bad_alloc`; so may the two that build a new encoding. The client may call again
with whatever is there then, and `Vectors` has bytes that were never a vector: a
header that is cut, redundant, or no `uint32_t`.

`before` and `broken` are history variables. The refinement mapping takes
`self_encoded`, between calls, and `before` during one to the number in its header
and the bytes behind it; `broken`, once set, maps to `Unspecified`. `OpaqueVector` has
two actions: `Add`, and `Break`, which is possible only when the header of the new
number is longer. The client's own bad vectors map to `Unspecified`, from which
nothing may change: the code must refuse them.

### Configurations

`Configurable` has the client's objects, each alive or gone (`NoValue`), and one stream.
The constructor adds its arguments one by one and throws `std::runtime_error` at the
second of a type, or `std::bad_alloc` at any. `configs_` maps types to objects, not to values: it holds
`std::cref`s. `GetConfig` through a reference to an object that is gone is undefined, and
is any value. `local` marks the stream of `encode(value, config)` and
`decode(bytes, config)`: the client does nothing while it lives, it has one
configuration, and a `runtime_error`, which `outcomeCatch` does not catch, destroys
it. The bytes of that stream, half written, are no part of the module.

### What is abstract

`Allocatable` is the number of elements a container can get memory for, `MaxSize`
its `max_size()`; the same for all containers but bit vectors, which have no more bits
than the bytes that are there for them (`MaxBitVecSize` is the limit of
`std::vector<bool>` that counts only when the rounding wraps). Integers are natural numbers below
`2^MaxBits`, signed ones are seen as their two's complement. A stream holds any
bytes; a byte has `ByteBits` bits.

**The width of a byte.** With 8-bit bytes the second mode of a compact integer
begins at 64, the big mode at 2^30, and the encodings of a collection that reach
them cannot be enumerated. All the limits in the code follow from the 2 flag bits
and the 8 bits of a byte, so the modules derive them from `ByteBits`: with 3-bit
bytes the modes begin at 2, 16 and 1024, the largest compact integer has 5 bytes,
and every mode, limit and error occurs on short strings. `MCCompactInteger` has
8-bit bytes and the test vectors of `test/scale_compact_test.cpp`, which ties the
parameter to the real codec; the theorems hold for any width.

## 3. Runs

| Run | Instance | Checks |
|---|---|---|
| `compact` | 8-bit bytes; 0, 2^i, 2^i ± 1, 2^i + 2^j − 1 up to 2^31 − 1 | `EncodesTestVectors`, `BigRoundTrip`, `NativeTargetExactOrOverflow`, `LengthOfSmallExact`, `JamRoundTrip`, `JamLengthExact` |
| `encoder` | 3-bit bytes, `size_t` of 4 bytes; 23 types, nested two deep, with objects of up to 2 elements or 4 bits | `TypeOK`, `SizeIsExact`, `CallPutsEncoding`, `AppendOnly`, `CountingAgrees`, `CallsEnd` |
| `decoder` | the same widths; 19 types; all spans of up to 2 bytes and chosen ones of up to 6; `max_size()` 3, memory for 2 | `DecoderTypeOK`, `TargetIsAnObject`, `WritesOnlyItsArgument`, `VariantKeptUntilAssigned`, `CallsEnd` |
| `codec` | the same widths; 22 types sent, 13 types from foreign spans of up to 6 bytes; `max_size()` 5, memory for 3 | `CodecTypeOK`, `RoundTrip`, `TruncationDetected`, `AcceptsOnlyEncodings` |
| `codec_jam` | the JAM build; 3-bit bytes and a `size_t` of 3 bytes, otherwise as `codec` | `CodecTypeOK`, `RoundTrip`, `TruncationDetected` |
| `append` | 3-bit bytes, a count of 4 bytes; 9 vectors to begin with, values of 0 to 2 bytes | `TypeOK`, `FailedCallKeepsBytes`, `ImplementsOpaqueVector` |
| `configurable` | 3 types, one with two objects, one with one, one with none; 2 values; up to 3 arguments | `TypeOK`, `OneConfigPerType`, `GetConfigExact` |
| `compact_header`, `compact_length`, `compact_target`, `jam_redundant`, `bitvec_length` | as `compact` and `decoder` | the disagreements of section 5 |

What they show:

- *encoder*: after any earlier calls, failing ones too, a call appends the bytes that
  a reference definition of the format gives for the object (`Encoding` in
  `ScaleSamples`, written apart from the operators as one recursion over the type),
  or, when there is a null pointer or a too big integer in it, those in front of it.
  `CountingAgrees` is a refinement: the stream implements, with the same steps, a
  stream made with `drop_data = true`.
- *decoder*: a target that goes through several calls, with failures at any point,
  is at each moment an object of its type. `WritesOnlyItsArgument` says that no
  operator touches what its siblings have decoded; `VariantKeptUntilAssigned` that a
  failing alternative leaves a variant as it was. The type invariant has a name of its
  own, `DecoderTypeOK`, since it says more than types: the index stays within the span.
- *codec*: any object, into any target, with anything behind it, comes back equal,
  and the index is right behind it; any strict prefix is `NOT_ENOUGH_DATA`; and, for
  the types that have a single encoding for each object, whatever is accepted is
  what the encoder puts for the result.

- *codec_jam*: the same round trip with the other compact integers under every count
  and index. `AcceptsOnlyEncodings` is false there (finding 5).
- *append*: any number of calls on one vector, with memory running out anywhere, is a
  behaviour of the abstract vector; and a call that fails leaves the old bytes, at worst
  behind the zeros of a header that was to grow.
- *configurable*: through any sequence of objects changed, destroyed and asked for,
  `getConfig<T>` reads the object of type T that the constructor was given, and throws
  if and only if there was none.

*Bounds.* `MaxWritten` = 1 lets a client begin a new call as long as at most one byte
is written. That is two calls that put bytes and any number that put none, enough
for "something before", "a failure before" and "a call with the size not 0", and no
action looks at earlier bytes. In `decoder`, a span of six bytes leaves room for
three and more calls. Two elements in a collection tell the first from the others;
memory for 2 and `max_size()` of 3 put a count below, at and above each. `MaxBits` =
20 holds integers of 6 bytes of 3 bits, one more than a compact integer can have.
`SizeBytes` = 4 makes `size_t` 12 bits, larger than any span and reachable by a
compact integer of the big mode, so that `(size + 7) / 8` wraps. JAM needs as many
bytes in a `size_t` as there are bits in a byte, which its first byte counts: 3, in
`codec_jam`. In `append` the header grows at 2 and at 16 values and `Counts` has the
numbers around these, and the last ones below the big mode at 1024; the big mode itself
is left out, for its length is wrong (finding 2). A vector of up to `MaxLength` = 7
bytes can be appended to, which is the longest header and several values behind it. The
registry treats types alike: one each with two, one and no objects, and three
arguments, give every way to find, miss and repeat a type.

*Left out of the samples.* Built-in compact integers from `kMinBigInteger` on are not
sent in `codec` and `encoder`, for their encoding is wrong (finding 1 below).
`AcceptsOnlyEncodings` does not range over bit vectors (the padding of the last byte
is ignored when decoding) nor sets and maps (any order, and doubles, are accepted).
A variant that is valueless by exception is sent in `encoder` only: it puts nothing,
as modelled from the code, and a decoder cannot know of it.

*Fairness.* `WF_vars(Operator)`, in both streams: a step of a call that has begun is
the continuation of a sequential function that waits for nothing, so it is taken.
Nothing is assumed of the client, who need not call again. `CallsEnd` then says that
the recursion ends for all counts and types in the input. It holds because a count
above the memory bound raises; with unbounded memory a collection of objects of no
bytes ends, too, only late.

*Deadlock* is not checked in `compact`, `encoder`, `codec`, `codec_jam` and `append`:
the values run out, the client is bound by `MaxWritten` or `MaxLength`, and both sides
are done. Nor in `configurable`, where a client that has destroyed all its objects and
makes no stream has nothing left to do. In `decoder` it is checked: a client can
always call.

Every property has a mutant in the module of the code it watches (operators named
`Definition_WhatIsWrong`, never used by the specification); put in place of the
definition it makes TLC report the property.

## 4. Theorems

The proofs are for every value of the constants that satisfies the modules'
assumptions: any byte width from 3 on, either build, any types, objects, spans, vectors
and configurations. What the assumptions ask for, beyond that integers are integers:

- `ByteAssumption`, `MaxBitsAssumption` and `AppendAssumption` say that `Base`, and
  `SizeMod` and `CountMod`, are the powers of two that they are meant to be;
- `BitsAssumption`: each set of bits is the set of bits of some byte;
- `WidthAssumption`, `BuildAssumption`: an instance has bits enough for its integer types,
  a byte has room for the index of a variant, and in a JAM build a `size_t` has as many
  bytes as a byte has bits;
- `SpansAssumption`: spans, integer types and compact integers have less than half of
  `SizeMod` bytes, which holds for objects in memory;
- `AppendAssumption`: numbers of values stay below the big mode, where the lengths
  that the code computes with are wrong (findings 1 and 2).

### Compact integers: `CompactInteger_proofs`, `CompactCoding_proofs`, `CompactValues_proofs`

- `CompactRoundTrip`: wherever a span holds what `encodeCompactInteger` puts for a
  multiprecision integer, `decodeCompactInteger` reads that integer and takes just its
  bytes, in all four modes.
- `CompactCanonical`: what `decodeCompactInteger` accepts is, byte for byte, what
  `encodeCompactInteger` puts for the number read. No number has two encodings.
- `JamRead`: the round trip of the JAM integers. There is no `JamCanonical`: finding 5.
- `ReadOfEncoded`: the round trip of `operator<<` and `decodeCompact`, for either build.
- `CompactIntegersRoundTrip`, `NativeTargetIsExact`, `SmallLengthIsExact`,
  `JamIntegersRoundTrip` and `JamLengthIsExact` are the properties of the run `compact`
  as theorems, each `Spec => []...`.

Bytes are put together by `LittleEndianValue`, a fold. Its proof goes by
`SuffixValue`, the recursive function that says what the last bytes of a sequence are
worth (`SuffixValueEquation`): `LittleEndianRoundTrip` and `LittleEndianOfValue` are
inductions over the positions of a sequence. The induction principle is `InductionUpTo`
or `InductionDownFrom`, which take a set instead of an operator and follow from a
least counterexample (`LeastNatural`). The rest is arithmetic of quotients
(`DivisionUnique`, `DivisionTwice`) and of powers (`PowerSum`): `BitWidthMeaning` and
`ByteCountLeast` say that a width is the least that has room for its number, which is
what the redundancy check of the decoder asks for, and `ZeroAbove` that the digits of a
target above `msb` are zero. For JAM, `JamMaskMeaning`, `JamFirstByte` and
`JamPrefixMonotonic` show that the shifting prefix of the encoder and the shifting mask
of the decoder mean the same bits of the first byte.

### The encoder: `ScaleEncoderStream_proofs`

- `TypeCorrect`: `Spec => []TypeOK`. `TypeOK` is inductive as it stands. The work is
  in the bytes: that the flagged first byte fits a byte (`4 * (v % Quarter) + flag`),
  that every `ByteOf` is one, and that a byte with given bits exists. `PutsOrRaises`
  reduces the seventeen operators to two shapes: `Put` of bytes and operands of the
  right types, or `Raise`, and the step of the invariant is proved for these.
- `SizeExact`: `Spec => []SizeIsExact`, relative to `TypeOK`, since `Len` of a
  concatenation needs sequences.
- `NothingTakenBack`: `Spec => AppendOnly`.
- `CountingSimulates`: each step of a stream is a step of the stream that drops its
  bytes, and initial states are initial states. This is the safety part of
  `CountingAgrees`, that is `[]` of `Counter!Next` or a stutter; its fairness, which
  needs `ENABLED`, is checked by TLC only.

### The decoder: `ScaleDecoderStream_proofs`

- `TypeCorrect`: `Spec => []DecoderTypeOK`; its conjunct `current_index \in 0..Len(span)` is
  what the code must ensure, as `nextByte` and `nextBytes` look at no bound. The
  proof goes through the wrapping sum of `hasMore`: `HasMoreMeaning` shows that the
  test is exact as long as index and request together stay below `SizeMod`, and
  `ReadCompactType` that a compact integer of either build takes no more than is left,
  whichever of its errors it ends with. A bit vector's length is the one request that
  comes out of the input and may be near `SizeMod`; it is divided by the bits of a byte
  before it is asked for, and the proof uses that.
- `HasMoreAnswers`: what `hasMore(n)` tells a client, who may call it in any state and
  for any n: the truth as long as `current_index_ + n` does not wrap, and that the bytes
  are there for every n for which it does.
- `OnlyArgumentWritten`: `Spec => WritesOnlyItsArgument`.
- `VariantKept`: `Spec => VariantKeptUntilAssigned`.

The last two of these follow from the inductive invariant `IInv`:

- `DecoderTypeOK`, and the target is an object as `IsObject` says: no node of it is 0;
- every pending task makes sense (`TaskOK`): what is done to an argument *after* one of
  its parts is named by the path of that part, so it is not empty; an element that is
  emplaced was decoded into the local, an alternative that is assigned has an index;
- `LocalsFirst`: for each variant with an alternative still to be assigned, all the
  tasks in front of that assignment work on the local of that variant.

`OnlyArgumentWritten` alone needs the first two only: `OperatorWrites` shows, operator by
operator, that the new target is an object that differs from the old one below the
argument or in locals (`Writes`, which composes by `WritesTwice`, `WritesBelow` and
`WritesLocal`). A variant can keep its value for many steps only if none of the
operators in between reaches it, which is not in the type of a task; `LocalsFirst` says
it. It is inductive because operators put the tasks they call in front of the list, all
of them below the argument of the one that calls (`OperatorTasks`, `NestedTasks`), and
a path below a local is below it however deep the alternative goes.

### The two put together: `ScaleCodec_proofs`

- `CodecTypeCorrect`: `CodecSpec => []CodecTypeOK`. `EncoderOperators` shows that the
  operators of the instance are those of the module extended here, `EncoderStep` that
  each of its steps puts bytes and leaves operators as `Encodes` says, or raises.
- `RoundTripCorrect`: `CodecSpec => []RoundTrip`, and `TruncationCorrect`:
  `CodecSpec => []TruncationDetected`, for every type nested in any way, every object of
  it, either build, any target and anything behind the encoding.

The two last ones assume `ObjectsOfTheirTypes`, that the trees in `Calls` and `Used` are
objects that a C++ program can have: of what is sent each part has a value of its type
(`HasValue`: an `int` of n bytes fits n bytes, an index is one of an alternative, a set
has as many elements as it says and finds each under its key, a size is one that memory
has been found for), and no node that its type has no place for (`HasShape`); of a target
in use only the latter is asked, as a failed call may have left anything in it. In a
SCALE build built-in compact integers stay below the big mode (finding 1). `MCScaleCodec`
has TLC check that the samples are such objects. An object may have a null pointer or
another part that cannot be encoded; its encoding fails and nothing is delivered.

The argument is a simulation. While the object is encoded its *trace* is written down
(`Traced`): the stack `enc_pending` and the number of bytes put, after each step, from
the whole object to the empty stack. The invariant `CodecTrackInv` says

- `EncodesObject`: there is a trace up to where the encoder is;
- `DecodesObject`: the bytes agree with the stream as far as they go (`Agree`), there is a
  complete trace, and the decoder is at a point of it (`OnTrack`) or has stopped at the
  cut (`CutOff`). At a point means that the index is the number of bytes put there, no
  error has occurred, and the tasks pending *lead* from the target as it is, with the
  stack as it was, to the object, with the empty stack.

`Leads` is a chain of `Does`, one for each task. A read does its part when the sub-object
at its path becomes the one that the first operator of the stack stands for; this operator
is taken off the stack, and all else in the target stays (`IsPut`). `emplace_back`, `emplace`
and the assignments do what their actions do. So the local of a variant or of a set's element is
treated like any other place, and what was in a target before appears only where a read
has still to replace it. That goes for the `item` of a set or map, too, which holds the
stale rest of the element before (`StaleShaped`, from `StayingMeaning`) when the next is
read into it; only the last task of the loop, `leave`, clears it (`IsLeft`, `LeaveTask`).
Until then two targets that `Keeps` relates may differ in it. That an object of either type is meant by the same trees, and that
the parts of an object are found by the type (`ChildTyped`, `RandomTyped`), comes from
`IsTyped`, which is closed under parts and thereby needs no recursion.

For each operator the proof shows `Serves`: where the span holds the bytes that were put
for this part, the operator takes just these and what it leaves to do leads to where the
read was to lead; where the span ends within them, it fails for want of data. `FixedServes`,
`CompactServes` (with `ReadOfEncoded` and `ReadOfCut`), `BitVecServes`, `OptionalServes`,
`ResizeableServes`, `ExtensibleServes`, `RandomServes`, `VariantServes` and the others come
together in `ReadServes`, and `FinishServes` is about the tasks between reads. For a set or
map, `AllIterated` and `EmplaceLead` show that the elements, which arrive in the order of
their keys, are each new to the target, so that the last emplacement makes it the set that
was sent. `ReceivedWhole` concludes: when nothing is pending, either all was taken and the
target is the object, or the bytes were cut off.

`CodecTrackInv` says "there is a trace", over sequences of stacks without bound, so TLC
cannot evaluate it; it checks the properties themselves, in `codec` and `codec_jam`.

### The append: `EncodeAppend_proofs`

- `TypeCorrect`: `Spec => []TypeOK`.
- `FailureLosesNothing`: `Spec => []FailedCallKeepsBytes`. The property speaks of a call
  that is over; what makes it true is that nothing can fail once the header is
  overwritten. The inductive invariant `Inv` therefore says, for each `pc`, what has been
  reserved (`Reserved`): before the shift, enough for the shift and the value; after it,
  enough for the value. That the sums fit together needs `HeaderNotShorter`, the new
  header is no shorter than the old one, without which the `uint32_t` difference
  `ShiftSize` wraps; it follows from `LengthOfCompactMonotonic` and the bound on the
  number (`CountBounded`). `NotYetChanged` and `OldBehindZeros` say where the old bytes
  are before and after the shift.
- `AppendImplementsVector`: `EncodeAppend` implements `OpaqueVector`
  (`ImplementsOpaqueVector`, with the refinement mapping of section 2). `VectorInv` adds
  to `Inv` what the vector is in each step: `HeaderExtracted`, the lengths are those of
  the header of `before` and of its successor; `OldShifted`, before the overwriting
  there are zeros and then `before`; `HeaderReplaced`, after it there is the new header
  and what was behind the old one; `StaysCanonical`, the vector has been one with a
  canonical header since the first call. A step between the first and the last of a
  call stutters, since `before` stands for the vector; the insertion is an `Add`
  (`InsertAdds`), because the new header is read back (`ReadOfEncoded`); a failure after
  the shift is a `Break` (`BreaksVector`).
  For a SCALE build nothing is assumed of the vectors, which may be any bytes: a header
  that is accepted is canonical (`ScaleHeaderCanonical`, from `CompactCanonical`), so
  its computed length is its length. A JAM build accepts headers that are redundant
  (finding 5), of which that is false, and the vector would be overwritten in the
  wrong place; there the theorem has the hypothesis that all `Vectors` are
  `HeaderCanonical`.

### Configurations: `Configurable_proofs`

- `TypeCorrect`, `NoConfigLeftOut` (`Spec => []OneConfigPerType`) and
  `GetConfigFindsGiven` (`Spec => GetConfigExact`), from one inductive invariant:
  `Registered` says that the references are just those to the arguments added so far,
  which have different types, and `Complete` that a stream that is made has them all.

### Model-checked only

- `CallsEnd` of both streams, and the fairness in `CountingAgrees`: liveness and
  `ENABLED` are not within reach of the provers.
- `TargetIsAnObject`, `CallPutsEncoding` and `EncodesTestVectors`: the first two are
  stated with recursion over types, the last is a list of numbers.
- `AcceptsOnlyEncodings`: the converse of the round trip, for which the simulation would
  have to go from the bytes accepted to an encoder that does not exist yet, and that for
  the types of a single encoding only.

## 5. Where code and text disagree

1. `compact_integer.hpp:95` takes `std::bit_width`, bits, for the number of bytes. A
   `Compact<uint32_t>` or `uint64_t` from 2^30 on, and the count of a collection of
   as many elements, gets a header that announces 31 to 64 bytes, with 4 to 8 behind
   it. The comment at line 105 says bytes. (`compact_header`)
2. `compact_integer.hpp:38` leaves the header byte out of the length of a multiprecision
   integer from 2^30 on, and line 35 counts the bits of a built-in one for its bytes.
   (`compact_length`)
3. `scale_decoder_stream.hpp:74`: a value too wide for a multiprecision target is cut
   off, while `DECODED_VALUE_OVERFLOWS_TARGET` is documented for that.
   (`compact_target`)
4. `scale_decoder_stream.cpp:37`: for a length within 7 of 2^64 the rounding wraps to
   0 bytes and `resize()` throws `std::length_error`, which is not the
   `std::system_error` that `README.md:70` and `outcomeCatch` handle.
   (`bitvec_length`)
5. `jam_compact_integer.hpp:125`: the mask of the redundancy check has been shifted once
   more than the first byte has length bits, so the upper bit of what the first byte
   could have held is not looked at. `0x80 0x40` is accepted as 64, which is encoded as
   `0x40`, while `0x80 0x3f` is refused; `scale_compact_test.cpp:160-162` says that
   redundant bytes are an error. (`jam_redundant`)

Without a run, because nothing in the library asks for it: `jam_compact_integer.hpp:23`
gives 10 as the length of a value with all 64 bits, whose encoding has 9 bytes, while the
comment at line 20 promises the length of the encoding. `JamLengthExact`, and
`JamLengthIsExact` with it, is about smaller values. And `hasMore(n)`, of which the
comment at `scale_decoder_stream.hpp:427-429` says "True if n more bytes are available and
false otherwise", adds n to the index (`scale_decoder_stream.cpp:55`): for an n near 2^64
the sum wraps and the answer is true, whatever is left. The theorem `HasMoreAnswers` says
so for each n; the operators ask for no such n.

## 6. Not modelled

- The generated `aggregate.hpp` and the macros that bind fields: the kind `product` is
  what they call.
- That a C++ type satisfies the concepts of one kind only (`types.hpp`): checked by the
  compiler; a type of the model has its kind.
- `NEGATIVE_COMPACT_INTEGER`: no type that satisfies `CompactCompatible` is signed.
- `decodeInteger` for built-in integers in `fixed_width_integer.hpp:151-162`, and the JAM
  length of multiprecision integers (`jam_compact_integer.hpp:25`): nothing calls them.
- `std::bit_width` is taken to return an `int`, as since LWG 3656. With a library that
  returns the unsigned type of its argument, `bit_width(0) - 1` wraps in the JAM length
  of 0.
- The width of `uint256_t` and wider types (`fixed_width_integer.hpp:66`) is the
  `size()` of a default constructed Boost backend; what that is depends on Boost,
  which is not in the repository. The model takes the width as given by the type.
- The objects of a client that are gone while a stream refers to them: to read them is
  undefined behaviour, and any value is what the model has for it.
- Exceptions of user code (element constructors, comparators), and `std::bad_alloc` where
  the code does not catch it (single objects of pointers, bit vectors, the encoder's
  buffer), except in `append_or_new_vec`
  and in the constructors of configured streams.
- `append_or_new_vec` from 2^30 values on, where the lengths it computes with are those
  of findings 1 and 2, and at 2^32 - 1 values, where the number wraps; with a redundant
  header, which the JAM build accepts (finding 5); and with an `input` that is part of
  `self_encoded`, whose bytes move under it.
- Error texts, build scripts, and the tests themselves, which are read as the source of
  test vectors and expectations.

## 7. Plan

Done: all of the components above, their runs, and the theorems of section 4. What is
left:

1. `AcceptsOnlyEncodings` as a theorem, for types without bit vectors, sets and maps: from
   `CompactCanonical`, and an invariant that what has been decoded is already what the
   encoder will put, wherever the finishing tasks move it.
2. `TargetIsAnObject` as a theorem, stated like `IsTyped` with a set of parts instead of
   recursion.
3. Counts beyond the big mode in `EncodeAppend`, when findings 1 and 2 are resolved in the
   code.
