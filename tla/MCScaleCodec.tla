---------------------------- MODULE MCScaleCodec ----------------------------
(***************************************************************************)
(* Two streams on a small codec (3-bit bytes): objects of every kind of    *)
(* type sent, cut off, followed by other bytes and decoded into new and    *)
(* used objects, and byte strings that nobody encoded.                     *)
(***************************************************************************)
EXTENDS ScaleCodec, ScaleSamples

Integers8 == {0, 1, 2, 8, 15, 16, 300, 511, 1023, 1024, 5000, 32767}

\* Of this, once moved from, the index, the bool and the flag stay, and the
\* pointer is null.
Item == Variant(<<Bool, Optional(Pointer(Bool))>>)

Sent ==
  { Bool, UInt(1), UInt(2), Big(3), Enum(1, {1, 5}), Compact(2), Compact(4),
    BigCompact(5), OptBool, Optional(Pointer(Bool)), Pointer(UInt(2)),
    Product(<<UInt(1), OptBool>>), Array(2, Compact(1)),
    Vector(Optional(Bool)), Vector(Vector(Bool)), Extensible(Enum(1, {1, 5})),
    SetOf(UInt(1)), MapOf(UInt(1), Vector(Bool)), MapOf(Bool, Item), BitVec,
    Variant(<<Bool, Product(<<Bool, Vector(Bool)>>)>>),
    BoostVariant(<<Product(<<AsCompact(Compact(2)), Bool>>), SetOf(UInt(1))>>) }

\* The types of which every object has one encoding: not those that ignore
\* the padding of a bit vector, or the order of a set.
Unambiguous ==
  { UInt(2), Enum(1, {1, 5}), Compact(2), Compact(1), OptBool, Product(<<Big(2), Bool>>),
    Pointer(Optional(Bool)), Array(2, Bool), Vector(Optional(Bool)),
    Extensible(Vector(Bool)), Variant(<<Bool, Vector(UInt(1))>>),
    BoostVariant(<<AsCompact(Compact(2)), Bool>>) }

MCTypes == WithComponents(Sent \union Unambiguous)

SentObjects(t) == Trees(t, IF t.of = << >> THEN Integers8 ELSE {0, 6}, 2, 4)

MCCalls == UNION {{[type |-> t, object |-> tree] : tree \in SentObjects(t)} : t \in Sent}

MCUsed ==
  [t \in MCTypes |->
     Trees(t, IF t.of = << >> THEN {0, 511} ELSE {6}, 2, 2)]

Strings(bytes, n) == [1..n -> bytes]

\* Any two bytes; longer strings of flags, counts and indexes; and all the
\* big integers there are with bytes from a few.
MCForeign ==
  {[type |-> t, span |-> s] :
     t \in Unambiguous,
     s \in UNION {Strings(Byte, n) : n \in 0..2}
             \union UNION {Strings({0, 1, 5}, n) : n \in 3..5}}
    \union
  {[type |-> BigCompact(5), span |-> s] :
     s \in {<<3>> \o rest : rest \in Strings({0, 1, 2, 7}, 4)}
             \union {<<7>> \o rest : rest \in Strings({0, 1, 7}, 5)}
             \union {<<2>> \o rest : rest \in Strings(Byte, 3)}}

MCSpans == {f.span : f \in MCForeign}

\* The sets of parts that ObjectsOfTheirTypes says there are.
RECURSIVE AllParts(_, _)
AllParts(tree, part) ==
  {part} \union UNION {AllParts(tree, sub) : sub \in PartsOf(tree, part)}

ASSUME SamplesAreOfTheirTypes ==
  /\ \A c \in MCCalls : \A part \in AllParts(c.object, Part(c.type, << >>)) :
       HasShape(c.object, part) /\ HasValue(c.object, part)
  /\ \A t \in MCTypes : \A used \in MCUsed[t] :
       \A part \in AllParts(used, Part(t, << >>)) : HasShape(used, part)

MCTails == {<<0>>, <<3, 1>>}
=============================================================================
