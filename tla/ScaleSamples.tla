---------------------------- MODULE ScaleSamples ----------------------------
(***************************************************************************)
(* Types and objects to instantiate the codec with, and what the SCALE     *)
(* format says of them: the reference the streams are checked against.     *)
(***************************************************************************)
EXTENDS CompactCoding, TLC

ScaleType(kind, n, of) == [kind |-> kind, n |-> n, of |-> of, valid |-> {}]

Bool     == ScaleType("bool", 1, << >>)
UInt(n)  == ScaleType("int", n, << >>)
Big(n)   == ScaleType("big", n, << >>)
Enum(n, values) == [ScaleType("enum", n, << >>) EXCEPT !.valid = values]
Compact(n)      == ScaleType("compact", n, << >>)
BigCompact(n)   == ScaleType("bigcompact", n, << >>)
OptBool         == ScaleType("optbool", 1, << >>)
Optional(t)     == ScaleType("optional", 0, <<t>>)
Pointer(t)      == ScaleType("pointer", 0, <<t>>)
Product(of)     == ScaleType("product", 0, of)
Array(n, t)     == ScaleType("array", n, <<t>>)
Vector(t)       == ScaleType("resizeable", 0, <<t>>)
Extensible(t)   == ScaleType("extensible", 0, <<t>>)
SetOf(t)        == ScaleType("random", 0, <<t>>)
MapOf(k, v)     == ScaleType("random", 0, <<Product(<<k, v>>)>>)
BitVec          == ScaleType("bitvec", 0, << >>)
Variant(of)     == ScaleType("variant", 0, of)
BoostVariant(of) == ScaleType("boostvariant", 0, of)
AsCompact(t)    == ScaleType("as_compact", 0, <<t>>)

RECURSIVE WithComponents(_)
WithComponents(types) ==
  LET components == UNION {{t.of[i] : i \in DOMAIN t.of} : t \in types}
  IN  IF components \subseteq types
      THEN types ELSE WithComponents(types \union components)

-----------------------------------------------------------------------------
(* Objects of a type, as trees: integers from the given set, collections   *)
(* of at most size elements, bit vectors of at most bits bits.             *)

Leaf(v) == IF v = 0 THEN << >> ELSE << >> :> v

Below(path, tree) ==
  [q \in {path \o r : r \in DOMAIN tree} |-> tree[SubSeq(q, Len(path) + 1, Len(q))]]

\* No built-in integer is wider than size_t, and the encoding of those from
\* kMinBigInteger on is wrong.
NativeLimit == IF JAM_COMPATIBILITY_ENABLED THEN SizeMod ELSE kMinBigInteger

RECURSIVE Sequences(_, _, _)
Sequences(trees, i, n) ==        \* n trees, below the paths <<i>>, <<i+1>>, ...
  IF n = 0 THEN {<< >>}
  ELSE {Below(<<i>>, first) @@ rest :
          first \in trees, rest \in Sequences(trees, i + 1, n - 1)}

RECURSIVE Trees(_, _, _, _), Products(_, _, _, _, _)
Products(of, i, integers, size, bits) ==
  IF i > Len(of) THEN {<< >>}
  ELSE {Below(<<i>>, first) @@ rest :
          first \in Trees(of[i], integers, size, bits),
          rest \in Products(of, i + 1, integers, size, bits)}

Trees(t, integers, size, bits) ==
  LET Of(i) == Trees(t.of[i], integers, size, bits)
      Fits  == {v \in integers : BitWidth(v) <= ByteBits * t.n}
      Key(tree) == LET p == IF t.of[1].kind = "product" THEN <<1>> ELSE << >>
                   IN  IF p \in DOMAIN tree THEN tree[p] ELSE 0
      RECURSIVE Collection(_)
      Collection(elements) ==
        IF elements = {} THEN << >>
        ELSE LET e == CHOOSE e \in elements : TRUE
             IN  Below(<<Key(e) + 1>>, Leaf(1) @@ Below(<<1>>, e))
                   @@ Collection(elements \ {e})
  IN  CASE t.kind = "bool" -> {Leaf(0), Leaf(1)}
        [] t.kind \in {"int", "big", "bigcompact"} -> {Leaf(v) : v \in Fits}
        [] t.kind = "compact" -> {Leaf(v) : v \in {w \in Fits : w < NativeLimit}}
        [] t.kind = "as_compact" -> Of(1)
        [] t.kind = "enum" -> {Leaf(v) : v \in t.valid}
        [] t.kind = "optbool" -> {Leaf(0), Leaf(1), Leaf(1) @@ Below(<<1>>, Leaf(1))}
        [] t.kind \in {"optional", "pointer"} ->
             {Leaf(0)} \union {Leaf(1) @@ Below(<<1>>, tree) : tree \in Of(1)}
        [] t.kind = "product" -> Products(t.of, 1, integers, size, bits)
        [] t.kind = "array" -> Sequences(Of(1), 1, t.n)
        [] t.kind \in {"resizeable", "extensible"} ->
             UNION {{Leaf(n) @@ tree : tree \in Sequences(Of(1), 1, n)} : n \in 0..size}
        [] t.kind = "random" ->
             {Leaf(Cardinality(elements)) @@ Collection(elements) :
                elements \in {s \in SUBSET Of(1) :
                                /\ Cardinality(s) <= size
                                /\ \A a, b \in s : Key(a) = Key(b) => a = b}}
        [] t.kind = "bitvec" ->
             UNION {{Leaf(n) @@ tree : tree \in Sequences({Leaf(0), Leaf(1)}, 1, n)} :
                      n \in 0..bits}
        [] t.kind \in {"variant", "boostvariant"} ->
             UNION {{Leaf(i - 1) @@ Below(<<i>>, tree) : tree \in Of(i)} :
                      i \in DOMAIN t.of}

-----------------------------------------------------------------------------
(* The format.  Errors are part of it: what is encoded before a null       *)
(* pointer or a too big compact integer is in the output.                  *)

RECURSIVE Digits(_, _)
Digits(v, width) ==
  IF width = 0 THEN << >> ELSE <<v % Base>> \o Digits(v \div Base, width - 1)

LeastWidth(v) ==
  CHOOSE n \in 1..MaxBits : v < Base^n /\ (n > 1 => v >= Base^(n - 1))

ScaleFormat(v) ==
  CASE 4 * v < Base -> Digits(4 * v, 1)
    [] 4 * v >= Base /\ 4 * v < Base^2 -> Digits(4 * v + 1, 2)
    [] 4 * v >= Base^2 /\ 4 * v < Base^4 -> Digits(4 * v + 2, 4)
    [] OTHER -> <<4 * (LeastWidth(v) - 4) + 3>> \o Digits(v, LeastWidth(v))

\* JAM: as many bytes behind the first one as leave a number that the first
\* byte holds behind a one for each of them and a zero.
JamFormat(v) ==
  LET extra == CHOOSE k \in 0..ByteBits :
                 /\ k = ByteBits \/ v < 2^((ByteBits - 1) * (k + 1))
                 /\ \A j \in 0..(k - 1) : v >= 2^((ByteBits - 1) * (j + 1))
  IN  <<Base - 2^(ByteBits - extra) + v \div Base^extra>> \o Digits(v, extra)

CompactFormat(v) == IF JAM_COMPATIBILITY_ENABLED THEN JamFormat(v) ELSE ScaleFormat(v)

CompactLimit == IF JAM_COMPATIBILITY_ENABLED THEN SizeMod ELSE Base^MaxBigBytes

TooBig ==
  IF JAM_COMPATIBILITY_ENABLED
  THEN "VALUE_TOO_BIG_FOR_COMPACT_REPRESENTATION" ELSE "COMPACT_INTEGER_TOO_BIG"

Encoded(bytes) == [bytes |-> bytes, error |-> "none"]
Failed(error) == [bytes |-> << >>, error |-> error]
Then(a, b) ==
  IF a.error = "none"
  THEN [bytes |-> a.bytes \o b.bytes, error |-> b.error] ELSE a

RECURSIVE Encoding(_, _, _), EncodingOf(_, _, _)
EncodingOf(types, object, paths) ==
  IF types = << >> THEN Encoded(<< >>)
  ELSE Then(Encoding(Head(types), object, Head(paths)),
            EncodingOf(Tail(types), object, Tail(paths)))

\* The encoding of the part of object that is at path p and has type t.
Encoding(t, object, p) ==
  LET v == IF p \in DOMAIN object THEN object[p] ELSE 0
      Sub(i) == IF p \o <<i>> \in DOMAIN object THEN object[p \o <<i>>] ELSE 0
      Elements(type, n) ==
        EncodingOf([i \in 1..n |-> type], object, [i \in 1..n |-> p \o <<i>>])
      RECURSIVE Ascending(_)
      Ascending(keys) ==
        IF keys = {} THEN Encoded(<< >>)
        ELSE LET least == CHOOSE k \in keys : \A j \in keys : k <= j
             IN  Then(Encoding(t.of[1], object, p \o <<least + 1, 1>>),
                      Ascending(keys \ {least}))
      RECURSIVE Bits(_, _)
      Bits(first, last) ==
        IF first > last THEN 0 ELSE Sub(first) + 2 * Bits(first + 1, last)
      RECURSIVE Packed(_)
      Packed(first) ==
        IF first > v THEN << >>
        ELSE <<Bits(first, IF first + ByteBits - 1 < v THEN first + ByteBits - 1 ELSE v)>>
               \o Packed(first + ByteBits)
  IN  CASE t.kind = "bool" -> Encoded(<<v>>)
        [] t.kind \in {"int", "big", "enum"} -> Encoded(Digits(v, t.n))
        [] t.kind \in {"compact", "bigcompact"} ->
             IF v < CompactLimit THEN Encoded(CompactFormat(v)) ELSE Failed(TooBig)
        [] t.kind = "as_compact" -> Encoding(t.of[1], object, p)
        [] t.kind = "optbool" ->
             Encoded(IF v = 0 THEN <<0>> ELSE IF Sub(1) = 1 THEN <<1>> ELSE <<2>>)
        [] t.kind = "optional" -> Then(Encoded(<<v>>), Elements(t.of[1], v))
        [] t.kind = "pointer" ->
             IF v = 0 THEN Failed("DEREF_NULLPOINTER") ELSE Elements(t.of[1], v)
        [] t.kind = "product" ->
             EncodingOf(t.of, object, [i \in 1..Len(t.of) |-> p \o <<i>>])
        [] t.kind = "array" -> Elements(t.of[1], t.n)
        [] t.kind \in {"resizeable", "extensible"} ->
             Then(Encoded(CompactFormat(v)), Elements(t.of[1], v))
        [] t.kind = "random" ->
             Then(Encoded(CompactFormat(v)),
                  Ascending({q[Len(p) + 1] - 1 :
                               q \in {r \in DOMAIN object : /\ IsPrefix(p, r)
                                                           /\ Len(r) = Len(p) + 1}}))
        [] t.kind = "bitvec" -> Encoded(CompactFormat(v) \o Packed(1))
        [] t.kind \in {"variant", "boostvariant"} ->
             IF v + 1 \in DOMAIN t.of
             THEN Then(Encoded(<<v>>), Encoding(t.of[v + 1], object, p \o <<v + 1>>))
             ELSE Encoded(<< >>)
=============================================================================
