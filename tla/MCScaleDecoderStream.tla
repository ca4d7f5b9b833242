------------------------ MODULE MCScaleDecoderStream ------------------------
(***************************************************************************)
(* ScaleDecoderStream on a small codec (3-bit bytes): short byte strings   *)
(* decoded again and again into new and into used objects, also after a    *)
(* failure, and the properties of the stream.                              *)
(***************************************************************************)
EXTENDS ScaleDecoderStream, ScaleSamples

MCRequests ==
  { UInt(2), Product(<<Big(2), Enum(1, {1, 5})>>), Compact(1), BigCompact(2),
    Optional(OptBool), Pointer(Pointer(Bool)), Product(<<Enum(1, {1, 5}), Bool>>),
    Array(2, Optional(Bool)), Vector(Optional(Bool)), Vector(Vector(Bool)),
    Extensible(Enum(1, {1, 5})), SetOf(UInt(1)), MapOf(Bool, Vector(Bool)),
    MapOf(Bool, Array(2, OptBool)), BitVec, SetOf(Compact(1)), Vector(Variant(<<Bool, Vector(UInt(1))>>)),
    Product(<<AsCompact(Compact(1)), BoostVariant(<<AsCompact(BigCompact(2)), Array(2, Bool)>>)>>),
    Variant(<<UInt(1), Variant(<<UInt(1), Optional(Bool)>>), Product(<<Bool, Bool>>)>>) }

MCTypes == WithComponents(MCRequests)

BitVecOnly == {BitVec}

\* All spans of up to two bytes; longer ones of bytes that count (<<1, 1>> is
\* the compact 2), are scalars, flags or indexes, or are none of these; and
\* big integers of four bytes, up to the largest size_t.
MCSpans ==
  LET Strings(bytes, n) == [1..n -> bytes]
  IN  UNION {Strings(Byte, n) : n \in 0..2}
        \union UNION {Strings({0, 1, 5}, n) : n \in 3..4}
        \union UNION {Strings({0, 1}, n) : n \in 5..6}
        \union {<<5, 1>> \o rest : rest \in Strings({0, 1, 5}, 3)}
        \union {<<3>> \o rest : rest \in Strings({0, 1, 7}, 4)}

-----------------------------------------------------------------------------

\* The paths an object of type t at p may have nodes at, given its contents.
RECURSIVE Shape(_, _, _)
Shape(t, object, p) ==
  LET v == At(object, p)
      Child(i, path) == Shape(t.of[i], object, p \o path)
  IN  {p} \union
      CASE t.of = << >> /\ t.kind \notin {"bitvec", "optbool"} -> {}
        [] t.kind \in {"bitvec", "optbool"} -> {p \o <<i>> : i \in 1..v}
        [] t.kind \in {"optional", "pointer", "resizeable", "extensible"} ->
             UNION {Child(1, <<i>>) : i \in 1..v}
        [] t.kind = "array" -> UNION {Child(1, <<i>>) : i \in 1..t.n}
        [] t.kind = "product" -> UNION {Child(i, <<i>>) : i \in DOMAIN t.of}
        [] t.kind = "as_compact" -> Child(1, << >>)
        [] t.kind \in {"variant", "boostvariant"} -> Child(v + 1, <<v + 1>>)
        [] t.kind = "random" ->
             UNION {{p \o <<k + 1>>} \union Child(1, <<k + 1, 1>>) :
                      k \in Keys(object, p)}

\* The contents of an object of type t at p are those of a C++ object.
RECURSIVE IsValue(_, _, _)
IsValue(t, object, p) ==
  LET v == At(object, p)
  IN  /\ CASE t.kind \in {"bool", "optional", "optbool", "pointer"} -> v \in {0, 1}
           [] t.kind \in {"int", "big", "compact", "bigcompact"} -> v < Base^t.n
           [] t.kind = "enum" -> v \in t.valid \union {0}
           [] t.kind \in {"product", "array"} -> v = 0
           [] t.kind = "as_compact" -> v < Base^t.of[1].n
           [] t.kind \in {"variant", "boostvariant"} -> v < Len(t.of)
           [] t.kind = "bitvec" -> v <= ByteBits * Len(span)
           [] t.kind \in {"resizeable", "extensible"} -> v <= Allocatable
           [] t.kind = "random" ->
                /\ v = Cardinality(Keys(object, p)) /\ v <= Allocatable
                /\ \A k \in Keys(object, p) :
                     At(object, KeyPath(t, p \o <<k + 1, 1>>)) = k
      /\ CASE t.kind \in {"optional", "pointer", "resizeable", "extensible"} ->
                \A i \in 1..v : IsValue(t.of[1], object, p \o <<i>>)
           [] t.kind = "array" -> \A i \in 1..t.n : IsValue(t.of[1], object, p \o <<i>>)
           [] t.kind = "product" ->
                \A i \in DOMAIN t.of : IsValue(t.of[i], object, p \o <<i>>)
           [] t.kind \in {"variant", "boostvariant"} -> IsValue(t.of[v + 1], object, p \o <<v + 1>>)
           [] t.kind = "random" ->
                \A k \in Keys(object, p) : IsValue(t.of[1], object, p \o <<k + 1, 1>>)
           [] OTHER -> TRUE

\* In the middle of a call and after any number of failed ones, the target is
\* an object of its type: an enum holds an enumerator (or the 0 it was
\* initialized with), nothing is left of a reset optional, a replaced
\* alternative or the elements a smaller count cut off, the nodes of a set
\* are found under their keys and counted, no collection outgrows memory, and
\* when the call is over no local is left.
TargetIsAnObject ==
  LET object == IF pending = << >> THEN target ELSE Unwound(target)
  IN  /\ DOMAIN object \subseteq Shape(type, object, << >>)
      /\ IsValue(type, object, << >>)

\* README.md:67-72 decodes in a try block whose handler, for what the stream
\* throws, catches std::system_error; so does outcomeCatch of scale.hpp:29.
OnlySystemErrors == outcome # "length_error"

\* Every call returns or raises.
CallsEnd == (pending # << >>) ~> (pending = << >>)
=============================================================================
