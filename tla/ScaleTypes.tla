----------------------------- MODULE ScaleTypes -----------------------------
(***************************************************************************)
(* The C++ types the codec serves, and the objects of these types.         *)
(*                                                                         *)
(* Overload resolution picks an operator<< or operator>> by the static     *)
(* type.  A type is a record: the kind says which overload serves it, "of" *)
(* lists the component types, n is a width in bytes or a length, and valid *)
(* holds the enumerators of an enum.  The kinds and the C++ types:         *)
(*                                                                         *)
(*   bool         bool                                                     *)
(*   int          a built-in integer of n bytes (a signed one is seen as   *)
(*                its two's complement)                                    *)
(*   big          a BigFixedWidthInteger of n bytes                        *)
(*   enum         an enum with an underlying type of n bytes               *)
(*   compact      Compact<T>, T a built-in unsigned integer of n bytes     *)
(*   bigcompact   Compact<T>, T a multiprecision integer of n bytes        *)
(*   as_compact   CompactReflection, what as_compact(v) makes of a reference*)
(*                to an integer v: served by way of the compact of[1]       *)
(*   optbool      std::optional<bool>                                      *)
(*   optional     std::optional<T>                                         *)
(*   pointer      std::shared_ptr<T>, std::unique_ptr<T>                   *)
(*   product      std::pair, std::tuple, an aggregate or a class with      *)
(*                SCALE_CUSTOM_DECOMPOSITION: elements of types of[1], ... *)
(*   array        StaticCollection of n elements of type of[1]             *)
(*   resizeable   ResizeableCollection, std::vector<bool>                  *)
(*   extensible   ExtensibleBackCollection                                 *)
(*   random       RandomExtensibleCollection ordered by a scalar key:      *)
(*                std::set<T>, or std::map<K, V> when of[1] is a pair      *)
(*   bitvec       BitVec                                                   *)
(*   variant      std::variant<of[1], of[2], ...>                          *)
(*   boostvariant boost::variant<of[1], of[2], ...>                        *)
(***************************************************************************)
EXTENDS Integers, Sequences, FiniteSets, SequencesExt

CONSTANT Types    \* the types of an instance, with all their components

Wrappers ==
  {"as_compact", "optional", "pointer", "array", "resizeable", "extensible", "random"}

ASSUME TypesAssumption ==
  \A t \in Types : /\ t.n \in Nat
                   /\ t.of \in Seq(Types)
                   /\ t.kind \in Wrappers => Len(t.of) = 1
                   /\ t.kind = "as_compact" => t.of[1].kind \in {"compact", "bigcompact"}

-----------------------------------------------------------------------------
(***************************************************************************)
(* An object is the tree of its sub-objects.  The root has path << >>, and *)
(* the path of a sub-object extends that of the object it belongs to:      *)
(*                                                                         *)
(*   \o <<i>>       element i of a product, an array or a sequence, the    *)
(*                  contained value (i = 1) of an optional or a pointer,   *)
(*                  alternative i of a variant (its index() is i - 1)      *)
(*   \o <<k+1, 1>>  the element with key k of a random collection          *)
(*   \o <<0>>       a local variable of the operator that serves the       *)
(*                  object: the "val" of a variant, the "item" of a random *)
(*                  collection, the "tmp" of a CompactReflection           *)
(*                                                                         *)
(* A function from paths to numbers gives each node its content: the value *)
(* of a scalar, has_value() of an optional, whether a pointer is set, the  *)
(* size() of a collection, the index() of a variant.  A node that is 0 is  *)
(* left out, so << >> --> 0 everywhere is the value-initialized object of  *)
(* every type, and equal trees are equal objects.                          *)
(***************************************************************************)
Default == [q \in {} |-> 0]

At(object, p) == IF p \in DOMAIN object THEN object[p] ELSE 0

Assign(object, p, v) ==
  [q \in (DOMAIN object \ {p}) \union (IF v = 0 THEN {} ELSE {p})
     |-> IF q = p THEN v ELSE object[q]]

\* The object without the nodes that satisfy Test.
Without(object, Test(_)) ==
  [q \in {r \in DOMAIN object : ~Test(r)} |-> object[q]]

\* The sub-object at p destroyed, or default constructed.
Clear(object, p) == Without(object, LAMBDA q : IsPrefix(p, q))

\* The sub-object at p without what is below its children from the n-th on.
Truncate(object, p, n) ==
  Without(object, LAMBDA q : /\ IsStrictPrefix(p, q)
                             /\ q[Len(p) + 1] > n)

\* What has been moved from is valid.  A pointer and a container of dynamic
\* size have handed over what they own and are empty; anything else has been
\* moved part by part, and its scalars, flags and indexes are copied and stay.
Owners == {"pointer", "resizeable", "extensible", "random", "bitvec"}

\* The paths, within an object of type t, of the nodes that stay, given those
\* of its components.
Staying(t, stays) ==
  LET Inside(i, of) == {<<i>> \o q : q \in stays[of]}
  IN  CASE t.kind \in Owners -> {}
        [] t.kind = "as_compact" -> stays[t.of[1]]
        [] t.kind = "optbool" -> {<< >>, <<1>>}
        [] t.kind = "array" ->
             {<< >>} \union UNION {Inside(i, t.of[1]) : i \in 1..t.n}
        [] OTHER ->
             {<< >>} \union UNION {Inside(i, t.of[i]) : i \in DOMAIN t.of}

MovedFrom[t \in Types] == Staying(t, MovedFrom)

\* No type contains itself, so there is such a function.
ASSUME MovedFromAssumption ==
  /\ MovedFrom \in [Types -> SUBSET Seq(Nat)]
  /\ MovedFrom = [t \in Types |-> Staying(t, MovedFrom)]

\* The sub-object at p moved from and to nowhere.
MovedOut(object, p, stays) ==
  Without(object, LAMBDA q : /\ IsPrefix(p, q)
                             /\ SubSeq(q, Len(p) + 1, Len(q)) \notin stays)

\* The sub-object at source moved over the one at destination; neither path
\* is a prefix of the other.
Move(object, source, destination, stays) ==
  LET Suffix(q, p) == SubSeq(q, Len(p) + 1, Len(q))
      kept  == {q \in DOMAIN MovedOut(object, source, stays) : ~IsPrefix(destination, q)}
      moved == {destination \o Suffix(q, source) :
                  q \in {r \in DOMAIN object : IsPrefix(source, r)}}
  IN  [q \in kept \union moved |->
         IF q \in moved THEN object[source \o Suffix(q, destination)] ELSE object[q]]

\* Locals go out of scope when the call ends.
Unwound(object) == Without(object, LAMBDA q : 0 \in ToSet(q))

IsObject(object) ==
  /\ DOMAIN object \subseteq Seq(Nat)
  /\ object \in [DOMAIN object -> Nat \ {0}]

-----------------------------------------------------------------------------
(* Random collections, whose elements are found by key.                    *)

\* Where the key of an element at path p is: a map's is the pair's first.
KeyPath(t, p) == IF t.of[1].kind = "product" THEN p \o <<1>> ELSE p

\* The keys of the collection at p.
Keys(object, p) ==
  {q[Len(p) + 1] - 1 : q \in {r \in DOMAIN object : /\ Len(r) = Len(p) + 1
                                                    /\ IsPrefix(p, r)
                                                    /\ r[Len(r)] # 0}}

\* The order in which n keys are iterated.
Iterations(keys, n) ==
  {order \in [1..n -> keys] : \A i, j \in 1..n : i < j => order[i] < order[j]}
=============================================================================
