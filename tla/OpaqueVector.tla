---------------------------- MODULE OpaqueVector ----------------------------
(***************************************************************************)
(* What append_or_new_vec promises, after the comment in encode_append.hpp *)
(* and the shape of the code: a vector of opaque values is its number of   *)
(* values and their bytes one after the other.  A call adds one value or   *)
(* leaves the vector alone; only one that needs a longer header for the    *)
(* new number may, when memory runs out, leave something else.             *)
(***************************************************************************)
EXTENDS Integers, Sequences

CONSTANTS
  Byte,              \* what values are encoded in
  Inputs,            \* encoded values that are appended
  HeaderLength(_)    \* bytes of the encoded number of values

VARIABLE vector

\* What a failed call may leave, or what never was a vector.
Unspecified == [count |-> -1, bytes |-> << >>]

Init == \/ vector = Unspecified
        \/ vector.count \in Nat /\ vector.bytes \in Seq(Byte)

Add ==
  /\ vector # Unspecified
  /\ \E value \in Inputs :
       vector' = [count |-> vector.count + 1, bytes |-> vector.bytes \o value]

Break ==
  /\ vector # Unspecified
  /\ HeaderLength(vector.count + 1) > HeaderLength(vector.count)
  /\ vector' = Unspecified

Next == Add \/ Break

Spec == Init /\ [][Next]_vector
=============================================================================
