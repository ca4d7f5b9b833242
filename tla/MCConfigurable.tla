--------------------------- MODULE MCConfigurable ---------------------------
(***************************************************************************)
(* An instance of Configurable for TLC: of the three types one has two     *)
(* objects, one has one and one has none.                                  *)
(***************************************************************************)
EXTENDS Configurable

CONSTANTS Mul, Add, Other,         \* types
          mul_two, mul_three, add  \* objects

MCTypeOf ==
  [o \in {mul_two, mul_three, add} |-> IF o = add THEN Add ELSE Mul]
=============================================================================
