---------------------------- MODULE EncodeAppend ----------------------------
(***************************************************************************)
(* encode_append.cpp: append_or_new_vec(self_encoded, input) appends an    *)
(* encoded value to an encoded vector in place.  The old bytes are kept;   *)
(* the number of values before them is overwritten, and when its encoding  *)
(* gets longer they are shifted first.                                     *)
(*                                                                         *)
(* A call runs step by step, so that what an exception leaves between two  *)
(* steps can be seen: a vector's reserve(), resize() and insert() and the  *)
(* encoding of the new number ask for memory and may throw.  The client    *)
(* may call again with what is there, of any origin.                       *)
(***************************************************************************)
EXTENDS CompactCoding

CONSTANTS
  CountBytes,   \* sizeof(uint32_t), the type of the number of values
  Vectors,      \* what self_encoded may be at first, of any origin
  Inputs,       \* encoded values that are appended
  Counts,       \* bound: numbers of values that one more is appended to
  MaxLength     \* bound: bytes self_encoded may have before a call

CountMod == Base^CountBytes

\* The bounds keep clear of the big mode, whose length the code gets wrong,
\* and of the largest uint32_t and size_t.  The new vector for no bytes is one
\* that a value is appended to when it has none.  A uint32_t is narrower than
\* the size_t that JAM's integers are made of.
ASSUME AppendAssumption ==
  /\ CountBytes \in Nat \ {0}
  /\ CountMod \in Nat
  /\ CountMod = 2^(ByteBits * CountBytes)
  /\ JAM_COMPATIBILITY_ENABLED => CountBytes < SizeBytes
  /\ \A s \in Vectors : s \in Seq(Byte) /\ Len(s) + MaxBigBytes < SizeMod
  /\ Inputs \subseteq Seq(Byte)
  /\ MaxLength \in Nat
  /\ 0 \in Counts
  /\ \A c \in Counts : /\ c \in Nat
                        /\ c + 1 < kMinBigInteger /\ Representable(c + 1)
                        /\ c + 1 < CountMod /\ LengthOfCompact(c + 1) < CountMod

VARIABLES
  self_encoded,   \* the client's vector
  capacity,       \* its capacity()
  input,          \* the value the current call appends
  lengths,        \* what extract_length_data has returned to it
  pc,             \* the next step of the call, or "idle"
  outcome,        \* how the last call ended, "bad_alloc" when it threw
  before,         \* history: self_encoded at the start of the last call
  broken          \* history: a call that threw has left other bytes

vars == <<self_encoded, capacity, input, lengths, pc, outcome, before, broken>>

Lengths == [new_len : Nat, encoded_len : Nat, encoded_new_len : Nat]

NoLengths == [new_len |-> 0, encoded_len |-> 0, encoded_new_len |-> 0]

Outcomes ==
  {"none", "bad_alloc", "NOT_ENOUGH_DATA", "REDUNDANT_COMPACT_ENCODING",
   "DECODED_VALUE_OVERFLOWS_TARGET"}

TypeOK ==
  /\ self_encoded \in Seq(Byte)
  /\ capacity \in Nat
  /\ input \in Seq(Byte)
  /\ lengths \in Lengths
  /\ pc \in {"idle", "call", "reserve", "shift", "replace", "insert"}
  /\ outcome \in Outcomes
  /\ before \in Seq(Byte)
  /\ broken \in BOOLEAN

Init ==
  /\ self_encoded \in Vectors
  /\ capacity = Len(self_encoded)
  /\ input = << >>
  /\ lengths = NoLengths
  /\ pc = "idle"
  /\ outcome = "none"
  /\ before = self_encoded
  /\ broken = FALSE

-----------------------------------------------------------------------------

Goto(step) == pc' = step /\ UNCHANGED <<input, outcome, before, broken>>

\* The call returns, or an exception leaves it.
End(how) ==
  /\ pc' = "idle"
  /\ outcome' = how
  /\ broken' = (broken \/ (how # "none" /\ self_encoded' # before))
  /\ UNCHANGED <<input, lengths, before>>

Throw == UNCHANGED <<self_encoded, capacity>> /\ End("bad_alloc")

Larger(m, n) == IF m < n THEN n ELSE m

\* No data present: the vector is replaced by a new one.
EncodeNew ==
  /\ pc = "call" /\ self_encoded = << >>
  /\ \/ Throw
     \/ /\ self_encoded' = EncodeCompactOfNative(1).bytes \o input
        /\ capacity' = Len(self_encoded')
        /\ End("none")

\* Mutant: one more value is taken to leave the header's length alone.
ExtractLengthData_OldLength ==
  /\ pc = "call" /\ self_encoded # << >>
  /\ LET len == DecodeCompactNative(self_encoded, 0, CountBytes)
     IN  \/ len.error # "none" /\ UNCHANGED <<self_encoded, capacity>> /\ End(len.error)
         \/ /\ len.error = "none"
            /\ lengths' = [new_len         |-> (len.value + 1) % CountMod,
                           encoded_len     |-> LengthOfCompact(len.value),
                           encoded_new_len |-> LengthOfCompact(len.value)]
            /\ Goto("reserve")
            /\ UNCHANGED <<self_encoded, capacity>>

ExtractLengthData ==
  /\ pc = "call" /\ self_encoded # << >>
  /\ LET len == DecodeCompactNative(self_encoded, 0, CountBytes)
         new_len == (len.value + 1) % CountMod
     IN  \/ len.error # "none" /\ UNCHANGED <<self_encoded, capacity>> /\ End(len.error)
         \/ /\ len.error = "none"
            /\ lengths' = [new_len         |-> new_len,
                           encoded_len     |-> LengthOfCompact(len.value),
                           encoded_new_len |-> LengthOfCompact(new_len)]
            /\ Goto("reserve")
            /\ UNCHANGED <<self_encoded, capacity>>

Grows == lengths.encoded_len # lengths.encoded_new_len

\* uint32_t arithmetic.
ShiftSize == (lengths.encoded_new_len - lengths.encoded_len) % CountMod

\* What is left of the old vector, and its new header.
Regrown == lengths.encoded_new_len + (Len(self_encoded) - lengths.encoded_len)

ReserveBytes(size) ==
  \/ size > capacity /\ Throw
  \/ /\ capacity' = Larger(capacity, size)
     /\ Goto(IF Grows THEN "shift" ELSE "replace")
     /\ UNCHANGED <<self_encoded, lengths>>

\* Mutant: the value to append is given no place.
Reserve_NotInput == pc = "reserve" /\ ReserveBytes(Regrown)

\* Both calls of reserve(): with equal lengths they ask for the same.
Reserve == pc = "reserve" /\ ReserveBytes(Regrown + Len(input))

\* resize() adds zeros at the end, std::rotate brings them to the front.
Shift ==
  /\ pc = "shift"
  /\ \/ Len(self_encoded) + ShiftSize > capacity /\ Throw
     \/ /\ self_encoded' = [i \in 1..ShiftSize |-> 0] \o self_encoded
        /\ capacity' = Larger(capacity, Len(self_encoded'))
        /\ Goto("replace")
        /\ UNCHANGED lengths

\* replace_len: the new number is encoded, which asks for memory, and moved
\* over the first bytes.
ReplaceLen ==
  /\ pc = "replace"
  /\ \/ Throw
     \/ LET e == EncodeCompactOfNative(lengths.new_len).bytes
        IN  /\ self_encoded' = [i \in DOMAIN self_encoded |->
                                 IF i \in DOMAIN e THEN e[i] ELSE self_encoded[i]]
            /\ Goto("insert")
            /\ UNCHANGED <<capacity, lengths>>

Insert ==
  /\ pc = "insert"
  /\ \/ Len(self_encoded) + Len(input) > capacity /\ Throw
     \/ /\ self_encoded' = self_encoded \o input
        /\ capacity' = Larger(capacity, Len(self_encoded'))
        /\ End("none")

Step ==
  \/ EncodeNew
  \/ ExtractLengthData
  \/ Reserve
  \/ Shift
  \/ ReplaceLen
  \/ Insert

\* The header of the client's vector.
Header == DecodeCompactNative(self_encoded, 0, CountBytes)

\* append_or_new_vec(self_encoded, input), within the bounds.
Call ==
  /\ pc = "idle"
  /\ Len(self_encoded) <= MaxLength
  /\ Header.error = "none" => Header.value \in Counts
  /\ input' \in Inputs
  /\ before' = self_encoded
  /\ pc' = "call"
  /\ UNCHANGED <<self_encoded, capacity, lengths, outcome, broken>>

Next == Step \/ Call

Spec == Init /\ [][Next]_vars

-----------------------------------------------------------------------------
(* Properties.                                                             *)

\* The vector that bytes encode.
Parsed(bytes) ==
  LET header == DecodeCompactNative(bytes, 0, CountBytes)
  IN  CASE bytes = << >> -> [count |-> 0, bytes |-> << >>]
        [] bytes # << >> /\ header.error = "none" ->
             [count |-> header.value,
              bytes |-> SubSeq(bytes, header.used + 1, Len(bytes))]
        [] OTHER -> [count |-> -1, bytes |-> << >>]

HeaderLength(count) == Len(EncodeCompactOfNative(count).bytes)

\* A call changes the vector when it ends.
Abstract ==
  INSTANCE OpaqueVector WITH
    vector <- IF broken THEN [count |-> -1, bytes |-> << >>]
              ELSE Parsed(IF pc = "idle" THEN self_encoded ELSE before)

\* encode_append.hpp: a call does what decoding the vector, adding the value
\* and encoding it again would do, or it fails and the vector is what it was,
\* unless the header had to grow.
ImplementsOpaqueVector == Abstract!Spec

\* A failed call loses no byte: the old vector is there behind zeros, and
\* there are none unless the new header is longer.  In particular nothing
\* fails once the old header is overwritten.
FailedCallKeepsBytes ==
  pc = "idle" /\ outcome # "none" =>
    \E n \in 0..(Len(self_encoded) - Len(before)) :
      /\ self_encoded = [i \in 1..n |-> 0] \o before
      /\ n # 0 => Grows
=============================================================================
