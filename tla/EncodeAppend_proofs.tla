------------------------ MODULE EncodeAppend_proofs ------------------------
(***************************************************************************)
(* Theorems about EncodeAppend, for every byte width, both builds, and any *)
(* vectors, values and bounds.                                             *)
(***************************************************************************)
EXTENDS EncodeAppend, CompactCoding_proofs, SequenceTheorems

-----------------------------------------------------------------------------
(* The inductive invariant: what each step can rely on.                    *)

\* The old vector is there behind zeros, which only a longer header needs.
OldBehindZeros ==
  \E n \in 0..(Len(self_encoded) - Len(before)) :
    /\ self_encoded = [i \in 1..n |-> 0] \o before
    /\ n # 0 => Grows

\* Nothing is changed before the vector is shifted.
NotYetChanged == pc \in {"call", "reserve", "shift"} => self_encoded = before

\* The number that is appended to is within the bounds.
CountBounded == pc = "call" /\ Header.error = "none" => Header.value \in Counts

\* The new header has place for the old one.
HeaderNotShorter ==
  pc \in {"reserve", "shift", "replace", "insert"} =>
    /\ lengths.encoded_len <= lengths.encoded_new_len
    /\ lengths.encoded_new_len < CountMod

\* What the remaining steps add has been reserved.
Reserved ==
  /\ pc = "shift" => Grows /\ Len(self_encoded) + ShiftSize + Len(input) <= capacity
  /\ pc \in {"replace", "insert"} => Len(self_encoded) + Len(input) <= capacity

Inv == /\ TypeOK
       /\ NotYetChanged
       /\ CountBounded
       /\ HeaderNotShorter
       /\ Reserved
       /\ pc = "replace" => OldBehindZeros
       /\ FailedCallKeepsBytes

-----------------------------------------------------------------------------

LEMMA NoZeros ==
  ASSUME NEW s \in Seq(Byte)
  PROVE  [i \in 1..0 |-> 0] \o s = s
OBVIOUS

LEMMA ZerosType ==
  ASSUME NEW n \in Nat, NEW s \in Seq(Byte)
  PROVE  /\ [i \in 1..n |-> 0] \in Seq(Byte)
         /\ [i \in 1..n |-> 0] \o s \in Seq(Byte)
         /\ Len([i \in 1..n |-> 0] \o s) = n + Len(s)
<1> DEFINE zeros == [i \in 1..n |-> 0]
<1>1. 0 \in Byte
  BY ByteAssumption DEF Byte
<1>2. zeros \in Seq(Byte) /\ Len(zeros) = n
  BY <1>1
<1> HIDE DEF zeros
<1>3. zeros \o s \in Seq(Byte) /\ Len(zeros \o s) = n + Len(s)
  BY <1>2
<1> QED
  BY <1>2, <1>3 DEF zeros

\* The same bytes are no bytes behind zeros.
LEMMA UnchangedBehindZeros ==
  ASSUME TypeOK, self_encoded = before
  PROVE  OldBehindZeros
<1>1. 0 \in 0..(Len(self_encoded) - Len(before))
  BY DEF TypeOK
<1>2. self_encoded = [i \in 1..0 |-> 0] \o before
  BY NoZeros DEF TypeOK
<1> QED
  BY <1>1, <1>2 DEF OldBehindZeros

\* An exception may leave a call wherever the old vector is behind zeros.
LEMMA EndedCall ==
  ASSUME Inv, OldBehindZeros, NEW how \in Outcomes,
         UNCHANGED <<self_encoded, capacity>>, End(how)
  PROVE  Inv'
<1>1. TypeOK'
  BY DEF Inv, TypeOK, End
<1>2. /\ pc' = "idle" /\ self_encoded' = self_encoded
      /\ before' = before /\ lengths' = lengths
  BY DEF End
<1>3. Grows' = Grows
  BY <1>2 DEF Grows
<1>4. OldBehindZeros'
  BY <1>2, <1>3 DEF OldBehindZeros
<1>5. FailedCallKeepsBytes'
  BY <1>4 DEF OldBehindZeros, FailedCallKeepsBytes
<1> QED
  BY <1>1, <1>2, <1>5
  DEF Inv, NotYetChanged, CountBounded, HeaderNotShorter, Reserved

\* A call that succeeds.
LEMMA SuccessfulCall ==
  ASSUME Inv, self_encoded' \in Seq(Byte), capacity' \in Nat, End("none")
  PROVE  Inv'
<1>1. TypeOK'
  BY DEF Inv, TypeOK, End, Outcomes
<1>2. pc' = "idle" /\ outcome' = "none"
  BY DEF End
<1> QED
  BY <1>1, <1>2
  DEF Inv, NotYetChanged, CountBounded, HeaderNotShorter, Reserved, FailedCallKeepsBytes

LEMMA LargerType ==
  ASSUME NEW m \in Nat, NEW n \in Int
  PROVE  Larger(m, n) \in Nat /\ m <= Larger(m, n) /\ n <= Larger(m, n)
BY DEF Larger

\* The header's error is one of those a call may return.
LEMMA HeaderErrors == Header.error \in Outcomes
<1>1. \A s, i : /\ DecodeCompactInteger(s, i).error \in Outcomes
                /\ DecodeJamCompactInteger(s, i).error \in Outcomes
  BY DEF DecodeCompactInteger, DecodeJamCompactInteger, ReadResult, Outcomes
<1>2. ReadCompact(self_encoded, 0).error \in Outcomes
  BY <1>1 DEF ReadCompact
<1> QED
  BY <1>2 DEF Header, DecodeCompactNative, ReadResult, Outcomes

-----------------------------------------------------------------------------

LEMMA InvInit == Init => Inv
<1> SUFFICES ASSUME Init PROVE Inv
  OBVIOUS
<1>1. << >> \in Seq(Byte) /\ NoLengths \in Lengths /\ Len(self_encoded) \in Nat
  BY AppendAssumption DEF Init, NoLengths, Lengths
<1>2. TypeOK
  BY <1>1, AppendAssumption DEF Init, TypeOK, Outcomes
<1> QED
  BY <1>2 DEF Init, Inv, NotYetChanged, CountBounded, HeaderNotShorter, Reserved,
              FailedCallKeepsBytes

LEMMA EncodeNewKeepsInv ==
  ASSUME Inv, EncodeNew
  PROVE  Inv'
<1>1. CASE Throw
  <2>1. OldBehindZeros
    BY UnchangedBehindZeros DEF EncodeNew, Inv, NotYetChanged
  <2> QED
    BY <1>1, <2>1, EndedCall DEF Throw, Outcomes
<1>2. CASE /\ self_encoded' = EncodeCompactOfNative(1).bytes \o input
           /\ capacity' = Len(self_encoded')
           /\ End("none")
  <2>1. EncodeCompactOfNative(1).bytes \in Seq(Byte)
    BY EncodeCompactType
  <2>2. self_encoded' \in Seq(Byte)
    BY <1>2, <2>1 DEF Inv, TypeOK
  <2> QED
    BY <1>2, <2>2, SuccessfulCall
<1> QED
  BY <1>1, <1>2 DEF EncodeNew

LEMMA ExtractLengthDataKeepsInv ==
  ASSUME Inv, ExtractLengthData
  PROVE  Inv'
<1> DEFINE new_len == (Header.value + 1) % CountMod
<1>1. CASE /\ UNCHANGED <<self_encoded, capacity>>
           /\ End(Header.error)
  <2>1. OldBehindZeros
    BY UnchangedBehindZeros DEF ExtractLengthData, Inv, NotYetChanged
  <2> QED
    BY <1>1, <2>1, HeaderErrors, EndedCall
<1>2. CASE /\ Header.error = "none"
           /\ lengths' = [new_len         |-> new_len,
                          encoded_len     |-> LengthOfCompact(Header.value),
                          encoded_new_len |-> LengthOfCompact(new_len)]
           /\ Goto("reserve")
           /\ UNCHANGED <<self_encoded, capacity>>
  <2>1. PICK c \in Counts : c = Header.value
    BY <1>2 DEF Inv, CountBounded, ExtractLengthData
  <2>2. /\ c \in Nat /\ c + 1 < kMinBigInteger /\ c + 1 < CountMod
        /\ LengthOfCompact(c + 1) < CountMod /\ CountMod \in Nat
    BY AppendAssumption
  <2>3. new_len = c + 1
    BY <2>1, <2>2
  <2>4. /\ LengthOfCompact(c) \in Nat /\ LengthOfCompact(c + 1) \in Nat
        /\ LengthOfCompact(c) <= LengthOfCompact(c + 1)
    BY <2>2, LengthOfCompactMonotonic
  <2> HIDE DEF new_len
  <2>5. /\ lengths' \in Lengths
        /\ lengths'.encoded_len <= lengths'.encoded_new_len
        /\ lengths'.encoded_new_len < CountMod
    BY <1>2, <2>1, <2>2, <2>3, <2>4 DEF Lengths
  <2>6. TypeOK' /\ pc' = "reserve" /\ self_encoded' = before'
    BY <1>2, <2>5 DEF Inv, TypeOK, NotYetChanged, ExtractLengthData, Goto
  <2> QED
    BY <2>5, <2>6 DEF Inv, NotYetChanged, CountBounded, HeaderNotShorter, Reserved,
                      FailedCallKeepsBytes
<1> QED
  BY <1>1, <1>2 DEF ExtractLengthData, Header

LEMMA LengthsType ==
  ASSUME Inv
  PROVE  /\ lengths.new_len \in Nat
         /\ lengths.encoded_len \in Nat
         /\ lengths.encoded_new_len \in Nat
         /\ Len(self_encoded) \in Nat /\ Len(input) \in Nat /\ capacity \in Nat
         /\ pc \in {"reserve", "shift", "replace", "insert"} =>
              ShiftSize = lengths.encoded_new_len - lengths.encoded_len
<1>1. /\ lengths.new_len \in Nat
      /\ lengths.encoded_len \in Nat
      /\ lengths.encoded_new_len \in Nat
  BY DEF Inv, TypeOK, Lengths
<1>2. Len(self_encoded) \in Nat /\ Len(input) \in Nat /\ capacity \in Nat
  BY DEF Inv, TypeOK
<1>3. ASSUME pc \in {"reserve", "shift", "replace", "insert"}
      PROVE  ShiftSize = lengths.encoded_new_len - lengths.encoded_len
  <2>1. /\ lengths.encoded_len <= lengths.encoded_new_len
        /\ lengths.encoded_new_len < CountMod
    BY <1>3 DEF Inv, HeaderNotShorter
  <2>2. lengths.encoded_new_len - lengths.encoded_len \in 0..(CountMod - 1)
    BY <1>1, <2>1, AppendAssumption
  <2> QED
    BY <2>2, AppendAssumption DEF ShiftSize
<1> QED
  BY <1>1, <1>2, <1>3

LEMMA ReserveKeepsInv ==
  ASSUME Inv, Reserve
  PROVE  Inv'
<1> DEFINE place == lengths.encoded_new_len
                      + (Len(self_encoded) - lengths.encoded_len) + Len(input)
<1>1. pc = "reserve" /\ self_encoded = before
  BY DEF Reserve, Inv, NotYetChanged
<1>2. OldBehindZeros
  BY <1>1, UnchangedBehindZeros DEF Inv
<1>3. CASE Throw
  BY <1>2, <1>3, EndedCall DEF Throw, Outcomes
<1>4. CASE /\ capacity' = Larger(capacity, place)
           /\ Goto(IF Grows THEN "shift" ELSE "replace")
           /\ UNCHANGED <<self_encoded, lengths>>
  <2>1. place \in Int /\ place = Len(self_encoded) + ShiftSize + Len(input)
    BY <1>1, LengthsType
  <2>2. ShiftSize \in Nat /\ (~Grows => ShiftSize = 0)
    BY <1>1, LengthsType DEF Grows, Inv, HeaderNotShorter
  <2> HIDE DEF place
  <2>3. capacity' \in Nat /\ place <= capacity'
    BY <1>4, <2>1, LargerType, LengthsType
  <2>4. /\ pc' \in {"shift", "replace"} /\ (pc' = "shift" <=> Grows)
        /\ UNCHANGED <<self_encoded, lengths, input, outcome, before, broken>>
    BY <1>4 DEF Goto
  <2>5. TypeOK'
    BY <2>3, <2>4 DEF Inv, TypeOK
  <2>6. Grows' = Grows /\ ShiftSize' = ShiftSize
    BY <2>4 DEF Grows, ShiftSize
  <2>7. OldBehindZeros'
    BY <1>2, <2>4, <2>6 DEF OldBehindZeros
  <2>8. HeaderNotShorter'
    BY <1>1, <2>4 DEF Inv, HeaderNotShorter
  <2>9. Reserved'
    BY <2>1, <2>2, <2>3, <2>4, <2>6, LengthsType DEF Reserved
  <2> QED
    BY <1>1, <2>4, <2>5, <2>7, <2>8, <2>9
    DEF Inv, NotYetChanged, CountBounded, FailedCallKeepsBytes
<1> QED
  BY <1>3, <1>4 DEF Reserve, ReserveBytes, Regrown

LEMMA ShiftKeepsInv ==
  ASSUME Inv, Shift
  PROVE  Inv'
<1>1. /\ pc = "shift" /\ self_encoded = before /\ Grows
      /\ Len(self_encoded) + ShiftSize + Len(input) <= capacity
  BY DEF Shift, Inv, NotYetChanged, Reserved
<1>2. ShiftSize \in Nat
  BY <1>1, LengthsType DEF Inv, HeaderNotShorter
<1>3. ~(Len(self_encoded) + ShiftSize > capacity)
  BY <1>1, <1>2, LengthsType
<1>4. /\ self_encoded' = [i \in 1..ShiftSize |-> 0] \o self_encoded
      /\ capacity' = Larger(capacity, Len(self_encoded'))
      /\ pc' = "replace"
      /\ UNCHANGED <<lengths, input, outcome, before, broken>>
  BY <1>3 DEF Shift, Goto
<1>5. self_encoded' \in Seq(Byte) /\ Len(self_encoded') = ShiftSize + Len(self_encoded)
  BY <1>2, <1>4, ZerosType DEF Inv, TypeOK
<1>6. capacity' \in Nat /\ capacity <= capacity'
  <2>1. Len(self_encoded') \in Int
    BY <1>5
  <2> QED
    BY <1>4, <2>1, LargerType, LengthsType
<1>7. TypeOK'
  BY <1>4, <1>5, <1>6 DEF Inv, TypeOK
<1>8. Grows'
  BY <1>1, <1>4 DEF Grows
<1>9. OldBehindZeros'
  <2>1. ShiftSize \in 0..(Len(self_encoded') - Len(before'))
    BY <1>1, <1>2, <1>4, <1>5, LengthsType
  <2>2. self_encoded' = [i \in 1..ShiftSize |-> 0] \o before'
    BY <1>1, <1>4
  <2> DEFINE n == ShiftSize
  <2> HIDE DEF n
  <2>3. n \in 0..(Len(self_encoded') - Len(before'))
        /\ self_encoded' = [i \in 1..n |-> 0] \o before'
    BY <2>1, <2>2 DEF n
  <2> QED
    BY <1>8, <2>3 DEF OldBehindZeros
<1>10. HeaderNotShorter'
  BY <1>1, <1>4 DEF Inv, HeaderNotShorter
<1>11. Reserved'
  BY <1>1, <1>2, <1>4, <1>5, <1>6, LengthsType DEF Reserved
<1> QED
  BY <1>4, <1>7, <1>9, <1>10, <1>11
  DEF Inv, NotYetChanged, CountBounded, FailedCallKeepsBytes

LEMMA ReplaceLenKeepsInv ==
  ASSUME Inv, ReplaceLen
  PROVE  Inv'
<1> DEFINE e == EncodeCompactOfNative(lengths.new_len).bytes
<1>1. pc = "replace" /\ OldBehindZeros
  BY DEF ReplaceLen, Inv
<1>2. CASE Throw
  BY <1>1, <1>2, EndedCall DEF Throw, Outcomes
<1>3. CASE /\ self_encoded' = [i \in DOMAIN self_encoded |->
                                 IF i \in DOMAIN e THEN e[i] ELSE self_encoded[i]]
           /\ Goto("insert")
           /\ UNCHANGED <<capacity, lengths>>
  <2>1. e \in Seq(Byte)
    BY LengthsType, EncodeCompactType
  <2> HIDE DEF e
  <2>2. self_encoded' \in Seq(Byte) /\ Len(self_encoded') = Len(self_encoded)
    <3>1. self_encoded \in Seq(Byte) /\ Len(self_encoded) \in Nat
      BY DEF Inv, TypeOK
    <3>2. \A i \in DOMAIN e : e[i] \in Byte
      BY <2>1
    <3>3. self_encoded' \in [1..Len(self_encoded) -> Byte]
      BY <1>3, <3>1, <3>2
    <3> QED
      BY <3>1, <3>3
  <2>3. /\ pc' = "insert"
        /\ UNCHANGED <<capacity, lengths, input, outcome, before, broken>>
    BY <1>3 DEF Goto
  <2>4. TypeOK'
    BY <2>2, <2>3 DEF Inv, TypeOK
  <2>5. HeaderNotShorter' /\ Reserved'
    BY <1>1, <2>2, <2>3 DEF Inv, HeaderNotShorter, Reserved
  <2> QED
    BY <2>3, <2>4, <2>5 DEF Inv, NotYetChanged, CountBounded, FailedCallKeepsBytes
<1> QED
  BY <1>2, <1>3 DEF ReplaceLen

LEMMA InsertKeepsInv ==
  ASSUME Inv, Insert
  PROVE  Inv'
<1>1. Len(self_encoded) + Len(input) <= capacity
  BY DEF Insert, Inv, Reserved
<1>2. ~(Len(self_encoded) + Len(input) > capacity)
  BY <1>1, LengthsType
<1>3. /\ self_encoded' = self_encoded \o input
      /\ capacity' = Larger(capacity, Len(self_encoded'))
      /\ End("none")
  BY <1>2 DEF Insert
<1>4. self_encoded' \in Seq(Byte) /\ capacity \in Nat
  BY <1>3 DEF Inv, TypeOK
<1>5. capacity' \in Nat
  BY <1>3, <1>4, LargerType
<1> QED
  BY <1>3, <1>4, <1>5, SuccessfulCall

LEMMA CallKeepsInv ==
  ASSUME Inv, Call
  PROVE  Inv'
<1>1. TypeOK'
  BY AppendAssumption DEF Inv, TypeOK, Call
<1>2. pc' = "call" /\ self_encoded' = before'
  BY DEF Call
<1>3. CountBounded'
  BY DEF Call, CountBounded, Header
<1> QED
  BY <1>1, <1>2, <1>3
  DEF Inv, NotYetChanged, HeaderNotShorter, Reserved, FailedCallKeepsBytes

LEMMA StutteringKeepsInv ==
  ASSUME Inv, UNCHANGED vars
  PROVE  Inv'
BY DEF vars, Inv, TypeOK, NotYetChanged, CountBounded, Header, HeaderNotShorter,
       Reserved, ShiftSize, Grows, OldBehindZeros, FailedCallKeepsBytes

LEMMA NextKeepsInv == Inv /\ [Next]_vars => Inv'
BY EncodeNewKeepsInv, ExtractLengthDataKeepsInv, ReserveKeepsInv, ShiftKeepsInv,
     ReplaceLenKeepsInv, InsertKeepsInv, CallKeepsInv, StutteringKeepsInv
DEF Next, Step

LEMMA InvInductive == Spec => []Inv
BY InvInit, NextKeepsInv, PTL DEF Spec

\* The vector, its capacity and the lengths have their types in every step.
THEOREM TypeCorrect == Spec => []TypeOK
<1>1. Inv => TypeOK
  BY DEF Inv
<1> QED
  BY <1>1, InvInductive, PTL

\* append_or_new_vec: an error or an exception, wherever it comes from, loses
\* no byte of the vector, and puts none before it unless the header grows.
THEOREM FailureLosesNothing == Spec => []FailedCallKeepsBytes
<1>1. Inv => FailedCallKeepsBytes
  BY DEF Inv
<1> QED
  BY <1>1, InvInductive, PTL

-----------------------------------------------------------------------------
(* The refinement: what every step does to the vector that is represented. *)

HeaderAt(s) == DecodeCompactNative(s, 0, CountBytes)

\* The header the current or the last call has found.
Old == HeaderAt(before)

Encoded(count) == EncodeCompactOfNative(count).bytes

\* The header is the encoding of the number it is read as.
HeaderCanonical(s) ==
  s # << >> /\ HeaderAt(s).error = "none" /\ HeaderAt(s).value \in Counts =>
    /\ HeaderAt(s).used \in 0..Len(s)
    /\ SubSeq(s, 1, HeaderAt(s).used) = Encoded(HeaderAt(s).value)

\* A call is one within the bounds.
CallBounded ==
  pc # "idle" => input \in Inputs /\ (Old.error = "none" => Old.value \in Counts)

\* What extract_length_data has returned.
HeaderExtracted ==
  pc \in {"reserve", "shift", "replace", "insert"} =>
    /\ before # << >> /\ Old.error = "none"
    /\ lengths = [new_len         |-> Old.value + 1,
                  encoded_len     |-> LengthOfCompact(Old.value),
                  encoded_new_len |-> LengthOfCompact(Old.value + 1)]

\* The new header gets just the place it needs.
OldShifted == pc = "replace" => self_encoded = [i \in 1..ShiftSize |-> 0] \o before

\* The new header stands before the bytes that stood behind the old one.
HeaderReplaced ==
  pc = "insert" /\ ~broken =>
    self_encoded = Encoded(Old.value + 1) \o SubSeq(before, Old.used + 1, Len(before))

StaysCanonical ==
  ~broken => HeaderCanonical(IF pc = "idle" THEN self_encoded ELSE before)

VectorInv == /\ Inv
             /\ CallBounded
             /\ HeaderExtracted
             /\ OldShifted
             /\ HeaderReplaced
             /\ StaysCanonical

\* The vector that is represented.
Vector == IF broken THEN [count |-> -1, bytes |-> << >>]
          ELSE Parsed(IF pc = "idle" THEN self_encoded ELSE before)

-----------------------------------------------------------------------------

LEMMA RepresentableBelow ==
  ASSUME NEW w \in Nat, Representable(w), NEW v \in 0..w
  PROVE  Representable(v)
<1> DEFINE p == 2^(MaxBits - 1)
<1>1. p \in Nat \ {0}
  BY ByteAssumption, MaxBitsAssumption
<1> HIDE DEF p
<1>2. v \div p \in Nat /\ w \div p \in Nat /\ v \div p <= w \div p
  BY <1>1, DivisionMonotonic
<1> QED
  BY <1>2 DEF Representable, p

\* A uint32_t has the bits of its values.
LEMMA CountWidth ==
  ASSUME NEW v \in Nat, v < CountMod
  PROVE  /\ BitWidth(v) <= ByteBits * CountBytes
         /\ JAM_COMPATIBILITY_ENABLED => BitWidth(v) < ByteBits * ByteBits
<1> DEFINE n == ByteBits * CountBytes
           b == BitWidth(v)
<1>1. n \in Nat /\ b \in 0..MaxBits
  BY ByteAssumption, AppendAssumption, BitWidthType
<1>2. ASSUME n < b PROVE FALSE
  <2>1. n \in 0..(MaxBits - 1)
    BY <1>1, <1>2, MaxBitsAssumption
  <2>2. 2^n <= v
    BY <1>2, <2>1, BitWidthMeaning
  <2> DEFINE p == 2^n
  <2>3. p = CountMod
    BY AppendAssumption
  <2> HIDE DEF p
  <2> QED
    BY <2>2, <2>3, AppendAssumption DEF p
<1>3. ASSUME JAM_COMPATIBILITY_ENABLED PROVE n < ByteBits * ByteBits
  <2>1. CountBytes \in Nat /\ CountBytes + 1 <= ByteBits
    BY <1>3, AppendAssumption, BuildAssumption, ByteAssumption
  <2>2. ByteBits * (CountBytes + 1) <= ByteBits * ByteBits
    BY <2>1, ByteAssumption
  <2>3. ByteBits * (CountBytes + 1) = ByteBits * CountBytes + ByteBits
    BY <2>1, ByteAssumption
  <2> QED
    BY <1>1, <2>2, <2>3, ByteAssumption
<1>4. ByteBits * ByteBits \in Nat
  BY ByteAssumption
<1> HIDE DEF n, b
<1>5. b <= n
  BY <1>1, <1>2, MaxBitsAssumption
<1>6. JAM_COMPATIBILITY_ENABLED => b < ByteBits * ByteBits
  BY <1>1, <1>3, <1>4, <1>5, MaxBitsAssumption
<1> QED
  BY <1>5, <1>6 DEF n, b

\* What is known of the number of values, and of one more.
LEMMA CountParts ==
  ASSUME NEW c \in Counts, NEW v \in {c, c + 1}
  PROVE  /\ v \in Nat /\ v < CountMod
         /\ Encoded(v) \in Seq(Byte)
         /\ LengthOfCompact(v) = Len(Encoded(v)) /\ LengthOfCompact(v) # 0
         /\ \A rest \in Seq(Byte) :
              HeaderAt(Encoded(v) \o rest) = ReadResult("none", Len(Encoded(v)), v)
<1>1. /\ c \in Nat /\ c + 1 < kMinBigInteger /\ Representable(c + 1)
      /\ c + 1 < CountMod /\ CountMod \in Nat /\ CountBytes \in Nat
  BY AppendAssumption
<1>2. v \in Nat /\ v \in 0..(c + 1) /\ v < kMinBigInteger /\ v < CountMod
  BY <1>1, LimitsType
<1>3. Representable(v)
  BY <1>1, <1>2, RepresentableBelow
<1>4. /\ BitWidth(v) <= ByteBits * CountBytes
      /\ JAM_COMPATIBILITY_ENABLED => BitWidth(v) < ByteBits * ByteBits
  BY <1>2, CountWidth
<1>5. /\ EncodeCompactOfBig(v) = [error |-> "none", bytes |-> Encoded(v)]
      /\ LengthOfCompact(v) = Len(Encoded(v)) /\ LengthOfCompact(v) # 0
  BY <1>2, <1>3, <1>4, SmallNative DEF Encoded
<1>6. Encoded(v) \in Seq(Byte)
  BY <1>2, EncodeCompactType DEF Encoded
<1>7. ASSUME NEW rest \in Seq(Byte)
      PROVE  HeaderAt(Encoded(v) \o rest) = ReadResult("none", Len(Encoded(v)), v)
  <2> DEFINE e == Encoded(v)
             s == e \o rest
  <2>1. s \in Seq(Byte) /\ HasAt(s, 0, e)
    <3> HIDE DEF e
    <3> QED
      BY <1>6 DEF e, HasAt
  <2> HIDE DEF e, s
  <2>2. HasAt(s, 0, EncodeCompactOfBig(v).bytes) /\ EncodeCompactOfBig(v).error = "none"
    BY <1>5, <2>1 DEF e
  <2>3. DecodeCompactNative(s, 0, CountBytes) = ReadResult("none", Len(e), v)
    BY <1>1, <1>2, <1>3, <1>4, <1>5, <2>1, <2>2, NativeOfEncoded DEF e
  <2> QED
    BY <2>3 DEF HeaderAt, e, s
<1> QED
  BY <1>2, <1>5, <1>6, <1>7

\* A vector made of a header and values is parsed into them.
LEMMA ParsedParts ==
  ASSUME NEW c \in Counts, NEW v \in {c, c + 1}, NEW rest \in Seq(Byte)
  PROVE  /\ Parsed(Encoded(v) \o rest) = [count |-> v, bytes |-> rest]
         /\ HeaderCanonical(Encoded(v) \o rest)
<1> DEFINE e == Encoded(v)
           s == e \o rest
<1>1. HeaderAt(s) = ReadResult("none", Len(e), v) /\ e \in Seq(Byte)
  BY CountParts
<1>2. Len(e) # 0
  BY <1>1, CountParts
<1> HIDE DEF e
<1>3. /\ s \in Seq(Byte) /\ s # << >>
      /\ SubSeq(s, Len(e) + 1, Len(s)) = rest
      /\ SubSeq(s, 1, Len(e)) = e
      /\ Len(e) \in 0..Len(s)
  BY <1>1, <1>2
<1> HIDE DEF s
<1>4. Parsed(s) = [count |-> v, bytes |-> rest]
  <2> DEFINE h == DecodeCompactNative(s, 0, CountBytes)
  <2>1. /\ h.error = "none" /\ h.value = v
        /\ SubSeq(s, h.used + 1, Len(s)) = rest
    BY <1>1, <1>3 DEF HeaderAt, ReadResult
  <2> HIDE DEF h
  <2> QED
    BY <1>3, <2>1, Zenon DEF Parsed, h
<1>5. HeaderCanonical(s)
  BY <1>1, <1>3 DEF HeaderCanonical, ReadResult, e
<1> QED
  BY <1>4, <1>5 DEF s, e

\* A canonical vector is its header and its values.
LEMMA CanonicalVector ==
  ASSUME NEW s \in Seq(Byte), s # << >>, HeaderAt(s).error = "none",
         HeaderAt(s).value \in Counts, HeaderCanonical(s)
  PROVE  LET c == HeaderAt(s).value
             rest == SubSeq(s, HeaderAt(s).used + 1, Len(s))
         IN  /\ rest \in Seq(Byte)
             /\ s = Encoded(c) \o rest
             /\ Parsed(s) = [count |-> c, bytes |-> rest]
<1> DEFINE c == HeaderAt(s).value
           used == HeaderAt(s).used
           rest == SubSeq(s, used + 1, Len(s))
<1>1. used \in 0..Len(s) /\ SubSeq(s, 1, used) = Encoded(c)
  BY DEF HeaderCanonical
<1>2. Parsed(s) = [count |-> c, bytes |-> rest]
  BY Zenon DEF Parsed, HeaderAt
<1> HIDE DEF used
<1>3. rest \in Seq(Byte)
  BY <1>1
<1>4. s = SubSeq(s, 1, used) \o rest
  <2>1. SubSeq(s, 1, Len(s)) = s
    BY SubSeqFull
  <2>2. 1 \in 1..(Len(s) + 1) /\ used \in (1 - 1)..Len(s) /\ Len(s) \in used..Len(s)
    BY <1>1
  <2>3. SubSeq(s, 1, used) \o SubSeq(s, used + 1, Len(s)) = SubSeq(s, 1, Len(s))
    BY <2>2, ConcatAdjacentSubSeq, Zenon
  <2> QED
    BY <2>1, <2>3
<1> QED
  BY <1>1, <1>2, <1>3, <1>4 DEF used

\* Moving bytes over the first ones.
LEMMA Overwritten ==
  ASSUME NEW old \in Seq(Byte), NEW e \in Seq(Byte), NEW rest \in Seq(Byte),
         Len(old) = Len(e)
  PROVE  [i \in DOMAIN (old \o rest) |-> IF i \in DOMAIN e THEN e[i] ELSE (old \o rest)[i]]
           = e \o rest
<1> DEFINE s == old \o rest
           t == [i \in DOMAIN s |-> IF i \in DOMAIN e THEN e[i] ELSE s[i]]
           u == e \o rest
<1>1. /\ s \in Seq(Byte) /\ Len(s) = Len(e) + Len(rest)
      /\ \A i \in 1..Len(rest) : s[Len(e) + i] = rest[i]
  OBVIOUS
<1>2. /\ u \in Seq(Byte) /\ Len(u) = Len(e) + Len(rest)
      /\ \A i \in 1..Len(e) : u[i] = e[i]
      /\ \A i \in 1..Len(rest) : u[Len(e) + i] = rest[i]
  OBVIOUS
<1> HIDE DEF s, u
<1>3. \A i \in 1..Len(s) : IF i \in DOMAIN e THEN e[i] = u[i] ELSE s[i] = u[i]
  <2> TAKE i \in 1..Len(s)
  <2>1. CASE i \in 1..Len(e)
    BY <1>2, <2>1
  <2>2. CASE i \notin 1..Len(e)
    <3>1. PICK j \in 1..Len(rest) : i = Len(e) + j
      <4>1. i - Len(e) \in 1..Len(rest) /\ i = Len(e) + (i - Len(e))
        BY <1>1, <2>2
      <4> QED
        BY <4>1
    <3> QED
      BY <1>1, <1>2, <2>2, <3>1
  <2> QED
    BY <2>1, <2>2
<1>4. DOMAIN s = 1..Len(s) /\ DOMAIN u = 1..Len(s)
  BY <1>1, <1>2
<1>5. t = [i \in 1..Len(s) |-> u[i]]
  BY <1>3, <1>4
<1>6. u = [i \in 1..Len(s) |-> u[i]]
  <2>1. u \in [1..Len(u) -> Byte]
    BY <1>2
  <2> QED
    BY <1>1, <1>2, <2>1
<1> QED
  BY <1>5, <1>6 DEF s, u

-----------------------------------------------------------------------------

LEMMA AddsValue ==
  ASSUME NEW c \in Nat, NEW bytes, NEW value \in Inputs,
         Vector = [count |-> c, bytes |-> bytes],
         Vector' = [count |-> c + 1, bytes |-> bytes \o value]
  PROVE  Abstract!Next
<1>1. Vector # Abstract!Unspecified
  BY DEF Abstract!Unspecified
<1>2. Vector' = [count |-> Vector.count + 1, bytes |-> Vector.bytes \o value]
  OBVIOUS
<1> QED
  BY <1>1, <1>2 DEF Abstract!Next, Abstract!Add, Vector

LEMMA BreaksVector ==
  ASSUME NEW c \in Nat, NEW bytes,
         Vector = [count |-> c, bytes |-> bytes],
         HeaderLength(c + 1) > HeaderLength(c),
         broken'
  PROVE  Abstract!Next
<1>1. Vector # Abstract!Unspecified /\ Vector' = Abstract!Unspecified
  BY DEF Abstract!Unspecified, Vector
<1>2. HeaderLength(Vector.count + 1) > HeaderLength(Vector.count)
  OBVIOUS
<1> QED
  BY <1>1, <1>2 DEF Abstract!Next, Abstract!Break, Vector

\* A call that has ended.
LEMMA Ended ==
  ASSUME Inv', pc' = "idle", ~broken' => HeaderCanonical(self_encoded)'
  PROVE  VectorInv'
BY DEF VectorInv, CallBounded, HeaderExtracted, OldShifted, HeaderReplaced, StaysCanonical

\* A call that ends and leaves the vector as it found it.
LEMMA NothingDone ==
  ASSUME VectorInv, Inv', pc # "idle", self_encoded' = before, NEW how, End(how)
  PROVE  VectorInv' /\ Vector' = Vector
<1>1. pc' = "idle" /\ broken' = broken
  BY DEF End, VectorInv, Inv, TypeOK
<1>2. HeaderCanonical(self_encoded)' = HeaderCanonical(before)
  BY DEF HeaderCanonical, HeaderAt
<1>3. Parsed(self_encoded)' = Parsed(before)
  BY DEF Parsed
<1>4. VectorInv'
  BY <1>1, <1>2, Ended DEF VectorInv, StaysCanonical
<1>5. Vector' = Vector
  BY <1>1, <1>3 DEF Vector
<1> QED
  BY <1>4, <1>5

\* A step within a call.
LEMMA Within ==
  ASSUME VectorInv, pc # "idle", pc' # "idle", UNCHANGED <<input, before, broken>>
  PROVE  /\ CallBounded' /\ StaysCanonical'
         /\ Old' = Old
         /\ Vector' = Vector
<1>1. /\ Old' = Old
      /\ HeaderCanonical(before)' = HeaderCanonical(before)
      /\ Parsed(before)' = Parsed(before)
  BY DEF Old, HeaderAt, HeaderCanonical, Parsed
<1> QED
  BY <1>1 DEF VectorInv, CallBounded, StaysCanonical, Vector

\* While a call works on a vector that is no broken one, it is the old header
\* and the values behind it.
LEMMA OldParts ==
  ASSUME VectorInv, pc \in {"reserve", "shift", "replace", "insert"}
  PROVE  /\ Old.value \in Counts
         /\ lengths.new_len = Old.value + 1
         /\ lengths.encoded_len = Len(Encoded(Old.value))
         /\ lengths.encoded_new_len = Len(Encoded(Old.value + 1))
         /\ Encoded(Old.value) \in Seq(Byte) /\ Encoded(Old.value + 1) \in Seq(Byte)
         /\ ~broken =>
              LET rest == SubSeq(before, Old.used + 1, Len(before))
              IN  /\ rest \in Seq(Byte)
                  /\ before = Encoded(Old.value) \o rest
                  /\ Vector = [count |-> Old.value, bytes |-> rest]
<1>1. /\ Old.error = "none" /\ Old.value \in Counts /\ before # << >>
      /\ lengths = [new_len         |-> Old.value + 1,
                    encoded_len     |-> LengthOfCompact(Old.value),
                    encoded_new_len |-> LengthOfCompact(Old.value + 1)]
  BY DEF VectorInv, HeaderExtracted, CallBounded
<1>2. \A v \in {Old.value, Old.value + 1} :
        LengthOfCompact(v) = Len(Encoded(v)) /\ Encoded(v) \in Seq(Byte)
  BY <1>1, CountParts
<1>3. ASSUME ~broken
      PROVE  LET rest == SubSeq(before, Old.used + 1, Len(before))
             IN  /\ rest \in Seq(Byte)
                 /\ before = Encoded(Old.value) \o rest
                 /\ Vector = [count |-> Old.value, bytes |-> rest]
  <2>1. before \in Seq(Byte) /\ HeaderCanonical(before) /\ Vector = Parsed(before)
    BY <1>3 DEF VectorInv, Inv, TypeOK, StaysCanonical, Vector
  <2> QED
    BY <1>1, <2>1, CanonicalVector DEF Old
<1> QED
  BY <1>1, <1>2, <1>3

-----------------------------------------------------------------------------

LEMMA CallKeepsVector ==
  ASSUME VectorInv, Inv', Call
  PROVE  VectorInv' /\ Vector' = Vector
<1>1. /\ pc = "idle" /\ pc' = "call" /\ broken' = broken
      /\ before' = self_encoded /\ input' \in Inputs
      /\ Header.error = "none" => Header.value \in Counts
  BY DEF Call
<1>2. /\ Old' = Header
      /\ HeaderCanonical(before)' = HeaderCanonical(self_encoded)
      /\ Parsed(before)' = Parsed(self_encoded)
  BY <1>1 DEF Old, Header, HeaderAt, HeaderCanonical, Parsed
<1>3. CallBounded' /\ StaysCanonical' /\ Vector' = Vector
  BY <1>1, <1>2 DEF VectorInv, CallBounded, StaysCanonical, Vector
<1> QED
  BY <1>1, <1>3 DEF VectorInv, HeaderExtracted, OldShifted, HeaderReplaced

LEMMA EncodeNewAdds ==
  ASSUME VectorInv, Inv', EncodeNew
  PROVE  VectorInv' /\ (Vector' = Vector \/ Abstract!Next)
<1>1. pc = "call" /\ self_encoded = << >> /\ before = << >> /\ input \in Inputs
  BY DEF EncodeNew, VectorInv, Inv, NotYetChanged, CallBounded
<1>2. CASE Throw
  BY <1>1, <1>2, NothingDone DEF Throw
<1>3. CASE /\ self_encoded' = EncodeCompactOfNative(1).bytes \o input
           /\ End("none")
  <2>1. self_encoded' = Encoded(1) \o input /\ pc' = "idle" /\ broken' = broken
    BY <1>3 DEF Encoded, End, VectorInv, Inv, TypeOK
  <2>2. 0 \in Counts /\ 1 \in {0, 0 + 1} /\ input \in Seq(Byte)
    BY <1>1, AppendAssumption
  <2>3. /\ Parsed(Encoded(1) \o input) = [count |-> 1, bytes |-> input]
        /\ HeaderCanonical(Encoded(1) \o input)
    BY <2>2, ParsedParts
  <2>4. /\ Parsed(self_encoded)' = [count |-> 1, bytes |-> input]
        /\ HeaderCanonical(self_encoded)'
    BY <2>1, <2>3 DEF Parsed, HeaderCanonical, HeaderAt
  <2>5. VectorInv'
    BY <2>1, <2>4, Ended
  <2>6. CASE broken
    BY <2>1, <2>5, <2>6 DEF Vector
  <2>7. CASE ~broken
    <3>1. Vector = [count |-> 0, bytes |-> << >>]
      BY <1>1, <2>7, Zenon DEF Vector, Parsed
    <3>2. Vector' = [count |-> 1, bytes |-> input]
      BY <2>1, <2>4, <2>7 DEF Vector
    <3>3. << >> \o input = input /\ 0 + 1 = 1
      BY <2>2
    <3>4. Abstract!Next
      BY <1>1, <3>1, <3>2, <3>3, AddsValue
    <3> QED
      BY <2>5, <3>4
  <2> QED
    BY <2>5, <2>6, <2>7
<1> QED
  BY <1>2, <1>3 DEF EncodeNew

LEMMA ExtractLengthDataKeepsVector ==
  ASSUME VectorInv, Inv', ExtractLengthData
  PROVE  VectorInv' /\ Vector' = Vector
<1>1. pc = "call" /\ self_encoded = before /\ before # << >>
  BY DEF ExtractLengthData, VectorInv, Inv, NotYetChanged
<1>2. CASE UNCHANGED <<self_encoded, capacity>> /\ End(Header.error)
  BY <1>1, <1>2, NothingDone
<1>3. CASE /\ Header.error = "none"
           /\ lengths' = [new_len         |-> (Header.value + 1) % CountMod,
                          encoded_len     |-> LengthOfCompact(Header.value),
                          encoded_new_len |-> LengthOfCompact((Header.value + 1) % CountMod)]
           /\ Goto("reserve")
  <2>1. Header = Old
    BY <1>1 DEF Header, Old, HeaderAt
  <2>2. Old.value \in Counts
    BY <1>1, <1>3, <2>1 DEF VectorInv, CallBounded
  <2>3. (Old.value + 1) % CountMod = Old.value + 1
    <3>1. /\ Old.value \in Nat /\ Old.value + 1 < CountMod
          /\ CountMod \in Nat \ {0}
      BY ONLY <2>2, AppendAssumption
    <3> QED
      BY ONLY <3>1
  <2>4. pc' = "reserve" /\ UNCHANGED <<input, before, broken>>
    BY <1>3 DEF Goto
  <2>5. CallBounded' /\ StaysCanonical' /\ Old' = Old /\ Vector' = Vector
    BY <1>1, <2>4, Within
  <2>6. HeaderExtracted'
    BY <1>1, <1>3, <2>1, <2>3, <2>4, <2>5 DEF HeaderExtracted
  <2> QED
    BY <2>4, <2>5, <2>6 DEF VectorInv, OldShifted, HeaderReplaced
<1> QED
  BY <1>2, <1>3 DEF ExtractLengthData, Header

LEMMA ReserveKeepsVector ==
  ASSUME VectorInv, Inv', Reserve
  PROVE  VectorInv' /\ Vector' = Vector
<1>1. pc = "reserve" /\ self_encoded = before
  BY DEF Reserve, VectorInv, Inv, NotYetChanged
<1>2. CASE Throw
  BY <1>1, <1>2, NothingDone DEF Throw
<1>3. CASE /\ Goto(IF Grows THEN "shift" ELSE "replace")
           /\ UNCHANGED <<self_encoded, lengths>>
  <2>1. /\ pc' \in {"shift", "replace"} /\ (pc' = "shift" <=> Grows)
        /\ UNCHANGED <<self_encoded, lengths, input, before, broken>>
    BY <1>3 DEF Goto
  <2>2. CallBounded' /\ StaysCanonical' /\ Old' = Old /\ Vector' = Vector
    BY <1>1, <2>1, Within
  <2>3. HeaderExtracted'
    BY <1>1, <2>1, <2>2 DEF VectorInv, HeaderExtracted
  <2>4. OldShifted'
    <3>1. SUFFICES ASSUME ~Grows
                   PROVE  self_encoded = [i \in 1..ShiftSize |-> 0] \o before
      BY <2>1 DEF OldShifted, ShiftSize
    <3>2. ShiftSize = 0
      BY <1>1, <3>1, LengthsType DEF VectorInv, Grows
    <3>3. before \in Seq(Byte)
      BY DEF VectorInv, Inv, TypeOK
    <3> QED
      BY <1>1, <3>2, <3>3, NoZeros
  <2> QED
    BY <2>1, <2>2, <2>3, <2>4 DEF VectorInv, HeaderReplaced
<1> QED
  BY <1>2, <1>3 DEF Reserve, ReserveBytes

LEMMA ShiftKeepsVector ==
  ASSUME VectorInv, Inv', Shift
  PROVE  VectorInv' /\ Vector' = Vector
<1>1. pc = "shift" /\ self_encoded = before
  BY DEF Shift, VectorInv, Inv, NotYetChanged
<1>2. CASE Throw
  BY <1>1, <1>2, NothingDone DEF Throw
<1>3. CASE /\ self_encoded' = [i \in 1..ShiftSize |-> 0] \o self_encoded
           /\ Goto("replace")
           /\ UNCHANGED lengths
  <2>1. pc' = "replace" /\ UNCHANGED <<lengths, input, before, broken>>
    BY <1>3 DEF Goto
  <2>2. CallBounded' /\ StaysCanonical' /\ Old' = Old /\ Vector' = Vector
    BY <1>1, <2>1, Within
  <2>3. HeaderExtracted'
    BY <1>1, <2>1, <2>2 DEF VectorInv, HeaderExtracted
  <2>4. OldShifted'
    BY <1>1, <1>3, <2>1 DEF OldShifted, ShiftSize
  <2> QED
    BY <2>1, <2>2, <2>3, <2>4 DEF VectorInv, HeaderReplaced
<1> QED
  BY <1>2, <1>3 DEF Shift

LEMMA InsertAdds ==
  ASSUME VectorInv, Inv', Insert
  PROVE  VectorInv' /\ (Vector' = Vector \/ Abstract!Next)
<1> DEFINE c == Old.value
           rest == SubSeq(before, Old.used + 1, Len(before))
<1>1. pc = "insert" /\ Len(self_encoded) + Len(input) <= capacity
      /\ input \in Inputs
  BY DEF Insert, VectorInv, Inv, Reserved, CallBounded
<1>2. ~(Len(self_encoded) + Len(input) > capacity)
  BY <1>1, LengthsType DEF VectorInv
<1>3. self_encoded' = self_encoded \o input /\ pc' = "idle" /\ broken' = broken
  BY <1>2 DEF Insert, End, VectorInv, Inv, TypeOK
<1>4. CASE broken
  <2>1. VectorInv'
    BY <1>3, <1>4, Ended
  <2> QED
    BY <1>3, <1>4, <2>1 DEF Vector
<1>5. CASE ~broken
  <2>1. /\ c \in Counts /\ rest \in Seq(Byte) /\ input \in Seq(Byte)
        /\ Encoded(c + 1) \in Seq(Byte)
        /\ Vector = [count |-> c, bytes |-> rest]
    BY <1>1, <1>5, OldParts, AppendAssumption
  <2>2. self_encoded = Encoded(c + 1) \o rest
    BY <1>1, <1>5 DEF VectorInv, HeaderReplaced
  <2> HIDE DEF c, rest
  <2>3. self_encoded' = Encoded(c + 1) \o (rest \o input) /\ rest \o input \in Seq(Byte)
    <3> DEFINE e == Encoded(c + 1)
    <3> HIDE DEF e
    <3>1. (e \o rest) \o input = e \o (rest \o input)
      BY <2>1 DEF e
    <3> QED
      BY <1>3, <2>1, <2>2, <3>1 DEF e
  <2>4. /\ Parsed(Encoded(c + 1) \o (rest \o input))
             = [count |-> c + 1, bytes |-> rest \o input]
        /\ HeaderCanonical(Encoded(c + 1) \o (rest \o input))
    BY <2>1, <2>3, ParsedParts
  <2>5. /\ Parsed(self_encoded)' = [count |-> c + 1, bytes |-> rest \o input]
        /\ HeaderCanonical(self_encoded)'
    BY <2>3, <2>4 DEF Parsed, HeaderCanonical, HeaderAt
  <2>6. VectorInv'
    BY <1>3, <2>5, Ended
  <2>7. Vector' = [count |-> c + 1, bytes |-> rest \o input]
    BY <1>3, <1>5, <2>5 DEF Vector
  <2>8. c \in Nat
    BY <2>1, AppendAssumption
  <2>9. Abstract!Next
    BY <1>1, <2>1, <2>7, <2>8, AddsValue
  <2> QED
    BY <2>6, <2>9
<1> QED
  BY <1>4, <1>5

LEMMA ReplaceLenKeepsVector ==
  ASSUME VectorInv, Inv', ReplaceLen
  PROVE  VectorInv' /\ (Vector' = Vector \/ Abstract!Next)
<1> DEFINE c == Old.value
           rest == SubSeq(before, Old.used + 1, Len(before))
           zeros == [i \in 1..ShiftSize |-> 0]
           e == EncodeCompactOfNative(lengths.new_len).bytes
<1>1. pc = "replace" /\ self_encoded = zeros \o before
  BY DEF ReplaceLen, VectorInv, OldShifted
<1>2. /\ c \in Counts /\ c \in Nat
      /\ e = Encoded(c + 1)
      /\ Encoded(c) \in Seq(Byte) /\ Encoded(c + 1) \in Seq(Byte)
      /\ ShiftSize = Len(Encoded(c + 1)) - Len(Encoded(c))
      /\ Len(Encoded(c)) <= Len(Encoded(c + 1))
      /\ ~broken => /\ rest \in Seq(Byte)
                    /\ before = Encoded(c) \o rest
                    /\ Vector = [count |-> c, bytes |-> rest]
  BY <1>1, OldParts, LengthsType, AppendAssumption
  DEF VectorInv, Inv, HeaderNotShorter, Encoded
<1>3. ShiftSize \in Nat
  BY <1>2
<1>4. CASE Throw
  <2>1. self_encoded' = self_encoded /\ pc' = "idle"
        /\ broken' = (broken \/ self_encoded # before)
    BY <1>4 DEF Throw, End
  <2>2. CASE self_encoded = before
    BY <1>1, <1>4, <2>2, NothingDone DEF Throw
  <2>3. CASE broken
    <3>1. VectorInv'
      BY <2>1, <2>3, Ended
    <3> QED
      BY <2>1, <2>3, <3>1 DEF Vector
  <2>4. CASE ~broken /\ self_encoded # before
    <3>1. ShiftSize # 0
      <4>1. SUFFICES ASSUME ShiftSize = 0 PROVE FALSE
        OBVIOUS
      <4>2. zeros \o before = before
        <5>1. before \in Seq(Byte)
          BY DEF VectorInv, Inv, TypeOK
        <5>2. zeros = [i \in 1..0 |-> 0]
          BY <4>1
        <5> HIDE DEF zeros
        <5> QED
          BY <5>1, <5>2, NoZeros
      <4> QED
        BY <1>1, <2>4, <4>2
    <3>2. HeaderLength(c + 1) > HeaderLength(c)
      BY <1>2, <3>1 DEF HeaderLength, Encoded
    <3>3. VectorInv'
      BY <2>1, <2>4, Ended
    <3>4. Abstract!Next
      BY <1>2, <2>1, <2>4, <3>2, BreaksVector
    <3> QED
      BY <3>3, <3>4
  <2> QED
    BY <2>2, <2>3, <2>4
<1>5. CASE /\ self_encoded' = [i \in DOMAIN self_encoded |->
                                 IF i \in DOMAIN e THEN e[i] ELSE self_encoded[i]]
           /\ Goto("insert")
           /\ UNCHANGED <<capacity, lengths>>
  <2>1. pc' = "insert" /\ UNCHANGED <<lengths, input, before, broken>>
    BY <1>5 DEF Goto
  <2>2. CallBounded' /\ StaysCanonical' /\ Old' = Old /\ Vector' = Vector
    BY <1>1, <2>1, Within
  <2>3. HeaderExtracted'
    BY <1>1, <2>1, <2>2 DEF VectorInv, HeaderExtracted
  <2>4. HeaderReplaced'
    <3>1. SUFFICES ASSUME ~broken PROVE self_encoded' = Encoded(c + 1) \o rest
      BY <2>1, <2>2 DEF HeaderReplaced
    <3>2. zeros \in Seq(Byte) /\ Len(zeros) = ShiftSize
      BY <1>3, ByteAssumption DEF Byte
    <3> DEFINE oldHeader == Encoded(c)
               newHeader == Encoded(c + 1)
    <3> HIDE DEF zeros, oldHeader, newHeader, rest, c
    <3>3. /\ oldHeader \in Seq(Byte) /\ newHeader \in Seq(Byte) /\ rest \in Seq(Byte)
          /\ before = oldHeader \o rest
          /\ ShiftSize = Len(newHeader) - Len(oldHeader)
      BY <1>2, <3>1 DEF oldHeader, newHeader
    <3> DEFINE old == zeros \o oldHeader
    <3>4. old \in Seq(Byte) /\ Len(old) = Len(newHeader)
      BY <3>2, <3>3
    <3>5. zeros \o (oldHeader \o rest) = old \o rest
      BY <3>2, <3>3
    <3>6. self_encoded = old \o rest /\ e = newHeader
      BY <1>1, <1>2, <3>3, <3>5 DEF newHeader
    <3> HIDE DEF e, old
    <3>7. self_encoded' = [i \in DOMAIN (old \o rest) |->
                             IF i \in DOMAIN newHeader THEN newHeader[i] ELSE (old \o rest)[i]]
      BY <1>5, <3>6
    <3>8. self_encoded' = newHeader \o rest
      BY <3>3, <3>4, <3>7, Overwritten
    <3> QED
      BY <3>8 DEF newHeader
  <2> QED
    BY <2>1, <2>2, <2>3, <2>4 DEF VectorInv, OldShifted
<1> QED
  BY <1>4, <1>5 DEF ReplaceLen

-----------------------------------------------------------------------------

\* A SCALE build accepts no header but the encoding of its number.
LEMMA ScaleHeaderCanonical ==
  ASSUME ~JAM_COMPATIBILITY_ENABLED, NEW s \in Seq(Byte), Len(s) + MaxBigBytes < SizeMod
  PROVE  HeaderCanonical(s)
<1> DEFINE d == DecodeCompactInteger(s, 0)
           v == HeaderAt(s).value
           used == HeaderAt(s).used
<1>1. SUFFICES ASSUME HeaderAt(s).error = "none", v \in Counts
               PROVE  used \in 0..Len(s) /\ SubSeq(s, 1, used) = Encoded(v)
  BY DEF HeaderCanonical
<1>2. ReadCompact(s, 0) = d
  BY DEF ReadCompact
<1>3. HeaderAt(s) = d
  BY <1>1, <1>2 DEF HeaderAt, DecodeCompactNative, ReadResult
<1>4. 0 \in 0..Len(s)
  OBVIOUS
<1>5. d.used \in 1..(Len(s) - 0)
  BY <1>1, <1>2, <1>3, <1>4, ReadType
<1>6. v < kMinBigInteger
  BY <1>1, AppendAssumption, LimitsType
<1>7. EncodeCompactBig(v) = [error |-> "none", bytes |-> SubSeq(s, 0 + 1, 0 + d.used)]
  BY <1>1, <1>3, <1>4, <1>6, CompactCanonical
<1>8. EncodeCompactBig(v).bytes = Encoded(v)
  BY <1>6 DEF EncodeCompactBig, Encoded, EncodeCompactOfNative, EncodeCompactNative
<1> HIDE DEF d, v
<1> QED
  BY <1>3, <1>5, <1>7, <1>8

\* What a vector is parsed into is a vector.
LEMMA ParsedType ==
  ASSUME NEW s \in Seq(Byte), Len(s) + MaxBigBytes < SizeMod
  PROVE  \/ Parsed(s) = [count |-> -1, bytes |-> << >>]
         \/ Parsed(s).count \in Nat /\ Parsed(s).bytes \in Seq(Byte)
<1> DEFINE h == DecodeCompactNative(s, 0, CountBytes)
<1>1. CASE s = << >>
  <2>1. Parsed(s) = [count |-> 0, bytes |-> << >>]
    BY <1>1, Zenon DEF Parsed
  <2> QED
    BY <2>1
<1>2. CASE s # << >> /\ h.error = "none"
  <2>1. h = ReadCompact(s, 0)
    BY <1>2 DEF DecodeCompactNative, ReadResult
  <2>2. 0 \in 0..Len(s)
    OBVIOUS
  <2>3. h.value \in Nat /\ h.used \in 1..(Len(s) - 0)
    BY <1>2, <2>1, <2>2, ReadType
  <2>4. Parsed(s) = [count |-> h.value, bytes |-> SubSeq(s, h.used + 1, Len(s))]
    BY <1>2, Zenon DEF Parsed
  <2> HIDE DEF h
  <2>5. SubSeq(s, h.used + 1, Len(s)) \in Seq(Byte)
    BY <2>3
  <2> QED
    BY <2>3, <2>4, <2>5
<1>3. CASE s # << >> /\ h.error # "none"
  BY <1>3, Zenon DEF Parsed
<1> QED
  BY <1>1, <1>2, <1>3

\* append_or_new_vec does what decoding the vector, adding the value and
\* encoding it again would do, or it fails and the vector is what it was, unless
\* the header had to grow.  A JAM build takes headers that are longer than their
\* number needs for canonical ones: there, the vectors must have none of them.
THEOREM AppendImplementsVector ==
  ASSUME JAM_COMPATIBILITY_ENABLED => \A s \in Vectors : HeaderCanonical(s)
  PROVE  Spec => ImplementsOpaqueVector
<1>1. Init => VectorInv
  <2> SUFFICES ASSUME Init PROVE VectorInv
    OBVIOUS
  <2>1. self_encoded \in Vectors /\ pc = "idle"
    BY DEF Init
  <2>2. HeaderCanonical(self_encoded)
    BY <2>1, AppendAssumption, BuildAssumption, ScaleHeaderCanonical
  <2> QED
    BY <2>1, <2>2, InvInit DEF VectorInv, CallBounded, HeaderExtracted, OldShifted,
                               HeaderReplaced, StaysCanonical
<1>2. VectorInv /\ [Next]_vars => VectorInv' /\ (Vector' = Vector \/ Abstract!Next)
  <2> SUFFICES ASSUME VectorInv, [Next]_vars
               PROVE  VectorInv' /\ (Vector' = Vector \/ Abstract!Next)
    OBVIOUS
  <2>1. Inv'
    BY NextKeepsInv DEF VectorInv
  <2>2. CASE UNCHANGED vars
    <3>1. UNCHANGED <<self_encoded, lengths, input, pc, before, broken>>
      BY <2>2 DEF vars
    <3>2. /\ Old' = Old
          /\ HeaderCanonical(self_encoded)' = HeaderCanonical(self_encoded)
          /\ HeaderCanonical(before)' = HeaderCanonical(before)
          /\ Parsed(self_encoded)' = Parsed(self_encoded)
          /\ Parsed(before)' = Parsed(before)
      BY <3>1 DEF Old, HeaderAt, HeaderCanonical, Parsed
    <3>3. VectorInv'
      BY <2>1, <3>1, <3>2 DEF VectorInv, CallBounded, HeaderExtracted, OldShifted,
                              ShiftSize, HeaderReplaced, StaysCanonical
    <3> QED
      BY <3>1, <3>2, <3>3 DEF Vector
  <2>3. CASE Next
    BY <2>1, <2>3, CallKeepsVector, EncodeNewAdds, ExtractLengthDataKeepsVector,
       ReserveKeepsVector, ShiftKeepsVector, ReplaceLenKeepsVector, InsertAdds
    DEF Next, Step
  <2> QED
    BY <2>2, <2>3
<1>3. Init => Abstract!Init
  <2> SUFFICES ASSUME Init PROVE Abstract!Init
    OBVIOUS
  <2>1. /\ Vector = Parsed(self_encoded)
        /\ self_encoded \in Seq(Byte) /\ Len(self_encoded) + MaxBigBytes < SizeMod
    BY AppendAssumption DEF Init, Vector
  <2>2. \/ Vector = [count |-> -1, bytes |-> << >>]
        \/ Vector.count \in Nat /\ Vector.bytes \in Seq(Byte)
    BY <2>1, ParsedType
  <2> QED
    BY <2>2 DEF Abstract!Init, Abstract!Unspecified, Vector
<1>4. VectorInv /\ [Next]_vars =>
        VectorInv' /\ [Abstract!Next]_(IF broken THEN [count |-> -1, bytes |-> << >>]
                                       ELSE Parsed(IF pc = "idle" THEN self_encoded
                                                   ELSE before))
  BY <1>2 DEF Vector
<1> QED
  BY <1>1, <1>3, <1>4, PTL DEF Spec, ImplementsOpaqueVector, Abstract!Spec
=============================================================================
