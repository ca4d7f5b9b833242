------------------------ MODULE Configurable_proofs ------------------------
(***************************************************************************)
(* Theorems about Configurable, for any types, objects and values.         *)
(***************************************************************************)
EXTENDS Configurable, TLAPS

\* The stream's references are to the arguments added so far, one of a type.
Registered ==
  stream # "none" =>
    /\ DOMAIN configs_ = {TypeOf[configs[i]] : i \in 1..added}
    /\ \A i \in 1..added : configs_[TypeOf[configs[i]]] = configs[i]
    /\ \A i, j \in 1..added : TypeOf[configs[i]] = TypeOf[configs[j]] => i = j

Complete == stream = "made" => added = Len(configs)

Inv == TypeOK /\ Registered /\ Complete

LEMMA InvInit == Init => Inv
<1> SUFFICES ASSUME Init PROVE Inv
  OBVIOUS
<1>1. objects \in [Objects -> Values \union {NoValue}]
  BY DEF Init
<1>2. << >> \in Seq(Objects) /\ 0 \in 0..Len(<< >>) /\ DOMAIN NoConfigs = {}
  BY DEF NoConfigs
<1>3. TypeOK
  BY <1>1, <1>2 DEF Init, TypeOK, Result
<1> QED
  BY <1>3 DEF Init, Inv, Registered, Complete

LEMMA DropKeepsInv ==
  ASSUME Inv, Drop,
         result'.error \in {"runtime_error", "bad_alloc"} \/ UNCHANGED result
  PROVE  Inv'
<1>1. DOMAIN configs_' = {}
  BY DEF Drop, NoConfigs
<1>2. TypeOK'
  BY <1>1 DEF Inv, TypeOK, Drop
<1> QED
  BY <1>2 DEF Inv, Registered, Complete, Drop

LEMMA ConstructKeepsInv ==
  ASSUME Inv, Construct
  PROVE  Inv'
<1>1. PICK n \in 0..MaxConfigs : configs' \in [1..n -> Objects]
  BY DEF Construct
<1>2. n \in Nat
  BY ConfigAssumption
<1>3. configs' \in Seq(Objects) /\ 0 \in 0..Len(configs')
  BY <1>1, <1>2
<1>4. /\ stream' = "constructing" /\ added' = 0 /\ local' \in BOOLEAN
      /\ configs_' = NoConfigs /\ objects' = objects
      /\ result'.error = "nothing"
  BY DEF Construct, Result
<1>5. DOMAIN configs_' = {}
  BY <1>4 DEF NoConfigs
<1>6. TypeOK'
  BY <1>3, <1>4, <1>5 DEF Inv, TypeOK
<1> QED
  BY <1>4, <1>5, <1>6 DEF Inv, Registered, Complete

LEMMA AddConfigKeepsInv ==
  ASSUME Inv, AddConfig
  PROVE  Inv'
<1> DEFINE T == TypeOf[NextConfig]
<1>1. /\ stream = "constructing" /\ added \in Nat /\ added + 1 \in 1..Len(configs)
      /\ configs \in Seq(Objects)
  BY DEF AddConfig, Inv, TypeOK
<1>2. NextConfig \in Objects /\ T \in ConfigTypes
  BY <1>1, ConfigAssumption DEF NextConfig
<1>3. CASE /\ Drop
           /\ \E error \in {"runtime_error", "bad_alloc"} : result' = Result(error, NoValue)
  BY <1>3, DropKeepsInv DEF Result
<1>4. CASE /\ T \notin DOMAIN configs_
           /\ configs_' = [t \in DOMAIN configs_ \union {T} |->
                             IF t = T THEN NextConfig ELSE configs_[t]]
           /\ added' = added + 1
           /\ UNCHANGED <<objects, stream, local, configs, result>>
  <2>1. 1..added' = 1..added \union {added + 1}
    BY <1>1, <1>4
  <2>2. TypeOK'
    BY <1>1, <1>2, <1>4 DEF Inv, TypeOK
  <2>3. /\ DOMAIN configs_ = {TypeOf[configs[i]] : i \in 1..added}
        /\ \A i \in 1..added : configs_[TypeOf[configs[i]]] = configs[i]
        /\ \A i, j \in 1..added : TypeOf[configs[i]] = TypeOf[configs[j]] => i = j
    BY <1>1 DEF Inv, Registered
  <2>4. configs[added + 1] = NextConfig /\ TypeOf[configs[added + 1]] = T
    BY DEF NextConfig
  <2> HIDE DEF T
  <2>5. DOMAIN configs_' = {TypeOf[configs[i]] : i \in 1..added'}
    BY <1>4, <2>1, <2>3, <2>4
  <2>6. \A i \in 1..added : TypeOf[configs[i]] # T
    BY <1>4, <2>3
  <2>7. \A i \in 1..added' : configs_'[TypeOf[configs[i]]] = configs[i]
    BY <1>4, <2>1, <2>3, <2>4, <2>6
  <2>8. \A i, j \in 1..added' : TypeOf[configs[i]] = TypeOf[configs[j]] => i = j
    BY <2>1, <2>3, <2>4, <2>6
  <2>9. stream' = "constructing" /\ configs' = configs
    BY <1>1, <1>4
  <2>10. Registered'
    BY <2>5, <2>7, <2>8, <2>9 DEF Registered
  <2>11. Complete'
    BY <2>9 DEF Complete
  <2> QED
    BY <2>2, <2>10, <2>11 DEF Inv
<1> QED
  BY <1>3, <1>4 DEF AddConfig

LEMMA GetConfigKeepsInv ==
  ASSUME Inv, NEW T \in ConfigTypes, GetConfig(T)
  PROVE  Inv'
<1>1. result'.error = "runtime_error" \/ (result'.error = "none" /\ result'.value \in Values)
  BY DEF GetConfig, Result
<1>2. CASE Drop /\ result'.error = "runtime_error"
  BY <1>2, DropKeepsInv
<1>3. CASE UNCHANGED <<objects, stream, local, configs, added, configs_>>
  BY <1>1, <1>3 DEF Inv, TypeOK, Registered, Complete
<1> QED
  BY <1>2, <1>3 DEF GetConfig, Result

LEMMA InvInductive == Spec => []Inv
<1>1. Inv /\ [Next]_vars => Inv'
  <2> SUFFICES ASSUME Inv, [Next]_vars PROVE Inv'
    OBVIOUS
  <2>1. CASE Constructed
    BY <2>1 DEF Inv, TypeOK, Registered, Complete, Constructed
  <2>2. CASE Destruct
    BY <2>2, DropKeepsInv DEF Destruct
  <2>3. CASE Modify
    <3>1. objects' \in [Objects -> Values \union {NoValue}]
      BY <2>3 DEF Inv, TypeOK, Modify
    <3> QED
      BY <2>3, <3>1 DEF Inv, TypeOK, Registered, Complete, Modify
  <2>4. CASE UNCHANGED vars
    BY <2>4 DEF Inv, TypeOK, Registered, Complete, vars
  <2> QED
    BY <2>1, <2>2, <2>3, <2>4, ConstructKeepsInv, AddConfigKeepsInv, GetConfigKeepsInv
    DEF Next
<1> QED
  BY <1>1, InvInit, PTL DEF Spec

\* The types of the client's objects, the stream's references and results.
THEOREM TypeCorrect == Spec => []TypeOK
<1>1. Inv => TypeOK
  BY DEF Inv
<1> QED
  BY <1>1, InvInductive, PTL

\* Configurable's constructor: a stream is only made when its configurations
\* have pairwise different types.
THEOREM NoConfigLeftOut == Spec => []OneConfigPerType
<1>1. Inv => OneConfigPerType
  BY DEF Inv, Registered, Complete, OneConfigPerType
<1> QED
  BY <1>1, InvInductive, PTL

\* getConfig<T>() finds what the constructor was given, as it is now.
THEOREM GetConfigFindsGiven == Spec => GetConfigExact
<1> DEFINE Exact(T) ==
      LET asked == {i \in 1..Len(configs) : TypeOf[configs[i]] = T}
      IN  \/ asked = {} /\ result'.error = "runtime_error"
          \/ /\ asked # {} /\ result'.error = "none"
             /\ \A i \in asked : Live(configs[i]) => result'.value = objects[configs[i]]
<1>1. ASSUME Inv, NEW T \in ConfigTypes, GetConfig(T)
      PROVE  Exact(T)
  <2> DEFINE asked == {i \in 1..Len(configs) : TypeOf[configs[i]] = T}
  <2>1. /\ DOMAIN configs_ = {TypeOf[configs[i]] : i \in 1..Len(configs)}
        /\ \A i \in 1..Len(configs) : configs_[TypeOf[configs[i]]] = configs[i]
    BY <1>1 DEF Inv, Registered, Complete, GetConfig
  <2>2. T \in DOMAIN configs_ <=> asked # {}
    BY <2>1
  <2>3. \A i \in asked : configs_[T] = configs[i]
    BY <2>1
  <2> HIDE DEF asked
  <2>4. CASE T \notin DOMAIN configs_
    BY <1>1, <2>2, <2>4 DEF GetConfig, Result, asked
  <2>5. CASE T \in DOMAIN configs_
    <3>1. PICK value \in Values : /\ Live(configs_[T]) => value = objects[configs_[T]]
                                  /\ result' = Result("none", value)
      BY <1>1, <2>5 DEF GetConfig
    <3>2. result'.error = "none" /\ result'.value = value
      BY <3>1 DEF Result
    <3>3. \A i \in asked : Live(configs[i]) => result'.value = objects[configs[i]]
      BY <2>3, <3>1, <3>2
    <3> QED
      BY <2>2, <2>5, <3>2, <3>3 DEF asked
  <2> QED
    BY <2>4, <2>5
<1>2. Inv => \A T \in ConfigTypes : GetConfig(T) => Exact(T)
  BY <1>1
<1> QED
  BY <1>2, InvInductive, PTL DEF GetConfigExact
=============================================================================
