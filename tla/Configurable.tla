---------------------------- MODULE Configurable ----------------------------
(***************************************************************************)
(* configurable.hpp, and the constructors and convenience functions that   *)
(* use it, in a build with CUSTOM_CONFIG_ENABLED: a stream knows objects   *)
(* of the client by their types and lends them to the operators.           *)
(*                                                                         *)
(* A stream keeps references.  The client owns the objects: it may change  *)
(* them, or end the life of one, while its stream is in use.  What is read *)
(* through a reference to an object that is gone is undefined: any value.  *)
(***************************************************************************)
EXTENDS Integers, Sequences

CONSTANTS
  ConfigTypes,   \* class types that configurations may have
  Objects,       \* the client's objects
  TypeOf,        \* the type of each
  Values,        \* what an object may hold
  NoValue,       \* an object that is gone, or a result that holds none
  MaxConfigs     \* bound: arguments of a constructor

ASSUME ConfigAssumption ==
  /\ TypeOf \in [Objects -> ConfigTypes]
  /\ NoValue \notin Values
  /\ MaxConfigs \in Nat

VARIABLES
  objects,    \* the client's objects
  stream,     \* the client's stream: "none", "constructing" or "made"
  local,      \* whether it is that of encode(v, config), decode(bytes, config)
  configs,    \* the arguments of its constructor
  added,      \* how many of them the constructor has added
  configs_,   \* its references, by type
  result      \* what the last call returned or threw

vars == <<objects, stream, local, configs, added, configs_, result>>

NoConfigs == [t \in {} |-> NoValue]

Result(error, value) == [error |-> error, value |-> value]

TypeOK ==
  /\ objects \in [Objects -> Values \union {NoValue}]
  /\ stream \in {"none", "constructing", "made"}
  /\ local \in BOOLEAN
  /\ configs \in Seq(Objects)
  /\ added \in 0..Len(configs)
  /\ DOMAIN configs_ \subseteq ConfigTypes
  /\ \A t \in DOMAIN configs_ : configs_[t] \in Objects
  /\ \/ result.error = "none" /\ result.value \in Values
     \/ result.error \in {"runtime_error", "bad_alloc", "nothing"}

Init ==
  /\ objects \in [Objects -> Values]
  /\ stream = "none"
  /\ local = FALSE
  /\ configs = << >>
  /\ added = 0
  /\ configs_ = NoConfigs
  /\ result = Result("nothing", NoValue)

-----------------------------------------------------------------------------

Live(o) == objects[o] # NoValue

\* A stream is constructed with live objects, a convenience function's with
\* exactly one.
Construct ==
  /\ stream = "none"
  /\ stream' = "constructing"
  /\ \E n \in 0..MaxConfigs :
       \E arguments \in [1..n -> {o \in Objects : Live(o)}] :
         /\ configs' = arguments
         /\ local' \in (IF n = 1 THEN BOOLEAN ELSE {FALSE})
  /\ added' = 0
  /\ configs_' = NoConfigs
  /\ result' = Result("nothing", NoValue)
  /\ UNCHANGED objects

\* The stream and its references are destroyed.
Drop == /\ stream' = "none"
        /\ local' = FALSE
        /\ configs_' = NoConfigs
        /\ UNCHANGED <<objects, configs, added>>

\* The next of addConfig(configs), ...
NextConfig == configs[added + 1]

\* Mutant: a second object of a type takes the place of the first.
AddConfig_Replaces ==
  /\ stream = "constructing" /\ added < Len(configs)
  /\ configs_' = [t \in DOMAIN configs_ \union {TypeOf[NextConfig]} |->
                    IF t = TypeOf[NextConfig] THEN NextConfig ELSE configs_[t]]
  /\ added' = added + 1
  /\ UNCHANGED <<objects, stream, local, configs, result>>

\* What emplace() does not add makes the constructor throw, and so does memory
\* that runs out for a node, a std::any or the table; emplace() may ask for it
\* before it looks for the type.
AddConfig ==
  /\ stream = "constructing" /\ added < Len(configs)
  /\ \/ /\ result' = Result("bad_alloc", NoValue)
        /\ Drop
     \/ /\ TypeOf[NextConfig] \in DOMAIN configs_
        /\ result' = Result("runtime_error", NoValue)
        /\ Drop
     \/ /\ TypeOf[NextConfig] \notin DOMAIN configs_
        /\ configs_' = [t \in DOMAIN configs_ \union {TypeOf[NextConfig]} |->
                          IF t = TypeOf[NextConfig] THEN NextConfig ELSE configs_[t]]
        /\ added' = added + 1
        /\ UNCHANGED <<objects, stream, local, configs, result>>

Constructed ==
  /\ stream = "constructing" /\ added = Len(configs)
  /\ stream' = "made"
  /\ UNCHANGED <<objects, local, configs, added, configs_, result>>

\* Mutant: what is not found is read all the same.
GetConfig_Unchecked(T) ==
  /\ stream = "made"
  /\ result' = Result("none", IF T \in DOMAIN configs_ THEN objects[configs_[T]]
                              ELSE NoValue)
  /\ UNCHANGED <<objects, stream, local, configs, added, configs_>>

\* Mutant: the first object that the stream knows is read.
GetConfig_First(T) ==
  /\ stream = "made"
  /\ \/ /\ T \notin DOMAIN configs_
        /\ result' = Result("runtime_error", NoValue)
        /\ \/ local /\ Drop
           \/ ~local /\ UNCHANGED <<objects, stream, local, configs, added, configs_>>
     \/ /\ T \in DOMAIN configs_
        /\ \E value \in Values :
             /\ Live(configs[1]) => value = objects[configs[1]]
             /\ result' = Result("none", value)
        /\ UNCHANGED <<objects, stream, local, configs, added, configs_>>

\* stream.getConfig<T>(), called by an operator of the client.  outcomeCatch
\* lets a runtime_error pass: it leaves a convenience function, whose stream
\* is destroyed.
GetConfig(T) ==
  /\ stream = "made"
  /\ \/ /\ T \notin DOMAIN configs_
        /\ result' = Result("runtime_error", NoValue)
        /\ \/ local /\ Drop
           \/ ~local /\ UNCHANGED <<objects, stream, local, configs, added, configs_>>
     \/ /\ T \in DOMAIN configs_
        /\ \E value \in Values :
             /\ Live(configs_[T]) => value = objects[configs_[T]]
             /\ result' = Result("none", value)
        /\ UNCHANGED <<objects, stream, local, configs, added, configs_>>

\* The client destroys its stream, or a convenience function returns.
Destruct == stream = "made" /\ Drop /\ UNCHANGED result

\* Between its calls, and never within a convenience function, the client
\* changes an object or ends its life.
Modify ==
  /\ stream # "constructing" /\ ~local
  /\ \E o \in Objects : /\ Live(o)
                        /\ objects' \in {[objects EXCEPT ![o] = v] :
                                           v \in Values \union {NoValue}}
  /\ UNCHANGED <<stream, local, configs, added, configs_, result>>

Next ==
  \/ Construct
  \/ AddConfig
  \/ Constructed
  \/ \E T \in ConfigTypes : GetConfig(T)
  \/ Destruct
  \/ Modify

Spec == Init /\ [][Next]_vars

-----------------------------------------------------------------------------
(* Properties.                                                             *)

\* A stream that could be made was given at most one object of each type: no
\* argument is silently left out.
OneConfigPerType ==
  stream = "made" =>
    \A i, j \in 1..Len(configs) : TypeOf[configs[i]] = TypeOf[configs[j]] => i = j

\* getConfig<T>() yields the object of type T that the constructor was given,
\* as it is now if it is still there, and throws just when there was none:
\* whatever other objects the stream knows and however they have changed.
GetConfigExact ==
  [][\A T \in ConfigTypes :
       GetConfig(T) =>
         LET asked == {i \in 1..Len(configs) : TypeOf[configs[i]] = T}
         IN  \/ asked = {} /\ result'.error = "runtime_error"
             \/ /\ asked # {} /\ result'.error = "none"
                /\ \A i \in asked : Live(configs[i]) =>
                                      result'.value = objects[configs[i]]]_vars
=============================================================================
