------------------------ MODULE MCScaleEncoderStream ------------------------
(***************************************************************************)
(* ScaleEncoderStream on a small codec (3-bit bytes), with a client that   *)
(* remembers its last call, and the properties of the stream.              *)
(***************************************************************************)
EXTENDS ScaleEncoderStream, ScaleSamples

VARIABLES
  request,   \* the current or last call
  mark       \* size() when it was made

mcvars == <<vars, request, mark>>

Integers8 == {0, 1, 2, 15, 16, 63, 500, 1023, 1024, 5000, 32767, 32768}

Requested ==
  { Bool, UInt(1), UInt(2), Big(3), Enum(1, {1, 5}), Compact(2), Compact(4),
    BigCompact(6), OptBool, Optional(Pointer(Bool)), Pointer(UInt(2)),
    Product(<<UInt(1), Pointer(Bool), UInt(1)>>), Array(2, Compact(1)),
    Vector(Optional(Bool)), Vector(Vector(Bool)), Extensible(Pointer(Bool)),
    SetOf(UInt(1)), MapOf(UInt(1), BigCompact(6)), BitVec,
    Product(<<AsCompact(BigCompact(6)), BoostVariant(<<Bool, Pointer(Bool)>>)>>),
    Variant(<<Bool>>), Variant(<<Bool, Product(<<Bool, Pointer(Bool)>>)>>), Product(<< >>) }

MCTypes == WithComponents(Requested)

\* A variant that is valueless by exception, whose index() is variant_npos.
Valueless == [type |-> Variant(<<Bool>>), object |-> Leaf(Base - 1)]

MCCalls ==
  UNION {{[type |-> t, object |-> tree] :
            tree \in Trees(t, IF t.of = << >> THEN Integers8 ELSE {0, 6, 32768}, 2, 4)} :
         t \in Requested} \union {Valueless}

MCInit == Init /\ request = Valueless /\ mark = 0

MCCall(c) == Call(c) /\ request' = c /\ mark' = bytes_written

MCNext ==
  \/ Operator /\ UNCHANGED <<request, mark>>
  \/ \E c \in Calls : MCCall(c)

MCSpec == MCInit /\ [][MCNext]_mcvars /\ WF_mcvars(Operator /\ UNCHANGED <<request, mark>>)

-----------------------------------------------------------------------------

\* Whatever was encoded before, and whether or not that failed, a call puts
\* exactly the SCALE encoding of its object (for one that raises, the part in
\* front of the offending pointer or integer) and reports its error.  The
\* operator<< overloads are recursive and share one buffer; nothing resets it
\* after an exception.
CallPutsEncoding ==
  pending = << >> =>
    LET encoding == Encoding(request.type, request.object, << >>)
    IN  /\ outcome = encoding.error
        /\ bytes_written = mark + Len(encoding.bytes)
        /\ drop_data \/ SubSeq(stream, mark + 1, Len(stream)) = encoding.bytes

\* A stream made with drop_data = true does, step by step, what one that
\* keeps the bytes does: the same size and the same errors.
Counter == INSTANCE ScaleEncoderStream WITH drop_data <- TRUE, stream <- << >>
CountingAgrees == Counter!Spec

\* Every call returns or raises.
CallsEnd == (pending # << >>) ~> (pending = << >>)
=============================================================================
