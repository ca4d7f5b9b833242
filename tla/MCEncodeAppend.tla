--------------------------- MODULE MCEncodeAppend ---------------------------
(***************************************************************************)
(* An instance of EncodeAppend for TLC, with bytes of 3 bits: a header     *)
(* grows at 2 and at 16 values, and the big mode begins at 1024.           *)
(***************************************************************************)
EXTENDS EncodeAppend

\* Values of no, one and two bytes.
MCInputs == {<< >>, <<5>>, <<1, 6>>}

\* Around every number at which a header grows.
MCCounts == 0..3 \union 13..18 \union 1019..1022

\* The headers of 0, 1, 13, 15 and 1019 values.
Header0 == <<0>>
Header1 == <<4>>
Header13 == <<5, 6>>
Header15 == <<5, 7>>
Header1019 == <<6, 5, 7, 7>>

\* No bytes, the empty vector, vectors short of each limit, one whose header
\* is cut, one whose header is redundant, and one whose number is no uint32_t.
MCVectors ==
  { << >>, Header0, Header1 \o <<7>>, Header13, Header15 \o <<2, 3>>,
    Header1019 \o <<4>>, <<1>>, <<1, 0>>, <<7, 1, 1, 1, 1, 1>> }
=============================================================================
