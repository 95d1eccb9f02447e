---------------------------- MODULE MCTypeAhead -----------------------------
(***************************************************************************)
(* TypeAhead with up to two keys waiting and listings of one entry or none. *)
(***************************************************************************)
EXTENDS TypeAhead

CONSTANTS a, blank

MCLine == {a, blank}
MCLineSize == [l \in MCLine |-> IF l = blank THEN 0 ELSE 9]
MCWords == [l \in MCLine |-> IF l = blank THEN {} ELSE {l}]
MCOutputs == {<<>>, <<a>>}
MCKeys == MainKeys \cup {"y"}
=============================================================================
