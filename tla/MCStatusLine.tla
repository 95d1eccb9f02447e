---------------------------- MODULE MCStatusLine ----------------------------
(***************************************************************************)
(* StatusLine on a terminal of 12 columns: paths of one to four characters *)
(* that share parts, one of them with a blank and one that reaches the     *)
(* last column, listings with up to four entries and with a repetition.    *)
(***************************************************************************)
EXTENDS StatusLine

MCChar == {"a", "b", " ", "?"}
a == <<"a">>
ab == <<"a", "b">>
spaced == <<"a", " ", "b">>
wide == <<"b", "a", "a", "b">>
MCPaths == {a, ab, spaced, wide}
MCListings == {<<a, ab, wide>>, <<a, ab, spaced, wide>>, <<ab, a, ab>>, <<wide>>}
=============================================================================
