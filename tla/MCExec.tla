------------------------------- MODULE MCExec -------------------------------
(***************************************************************************)
(* Exec with a buffer of 4 characters, a pipe of 2 and every output of up  *)
(* to 5 characters: lines shorter than, as long as and longer than what    *)
(* one fgets returns, empty lines, and a last line with and without end.   *)
(***************************************************************************)
EXTENDS Exec

CONSTANT x, y

MCChar == {Newline, x, y}
MCOutputs == UNION {[1..n -> Char] : n \in 0..5}
=============================================================================
