---------------------------- MODULE MCSvnCurses -----------------------------
(***************************************************************************)
(* SvnCurses on a terminal of three lines with a message window of one.    *)
(***************************************************************************)
EXTENDS SvnCurses

CONSTANTS a, b, note, long, stray, blank

\* note is a text that is printed more than once; long does not fit in maxX;
\* stray is printed by no listing.
MCLine == {a, b, note, long, stray, blank}
MCLineSize == [l \in MCLine |-> CASE l = blank -> 0
                                  [] l = long -> 12
                                  [] l = b -> 10
                                  [] OTHER -> 9]
MCWords == [l \in MCLine |-> IF l = blank THEN {} ELSE {l}]
MCStrayItem == {[line |-> stray, size |-> 9]}
MCOutputs == {<<>>, <<a, b>>, <<long, a, b>>, <<note, a, note>>,
              <<a, note, note, b, note>>}
=============================================================================
