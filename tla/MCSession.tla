----------------------------- MODULE MCSession ------------------------------
(***************************************************************************)
(* Session with two paths on a terminal of three lines, and one change by  *)
(* another program.                                                        *)
(***************************************************************************)
EXTENDS Session

CONSTANTS p, q, blank

MCNames == <<p, q>>
MCBlank == [path |-> blank, status |-> " "]
MCEntry == [path : {p, q}, status : {"?", "A", "D", "M", "R", "!"}]
MCLine == MCEntry \cup {MCBlank}
MCLineSize == [l \in MCLine |-> CASE l.path = p -> 9 [] l.path = q -> 10
                                   [] OTHER -> 0]
MCWords == [l \in MCLine |-> {l.path} \ {blank}]

\* The name of p is a beginning of the name of q.
MCTorn == [l \in MCLine |->
             IF l.path = q THEN {[l EXCEPT !.path = p]} ELSE {}]

MCOutputs ==
  {<<>>} \cup {<<l>> : l \in MCEntry}
  \cup {<<k, l>> : k \in {e \in MCEntry : e.path = p}, l \in MCEntry}

\* Two states that differ in nothing else are taken for one: no guard and no
\* property of the run reads the other variables (what is on the screen, the
\* copy of the list, the modes, the value of the timeout).
MCView == <<pc, handler, statusItems, selectedItems, view, delay >= 0, undefined,
            wc, walk, others>>
=============================================================================
