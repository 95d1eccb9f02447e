----------------------------- MODULE MCViewport -----------------------------
(***************************************************************************)
(* Viewport on a terminal of three lines more than the message window.     *)
(* The lists are long enough for 'G' to scroll (size > maxY + 1) and cover *)
(* every case below that.                                                  *)
(***************************************************************************)
EXTENDS Viewport

CONSTANT MaxSize   \* bound: longest listing

MCSizes == 1..MaxSize
=============================================================================
