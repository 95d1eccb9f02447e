--------------------------- MODULE ChangeControl ----------------------------
(***************************************************************************)
(* What svn_curses promises about the commands that change the working     *)
(* copy: svn add and svn rm get the items that are marked when the user    *)
(* asks for the command, they run only after the user has agreed, and the  *)
(* marks are gone afterwards, so that no command repeats an earlier one    *)
(* without new marks.  svn up takes no items and needs agreement too.      *)
(***************************************************************************)
CONSTANTS
  Item,   \* what can be marked: records with a field line
  Words   \* the arguments that the line of an item stands for

VARIABLES
  marked,   \* items marked by the user
  request,  \* the command the user is asked about, or has agreed to
  agreed,   \* the user has answered that question with 'y'
  sent      \* the command svn has run, until its handler returns

vars == <<marked, request, agreed, sent>>

NoRequest == [op |-> "none", targets |-> {}]
NoCommand == [op |-> "none", keep |-> FALSE, targets |-> {}]

targets(its) == UNION {Words[item.line] : item \in its}

Init ==
  /\ marked = {}
  /\ request = NoRequest
  /\ agreed = FALSE
  /\ sent = NoCommand

Idle == request = NoRequest /\ sent = NoCommand

\* One item is marked, or one mark is taken away.
ToggleMark ==
  /\ Idle
  /\ LET changed == (marked \ marked') \cup (marked' \ marked)
     IN  \E item \in changed : changed = {item} /\ item \in Item
  /\ UNCHANGED <<request, agreed, sent>>

\* All marks are taken away.
ClearMarks ==
  /\ request = NoRequest
  /\ marked' = {}
  /\ UNCHANGED <<request, agreed, sent>>

Propose(op) ==
  /\ Idle
  /\ request' = [op |-> op,
                 targets |-> IF op = "u" THEN {} ELSE targets(marked)]
  /\ agreed' = FALSE
  /\ UNCHANGED <<marked, sent>>

Grant ==
  /\ request # NoRequest
  /\ agreed' = TRUE
  /\ UNCHANGED <<marked, request, sent>>

\* The user refuses or does not answer, or the program ends.
Withdraw ==
  /\ request # NoRequest
  /\ request' = NoRequest
  /\ marked' \in {marked, {}}
  /\ UNCHANGED <<agreed, sent>>

\* svn runs what was agreed to, on the items that are still marked.
Send(keep) ==
  /\ request # NoRequest
  /\ agreed
  /\ request.op # "u" => request.targets = targets(marked)
  /\ keep => request.op = "r"
  /\ sent' = [op |-> request.op, keep |-> keep, targets |-> request.targets]
  /\ request' = NoRequest
  /\ marked' = IF request.op = "u" THEN marked ELSE {}
  /\ UNCHANGED agreed

\* The handler of the command returns; no mark outlives it.
Close ==
  /\ sent # NoCommand
  /\ sent' = NoCommand
  /\ agreed' = FALSE
  /\ marked = {}
  /\ UNCHANGED <<marked, request>>

Next ==
  \/ ToggleMark \/ ClearMarks \/ Grant \/ Withdraw \/ Close
  \/ \E op \in {"a", "r", "u"} : Propose(op)
  \/ \E keep \in BOOLEAN : Send(keep)

Spec == Init /\ [][Next]_vars
=============================================================================
