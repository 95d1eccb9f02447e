---------------------------- MODULE HandlerProofs ----------------------------
(***************************************************************************)
(* Proofs about the handlers of SvnCurses: what the message window shows   *)
(* while they wait, and that they implement ChangeControl.                 *)
(***************************************************************************)
EXTENDS SvnCursesProofs

-----------------------------------------------------------------------------
(***************************************************************************)
(* The inductive invariant: what the locals of keyEvent hold in each wait, *)
(* and what the message window shows.                                      *)
(***************************************************************************)
\* 'y' was answered and the command has run, as far as the wait says.
Answered ==
  /\ pc \in {"boot", "key", "g", "ask"} => ~handler.agreed /\ ~handler.ran
  /\ pc \in {"keep", "run"} => handler.agreed /\ ~handler.ran
  /\ pc = "show" => handler.agreed /\ handler.ran
  /\ pc = "st" => (handler.agreed <=> handler.ran)

Pending == pc \in {"ask", "keep", "run"}

\* The copy of the selection that 'a' and 'r' took is still the selection.
Asked ==
  /\ Pending \/ handler.ran => handler.op \in {"a", "r", "u"}
  /\ pc = "keep" => handler.op = "r"
  /\ Pending /\ handler.op # "u" => handler.items = selectedItems
  /\ handler.keepLocal => handler.op = "r"

\* A question that was answered stays in the window only if 'a' asked it,
\* until "svn st" returns.
Window ==
  /\ Busy \notin win
  /\ pc = "ask" => win \cap Questions = {Question[handler.op]}
  /\ pc = "keep" => win \cap Questions = {KeepQuestion}
  /\ pc \in {"boot", "key", "g", "run", "show"} => win \cap Questions = {}
  /\ pc = "st" /\ handler.op # "a" => win \cap Questions = {}

HandlerInv == Answered /\ Asked /\ Window

-----------------------------------------------------------------------------
(***************************************************************************)
(* What the actions do to the locals of keyEvent and to the window.        *)
(***************************************************************************)
\* refreshStatusItems writes its busy mark outside the window.
LEMMA BusyOutside ==
  ASSUME NEW w, V!rows > 0
  PROVE  mvwprintw(w, maxY - 1, Busy) = w
BY SvnCursesAssumption DEF mvwprintw, V!rows

\* Questions are asked on the last line of the window.
LEMMA QuestionInside ==
  ASSUME NEW w, NEW text
  PROVE  mvwprintw(w, questionLine, text) = w \cup {text}
BY SvnCursesAssumption DEF mvwprintw, questionLine

\* The texts of the window differ.
LEMMA Texts ==
  /\ \A key \in {"a", "r", "u"} : /\ Question[key] \in Questions
                                  /\ Question[key] # Busy
  /\ KeepQuestion \in Questions /\ KeepQuestion # Busy /\ Busy \notin Questions
  /\ {"output of svn up", "HIDDEN = true", "HIDDEN = false"} \cap Questions = {}
BY DEF Question, Questions, KeepQuestion, Busy

\* A key that asks a question.
LEMMA AskFacts ==
  ASSUME NEW key \in {"a", "r", "u"}, NEW its \in SUBSET Item, NEW w, NEW ms,
         ask(key, its, w, ms)
  PROVE  /\ pc = "key" /\ pc' = "ask"
         /\ handler'.op = key /\ handler'.items = its /\ ~handler'.keepLocal
         /\ ~handler'.agreed /\ ~handler'.ran
         /\ win' = w \cup {Question[key]} /\ selectedItems' = selectedItems
<1>1. [NoHandler EXCEPT !.op = key, !.items = its]
        \in [op : {key}, items : {its}, keepLocal : {FALSE}, agreed : {FALSE},
             ran : {FALSE}]
  BY DEF NoHandler
<1>2. handler' = [NoHandler EXCEPT !.op = key, !.items = its]
  BY DEF ask
<1>3. win' = w \cup {Question[key]}
  BY QuestionInside DEF ask
<1>4. pc = "key" /\ pc' = "ask" /\ selectedItems' = selectedItems
  BY DEF ask
<1> QED BY <1>1, <1>2, <1>3, <1>4

\* 's' has nothing to ask.
LEMMA StatusFacts ==
  ASSUME KeyStatus, V!rows > 0
  PROVE  /\ pc = "key" /\ pc' = "st" /\ selectedItems' = {} /\ win' = win
         /\ handler'.op = "s" /\ ~handler'.keepLocal
         /\ ~handler'.agreed /\ ~handler'.ran
<1>1. [NoHandler EXCEPT !.op = "s"]
        \in [op : {"s"}, items : {{}}, keepLocal : {FALSE}, agreed : {FALSE},
             ran : {FALSE}]
  BY DEF NoHandler
<1>2. handler' = [NoHandler EXCEPT !.op = "s"]
  BY DEF KeyStatus
<1> QED BY <1>1, <1>2, BusyOutside DEF KeyStatus, refreshStatusItems

\* 'y' to the first question.
LEMMA YesFacts ==
  ASSUME TypeOK, AnswerYes
  PROVE  /\ pc = "ask" /\ selectedItems' = selectedItems
         /\ handler'.op = handler.op /\ handler'.items = handler.items
         /\ handler'.keepLocal = handler.keepLocal
         /\ handler'.agreed = TRUE /\ handler'.ran = handler.ran
         /\ \/ handler.op = "r" /\ pc' = "keep" /\ win' = {KeepQuestion}
            \/ handler.op # "r" /\ pc' = "run" /\ win' = {}
<1>1. handler \in Handler /\ handler' = [handler EXCEPT !.agreed = TRUE]
  BY DEF AnswerYes, TypeOK
<1>2. \/ handler.op = "r" /\ pc' = "keep" /\ win' = {KeepQuestion}
      \/ handler.op # "r" /\ pc' = "run" /\ win' = {}
  BY QuestionInside DEF AnswerYes, wclear
<1> QED BY <1>1, <1>2 DEF AnswerYes, Handler

\* An answer to the second.
LEMMA KeepFacts ==
  ASSUME TypeOK, NEW keep \in BOOLEAN, AnswerKeep(keep)
  PROVE  /\ pc = "keep" /\ pc' = "run" /\ selectedItems' = selectedItems
         /\ handler'.op = handler.op /\ handler'.items = handler.items
         /\ handler'.agreed = handler.agreed /\ handler'.ran = handler.ran
         /\ win' = {}
BY DEF AnswerKeep, wclear, TypeOK, Handler

\* What 'a' and 'r' do after svn, and after a refusal.
LEMMA AgainFacts ==
  ASSUME V!rows > 0, listAgain
  PROVE  /\ handler.op \in {"a", "r"} /\ pc' = "st" /\ selectedItems' = {}
         /\ win' = IF handler.op = "r" THEN {} ELSE win
BY BusyOutside DEF listAgain, refreshStatusItems

LEMMA RefuseFacts ==
  ASSUME V!rows > 0, Refuse
  PROVE  /\ pc = "ask"
         /\ \/ /\ handler.op \in {"a", "r"} /\ pc' = "st" /\ selectedItems' = {}
               /\ win' = (IF handler.op = "r" THEN {} ELSE win)
               /\ handler' = handler
            \/ /\ handler.op = "u" /\ pc' = "key" /\ selectedItems' = selectedItems
               /\ win' = {} /\ handler' = NoHandler
BY AgainFacts DEF Refuse, wclear

LEMMA RunFacts ==
  ASSUME TypeOK, V!rows > 0, RunDone
  PROVE  /\ pc = "run"
         /\ handler'.op = handler.op /\ handler'.items = handler.items
         /\ handler'.keepLocal = handler.keepLocal
         /\ handler'.agreed = handler.agreed /\ handler'.ran = TRUE
         /\ \/ /\ handler.op \in {"a", "r"} /\ pc' = "st" /\ selectedItems' = {}
               /\ win' = (IF handler.op = "r" THEN {} ELSE win)
            \/ /\ handler.op = "u" /\ pc' = "show"
               /\ selectedItems' = selectedItems
               /\ win' = {"output of svn up"}
<1>1. handler \in Handler /\ handler' = [handler EXCEPT !.ran = TRUE]
  BY DEF RunDone, TypeOK
<1>2. /\ pc = "run"
      /\ \/ listAgain
         \/ /\ handler.op = "u" /\ pc' = "show" /\ selectedItems' = selectedItems
            /\ win' = {"output of svn up"}
  BY DEF RunDone
<1> QED BY <1>1, <1>2, AgainFacts DEF Handler

\* The end of a handler: "svn st" has returned.
LEMMA ShowFacts ==
  ASSUME TypeInv, NEW list \in Seq(Item), showListing(list)
  PROVE  /\ pc' \in {"key", "failed"} /\ handler' = NoHandler
         /\ selectedItems' = selectedItems
         /\ win' = IF pc' = "key" /\ handler.op = "a" THEN {} ELSE win \ {Busy}
<1>1. TypeOK /\ padPos \in Nat
  BY DEF TypeInv, TypeOK
<1>2. printAllStatus(list, selectedItems, cursorPosition, padPos)
  BY DEF showListing
<1>3. pc' \in {"key", "failed"}
  BY <1>1, <1>2, PrintFacts
<1> QED BY <1>3 DEF showListing

\* A movement, and the printing after it.
LEMMA MovePrintFacts ==
  ASSUME TypeInv, TypeInv', NEW movement, NEW sel, moveAndPrint(movement, sel)
  PROVE  /\ pc' \in {"key", "failed"} /\ handler' = handler
         /\ selectedItems' = sel /\ win' = win
<1>1. TypeOK /\ statusItems \in Seq(Item) /\ padPos' \in Nat
  BY DEF TypeInv, TypeOK
<1>2. printAllStatus(statusItems, sel, cursorPosition', padPos')
  BY DEF moveAndPrint
<1>3. pc' \in {"key", "failed"}
  BY <1>1, <1>2, PrintFacts
<1> QED BY <1>3 DEF moveAndPrint

-----------------------------------------------------------------------------
\* What remains of the handler when it has returned.
LEMMA NoHandlerFacts ==
  /\ NoHandler.op = "none" /\ ~NoHandler.keepLocal
  /\ ~NoHandler.agreed /\ ~NoHandler.ran
BY DEF NoHandler

LEMMA HandlerInit == Init => HandlerInv
BY NoHandlerFacts
   DEF Init, HandlerInv, Answered, Asked, Pending, Window

\* A step between two keys of the main loop, or one that ends the program.
LEMMA LoopHandler ==
  ASSUME HandlerInv, handler' = handler, win' = win,
         \/ pc \in {"key", "g"} /\ pc' \in {"key", "g"}
         \/ pc' \in Ended
  PROVE  HandlerInv'
<1>1. Answered'
  BY DEF HandlerInv, Answered, Ended
<1>2. Asked'
  BY DEF HandlerInv, Asked, Pending, Ended
<1>3. Window'
  BY DEF HandlerInv, Window, Ended
<1> QED BY <1>1, <1>2, <1>3 DEF HandlerInv

\* A listing ends the handler.
LEMMA ShowHandler ==
  ASSUME TypeInv, HandlerInv, pc = "st", NEW list \in Seq(Item), showListing(list)
  PROVE  HandlerInv'
<1>1. /\ pc' \in {"key", "failed"} /\ handler' = NoHandler
      /\ win' = IF pc' = "key" /\ handler.op = "a" THEN {} ELSE win \ {Busy}
  BY ShowFacts
<1>2. Answered' /\ Asked'
  BY <1>1, NoHandlerFacts DEF Answered, Asked, Pending
<1>3. Window'
  BY <1>1 DEF HandlerInv, Window
<1> QED BY <1>2, <1>3 DEF HandlerInv

LEMMA HandlerStep ==
  TypeInv /\ TypeInv' /\ SafeInv /\ HandlerInv /\ [Next]_vars => HandlerInv'
<1> SUFFICES ASSUME TypeInv, TypeInv', SafeInv, HandlerInv, [Next]_vars
             PROVE  HandlerInv'
  OBVIOUS
<1>0. TypeOK /\ Answered /\ Asked /\ Window
  BY DEF TypeInv, HandlerInv
<1>rows. pc \in {"key", "ask", "run", "show"} => V!rows > 0
  BY DEF SafeInv, PadUnderCursor, Waiting
<1>stutter. CASE UNCHANGED vars
  BY <1>stutter DEF vars, HandlerInv, Answered, Asked, Pending, Window
<1>boot. CASE Boot
  <2>1. CASE V!rows > 0
    <3>1. pc = "boot" /\ pc' = "st" /\ handler' = handler /\ win' = {}
      BY <1>boot, <2>1, BusyOutside DEF Boot, refreshStatusItems
    <3> QED BY <1>0, <3>1 DEF HandlerInv, Answered, Asked, Pending, Window
  <2>2. CASE ~(V!rows > 0)
    <3>1. pc' = "nopad" /\ handler' = handler /\ win' = win
      BY <1>boot, <2>2 DEF Boot
    <3> QED BY <3>1, LoopHandler DEF Ended
  <2> QED BY <2>1, <2>2
<1>listing. ASSUME NEW out \in Outputs, ListingDone(out) PROVE HandlerInv'
  <2> DEFINE list == [i \in 1..Len(out) |-> fresh(out[i])]
  <2>1. out \in Seq(Line) /\ pc = "st" /\ showListing(list)
    BY <1>listing, SvnCursesAssumption DEF ListingDone
  <2>2. list \in Seq(Item)
    BY <2>1, FreshFacts
  <2> QED BY <2>1, <2>2, ShowHandler
<1>empty. CASE EmptyListing
  <2>1. CASE showListing(<<fresh(Blank)>>)
    <3>1. fresh(Blank) \in Item
      BY SvnCursesAssumption DEF fresh, Item
    <3>2. <<fresh(Blank)>> \in Seq(Item) /\ pc = "st"
      BY <1>empty, <3>1 DEF EmptyListing
    <3> QED BY <2>1, <3>2, ShowHandler
  <2>2. CASE pc' = "killed" /\ UNCHANGED <<handler, win>>
    BY <2>2, LoopHandler DEF Ended
  <2> QED BY <1>empty, <2>1, <2>2 DEF EmptyListing
<1>end. CASE PopenFails \/ KeyQuit
  BY <1>end, LoopHandler DEF PopenFails, KeyQuit, Ended
<1>move. ASSUME NEW movement, NEW sel, moveAndPrint(movement, sel),
                pc \in {"key", "g"}
         PROVE  HandlerInv'
  <2>1. pc' \in {"key", "failed"} /\ handler' = handler /\ win' = win
    BY <1>move, MovePrintFacts
  <2> QED BY <1>move, <2>1, LoopHandler DEF Ended
<1>loop. CASE KeyMove \/ SecondG \/ KeySpace
  BY <1>loop, <1>move DEF KeyMove, SecondG, KeySpace
<1>stray. CASE KeySpaceStray
  <2>1. CASE pc' \in {"killed", "failed"} /\ UNCHANGED <<handler, win>>
    BY <2>1, LoopHandler DEF Ended
  <2> QED BY <1>stray, <1>move, <2>1 DEF KeySpaceStray
<1>g. CASE KeyG \/ SwallowKey
  BY <1>g, LoopHandler DEF KeyG, SwallowKey, goto
<1>hidden. CASE KeyHidden
  <2>1. /\ pc = "key" /\ pc' = pc /\ handler' = handler
        /\ win' \in {{"HIDDEN = true"}, {"HIDDEN = false"}}
    BY <1>hidden DEF KeyHidden
  <2>2. Window'
    BY <2>1, Texts DEF Window, Busy
  <2> QED BY <1>0, <2>1, <2>2 DEF HandlerInv, Answered, Asked, Pending
<1>status. CASE KeyStatus
  <2>1. V!rows > 0
    BY <1>rows, <1>status DEF KeyStatus
  <2> QED BY <1>0, <1>status, <2>1, StatusFacts
          DEF HandlerInv, Answered, Asked, Pending, Window
<1>ask. ASSUME NEW key \in {"a", "r", "u"}, NEW its \in SUBSET Item, NEW w, NEW ms,
               ask(key, its, w, ms), key # "u" => its = selectedItems,
               w \cap Questions = {}, Busy \notin w
        PROVE  HandlerInv'
  <2>1. /\ pc = "key" /\ pc' = "ask"
        /\ handler'.op = key /\ handler'.items = its /\ ~handler'.keepLocal
        /\ ~handler'.agreed /\ ~handler'.ran
        /\ win' = w \cup {Question[key]} /\ selectedItems' = selectedItems
    BY <1>ask, AskFacts
  <2>2. Window'
    BY <1>ask, <2>1, Texts DEF Window
  <2> QED BY <1>ask, <2>1, <2>2 DEF HandlerInv, Answered, Asked, Pending
<1>askaru. CASE KeyAdd \/ KeyRemove \/ KeyUpdate
  <2>1. selectedItems \in SUBSET Item /\ {} \in SUBSET Item
    BY <1>0 DEF TypeOK
  <2>2. pc = "key" => win \cap Questions = {} /\ Busy \notin win
    BY <1>0 DEF Window
  <2>3. pc = "key"
    BY <1>askaru DEF KeyAdd, KeyRemove, KeyUpdate, ask
  <2> QED BY <1>ask, <1>askaru, <2>1, <2>2, <2>3 DEF KeyAdd, KeyRemove, KeyUpdate
<1>yes. CASE AnswerYes
  <2>1. Window'
    BY <1>0, <1>yes, YesFacts, Texts DEF Window
  <2>2. Answered' /\ Asked'
    BY <1>0, <1>yes, YesFacts DEF Answered, Asked, Pending
  <2> QED BY <2>1, <2>2 DEF HandlerInv
<1>keep. ASSUME NEW keep \in BOOLEAN, AnswerKeep(keep) PROVE HandlerInv'
  <2>1. Window'
    BY <1>0, <1>keep, KeepFacts DEF Window
  <2>2. Answered' /\ Asked'
    BY <1>0, <1>keep, KeepFacts DEF Answered, Asked, Pending
  <2> QED BY <2>1, <2>2 DEF HandlerInv
<1>refuse. CASE Refuse
  <2>1. V!rows > 0
    BY <1>rows, <1>refuse DEF Refuse
  <2>2. Window'
    BY <1>0, <1>refuse, <2>1, RefuseFacts, NoHandlerFacts DEF Window
  <2>3. Answered' /\ Asked'
    BY <1>0, <1>refuse, <2>1, RefuseFacts, NoHandlerFacts
       DEF Answered, Asked, Pending
  <2> QED BY <2>2, <2>3 DEF HandlerInv
<1>run. CASE RunDone
  <2>1. V!rows > 0
    BY <1>rows, <1>run DEF RunDone
  <2>2. Window'
    BY <1>0, <1>run, <2>1, RunFacts, Texts DEF Window, Busy
  <2>3. Answered' /\ Asked'
    BY <1>0, <1>run, <2>1, RunFacts DEF Answered, Asked, Pending
  <2> QED BY <2>2, <2>3 DEF HandlerInv
<1>leave. CASE LeaveOutput
  <2>1. pc = "show" /\ pc' = "st" /\ handler' = handler /\ win' = win
    BY <1>leave, <1>rows, BusyOutside DEF LeaveOutput, refreshStatusItems
  <2> QED BY <1>0, <2>1 DEF HandlerInv, Answered, Asked, Pending, Window
<1> QED
  BY <1>stutter, <1>boot, <1>listing, <1>empty, <1>end, <1>loop, <1>stray, <1>g,
     <1>hidden, <1>status, <1>askaru, <1>yes, <1>keep, <1>refuse, <1>run,
     <1>leave, NextActions DEF Terminated

LEMMA HandlerInvariance == Spec => [](TypeInv /\ SafeInv /\ HandlerInv)
BY HandlerInit, HandlerStep, Invariance, PTL DEF Spec

(***************************************************************************)
(* For every terminal the message window asks the question that keyEvent   *)
(* waits for and no other, and never shows the busy mark.                  *)
(***************************************************************************)
THEOREM WindowAsksQuestion == Spec => []MessageWindow
<1>1. HandlerInv => MessageWindow
  <2> SUFFICES ASSUME HandlerInv, pc \in Browsing PROVE MessageWindow
    BY DEF HandlerInv, Window, MessageWindow
  <2>1. CASE pc = "ask"
    BY <2>1, Zenon DEF HandlerInv, Window, MessageWindow
  <2>2. CASE pc = "keep"
    BY <2>2 DEF HandlerInv, Window, MessageWindow
  <2>3. CASE pc # "ask" /\ pc # "keep"
    BY <2>3 DEF HandlerInv, Window, MessageWindow, Browsing, Waiting
  <2> QED BY <2>1, <2>2, <2>3
<1> QED BY <1>1, HandlerInvariance, PTL

-----------------------------------------------------------------------------
(***************************************************************************)
(* Refinement of ChangeControl.                                            *)
(***************************************************************************)
\* The command that is pending, and the one that has run, by the handler.
LEMMA RequestFacts ==
  /\ ~Pending => request = CC!NoRequest
  /\ Pending => /\ request = [op |-> handler.op, targets |-> arguments]
                /\ request.op = handler.op /\ request.targets = arguments
  /\ ~handler.ran => sent = CC!NoCommand
  /\ handler.ran =>
       /\ sent = [op |-> handler.op, keep |-> handler.keepLocal,
                  targets |-> arguments]
       /\ sent.op = handler.op
  /\ CC!NoRequest.op = "none" /\ CC!NoCommand.op = "none"
BY DEF Pending, request, sent, CC!NoRequest, CC!NoCommand

\* Both modules mean the same by the targets of some items.
LEMMA SameTargets == \A its : targets(its) = CC!targets(its)
BY DEF targets, CC!targets

\* A step that ChangeControl does not see.
LEMMA Unseen ==
  ASSUME selectedItems' = selectedItems, handler'.agreed = handler.agreed,
         request' = request, sent' = sent
  PROVE  UNCHANGED CC!vars
BY DEF CC!vars

\* ' ' changes one mark.
LEMMA ToggleRefines ==
  ASSUME TypeInv, TypeInv', HandlerInv, pc = "key", NEW movement,
         NEW item \in Item, moveAndPrint(movement, toggled(selectedItems, item))
  PROVE  CC!ToggleMark
<1>1. /\ pc' \in {"key", "failed"} /\ handler' = handler
      /\ selectedItems' = toggled(selectedItems, item)
  BY MovePrintFacts
<1>2. ~handler.ran /\ ~handler'.ran /\ ~Pending /\ ~Pending'
  BY <1>1 DEF HandlerInv, Answered, Pending
<1>3. request = CC!NoRequest /\ sent = CC!NoCommand
  BY <1>2, RequestFacts
<1>4. request' = CC!NoRequest /\ sent' = CC!NoCommand
  BY <1>2 DEF Pending, request, sent, CC!NoRequest, CC!NoCommand
<1>5. (selectedItems \ selectedItems') \cup (selectedItems' \ selectedItems)
        = {item}
  BY <1>1 DEF toggled
<1> QED BY <1>1, <1>3, <1>4, <1>5 DEF CC!ToggleMark, CC!Idle

\* The program waits for nothing but a key, before and after.
LEMMA IdleFacts ==
  /\ ~Pending /\ ~handler.ran => request = CC!NoRequest /\ sent = CC!NoCommand
  /\ ~Pending' /\ ~handler'.ran => request' = CC!NoRequest /\ sent' = CC!NoCommand
BY DEF Pending, request, sent, CC!NoRequest, CC!NoCommand

\* A listing closes the command, if one has run.
LEMMA ShowRefines ==
  ASSUME TypeInv, SafeInv, HandlerInv, pc = "st", NEW list \in Seq(Item),
         showListing(list)
  PROVE  CC!Close \/ UNCHANGED CC!vars
<1>1. /\ pc' \in {"key", "failed"} /\ handler' = NoHandler
      /\ selectedItems' = selectedItems
  BY ShowFacts
<1>2. ~Pending /\ ~Pending' /\ ~handler'.ran /\ handler'.agreed = FALSE
  BY <1>1, NoHandlerFacts DEF Pending, NoHandler
<1>3. request = CC!NoRequest /\ request' = CC!NoRequest /\ sent' = CC!NoCommand
  BY <1>2, IdleFacts, RequestFacts
<1>4. CASE handler.ran
  <2>1. sent # CC!NoCommand
    BY <1>4, RequestFacts DEF HandlerInv, Asked
  <2>2. selectedItems = {}
    BY DEF SafeInv, SelectionPadded
  <2> QED BY <1>1, <1>2, <1>3, <2>1, <2>2 DEF CC!Close
<1>5. CASE ~handler.ran
  <2>1. handler.agreed = FALSE
    BY <1>5 DEF HandlerInv, Answered, TypeInv, TypeOK, Handler
  <2>2. sent = CC!NoCommand
    BY <1>5, RequestFacts
  <2> QED BY <1>1, <1>2, <1>3, <2>1, <2>2, Unseen
<1> QED BY <1>4, <1>5

\* A key that asks proposes the command.
LEMMA AskRefines ==
  ASSUME TypeInv, HandlerInv, NEW key \in {"a", "r", "u"}, NEW its \in SUBSET Item,
         NEW w, NEW ms, ask(key, its, w, ms), key # "u" => its = selectedItems
  PROVE  CC!Propose(key)
<1>1. /\ pc = "key" /\ pc' = "ask"
      /\ handler'.op = key /\ handler'.items = its
      /\ ~handler'.agreed /\ ~handler'.ran /\ selectedItems' = selectedItems
  BY AskFacts
<1>2. ~Pending /\ ~handler.ran /\ request = CC!NoRequest /\ sent = CC!NoCommand
  BY <1>1, IdleFacts DEF HandlerInv, Answered, Pending
<1>3. sent' = CC!NoCommand
  BY <1>1 DEF sent, CC!NoCommand
<1>4. arguments' = IF key = "u" THEN {} ELSE CC!targets(selectedItems)
  BY <1>1 DEF arguments, targets, CC!targets
<1>5. request' = [op |-> key, targets |-> arguments']
  BY <1>1 DEF request
<1>6. handler' \in Handler
  BY HandlerFacts DEF ask, Ops
<1>7. handler'.agreed = FALSE
  BY <1>1, <1>6 DEF Handler
<1> QED BY <1>1, <1>2, <1>3, <1>4, <1>5, <1>7 DEF CC!Propose, CC!Idle

\* 'y' grants it.
LEMMA YesRefines ==
  ASSUME TypeInv, HandlerInv, AnswerYes
  PROVE  CC!Grant
<1>1. /\ pc = "ask" /\ pc' \in {"keep", "run"} /\ selectedItems' = selectedItems
      /\ handler'.op = handler.op /\ handler'.items = handler.items
      /\ handler'.keepLocal = handler.keepLocal
      /\ handler'.agreed = TRUE /\ handler'.ran = handler.ran
  BY YesFacts DEF TypeInv
<1>2. arguments' = arguments
  BY <1>1 DEF arguments, targets
<1>3. request' = request /\ sent' = sent
  BY <1>1, <1>2 DEF request, sent
<1>4. request # CC!NoRequest
  BY <1>1, RequestFacts DEF HandlerInv, Asked, Pending
<1> QED BY <1>1, <1>3, <1>4 DEF CC!Grant

\* The answer to "Keep local files?" changes nothing that was agreed to.
LEMMA KeepRefines ==
  ASSUME TypeInv, HandlerInv, NEW keep \in BOOLEAN, AnswerKeep(keep)
  PROVE  UNCHANGED CC!vars
<1>1. /\ pc = "keep" /\ pc' = "run" /\ selectedItems' = selectedItems
      /\ handler'.op = handler.op /\ handler'.items = handler.items
      /\ handler'.agreed = handler.agreed /\ handler'.ran = handler.ran
  BY KeepFacts DEF TypeInv
<1>2. arguments' = arguments
  BY <1>1 DEF arguments, targets
<1>3. ~handler.ran
  BY <1>1 DEF HandlerInv, Answered
<1>4. request' = request /\ sent' = sent
  BY <1>1, <1>2, <1>3 DEF request, sent
<1> QED BY <1>1, <1>4, Unseen

\* A refusal withdraws it.
LEMMA RefuseRefines ==
  ASSUME TypeInv, HandlerInv, V!rows > 0, Refuse
  PROVE  CC!Withdraw
<1>1. /\ pc = "ask" /\ pc' \in {"st", "key"}
      /\ selectedItems' \in {selectedItems, {}}
      /\ handler' = handler \/ handler' = NoHandler
  BY RefuseFacts
<1>2. Pending /\ ~Pending' /\ ~handler.agreed /\ ~handler.ran /\ ~handler'.ran
  BY <1>1, NoHandlerFacts DEF HandlerInv, Answered, Pending
<1>3. request # CC!NoRequest
  BY <1>1, RequestFacts DEF HandlerInv, Asked, Pending
<1>4. request' = CC!NoRequest /\ sent' = CC!NoCommand /\ sent = CC!NoCommand
  BY <1>2, IdleFacts, RequestFacts
<1>5. handler'.agreed = handler.agreed
  <2>1. handler.agreed = FALSE
    BY <1>2 DEF TypeInv, TypeOK, Handler
  <2>2. NoHandler.agreed = FALSE
    BY DEF NoHandler
  <2> QED BY <1>1, <2>1, <2>2
<1> QED BY <1>1, <1>3, <1>4, <1>5 DEF CC!Withdraw

\* svn gets what was agreed to, for the items that are still selected.
LEMMA RunRefines ==
  ASSUME TypeInv, HandlerInv, V!rows > 0, RunDone
  PROVE  CC!Send(handler.keepLocal)
<1>1. /\ pc = "run" /\ pc' \in {"st", "show"}
      /\ handler'.op = handler.op /\ handler'.items = handler.items
      /\ handler'.keepLocal = handler.keepLocal
      /\ handler'.agreed = handler.agreed /\ handler'.ran = TRUE
      /\ selectedItems' = IF handler.op = "u" THEN selectedItems ELSE {}
  BY RunFacts DEF TypeInv
<1>2. Pending /\ ~Pending' /\ handler.agreed
  BY <1>1 DEF HandlerInv, Answered, Pending
<1>3. /\ handler.op \in {"a", "r", "u"} /\ (handler.keepLocal => handler.op = "r")
      /\ handler.op # "u" => handler.items = selectedItems
  BY <1>2 DEF HandlerInv, Asked
<1>4. /\ request.op = handler.op /\ request.targets = arguments
      /\ request # CC!NoRequest
  BY <1>2, <1>3, RequestFacts
<1>5. handler.op # "u" => arguments = CC!targets(selectedItems)
  BY <1>3, SameTargets DEF arguments
<1>6. arguments' = arguments
  BY <1>1 DEF arguments, targets
<1>7. sent' = [op |-> handler.op, keep |-> handler.keepLocal,
               targets |-> arguments]
  BY <1>1, <1>6 DEF sent
<1>8. request' = CC!NoRequest
  BY <1>2 DEF Pending, request, CC!NoRequest
<1> QED BY <1>1, <1>2, <1>3, <1>4, <1>5, <1>7, <1>8 DEF CC!Send

\* The handler is left alone and no command is pending before or after.
LEMMA QuietRefines ==
  ASSUME handler' = handler, ~Pending, ~Pending'
  PROVE  /\ selectedItems' = selectedItems => UNCHANGED CC!vars
         /\ selectedItems' = {} => CC!ClearMarks
<1>1. request = CC!NoRequest /\ request' = CC!NoRequest
  BY DEF Pending, request, CC!NoRequest
<1>2. arguments' = arguments
  BY DEF arguments, targets
<1>3. sent' = sent
  BY <1>2 DEF sent
<1> QED BY <1>1, <1>3 DEF CC!vars, CC!ClearMarks

LEMMA ControlStep ==
  TypeInv /\ TypeInv' /\ SafeInv /\ HandlerInv /\ [Next]_vars
    => [CC!Next]_(CC!vars)
<1> SUFFICES ASSUME TypeInv, TypeInv', SafeInv, HandlerInv, [Next]_vars
             PROVE  CC!Next \/ UNCHANGED CC!vars
  OBVIOUS
<1>0. TypeOK /\ Answered /\ Asked
  BY DEF TypeInv, HandlerInv
<1>rows. pc \in {"key", "ask", "run"} => V!rows > 0
  BY DEF SafeInv, PadUnderCursor, Waiting
<1>stutter. CASE UNCHANGED vars
  BY <1>stutter DEF vars, CC!vars, request, sent, arguments, targets
<1>boot. CASE Boot
  <2>1. /\ pc = "boot" /\ pc' \in {"st", "nopad"} /\ handler' = handler
        /\ selectedItems' \in {selectedItems, {}}
    BY <1>boot DEF Boot, refreshStatusItems
  <2>2. ~Pending /\ ~Pending'
    BY <2>1 DEF Pending
  <2> QED BY <2>1, <2>2, QuietRefines DEF CC!Next
<1>listing. ASSUME NEW out \in Outputs, ListingDone(out)
            PROVE  CC!Next \/ UNCHANGED CC!vars
  <2> DEFINE list == [i \in 1..Len(out) |-> fresh(out[i])]
  <2>1. out \in Seq(Line) /\ pc = "st" /\ showListing(list)
    BY <1>listing, SvnCursesAssumption DEF ListingDone
  <2>2. list \in Seq(Item)
    BY <2>1, FreshFacts
  <2> QED BY <2>1, <2>2, ShowRefines DEF CC!Next
<1>empty. CASE EmptyListing
  <2>1. pc = "st"
    BY <1>empty DEF EmptyListing
  <2>2. CASE showListing(<<fresh(Blank)>>)
    <3>1. fresh(Blank) \in Item
      BY SvnCursesAssumption DEF fresh, Item
    <3>2. <<fresh(Blank)>> \in Seq(Item)
      BY <3>1
    <3> QED BY <2>1, <2>2, <3>2, ShowRefines DEF CC!Next
  <2>3. CASE pc' = "killed" /\ UNCHANGED <<handler, selectedItems>>
    BY <2>1, <2>3, QuietRefines DEF Pending
  <2> QED BY <1>empty, <2>2, <2>3 DEF EmptyListing
<1>popen. CASE PopenFails
  <2>1. /\ pc \in {"st", "run"} /\ pc' = "failed"
        /\ handler' = handler /\ selectedItems' = selectedItems
    BY <1>popen DEF PopenFails
  <2>2. CASE pc = "st"
    BY <2>1, <2>2, QuietRefines DEF Pending
  <2>3. CASE pc = "run"
    <3>1. request # CC!NoRequest
      BY <1>0, <2>3, RequestFacts DEF Asked, Pending
    <3>2. request' = CC!NoRequest
      BY <2>1 DEF request, CC!NoRequest
    <3>3. arguments' = arguments
      BY <2>1 DEF arguments, targets
    <3>4. sent' = sent
      BY <2>1, <3>3 DEF sent
    <3> QED BY <2>1, <3>1, <3>2, <3>4 DEF CC!Next, CC!Withdraw
  <2> QED BY <2>1, <2>2, <2>3
<1>quit. CASE KeyQuit \/ KeyG \/ SwallowKey \/ KeyHidden
  <2>1. /\ pc \in {"key", "g"} /\ pc' \in {"exited", "key", "g"}
        /\ handler' = handler /\ selectedItems' = selectedItems
    BY <1>quit DEF KeyQuit, KeyG, SwallowKey, goto, KeyHidden
  <2> QED BY <2>1, QuietRefines DEF Pending
<1>move. CASE KeyMove \/ SecondG
  <2>1. PICK movement : moveAndPrint(movement, selectedItems)
    BY <1>move DEF KeyMove, SecondG
  <2>2. /\ pc \in {"key", "g"} /\ pc' \in {"key", "failed"}
        /\ handler' = handler /\ selectedItems' = selectedItems
    BY <1>move, <2>1, MovePrintFacts DEF KeyMove, SecondG
  <2> QED BY <2>2, QuietRefines DEF Pending
<1>space. CASE KeySpace
  <2>1. At(statusItems, cursorPosition) \in Item
    BY <1>0, <1>space DEF KeySpace, TypeOK, At
  <2> QED BY <1>space, <2>1, ToggleRefines DEF KeySpace, CC!Next
<1>stray. CASE KeySpaceStray
  <2>1. pc = "key"
    BY <1>stray DEF KeySpaceStray
  <2>2. ASSUME NEW item \in StrayItem,
               moveAndPrint(V!moveOneRowDown, toggled(selectedItems, item))
        PROVE  CC!Next
    <3>1. item \in Item
      BY SvnCursesAssumption DEF Item
    <3> QED BY <2>1, <2>2, <3>1, ToggleRefines DEF CC!Next
  <2>3. CASE pc' \in {"killed", "failed"} /\ UNCHANGED <<handler, selectedItems>>
    BY <2>1, <2>3, QuietRefines DEF Pending
  <2> QED BY <1>stray, <2>2, <2>3 DEF KeySpaceStray
<1>status. CASE KeyStatus
  <2>1. V!rows > 0 /\ pc = "key"
    BY <1>rows, <1>status DEF KeyStatus
  <2>2. /\ pc' = "st" /\ selectedItems' = {}
        /\ ~handler'.agreed /\ ~handler'.ran
    BY <1>status, <2>1, StatusFacts
  <2>3. ~handler.agreed /\ ~handler.ran /\ ~Pending /\ ~Pending'
    BY <1>0, <2>1, <2>2 DEF Answered, Pending
  <2>4. UNCHANGED <<request, sent>> /\ request = CC!NoRequest
    BY <2>2, <2>3, IdleFacts
  <2>5. handler'.agreed = handler.agreed
    BY <2>2, <2>3 DEF TypeInv, TypeOK, Handler
  <2> QED BY <2>2, <2>4, <2>5 DEF CC!Next, CC!ClearMarks
<1>ask. CASE KeyAdd \/ KeyRemove \/ KeyUpdate
  <2>1. selectedItems \in SUBSET Item /\ {} \in SUBSET Item
    BY <1>0 DEF TypeOK
  <2>2. \E key \in {"a", "r", "u"} : CC!Propose(key)
    BY <1>ask, <2>1, AskRefines DEF KeyAdd, KeyRemove, KeyUpdate
  <2> QED BY <2>2 DEF CC!Next
<1>yes. CASE AnswerYes
  BY <1>yes, YesRefines DEF CC!Next
<1>keep. ASSUME NEW keep \in BOOLEAN, AnswerKeep(keep) PROVE UNCHANGED CC!vars
  BY <1>keep, KeepRefines
<1>refuse. CASE Refuse
  BY <1>refuse, <1>rows, RefuseRefines DEF Refuse, CC!Next
<1>run. CASE RunDone
  <2>1. handler.keepLocal \in BOOLEAN
    BY <1>0 DEF TypeOK, Handler
  <2>2. V!rows > 0
    BY <1>run, <1>rows DEF RunDone
  <2> QED BY <1>run, <2>1, <2>2, RunRefines DEF CC!Next
<1>leave. CASE LeaveOutput
  <2>1. pc = "show" /\ pc' = "st" /\ handler' = handler /\ selectedItems' = {}
    BY <1>leave DEF LeaveOutput, refreshStatusItems
  <2> QED BY <2>1, QuietRefines DEF Pending, CC!Next
<1> QED
  BY <1>stutter, <1>boot, <1>listing, <1>empty, <1>popen, <1>quit, <1>move,
     <1>space, <1>stray, <1>status, <1>ask, <1>yes, <1>keep, <1>refuse, <1>run,
     <1>leave, NextActions DEF Terminated

(***************************************************************************)
(* The program implements ChangeControl for every terminal and every set   *)
(* of listings: no command runs without 'y', on other items than those     *)
(* selected when its key was pressed, or twice for one selection.          *)
(***************************************************************************)
THEOREM ImplementsChangeControl == Spec => ChangesAreControlled
<1>1. Init => CC!Init
  BY NoHandlerFacts
     DEF Init, CC!Init, request, sent, CC!NoRequest, CC!NoCommand, NoHandler
<1> QED BY <1>1, HandlerInvariance, ControlStep, PTL
        DEF Spec, CC!Spec, ChangesAreControlled
=============================================================================
