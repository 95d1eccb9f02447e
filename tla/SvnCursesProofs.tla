-------------------------- MODULE SvnCursesProofs ---------------------------
(***************************************************************************)
(* Proofs about SvnCurses, for every terminal, every set of listings and   *)
(* every outcome of a stray read.                                          *)
(***************************************************************************)
EXTENDS SvnCurses, TLAPS

-----------------------------------------------------------------------------
(***************************************************************************)
(* Facts about the operators that printing is made of.                     *)
(***************************************************************************)
\* padded changes the items' lengths only.
LEMMA PaddedFacts ==
  ASSUME NEW list \in Seq(Item), NEW pos \in Nat
  PROVE  /\ padded(list, pos) \in Seq(Item)
         /\ Len(padded(list, pos)) = Len(list)
         /\ \A i \in 1..Len(list) :
              /\ list[i] \in Item /\ padded(list, pos)[i] \in Item
              /\ padded(list, pos)[i].line = list[i].line
              /\ padded(list, pos)[i].size = IF i > pos THEN maxX ELSE list[i].size
<1>1. \A i \in 1..Len(list) : list[i] \in Item
  OBVIOUS
<1>2. ASSUME NEW item \in Item
      PROVE  /\ [item EXCEPT !.size = maxX] \in Item
             /\ [item EXCEPT !.size = maxX].line = item.line
             /\ [item EXCEPT !.size = maxX].size = maxX
  BY SvnCursesAssumption DEF Item
<1>3. \A i \in 1..Len(list) :
        padded(list, pos)[i] = IF i > pos THEN [list[i] EXCEPT !.size = maxX]
                                          ELSE list[i]
  BY DEF padded
<1>4. ASSUME NEW i \in 1..Len(list)
      PROVE  /\ padded(list, pos)[i] \in Item
             /\ padded(list, pos)[i].line = list[i].line
             /\ padded(list, pos)[i].size = IF i > pos THEN maxX ELSE list[i].size
  <2>1. CASE i > pos
    BY <1>1, <1>2, <1>3, <2>1
  <2>2. CASE ~(i > pos)
    BY <1>1, <1>3, <2>2
  <2> QED BY <2>1, <2>2
<1>5. padded(list, pos) \in Seq(Item) /\ Len(padded(list, pos)) = Len(list)
  <2>1. padded(list, pos) \in [1..Len(list) -> Item]
    BY <1>4 DEF padded
  <2> QED BY <2>1
<1> QED BY <1>1, <1>4, <1>5

\* Items are equal if their texts and lengths are.
LEMMA ItemEquality ==
  ASSUME NEW x \in Item, NEW y \in Item, x.line = y.line, x.size = y.size
  PROVE  x = y
BY DEF Item

\* Every pad line that printAllStatus draws is a Row.
LEMMA DrawnType ==
  ASSUME NEW list \in Seq(Item), NEW sel, NEW cur, NEW pos \in Nat,
         bold \in BOOLEAN
  PROVE  drawn(list, sel, cur, pos) \in [0..(V!rows - 1) -> Row]
<1>1. NoRow \in Row
  BY SvnCursesAssumption DEF NoRow, Row, Item
<1>2. ASSUME NEW r \in 0..(V!rows - 1), pos + r < Len(list)
      PROVE  printStatusWithColor(list, sel, cur, pos, pos + r) \in Row
  <2>1. r \in Nat /\ pos + r + 1 \in 1..Len(list)
    BY <1>2, SvnCursesAssumption DEF V!rows
  <2>2. At(padded(list, pos), pos + r) \in Item
    BY <2>1, PaddedFacts DEF At
  <2>3. isItemSelected(list, sel, pos + r) \in BOOLEAN
    BY DEF isItemSelected
  <2>4. boldAfter(list, sel, cur, pos, pos + r) \in BOOLEAN
    BY DEF boldAfter
  <2> QED BY <2>2, <2>3, <2>4 DEF printStatusWithColor, Row
<1> QED BY <1>1, <1>2 DEF drawn

\* What printAllStatus leaves, whether an item is too wide or not.
LEMMA PrintFacts ==
  ASSUME NEW list \in Seq(Item), NEW sel, NEW cur, NEW pos \in Nat,
         TypeOK, printAllStatus(list, sel, cur, pos)
  PROVE  /\ statusItems' \in Seq(Item)
         /\ Len(statusItems') = Len(list)
         /\ screen' \in [0..(V!rows - 1) -> Row]
         /\ bold' \in BOOLEAN
         /\ \/ pc' = "failed" /\ curses' = FALSE
            \/ pc' = "key" /\ curses' = curses /\ statusItems' = padded(list, pos)
<1>1. CASE printThrows(list, sel, pos)
  BY <1>1 DEF printAllStatus, endwin, TypeOK, shown
<1>2. CASE ~printThrows(list, sel, pos)
  <2>1. screen' = drawn(list, sel, cur, pos) /\ bold \in BOOLEAN
    BY <1>2 DEF printAllStatus, prefresh, TypeOK
  <2>2. bold' \in BOOLEAN
    BY <1>2 DEF printAllStatus, boldAfter
  <2> QED BY <1>2, <2>1, <2>2, PaddedFacts, DrawnType DEF printAllStatus
<1> QED BY <1>1, <1>2

\* The movements keep the types of the positions.
LEMMA MoveFacts ==
  ASSUME TypeOK, statusItems # <<>>,
         V!moveOneRowDown \/ V!moveOneRowUp \/ V!gotoBottom \/ V!gotoTop
  PROVE  cursorPosition' \in Nat /\ padPos' \in Nat
<1>1. Len(statusItems) \in Nat /\ Len(statusItems) > 0
  BY DEF TypeOK
<1>2. CASE V!moveOneRowDown
  BY <1>2 DEF V!moveOneRowDown, TypeOK
<1>3. CASE V!moveOneRowUp
  BY <1>3 DEF V!moveOneRowUp, TypeOK
<1>4. CASE V!gotoBottom
  BY <1>1, <1>4, SvnCursesAssumption DEF V!gotoBottom, V!SizeT, TypeOK
<1>5. CASE V!gotoTop
  BY <1>5 DEF V!gotoTop
<1> QED BY <1>2, <1>3, <1>4, <1>5

\* A listing as split leaves it.
LEMMA FreshFacts ==
  ASSUME NEW out \in Seq(Line)
  PROVE  /\ [i \in 1..Len(out) |-> fresh(out[i])] \in Seq(Item)
         /\ Len([i \in 1..Len(out) |-> fresh(out[i])]) = Len(out)
<1>1. \A i \in 1..Len(out) : out[i] \in Line
  OBVIOUS
<1>2. \A l \in Line : fresh(l) \in Item
  BY SvnCursesAssumption DEF fresh, Item
<1> QED BY <1>1, <1>2

\* The handler records that keyEvent makes.
LEMMA HandlerFacts ==
  /\ NoHandler \in Handler
  /\ \A op \in Ops, its \in SUBSET Item :
       [NoHandler EXCEPT !.op = op, !.items = its] \in Handler
  /\ [NoHandler EXCEPT !.op = "s"] \in Handler
  /\ \A h \in Handler : /\ [h EXCEPT !.agreed = TRUE] \in Handler
                        /\ [h EXCEPT !.ran = TRUE] \in Handler
  /\ \A h \in Handler, k \in BOOLEAN : [h EXCEPT !.keepLocal = k] \in Handler
BY DEF NoHandler, Handler, Ops

-----------------------------------------------------------------------------
(***************************************************************************)
(* Type correctness.  It needs that a key is read only while the list has  *)
(* an entry: 'G' sets cursorPosition to size() - 1.                        *)
(***************************************************************************)
Listed == pc \in Browsing => statusItems # <<>>

TypeInv == TypeOK /\ Listed

\* The list, the selection and what the terminal shows after a movement.
LEMMA MoveAndPrintTypes ==
  ASSUME TypeInv, pc \in Browsing, NEW sel \in SUBSET Item, NEW movement,
         movement => cursorPosition' \in Nat /\ padPos' \in Nat,
         moveAndPrint(movement, sel), undefined' \in BOOLEAN
  PROVE  TypeInv'
<1>1. /\ statusItems \in Seq(Item)
      /\ cursorPosition' \in Nat /\ padPos' \in Nat
  BY DEF moveAndPrint, TypeInv, TypeOK
<1>2. /\ statusItems' \in Seq(Item)
      /\ Len(statusItems') = Len(statusItems)
      /\ screen' \in [0..(V!rows - 1) -> Row]
      /\ bold' \in BOOLEAN
      /\ pc' \in {"key", "failed"} /\ curses' \in BOOLEAN
  <2>1. curses \in BOOLEAN /\ TypeOK
    BY DEF TypeInv, TypeOK
  <2>2. printAllStatus(statusItems, sel, cursorPosition', padPos')
    BY DEF moveAndPrint
  <2>3. /\ statusItems' \in Seq(Item)
        /\ Len(statusItems') = Len(statusItems)
        /\ screen' \in [0..(V!rows - 1) -> Row]
        /\ bold' \in BOOLEAN
        /\ \/ pc' = "failed" /\ curses' = FALSE
           \/ /\ pc' = "key" /\ curses' = curses
              /\ statusItems' = padded(statusItems, padPos')
    BY <1>1, <2>1, <2>2, PrintFacts
  <2> QED BY <2>1, <2>3, Zenon
<1>3. statusItems' # <<>>
  BY <1>1, <1>2 DEF TypeInv, Listed
<1>4. UNCHANGED <<handler, allStatusItems, modes, delay, shrunk>> /\ selectedItems' = sel
  BY DEF moveAndPrint, settings
<1> QED BY <1>1, <1>2, <1>3, <1>4 DEF TypeInv, TypeOK, Listed, Waiting, Ended

LEMMA TypeInvInit == Init => TypeInv
<1>1. NoRow \in Row
  BY SvnCursesAssumption DEF NoRow, Row, Item
<1>2. ASSUME Init PROVE TypeOK
  <2>1. screen \in [0..(V!rows - 1) -> Row]
    BY <1>1, <1>2 DEF Init
  <2>2. modes \in [Modes -> BOOLEAN]
    BY <1>2 DEF Init
  <2>3. <<>> \in Seq(Item) /\ {} \subseteq Item
    OBVIOUS
  <2>4. pc \in Waiting \cup Ended \cup {"boot"} /\ handler \in Handler
    BY <1>2, HandlerFacts DEF Init
  <2>5. bold \in BOOLEAN /\ curses \in BOOLEAN /\ undefined \in BOOLEAN
        /\ shrunk \in BOOLEAN
    BY <1>2 DEF Init
  <2>6. cursorPosition \in Nat /\ padPos \in Nat /\ delay \in Int
    BY <1>2 DEF Init
  <2> QED BY <1>2, <2>1, <2>2, <2>3, <2>4, <2>5, <2>6 DEF Init, TypeOK
<1>3. Init => Listed
  BY DEF Init, Listed, Browsing, Waiting
<1> QED BY <1>2, <1>3 DEF TypeInv

\* The rest of a handler, from split on.
LEMMA ShowListingTypes ==
  ASSUME TypeInv, NEW list \in Seq(Item), list # <<>>, showListing(list),
         undefined' \in BOOLEAN, shrunk' \in BOOLEAN
  PROVE  TypeInv'
<1>1. TypeOK /\ curses \in BOOLEAN /\ padPos \in Nat
  BY DEF TypeInv, TypeOK
<1>2. printAllStatus(list, selectedItems, cursorPosition, padPos)
  BY DEF showListing
<1>3. /\ statusItems' \in Seq(Item)
      /\ Len(statusItems') = Len(list)
      /\ screen' \in [0..(V!rows - 1) -> Row]
      /\ bold' \in BOOLEAN
      /\ \/ pc' = "failed" /\ curses' = FALSE
         \/ pc' = "key" /\ curses' = curses /\ statusItems' = padded(list, padPos)
  BY <1>1, <1>2, PrintFacts
<1>4. pc' \in {"key", "failed"} /\ curses' \in BOOLEAN
  BY <1>1, <1>3, Zenon
<1>5. statusItems' # <<>>
  BY <1>3
<1>6. /\ UNCHANGED <<selectedItems, cursorPosition, padPos, modes, delay>>
      /\ allStatusItems' = list
      /\ handler' = NoHandler
  BY DEF showListing, view, settings
<1> QED BY <1>1, <1>3, <1>4, <1>5, <1>6, HandlerFacts
        DEF TypeInv, TypeOK, Listed, Waiting, Ended

\* The actions of Next, each once: those of Timeout are the user's too.
LEMMA NextActions ==
  ASSUME Next
  PROVE  \/ Boot \/ (\E out \in Outputs : ListingDone(out)) \/ EmptyListing
         \/ RunDone \/ PopenFails \/ KeyQuit \/ KeyMove \/ KeyG \/ SecondG
         \/ SwallowKey \/ KeySpace \/ KeySpaceStray \/ KeyHidden \/ KeyStatus
         \/ KeyAdd \/ KeyRemove \/ KeyUpdate \/ AnswerYes \/ Refuse \/ LeaveOutput
         \/ (\E keep \in BOOLEAN : AnswerKeep(keep)) \/ Terminated
<1>1. Timeout => \/ SwallowKey \/ Refuse \/ LeaveOutput
                 \/ \E keep \in BOOLEAN : AnswerKeep(keep)
  BY DEF Timeout
<1> QED BY <1>1 DEF Next, SvnReturns, User

LEMMA TypeStep == TypeInv /\ [Next]_vars => TypeInv'
<1> SUFFICES ASSUME TypeInv, [Next]_vars PROVE TypeInv'
  OBVIOUS
<1>0. TypeOK /\ Listed /\ (pc \in Browsing => statusItems # <<>>)
  BY DEF TypeInv, Listed
<1>stutter. CASE UNCHANGED vars
  BY <1>0, <1>stutter DEF vars, lists, view, settings, shown, history, TypeInv,
                          TypeOK, Listed
<1>boot. CASE Boot
  <2>1. CASE V!rows > 0
    BY <1>0, <1>boot, <2>1
       DEF Boot, timeout, refreshStatusItems, TypeInv, TypeOK, Listed, Browsing,
           Waiting, lists, view, shown, history
  <2>2. CASE ~(V!rows > 0)
    <3>1. /\ pc' = "nopad" /\ curses' = FALSE /\ delay' = 1000
          /\ UNCHANGED <<handler, statusItems, allStatusItems, selectedItems, cursorPosition,
                         padPos, modes, screen, bold, undefined, shrunk>>
      BY <1>boot, <2>2 DEF Boot, timeout, endwin, lists, view, shown, history
    <3>2. pc' \in Waiting \cup Ended \cup {"boot"} /\ curses' \in BOOLEAN
      BY <3>1, Zenon DEF Ended
    <3>3. delay' \in Int
      BY <3>1
    <3>4. Listed'
      BY <3>1 DEF Listed, Browsing, Waiting
    <3> QED BY <1>0, <3>1, <3>2, <3>3, <3>4 DEF TypeInv, TypeOK
  <2> QED BY <2>1, <2>2
<1>listing. ASSUME NEW out \in Outputs, ListingDone(out) PROVE TypeInv'
  <2> DEFINE list == [i \in 1..Len(out) |-> fresh(out[i])]
  <2>1. out \in Seq(Line) /\ out # <<>>
    BY <1>listing, SvnCursesAssumption DEF ListingDone
  <2>2. list \in Seq(Item) /\ list # <<>>
    BY <2>1, FreshFacts
  <2>3. showListing(list) /\ undefined' \in BOOLEAN /\ shrunk' \in BOOLEAN
    BY <1>0, <1>listing DEF ListingDone, TypeOK
  <2> QED BY <2>2, <2>3, ShowListingTypes
<1>empty. CASE EmptyListing
  <2>1. undefined' \in BOOLEAN /\ shrunk' \in BOOLEAN
    BY <1>empty DEF EmptyListing
  <2>2. CASE showListing(<<fresh(Blank)>>)
    <3>1. fresh(Blank) \in Item
      BY SvnCursesAssumption DEF fresh, Item
    <3>2. <<fresh(Blank)>> \in Seq(Item) /\ <<fresh(Blank)>> # <<>>
      BY <3>1
    <3> QED BY <2>1, <2>2, <3>2, ShowListingTypes
  <2>3. CASE pc' = "killed" /\ UNCHANGED <<handler, lists, selectedItems, view,
                                          settings, shown, win, curses>>
    BY <1>0, <2>1, <2>3 DEF TypeInv, TypeOK, Listed, Browsing, Waiting, Ended,
                            lists, view, settings, shown
  <2> QED BY <1>empty, <2>2, <2>3 DEF EmptyListing
<1>popen. CASE PopenFails
  BY <1>0, <1>popen DEF PopenFails, endwin, TypeInv, TypeOK, Listed, Browsing,
                        Waiting, Ended, lists, view, settings, shown, history
<1>quit. CASE KeyQuit
  BY <1>0, <1>quit DEF KeyQuit, endwin, TypeInv, TypeOK, Listed, Browsing,
                       Waiting, Ended, lists, view, settings, shown, history
<1>types. pc = "key" \/ pc = "g" => pc \in Browsing
  BY DEF Browsing, Waiting
<1>move. CASE KeyMove
  <2>1. pc \in Browsing /\ undefined' \in BOOLEAN /\ selectedItems \in SUBSET Item
    BY <1>0, <1>move, <1>types DEF KeyMove, TypeOK
  <2>2. CASE moveAndPrint(V!moveOneRowDown, selectedItems)
    BY <1>0, <2>1, <2>2, MoveFacts, MoveAndPrintTypes
  <2>3. CASE moveAndPrint(V!moveOneRowUp, selectedItems)
    BY <1>0, <2>1, <2>3, MoveFacts, MoveAndPrintTypes
  <2>4. CASE moveAndPrint(V!gotoBottom, selectedItems)
    BY <1>0, <2>1, <2>4, MoveFacts, MoveAndPrintTypes
  <2> QED BY <1>move, <2>2, <2>3, <2>4 DEF KeyMove
<1>top. CASE SecondG
  <2>1. /\ pc \in Browsing /\ undefined' \in BOOLEAN
        /\ selectedItems \in SUBSET Item
        /\ moveAndPrint(V!gotoTop, selectedItems)
    BY <1>0, <1>top, <1>types DEF SecondG, toTop, TypeOK
  <2> QED BY <1>0, <2>1, MoveFacts, MoveAndPrintTypes
<1>g. CASE KeyG \/ SwallowKey
  BY <1>0, <1>g DEF KeyG, SwallowKey, goto, TypeInv, TypeOK, Listed, Browsing,
                    Waiting, lists, view, settings, shown, history
<1>space. CASE KeySpace
  <2>1. pc \in Browsing /\ undefined' \in BOOLEAN
    BY <1>0, <1>space, <1>types DEF KeySpace, TypeOK
  <2>2. At(statusItems, cursorPosition) \in Item
    BY <1>0, <1>space DEF KeySpace, TypeOK, At
  <2>3. toggled(selectedItems, At(statusItems, cursorPosition)) \in SUBSET Item
    BY <1>0, <2>2 DEF toggled, TypeOK
  <2> QED BY <1>0, <1>space, <2>1, <2>3, MoveFacts, MoveAndPrintTypes DEF KeySpace
<1>stray. CASE KeySpaceStray
  <2>1. pc \in Browsing /\ undefined' \in BOOLEAN
    BY <1>stray, <1>types DEF KeySpaceStray
  <2>2. ASSUME NEW item \in StrayItem,
               moveAndPrint(V!moveOneRowDown, toggled(selectedItems, item))
        PROVE  TypeInv'
    <3>1. toggled(selectedItems, item) \in SUBSET Item
      BY <1>0, SvnCursesAssumption DEF toggled, Item, TypeOK
    <3> QED BY <1>0, <2>1, <2>2, <3>1, MoveFacts, MoveAndPrintTypes
  <2>3. CASE /\ \/ pc' = "killed" /\ UNCHANGED curses
                \/ pc' = "failed" /\ endwin
             /\ UNCHANGED <<handler, lists, selectedItems, view, settings, shown,
                            win, shrunk>>
    BY <1>0, <2>1, <2>3 DEF endwin, TypeInv, TypeOK, Listed, Browsing, Waiting,
                            Ended, lists, view, settings, shown
  <2> QED BY <1>stray, <2>2, <2>3 DEF KeySpaceStray
<1>hidden. CASE KeyHidden
  BY <1>0, <1>hidden DEF KeyHidden, toggleMode, TypeInv, TypeOK, Listed, lists,
                         view, shown, history, Modes
<1>status. CASE KeyStatus
  BY <1>0, <1>status, HandlerFacts
     DEF KeyStatus, toTop, V!gotoTop, refreshStatusItems, TypeInv, TypeOK, Listed,
         Browsing, Waiting, lists, settings, shown, history
<1>ask. ASSUME NEW key \in {"a", "r", "u"}, NEW its \in SUBSET Item, NEW w,
               NEW ms \in Int, ask(key, its, w, ms)
        PROVE  TypeInv'
  <2>1. handler' \in Handler
    BY <1>ask, HandlerFacts DEF ask, Ops
  <2> QED BY <1>0, <1>ask, <1>types, <2>1
          DEF ask, timeout, TypeInv, TypeOK, Listed, Browsing, Waiting, lists,
              view, shown, history
<1>askaru. CASE KeyAdd \/ KeyRemove \/ KeyUpdate
  <2>1. selectedItems \in SUBSET Item /\ {} \in SUBSET Item
    BY <1>0 DEF TypeOK
  <2> QED BY <1>ask, <1>askaru, <2>1 DEF KeyAdd, KeyRemove, KeyUpdate
<1>yes. CASE AnswerYes
  <2>1. handler' \in Handler /\ pc' \in {"keep", "run"}
    BY <1>0, <1>yes, HandlerFacts DEF AnswerYes, TypeOK
  <2> QED BY <1>0, <1>yes, <2>1
          DEF AnswerYes, TypeInv, TypeOK, Listed, Browsing, Waiting, lists, view,
              settings, shown, history
<1>keep. ASSUME NEW keep \in BOOLEAN, AnswerKeep(keep) PROVE TypeInv'
  <2>1. handler' \in Handler
    BY <1>0, <1>keep, HandlerFacts DEF AnswerKeep, TypeOK
  <2> QED BY <1>0, <1>keep, <2>1
          DEF AnswerKeep, TypeInv, TypeOK, Listed, Browsing, Waiting, lists, view,
              settings, shown, history
<1>again. ASSUME listAgain,
                 UNCHANGED <<lists, settings, shown, curses, history>>,
                 handler' \in Handler
          PROVE  TypeInv'
  <2>1. cursorPosition' \in Nat /\ padPos' \in Nat
    BY <1>0, <1>again DEF listAgain, backToTop, toTop, V!gotoTop, view, TypeOK
  <2> QED BY <1>0, <1>again, <2>1
          DEF listAgain, refreshStatusItems, TypeInv, TypeOK, Listed, Browsing,
              Waiting, lists, settings, shown, history
<1>refuse. CASE Refuse
  <2>1. CASE listAgain /\ UNCHANGED handler
    BY <1>0, <1>again, <1>refuse, <2>1 DEF Refuse, TypeOK
  <2>2. CASE pc' = "key" /\ handler' = NoHandler /\ UNCHANGED <<selectedItems, view>>
    BY <1>0, <1>refuse, <2>2, HandlerFacts
       DEF Refuse, TypeInv, TypeOK, Listed, Browsing, Waiting, lists, view,
           settings, shown, history
  <2> QED BY <1>refuse, <2>1, <2>2 DEF Refuse
<1>run. CASE RunDone
  <2>1. handler' \in Handler
    BY <1>0, <1>run, HandlerFacts DEF RunDone, TypeOK
  <2>2. CASE listAgain
    BY <1>again, <1>run, <2>1, <2>2 DEF RunDone
  <2>3. CASE pc' = "show" /\ UNCHANGED <<selectedItems, view>>
    BY <1>0, <1>run, <2>1, <2>3
       DEF RunDone, TypeInv, TypeOK, Listed, Browsing, Waiting, lists, view,
           settings, shown, history
  <2> QED BY <1>run, <2>2, <2>3 DEF RunDone
<1>leave. CASE LeaveOutput
  BY <1>0, <1>leave
     DEF LeaveOutput, refreshStatusItems, TypeInv, TypeOK, Listed, Browsing,
         Waiting, lists, view, settings, shown, history
<1> QED
  BY <1>stutter, <1>boot, <1>listing, <1>empty, <1>popen, <1>quit, <1>move,
     <1>top, <1>g, <1>space, <1>stray, <1>hidden, <1>status, <1>askaru, <1>yes,
     <1>keep, <1>refuse, <1>run, <1>leave, NextActions DEF Terminated

(***************************************************************************)
(* Every variable keeps its type, whatever keys come and whatever svn      *)
(* prints: in particular cursorPosition and padPos never become negative   *)
(* and every pad line is a status item or empty.                           *)
(***************************************************************************)
THEOREM TypeCorrect == Spec => []TypeOK
<1>1. TypeInv => TypeOK
  BY DEF TypeInv
<1> QED BY TypeInvInit, TypeStep, <1>1, PTL DEF Spec

-----------------------------------------------------------------------------
(***************************************************************************)
(* The safety invariants.  None but TerminalRestored and PrintedItemsFit   *)
(* is inductive by itself: the selection stays in the list because ' '     *)
(* only selects items that printing has padded already, and that is so     *)
(* because the cursor is never above the pad; undefined behaviour needs a  *)
(* shrunk list because otherwise the cursor is on an entry in every wait.  *)
(***************************************************************************)
\* The pad has a line, and the cursor is not above the first.
PadUnderCursor ==
  /\ pc \in Waiting => V!rows > 0
  /\ padPos <= cursorPosition

\* The selection is empty while "svn st" runs.  The items in it are entries
\* of the list and already padded, so that padding leaves them alone.
SelectionPadded ==
  /\ pc = "st" => selectedItems = {}
  /\ pc \in Waiting /\ ~undefined =>
       \A item \in selectedItems : item.size = maxX /\ item \in Range(statusItems)

\* Unless a listing has shrunk, the cursor is on an entry of the list, and
\* it will be on one of the listing that "svn st" is about to print.
CursorListed ==
  /\ undefined => shrunk
  /\ pc = "boot" => cursorPosition = 0
  /\ pc = "show" => handler.op = "u"
  /\ pc \in Browsing /\ ~shrunk => cursorPosition < Len(statusItems)
  /\ pc = "st" /\ ~shrunk /\ cursorPosition # 0 =>
       handler.op \in {"a", "u"} /\ cursorPosition < Len(statusItems)

SafeInv ==
  /\ TerminalRestored
  /\ PadUnderCursor
  /\ PrintedItemsFit
  /\ SelectionPadded
  /\ CursorListed

\* After printing, the items from the first pad line on are one terminal
\* line wide, and items that were so before are still in the list.
LEMMA PrintPads ==
  ASSUME NEW list \in Seq(Item), NEW pos \in Nat, statusItems' = padded(list, pos)
  PROVE  /\ \A i \in pos..(Len(statusItems') - 1) : At(statusItems', i).size = maxX
         /\ \A item \in Range(list) : item.size = maxX => item \in Range(statusItems')
<1> USE PaddedFacts
<1>1. ASSUME NEW i \in pos..(Len(statusItems') - 1)
      PROVE  At(statusItems', i).size = maxX
  <2>1. i + 1 \in 1..Len(list) /\ i + 1 > pos
    BY <1>1
  <2> QED BY <2>1 DEF At
<1>2. ASSUME NEW item \in Range(list), item.size = maxX
      PROVE  item \in Range(statusItems')
  <2>1. PICK k \in 1..Len(list) : list[k] = item
    BY DEF Range
  <2>2. /\ item \in Item /\ statusItems'[k] \in Item
        /\ statusItems'[k].line = item.line /\ statusItems'[k].size = item.size
    BY <1>2, <2>1
  <2>3. statusItems'[k] = item
    BY <2>2, ItemEquality
  <2>4. k \in DOMAIN statusItems'
    BY <2>1
  <2> QED BY <2>3, <2>4 DEF Range
<1> QED BY <1>1, <1>2

\* The movements keep the cursor off the lines above the pad and on the list.
LEMMA MovesStayListed ==
  ASSUME TypeOK, statusItems # <<>>, V!rows > 0, padPos <= cursorPosition,
         V!moveOneRowDown \/ V!moveOneRowUp \/ V!gotoBottom \/ V!gotoTop
  PROVE  /\ padPos' <= cursorPosition'
         /\ cursorPosition < Len(statusItems) => cursorPosition' < Len(statusItems)
<1>1. Len(statusItems) \in Nat \ {0}
  BY DEF TypeOK
<1>2. cursorPosition \in Nat /\ padPos \in Nat /\ maxY \in Nat
      /\ bottomWindowSize \in Nat /\ maxY > bottomWindowSize
  BY SvnCursesAssumption DEF TypeOK, V!rows
<1>3. CASE V!moveOneRowDown
  BY <1>1, <1>2, <1>3 DEF V!moveOneRowDown, V!SizeT, V!rows
<1>4. CASE V!moveOneRowUp
  BY <1>1, <1>2, <1>4 DEF V!moveOneRowUp
<1>5. CASE V!gotoBottom
  BY <1>1, <1>2, <1>5 DEF V!gotoBottom, V!SizeT
<1>6. CASE V!gotoTop
  BY <1>1, <1>6 DEF V!gotoTop
<1> QED BY <1>3, <1>4, <1>5, <1>6

\* A movement and the printing that follows it, whichever selection it prints.
LEMMA MoveAndPrintSafe ==
  ASSUME TypeInv, TypeInv', SafeInv, pc \in {"key", "g"}, NEW sel \in SUBSET Item,
         NEW movement, moveAndPrint(movement, sel),
         movement => \/ V!moveOneRowDown \/ V!moveOneRowUp
                     \/ V!gotoBottom \/ V!gotoTop,
         undefined' => shrunk,
         ~undefined' => \A item \in sel : item.size = maxX /\ item \in Range(statusItems)
  PROVE  SafeInv'
<1>1. /\ TypeOK /\ statusItems \in Seq(Item) /\ statusItems # <<>>
      /\ padPos' \in Nat /\ cursorPosition' \in Nat
      /\ pc \in Waiting /\ pc \in Browsing
  BY DEF TypeInv, TypeOK, Listed, Browsing, Waiting
<1>2. /\ V!moveOneRowDown \/ V!moveOneRowUp \/ V!gotoBottom \/ V!gotoTop
      /\ printAllStatus(statusItems, sel, cursorPosition', padPos')
      /\ selectedItems' = sel /\ shrunk' = shrunk
  BY DEF moveAndPrint
<1>3. V!rows > 0 /\ padPos <= cursorPosition
  BY <1>1 DEF SafeInv, PadUnderCursor
<1>4. /\ padPos' <= cursorPosition'
      /\ cursorPosition < Len(statusItems) => cursorPosition' < Len(statusItems)
  BY <1>1, <1>2, <1>3, MovesStayListed
<1>5. /\ Len(statusItems') = Len(statusItems)
      /\ \/ pc' = "failed" /\ curses' = FALSE
         \/ /\ pc' = "key" /\ curses' = curses
            /\ statusItems' = padded(statusItems, padPos')
  BY <1>1, <1>2, PrintFacts
<1>6. curses = TRUE
  BY <1>1 DEF SafeInv, TerminalRestored, TypeOK
<1>7. CASE pc' = "failed" /\ curses' = FALSE
  <2>1. pc' \notin Waiting /\ pc' # "st" /\ pc' \notin Browsing
        /\ pc' \notin {"boot", "show", "killed"}
    BY <1>7 DEF Waiting, Browsing
  <2> QED BY <1>2, <1>4, <1>7, <2>1
          DEF SafeInv, TerminalRestored, PadUnderCursor, PrintedItemsFit,
              SelectionPadded, CursorListed
<1>8. CASE /\ pc' = "key" /\ curses' = curses
           /\ statusItems' = padded(statusItems, padPos')
  <2>1. TerminalRestored'
    BY <1>6, <1>8 DEF TerminalRestored, Waiting
  <2>2. PadUnderCursor'
    BY <1>3, <1>4 DEF PadUnderCursor, V!rows
  <2>3. PrintedItemsFit'
    BY <1>1, <1>8, PrintPads DEF PrintedItemsFit, At
  <2>4. \A item \in Range(statusItems) :
          item.size = maxX => item \in Range(statusItems')
    BY <1>1, <1>8, PrintPads
  <2>5. SelectionPadded'
    BY <1>2, <1>8, <2>4 DEF SelectionPadded, Range
  <2>6. CursorListed'
    BY <1>1, <1>2, <1>4, <1>5, <1>8 DEF SafeInv, CursorListed
  <2> QED BY <2>1, <2>2, <2>3, <2>5, <2>6 DEF SafeInv
<1> QED BY <1>5, <1>7, <1>8

\* A listing and the printing that follows it.
LEMMA ShowListingSafe ==
  ASSUME TypeInv, TypeInv', SafeInv, pc = "st", NEW list \in Seq(Item),
         showListing(list), undefined' => shrunk',
         ~shrunk' => cursorPosition < Len(list)
  PROVE  SafeInv'
<1>1. TypeOK /\ padPos \in Nat /\ cursorPosition \in Nat /\ pc \in Waiting
  BY DEF TypeInv, TypeOK, Waiting
<1>2. /\ printAllStatus(list, selectedItems, cursorPosition, padPos)
      /\ UNCHANGED <<selectedItems, cursorPosition, padPos>>
  BY DEF showListing, view
<1>3. V!rows > 0 /\ padPos <= cursorPosition /\ selectedItems = {} /\ curses = TRUE
  BY <1>1 DEF SafeInv, PadUnderCursor, SelectionPadded, TerminalRestored, TypeOK
<1>4. /\ Len(statusItems') = Len(list)
      /\ \/ pc' = "failed" /\ curses' = FALSE
         \/ pc' = "key" /\ curses' = curses /\ statusItems' = padded(list, padPos)
  BY <1>1, <1>2, PrintFacts
<1>5. CASE pc' = "failed" /\ curses' = FALSE
  <2>1. pc' \notin Waiting /\ pc' # "st" /\ pc' \notin Browsing
        /\ pc' \notin {"boot", "show", "killed"}
    BY <1>5 DEF Waiting, Browsing
  <2> QED BY <1>2, <1>3, <1>5, <2>1
          DEF SafeInv, TerminalRestored, PadUnderCursor, PrintedItemsFit,
              SelectionPadded, CursorListed
<1>6. CASE pc' = "key" /\ curses' = curses /\ statusItems' = padded(list, padPos)
  <2>1. TerminalRestored'
    BY <1>3, <1>6 DEF TerminalRestored, Waiting
  <2>2. PadUnderCursor'
    BY <1>2, <1>3 DEF PadUnderCursor, V!rows
  <2>3. PrintedItemsFit'
    BY <1>1, <1>2, <1>6, PrintPads DEF PrintedItemsFit, At
  <2>4. SelectionPadded'
    BY <1>2, <1>3, <1>6 DEF SelectionPadded
  <2>5. CursorListed'
    BY <1>2, <1>4, <1>6 DEF CursorListed
  <2> QED BY <2>1, <2>2, <2>3, <2>4, <2>5 DEF SafeInv
<1> QED BY <1>4, <1>5, <1>6

\* A step from one wait for a key or a command to another that leaves the
\* list, the selection and the cursor alone.
LEMMA QuietSafe ==
  ASSUME TypeInv, SafeInv, pc \in Browsing, pc' \in Browsing,
         UNCHANGED <<lists, selectedItems, view, curses, history>>,
         pc' = "show" => handler'.op = "u"
  PROVE  SafeInv'
<1>1. /\ pc \in Waiting /\ pc' \in Waiting /\ pc' # "st" /\ pc' # "boot"
  BY DEF Browsing, Waiting
<1>2. TerminalRestored'
  BY <1>1 DEF SafeInv, TerminalRestored
<1>3. PadUnderCursor'
  BY <1>1 DEF SafeInv, PadUnderCursor, V!rows, view
<1>4. PrintedItemsFit'
  BY DEF SafeInv, PrintedItemsFit, view, lists, At
<1>5. SelectionPadded'
  BY <1>1 DEF SafeInv, SelectionPadded, lists, history, Range
<1>6. CursorListed'
  BY <1>1 DEF SafeInv, CursorListed, lists, view, history
<1> QED BY <1>2, <1>3, <1>4, <1>5, <1>6 DEF SafeInv

\* A step that starts "svn st".
LEMMA RelistSafe ==
  ASSUME TypeInv, SafeInv, pc \in Browsing, pc' = "st", selectedItems' = {},
         UNCHANGED <<lists, curses, history>>,
         \/ cursorPosition' = 0 /\ padPos' = 0
         \/ UNCHANGED view /\ handler'.op \in {"a", "u"}
  PROVE  SafeInv'
<1>1. pc \in Waiting /\ pc' \in Waiting /\ pc' \notin Browsing
  BY DEF Browsing, Waiting
<1>2. TerminalRestored'
  BY <1>1 DEF SafeInv, TerminalRestored
<1>3. PadUnderCursor'
  BY <1>1 DEF SafeInv, PadUnderCursor, V!rows, view
<1>4. PrintedItemsFit' /\ SelectionPadded'
  BY <1>1 DEF PrintedItemsFit, SelectionPadded
<1>5. CursorListed'
  BY <1>1 DEF SafeInv, CursorListed, lists, view, history
<1> QED BY <1>2, <1>3, <1>4, <1>5 DEF SafeInv

\* A step that ends the program.
LEMMA EndSafe ==
  ASSUME TypeInv, SafeInv, pc \in Waiting, UNCHANGED view, undefined' => shrunk',
         \/ pc' \in {"exited", "failed"} /\ curses' = FALSE
         \/ pc' = "killed" /\ UNCHANGED curses
  PROVE  SafeInv'
<1>1. pc' \notin Waiting /\ pc' \notin Browsing /\ pc' \notin {"st", "boot", "show"}
  BY DEF Browsing, Waiting
<1>2. TerminalRestored'
  BY <1>1 DEF SafeInv, TerminalRestored, TypeInv, TypeOK
<1>3. PadUnderCursor'
  BY <1>1 DEF SafeInv, PadUnderCursor, view
<1> QED BY <1>1, <1>2, <1>3
        DEF SafeInv, PrintedItemsFit, SelectionPadded, CursorListed

LEMMA SafeInit == Init => SafeInv
BY DEF Init, SafeInv, TerminalRestored, PadUnderCursor, PrintedItemsFit,
       SelectionPadded, CursorListed, Browsing, Waiting

LEMMA SafeStep == TypeInv /\ TypeInv' /\ SafeInv /\ [Next]_vars => SafeInv'
<1> SUFFICES ASSUME TypeInv, TypeInv', SafeInv, [Next]_vars PROVE SafeInv'
  OBVIOUS
<1>0. TypeOK /\ (pc \in Browsing => statusItems # <<>>)
  BY DEF TypeInv, Listed
<1>waits. /\ \A p \in {"key", "g", "ask", "keep", "run", "show"} : p \in Browsing
          /\ \A p \in {"st", "key", "run"} : p \in Waiting
  BY DEF Browsing, Waiting
<1>stutter. CASE UNCHANGED vars
  BY <1>stutter DEF vars, lists, view, settings, shown, history, SafeInv,
       TerminalRestored, PadUnderCursor, PrintedItemsFit, SelectionPadded,
       CursorListed, V!rows, At, Range
<1>boot. CASE Boot
  <2>1. CASE V!rows > 0
    BY <1>boot, <2>1
       DEF Boot, refreshStatusItems, lists, view, history, SafeInv, TerminalRestored,
           PadUnderCursor, PrintedItemsFit, SelectionPadded, CursorListed, Browsing,
           Waiting, V!rows
  <2>2. CASE ~(V!rows > 0)
    <3>1. /\ pc = "boot" /\ pc' = "nopad" /\ curses' = FALSE
          /\ UNCHANGED <<view, history>>
      BY <1>boot, <2>2 DEF Boot, endwin
    <3>2. pc' \notin Waiting /\ pc' \notin Browsing
          /\ pc' \notin {"st", "boot", "show", "killed"}
      BY <3>1 DEF Browsing, Waiting
    <3> QED BY <3>1, <3>2
            DEF view, history, SafeInv, TerminalRestored, PadUnderCursor,
                PrintedItemsFit, SelectionPadded, CursorListed
  <2> QED BY <2>1, <2>2
<1>listing. ASSUME NEW out \in Outputs, ListingDone(out) PROVE SafeInv'
  <2> DEFINE list == [i \in 1..Len(out) |-> fresh(out[i])]
  <2>1. out \in Seq(Line) /\ out # <<>>
    BY <1>listing, SvnCursesAssumption DEF ListingDone
  <2>2. list \in Seq(Item) /\ Len(list) = Len(out) /\ Len(out) > 0
    BY <2>1, FreshFacts
  <2>3. pc = "st" /\ showListing(list)
    BY <1>listing DEF ListingDone
  <2>4. undefined' => shrunk'
    BY <1>listing DEF ListingDone, SafeInv, CursorListed
  <2>5. ~shrunk' => cursorPosition < Len(list)
    <3>1. shrunk' = (shrunk \/ /\ handler.op \in {"a", "u"}
                               /\ Len(out) < Len(statusItems))
      BY <1>listing DEF ListingDone
    <3>2. ~shrunk /\ cursorPosition # 0 =>
            handler.op \in {"a", "u"} /\ cursorPosition < Len(statusItems)
      BY <2>3 DEF SafeInv, CursorListed
    <3>3. ~shrunk' /\ cursorPosition # 0 =>
            cursorPosition < Len(statusItems) /\ ~(Len(out) < Len(statusItems))
      BY <3>1, <3>2, Zenon
    <3>4. cursorPosition \in Nat /\ Len(statusItems) \in Nat /\ Len(out) \in Nat
      BY <1>0, <2>1 DEF TypeOK
    <3> QED BY <2>2, <3>3, <3>4
  <2> QED BY <2>2, <2>3, <2>4, <2>5, ShowListingSafe
<1>empty. CASE EmptyListing
  <2>1. pc = "st" /\ (undefined' => shrunk') /\ shrunk' = TRUE
    BY <1>empty DEF EmptyListing
  <2>2. CASE showListing(<<fresh(Blank)>>)
    <3>1. fresh(Blank) \in Item
      BY SvnCursesAssumption DEF fresh, Item
    <3>2. <<fresh(Blank)>> \in Seq(Item)
      BY <3>1
    <3> QED BY <2>1, <2>2, <3>2, ShowListingSafe
  <2>3. CASE pc' = "killed" /\ UNCHANGED <<view, curses>>
    BY <1>waits, <2>1, <2>3, EndSafe
  <2> QED BY <1>empty, <2>2, <2>3 DEF EmptyListing
<1>end. CASE PopenFails \/ KeyQuit
  <2>1. pc \in Waiting /\ pc' \in {"exited", "failed"} /\ curses' = FALSE
        /\ UNCHANGED <<view, history>>
    BY <1>end, <1>waits DEF PopenFails, KeyQuit, endwin
  <2>2. undefined' => shrunk'
    BY <2>1 DEF history, SafeInv, CursorListed
  <2> QED BY <2>1, <2>2, EndSafe
<1>sel. ~undefined /\ pc \in {"key", "g"} =>
          \A item \in selectedItems : item.size = maxX /\ item \in Range(statusItems)
  BY DEF SafeInv, SelectionPadded, Waiting
<1>und. undefined => shrunk
  BY DEF SafeInv, CursorListed
<1>move. CASE KeyMove
  <2>1. /\ pc \in {"key", "g"} /\ undefined' = undefined
        /\ selectedItems \in SUBSET Item
    BY <1>0, <1>move DEF KeyMove, TypeOK
  <2>2. CASE moveAndPrint(V!moveOneRowDown, selectedItems)
    BY <1>sel, <1>und, <2>1, <2>2, MoveAndPrintSafe
  <2>3. CASE moveAndPrint(V!moveOneRowUp, selectedItems)
    BY <1>sel, <1>und, <2>1, <2>3, MoveAndPrintSafe
  <2>4. CASE moveAndPrint(V!gotoBottom, selectedItems)
    BY <1>sel, <1>und, <2>1, <2>4, MoveAndPrintSafe
  <2> QED BY <1>move, <2>2, <2>3, <2>4 DEF KeyMove
<1>top. CASE SecondG
  <2>1. /\ pc \in {"key", "g"} /\ undefined' = undefined
        /\ selectedItems \in SUBSET Item
        /\ moveAndPrint(V!gotoTop, selectedItems)
    BY <1>0, <1>top DEF SecondG, toTop, TypeOK
  <2> QED BY <1>sel, <1>und, <2>1, MoveAndPrintSafe
<1>g. CASE KeyG \/ SwallowKey
  BY <1>g, <1>waits, QuietSafe DEF KeyG, SwallowKey, goto
<1>space. CASE KeySpace
  <2> DEFINE item == At(statusItems, cursorPosition)
             sel  == toggled(selectedItems, item)
  <2>1. /\ pc \in {"key", "g"} /\ pc \in Browsing /\ undefined' = undefined
        /\ cursorPosition < Len(statusItems) /\ moveAndPrint(V!moveOneRowDown, sel)
    BY <1>space, <1>waits DEF KeySpace
  <2>2. /\ cursorPosition + 1 \in 1..Len(statusItems)
        /\ cursorPosition \in padPos..(Len(statusItems) - 1)
    BY <1>0, <2>1 DEF SafeInv, PadUnderCursor, TypeOK
  <2>3. item \in Item /\ item \in Range(statusItems)
    BY <1>0, <2>2 DEF At, Range, TypeOK
  <2>4. item.size = maxX
    BY <2>1, <2>2 DEF SafeInv, PrintedItemsFit
  <2>5. sel \in SUBSET Item
    BY <1>0, <2>3 DEF toggled, TypeOK
  <2>6. ~undefined' => \A x \in sel : x.size = maxX /\ x \in Range(statusItems)
    BY <1>sel, <2>1, <2>3, <2>4 DEF toggled
  <2> QED BY <1>und, <2>1, <2>5, <2>6, MoveAndPrintSafe
<1>stray. CASE KeySpaceStray
  <2>1. pc \in {"key", "g"} /\ pc \in Waiting /\ pc \in Browsing /\ undefined' = TRUE
    BY <1>stray, <1>waits DEF KeySpaceStray
  <2>2. shrunk
    BY <1>0, <1>stray, <2>1 DEF KeySpaceStray, SafeInv, CursorListed, TypeOK
  <2>3. ASSUME NEW item \in StrayItem,
               moveAndPrint(V!moveOneRowDown, toggled(selectedItems, item))
        PROVE  SafeInv'
    <3>1. toggled(selectedItems, item) \in SUBSET Item
      BY <1>0, SvnCursesAssumption DEF toggled, Item, TypeOK
    <3> QED BY <2>1, <2>2, <2>3, <3>1, MoveAndPrintSafe
  <2>4. CASE /\ \/ pc' = "killed" /\ UNCHANGED curses
                \/ pc' = "failed" /\ endwin
             /\ UNCHANGED <<view, shrunk>>
    BY <2>1, <2>2, <2>4, EndSafe DEF endwin
  <2> QED BY <1>stray, <2>3, <2>4 DEF KeySpaceStray
<1>hidden. CASE KeyHidden
  BY <1>hidden, <1>waits, QuietSafe DEF KeyHidden
<1>status. CASE KeyStatus
  BY <1>status, <1>waits, RelistSafe
     DEF KeyStatus, toTop, V!gotoTop, refreshStatusItems
<1>ask. CASE KeyAdd \/ KeyRemove \/ KeyUpdate
  BY <1>ask, <1>waits, QuietSafe DEF KeyAdd, KeyRemove, KeyUpdate, ask
<1>yes. CASE AnswerYes
  <2>1. pc = "ask" /\ pc' \in {"keep", "run"}
        /\ UNCHANGED <<lists, selectedItems, view, curses, history>>
    BY <1>yes DEF AnswerYes
  <2> QED BY <1>waits, <2>1, QuietSafe
<1>keep. ASSUME NEW keep \in BOOLEAN, AnswerKeep(keep) PROVE SafeInv'
  BY <1>keep, <1>waits, QuietSafe DEF AnswerKeep
<1>again. ASSUME listAgain, pc \in {"ask", "run"}, handler'.op = handler.op,
                 UNCHANGED <<lists, curses, history>>
          PROVE  SafeInv'
  <2>1. /\ pc \in Browsing /\ pc' = "st" /\ selectedItems' = {}
    BY <1>again, <1>waits DEF listAgain, refreshStatusItems
  <2>2. \/ cursorPosition' = 0 /\ padPos' = 0
        \/ UNCHANGED view /\ handler'.op \in {"a", "u"}
    BY <1>again DEF listAgain, backToTop, toTop, V!gotoTop
  <2> QED BY <1>again, <2>1, <2>2, RelistSafe
<1>refuse. CASE Refuse
  <2>1. CASE listAgain /\ UNCHANGED handler
    BY <1>again, <1>refuse, <2>1 DEF Refuse
  <2>2. CASE pc' = "key" /\ UNCHANGED <<selectedItems, view>>
    BY <1>refuse, <1>waits, <2>2, QuietSafe DEF Refuse
  <2> QED BY <1>refuse, <2>1, <2>2 DEF Refuse
<1>run. CASE RunDone
  <2>1. handler'.op = handler.op
    BY <1>0, <1>run DEF RunDone, TypeOK, Handler
  <2>2. CASE listAgain
    BY <1>again, <1>run, <2>1, <2>2 DEF RunDone
  <2>3. CASE handler.op = "u" /\ pc' = "show" /\ UNCHANGED <<selectedItems, view>>
    BY <1>run, <1>waits, <2>1, <2>3, QuietSafe DEF RunDone
  <2> QED BY <1>run, <2>2, <2>3 DEF RunDone
<1>leave. CASE LeaveOutput
  <2>1. handler'.op = "u"
    BY <1>leave DEF LeaveOutput, SafeInv, CursorListed
  <2> QED BY <1>leave, <1>waits, <2>1, RelistSafe DEF LeaveOutput, refreshStatusItems
<1> QED
  BY <1>stutter, <1>boot, <1>listing, <1>empty, <1>end, <1>move, <1>top, <1>g,
     <1>space, <1>stray, <1>hidden, <1>status, <1>ask, <1>yes, <1>keep,
     <1>refuse, <1>run, <1>leave, NextActions DEF Terminated

\* The inductive invariants hold in every reachable state.
LEMMA Invariance == Spec => [](TypeInv /\ SafeInv)
BY TypeInvInit, TypeStep, SafeInit, SafeStep, PTL DEF Spec

(***************************************************************************)
(* On every terminal, for every listing, every item from the first pad     *)
(* line on is one terminal line wide while a list is on the screen.        *)
(***************************************************************************)
THEOREM ItemsFit == Spec => []PrintedItemsFit
<1>1. SafeInv => PrintedItemsFit
  BY DEF SafeInv
<1> QED BY Invariance, <1>1, PTL

(***************************************************************************)
(* As long as behaviour is defined, nothing is selected that is not an     *)
(* entry of the current list, for every list and every sequence of keys.   *)
(***************************************************************************)
THEOREM SelectionListed == Spec => []SelectionIsListed
<1>1. SafeInv => SelectionIsListed
  BY DEF SafeInv, SelectionPadded, SelectionIsListed
<1> QED BY Invariance, <1>1, PTL

(***************************************************************************)
(* The program never leaves defined behaviour before a listing was empty   *)
(* or shrank under a kept cursor.                                          *)
(***************************************************************************)
THEOREM DefinedUntilShrink == Spec => []UndefinedOnlyAfterShrink
<1>1. SafeInv => UndefinedOnlyAfterShrink
  BY DEF SafeInv, CursorListed, UndefinedOnlyAfterShrink
<1> QED BY Invariance, <1>1, PTL

(***************************************************************************)
(* Every way out of main but a killed process leaves curses mode, also on  *)
(* terminals too small for a pad.                                          *)
(***************************************************************************)
THEOREM TerminalAlwaysRestored == Spec => []TerminalRestored
<1>1. SafeInv => TerminalRestored
  BY DEF SafeInv
<1> QED BY Invariance, <1>1, PTL

-----------------------------------------------------------------------------
(***************************************************************************)
(* Refinement of Viewport: every step moves the cursor and the pad as one  *)
(* of Viewport's actions, or leaves them and the length of the list alone. *)
(***************************************************************************)
\* A movement followed by printing is a step of Viewport.
LEMMA MoveAndPrintRefines ==
  ASSUME TypeInv, TypeInv', pc \in Browsing, NEW sel, NEW movement,
         moveAndPrint(movement, sel),
         movement => \/ V!moveOneRowDown \/ V!moveOneRowUp
                     \/ V!gotoBottom \/ V!gotoTop
  PROVE  V!Next
<1>1. /\ TypeOK /\ statusItems \in Seq(Item) /\ statusItems # <<>>
      /\ padPos' \in Nat
  BY DEF TypeInv, TypeOK, Listed
<1>2. /\ V!moveOneRowDown \/ V!moveOneRowUp \/ V!gotoBottom \/ V!gotoTop
      /\ printAllStatus(statusItems, sel, cursorPosition', padPos')
  BY DEF moveAndPrint
<1>3. Len(statusItems') = Len(statusItems) /\ Len(statusItems) > 0
  <2>1. Len(statusItems') = Len(statusItems)
    BY <1>1, <1>2, PrintFacts
  <2> QED BY <1>1, <2>1
<1> QED BY <1>2, <1>3 DEF V!Next, V!Down, V!Up, V!Bottom, V!Top, V!Move

\* A listing followed by printing is RelistKeep.
LEMMA ShowListingRefines ==
  ASSUME TypeInv, NEW list \in Seq(Item), showListing(list),
         Len(list) \in {Len(out) : out \in Outputs \ {<<>>}} \cup {1}
  PROVE  V!Next
<1>1. TypeOK /\ padPos \in Nat
  BY DEF TypeInv, TypeOK
<1>2. printAllStatus(list, selectedItems, cursorPosition, padPos) /\ UNCHANGED view
  BY DEF showListing
<1>3. Len(statusItems') = Len(list)
  BY <1>1, <1>2, PrintFacts
<1> QED BY <1>2, <1>3 DEF V!Next, V!RelistKeep, view

LEMMA ViewportStep ==
  TypeInv /\ TypeInv' /\ [Next]_vars => [V!Next]_(V!vars)
<1> SUFFICES ASSUME TypeInv, TypeInv', [Next]_vars
             PROVE  V!Next \/ UNCHANGED V!vars
  OBVIOUS
<1>0. TypeOK /\ statusItems \in Seq(Item) /\ (pc \in Browsing => statusItems # <<>>)
  BY DEF TypeInv, TypeOK, Listed
<1>waits. \A p \in {"key", "g", "ask", "run"} : p \in Browsing
  BY DEF Browsing, Waiting
<1>quiet. ASSUME UNCHANGED <<lists, view>> PROVE UNCHANGED V!vars
  BY <1>quiet DEF lists, view, V!vars
<1>totop. ASSUME pc \in Browsing, V!gotoTop, UNCHANGED lists PROVE V!Next
  <2>1. Len(statusItems') = Len(statusItems) /\ Len(statusItems) > 0
    BY <1>0, <1>totop DEF lists
  <2> QED BY <1>totop, <2>1 DEF V!Next, V!Top, V!Move
<1>stutter. CASE UNCHANGED vars
  BY <1>quiet, <1>stutter DEF vars
<1>listing. ASSUME NEW out \in Outputs, ListingDone(out) PROVE V!Next
  <2> DEFINE list == [i \in 1..Len(out) |-> fresh(out[i])]
  <2>1. out \in Seq(Line) /\ out # <<>> /\ showListing(list)
    BY <1>listing, SvnCursesAssumption DEF ListingDone
  <2>2. list \in Seq(Item) /\ Len(list) = Len(out)
    BY <2>1, FreshFacts
  <2>3. Len(list) \in {Len(o) : o \in Outputs \ {<<>>}} \cup {1}
    BY <1>listing, <2>1, <2>2
  <2> QED BY <2>1, <2>2, <2>3, ShowListingRefines
<1>empty. CASE EmptyListing
  <2>1. CASE showListing(<<fresh(Blank)>>)
    <3>1. fresh(Blank) \in Item
      BY SvnCursesAssumption DEF fresh, Item
    <3>2. <<fresh(Blank)>> \in Seq(Item) /\ Len(<<fresh(Blank)>>) = 1
      BY <3>1
    <3> QED BY <2>1, <3>2, ShowListingRefines
  <2> QED BY <1>empty, <1>quiet, <2>1 DEF EmptyListing
<1>move. CASE KeyMove \/ SecondG
  BY <1>move, <1>waits, MoveAndPrintRefines DEF KeyMove, SecondG, toTop
<1>space. CASE KeySpace
  BY <1>space, <1>waits, MoveAndPrintRefines DEF KeySpace
<1>stray. CASE KeySpaceStray
  <2>1. ASSUME NEW item \in StrayItem,
               moveAndPrint(V!moveOneRowDown, toggled(selectedItems, item))
        PROVE  V!Next
    BY <1>stray, <1>waits, <2>1, MoveAndPrintRefines DEF KeySpaceStray
  <2> QED BY <1>stray, <1>quiet, <2>1 DEF KeySpaceStray
<1>status. CASE KeyStatus
  BY <1>status, <1>waits, <1>totop DEF KeyStatus, toTop
<1>again. ASSUME listAgain, pc \in {"ask", "run"}, UNCHANGED lists
          PROVE  V!Next \/ UNCHANGED V!vars
  BY <1>again, <1>waits, <1>totop, <1>quiet DEF listAgain, backToTop, toTop
<1>handler. CASE Refuse \/ RunDone
  BY <1>handler, <1>again, <1>quiet DEF Refuse, RunDone
<1>others. CASE \/ Boot \/ PopenFails \/ KeyQuit \/ KeyG \/ SwallowKey \/ KeyHidden
                \/ KeyAdd \/ KeyRemove \/ KeyUpdate \/ AnswerYes \/ LeaveOutput
                \/ \E keep \in BOOLEAN : AnswerKeep(keep)
  <2>1. CASE Boot \/ PopenFails \/ KeyQuit \/ KeyG \/ SwallowKey \/ KeyHidden
    BY <1>quiet, <2>1 DEF Boot, PopenFails, KeyQuit, KeyG, SwallowKey, goto, KeyHidden
  <2>2. CASE KeyAdd \/ KeyRemove \/ KeyUpdate
    BY <1>quiet, <2>2 DEF KeyAdd, KeyRemove, KeyUpdate, ask
  <2>3. CASE \/ AnswerYes \/ LeaveOutput
             \/ \E keep \in BOOLEAN : AnswerKeep(keep)
    BY <1>quiet, <2>3 DEF AnswerYes, LeaveOutput, AnswerKeep
  <2> QED BY <1>others, <2>1, <2>2, <2>3
<1> QED
  BY <1>stutter, <1>listing, <1>empty, <1>move, <1>space, <1>stray, <1>status,
     <1>handler, <1>others, NextActions DEF Terminated

(***************************************************************************)
(* The program implements Viewport, for every terminal and every set of    *)
(* listings.                                                               *)
(***************************************************************************)
THEOREM ImplementsViewport == Spec => ViewMovesAsViewport
<1>1. Init => V!Init
  BY DEF Init, V!Init
<1> QED BY <1>1, Invariance, ViewportStep, PTL DEF Spec, V!Spec, ViewMovesAsViewport
=============================================================================
