---------------------------- MODULE ScreenProofs -----------------------------
(***************************************************************************)
(* Proofs about what SvnCurses shows on the terminal.                      *)
(*                                                                         *)
(* ScreenShowsState needs no invariant of its own beside SafeInv: the pad  *)
(* is drawn anew in every step that changes the list, the selection or the *)
(* positions and then waits for a key, and the rest of a handler leaves    *)
(* all of them alone until "svn st" runs.                                  *)
(***************************************************************************)
EXTENDS SvnCursesProofs

\* The fields of a pad line that shows an entry.
LEMMA RowFacts ==
  ASSUME NEW list, NEW sel, NEW cur, NEW pos, NEW i
  PROVE  LET row == printStatusWithColor(list, sel, cur, pos, i)
         IN  /\ row.item = At(padded(list, pos), i)
             /\ row.selected = isItemSelected(list, sel, i)
             /\ row.cursor = (i = cur)
BY DEF printStatusWithColor

\* A selected entry is drawn as selected and no other is, although selection
\* is looked up before the entry is padded: what is selected was padded
\* before.  An entry with the same text may be drawn for it.
LEMMA MarkedFacts ==
  ASSUME NEW list \in Seq(Item), NEW pos \in Nat, NEW i \in pos..(Len(list) - 1),
         NEW sel, \A item \in sel : item.size = maxX /\ item \in Range(list)
  PROVE  LET shownItem == At(padded(list, pos), i)
             only == \A j \in 0..(Len(list) - 1) :
                       At(padded(list, pos), j).line = shownItem.line => j = i
         IN  /\ isItemSelected(list, sel, i) => shownItem \in sel
             /\ shownItem \in sel /\ only => isItemSelected(list, sel, i)
<1> DEFINE shownItem == At(padded(list, pos), i)
<1>1. i + 1 \in 1..Len(list) /\ i \in Nat
  OBVIOUS
<1>2. /\ At(list, i) \in Item /\ shownItem \in Item
      /\ shownItem.line = At(list, i).line /\ shownItem.size = maxX
  BY <1>1, PaddedFacts DEF At
<1>3. ASSUME At(list, i) \in sel PROVE shownItem \in sel
  BY <1>2, <1>3, ItemEquality
<1>4. ASSUME shownItem \in sel,
             \A j \in 0..(Len(list) - 1) :
               At(padded(list, pos), j).line = shownItem.line => j = i
      PROVE  At(list, i) \in sel
  <2>1. PICK k \in 1..Len(list) : list[k] = shownItem
    BY <1>4 DEF Range
  <2>2. k - 1 \in 0..(Len(list) - 1) /\ (k - 1) + 1 = k
    BY <2>1
  <2>3. At(padded(list, pos), k - 1).line = shownItem.line
    BY <2>1, <2>2, PaddedFacts DEF At
  <2>4. k = i + 1
    BY <1>1, <1>4, <2>2, <2>3
  <2> QED BY <1>4, <2>1, <2>4 DEF At
<1> QED BY <1>3, <1>4 DEF isItemSelected

\* What printAllStatus and prefresh leave on the terminal is the new state.
LEMMA DrawnShows ==
  ASSUME NEW list \in Seq(Item), NEW sel, padPos' \in Nat,
         \A item \in sel : item.size = maxX /\ item \in Range(list),
         statusItems' = padded(list, padPos'), selectedItems' = sel,
         screen' = drawn(list, sel, cursorPosition', padPos')
  PROVE  ScreenShowsState'
<1>1. Len(statusItems') = Len(list)
  BY PaddedFacts
<1>2. DOMAIN screen' = 0..(V!rows - 1)
  BY DEF drawn
<1>3. ASSUME NEW r \in DOMAIN screen'
      PROVE  IF padPos' + r < Len(statusItems')
             THEN /\ screen'[r].item = At(statusItems', padPos' + r)
                  /\ screen'[r].cursor <=> padPos' + r = cursorPosition'
                  /\ screen'[r].selected => screen'[r].item \in selectedItems'
                  /\ screen'[r].item \in selectedItems' /\ unique(padPos + r)' =>
                       screen'[r].selected
             ELSE screen'[r] = NoRow
  <2> DEFINE i == padPos' + r
  <2>1. r \in Nat /\ i \in Nat
    BY <1>2, <1>3, SvnCursesAssumption DEF V!rows
  <2>2. CASE i < Len(list)
    <3>1. i \in padPos'..(Len(list) - 1)
      BY <2>1, <2>2
    <3>2. screen'[r] = printStatusWithColor(list, sel, cursorPosition', padPos', i)
      BY <1>2, <1>3, <2>2 DEF drawn
    <3> HIDE DEF i
    <3>3. /\ screen'[r].item = At(statusItems', i)
          /\ screen'[r].selected = isItemSelected(list, sel, i)
          /\ screen'[r].cursor = (i = cursorPosition')
      BY <3>2, RowFacts
    <3>4. unique(padPos + r)' =
            \A j \in 0..(Len(list) - 1) :
              At(statusItems', j).line = At(statusItems', i).line => j = i
      BY <1>1 DEF unique, At, i
    <3>5. /\ screen'[r].selected => screen'[r].item \in selectedItems'
          /\ screen'[r].item \in selectedItems' /\ unique(padPos + r)' =>
               screen'[r].selected
      <4> DEFINE only == \A j \in 0..(Len(list) - 1) :
                           At(statusItems', j).line = At(statusItems', i).line => j = i
      <4>1. /\ isItemSelected(list, sel, i) => At(statusItems', i) \in sel
            /\ At(statusItems', i) \in sel /\ only => isItemSelected(list, sel, i)
        BY <3>1, MarkedFacts
      <4> QED BY <3>3, <3>4, <4>1
    <3> QED BY <1>1, <2>2, <3>3, <3>5 DEF i
  <2>3. CASE ~(i < Len(list))
    BY <1>1, <1>2, <1>3, <2>3 DEF drawn
  <2> QED BY <2>2, <2>3
<1> QED BY <1>3 DEF ScreenShowsState, unique, At

-----------------------------------------------------------------------------
\* A movement and the printing that follows it.
LEMMA MoveShows ==
  ASSUME TypeInv, TypeInv', NEW sel, NEW movement, moveAndPrint(movement, sel),
         ~undefined' => \A item \in sel : item.size = maxX /\ item \in Range(statusItems)
  PROVE  ScreenShowsState'
<1>1. /\ statusItems \in Seq(Item) /\ padPos' \in Nat
      /\ printAllStatus(statusItems, sel, cursorPosition', padPos')
      /\ selectedItems' = sel
  BY DEF moveAndPrint, TypeInv, TypeOK
<1>2. CASE printThrows(statusItems, sel, padPos') \/ undefined'
  BY <1>1, <1>2 DEF printAllStatus, ScreenShowsState, Browsing, Waiting
<1>3. CASE ~printThrows(statusItems, sel, padPos') /\ ~undefined'
  <2>1. /\ statusItems' = padded(statusItems, padPos')
        /\ screen' = drawn(statusItems, sel, cursorPosition', padPos')
    BY <1>1, <1>3 DEF printAllStatus, prefresh
  <2> QED BY <1>1, <1>3, <2>1, DrawnShows
<1> QED BY <1>2, <1>3

\* A listing and the printing that follows it: nothing is selected.
LEMMA ListingShows ==
  ASSUME TypeInv, TypeInv', SafeInv, pc = "st", NEW list \in Seq(Item),
         showListing(list)
  PROVE  ScreenShowsState'
<1>1. /\ printAllStatus(list, selectedItems, cursorPosition, padPos)
      /\ UNCHANGED <<selectedItems, cursorPosition, padPos>>
      /\ selectedItems = {} /\ padPos' \in Nat
  BY DEF showListing, view, SafeInv, SelectionPadded, TypeInv, TypeOK
<1>2. CASE printThrows(list, selectedItems, padPos)
  BY <1>1, <1>2 DEF printAllStatus, ScreenShowsState, Browsing, Waiting
<1>3. CASE ~printThrows(list, selectedItems, padPos)
  <2>1. /\ statusItems' = padded(list, padPos')
        /\ screen' = drawn(list, selectedItems, cursorPosition', padPos')
    BY <1>1, <1>3 DEF printAllStatus, prefresh
  <2> QED BY <1>1, <2>1, DrawnShows
<1> QED BY <1>2, <1>3

LEMMA ScreenStep ==
  TypeInv /\ TypeInv' /\ SafeInv /\ ScreenShowsState /\ [Next]_vars
    => ScreenShowsState'
<1> SUFFICES ASSUME TypeInv, TypeInv', SafeInv, ScreenShowsState, [Next]_vars
             PROVE  ScreenShowsState'
  OBVIOUS
<1>0. TypeOK
  BY DEF TypeInv
<1>waits. \A p \in {"key", "g", "ask", "keep", "run", "show"} : p \in Browsing
  BY DEF Browsing, Waiting
<1>quiet. ASSUME pc \in Browsing,
                 UNCHANGED <<lists, selectedItems, view, shown, history>>
          PROVE  ScreenShowsState'
  BY <1>quiet DEF ScreenShowsState, unique, At, lists, view, shown, history
<1>dark. ASSUME pc' \in Ended \cup {"st"} PROVE ScreenShowsState'
  BY <1>dark DEF ScreenShowsState, Browsing, Waiting, Ended
<1>stutter. CASE UNCHANGED vars
  BY <1>stutter DEF vars, lists, view, shown, history, ScreenShowsState, unique, At
<1>listing. ASSUME NEW out \in Outputs, ListingDone(out) PROVE ScreenShowsState'
  <2> DEFINE list == [i \in 1..Len(out) |-> fresh(out[i])]
  <2>1. out \in Seq(Line) /\ pc = "st" /\ showListing(list)
    BY <1>listing, SvnCursesAssumption DEF ListingDone
  <2>2. list \in Seq(Item)
    BY <2>1, FreshFacts
  <2> QED BY <2>1, <2>2, ListingShows
<1>empty. CASE EmptyListing
  <2>1. CASE showListing(<<fresh(Blank)>>)
    <3>1. fresh(Blank) \in Item
      BY SvnCursesAssumption DEF fresh, Item
    <3>2. <<fresh(Blank)>> \in Seq(Item) /\ pc = "st"
      BY <1>empty, <3>1 DEF EmptyListing
    <3> QED BY <2>1, <3>2, ListingShows
  <2>2. CASE pc' = "killed"
    BY <1>dark, <2>2 DEF Ended
  <2> QED BY <1>empty, <2>1, <2>2 DEF EmptyListing
<1>sel. ~undefined /\ pc \in {"key", "g"} =>
          \A item \in selectedItems : item.size = maxX /\ item \in Range(statusItems)
  BY DEF SafeInv, SelectionPadded, Waiting
<1>move. CASE KeyMove \/ SecondG
  <2>1. undefined' = undefined /\ pc \in {"key", "g"}
    BY <1>move DEF KeyMove, SecondG
  <2> QED BY <1>move, <1>sel, <2>1, MoveShows DEF KeyMove, SecondG
<1>space. CASE KeySpace
  <2> DEFINE item == At(statusItems, cursorPosition)
             sel  == toggled(selectedItems, item)
  <2>1. /\ pc = "key" /\ pc \in Browsing /\ undefined' = undefined
        /\ cursorPosition < Len(statusItems) /\ moveAndPrint(V!moveOneRowDown, sel)
    BY <1>space, <1>waits DEF KeySpace
  <2>2. /\ cursorPosition + 1 \in 1..Len(statusItems)
        /\ cursorPosition \in padPos..(Len(statusItems) - 1)
    BY <1>0, <2>1 DEF SafeInv, PadUnderCursor, TypeOK
  <2>3. item \in Range(statusItems)
    BY <1>0, <2>2 DEF At, Range, TypeOK
  <2>4. item.size = maxX
    BY <2>1, <2>2 DEF SafeInv, PrintedItemsFit
  <2>5. ~undefined' => \A x \in sel : x.size = maxX /\ x \in Range(statusItems)
    BY <1>sel, <2>1, <2>3, <2>4 DEF toggled
  <2> QED BY <2>1, <2>5, MoveShows
<1>stray. CASE KeySpaceStray
  BY <1>stray DEF KeySpaceStray, ScreenShowsState
<1>handler. CASE KeyG \/ SwallowKey \/ KeyHidden \/ AnswerYes
                 \/ \E keep \in BOOLEAN : AnswerKeep(keep)
  BY <1>handler, <1>quiet, <1>waits
     DEF KeyG, SwallowKey, goto, KeyHidden, AnswerYes, AnswerKeep
<1>ask. CASE KeyAdd \/ KeyRemove \/ KeyUpdate
  BY <1>ask, <1>quiet, <1>waits DEF KeyAdd, KeyRemove, KeyUpdate, ask
<1>run. CASE Refuse \/ RunDone
  <2>1. CASE listAgain
    BY <1>dark, <2>1 DEF listAgain, refreshStatusItems
  <2>2. CASE UNCHANGED <<selectedItems, view>>
    BY <1>quiet, <1>run, <1>waits, <2>2 DEF Refuse, RunDone
  <2> QED BY <1>run, <2>1, <2>2 DEF Refuse, RunDone
<1>end. CASE Boot \/ PopenFails \/ KeyQuit \/ KeyStatus \/ LeaveOutput
  <2>1. pc' \in {"st", "nopad", "failed", "exited"}
    BY <1>end DEF Boot, PopenFails, KeyQuit, KeyStatus, LeaveOutput,
                  refreshStatusItems
  <2> QED BY <1>dark, <2>1 DEF Ended
<1> QED
  BY <1>stutter, <1>listing, <1>empty, <1>move, <1>space, <1>stray, <1>handler,
     <1>ask, <1>run, <1>end, NextActions DEF Terminated

(***************************************************************************)
(* On every terminal and for every list, the pad shows the program's state *)
(* whenever a key is awaited: each entry on its line, the cursor on its    *)
(* own and no other, and the selected entries marked.                      *)
(***************************************************************************)
THEOREM ScreenIsTrue == Spec => []ScreenShowsState
<1>1. Init => ScreenShowsState
  BY DEF Init, ScreenShowsState, Browsing, Waiting
<1> QED BY <1>1, ScreenStep, Invariance, PTL DEF Spec
=============================================================================
