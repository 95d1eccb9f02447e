----------------------------- MODULE SvnCurses ------------------------------
(***************************************************************************)
(* The program svn_curses: main, keyEvent and what they call in            *)
(* svn_curses.cpp, over the globals of class State (state.h, state.cpp).   *)
(*                                                                         *)
(* The program is one thread that waits either for a key (getch, with a    *)
(* timeout) or for an svn process (exec).  pc names the wait; everything   *)
(* it does between two waits is one action.  The user presses any key or   *)
(* none, and "svn st" prints any listing in Outputs, so that other         *)
(* processes may change the working copy at any time.                      *)
(*                                                                         *)
(* Definitions marked "Fault" are wrong variants of the one that follows.  *)
(***************************************************************************)
EXTENDS Integers, Sequences

CONSTANTS
  maxY, maxX,        \* State::maxY, State::maxX: the terminal, read once
  bottomWindowSize,  \* lines of the message window
  SizeMod,           \* size_t is arithmetic modulo SizeMod (2^64)
  Line,              \* texts of the lines "svn st" may print
  Blank,             \* the empty text
  LineSize,          \* number of characters of each text
  Words,             \* arguments the shell makes of a text from column 7 on
  Outputs,           \* what "svn st" may print: sequences of lines
  StrayItem          \* strings that a read past the end of the list may give

ASSUME SvnCursesAssumption ==
  /\ maxY \in Nat /\ maxX \in Nat /\ bottomWindowSize \in Nat \ {0}
  /\ SizeMod \in Nat
  /\ Blank \in Line /\ LineSize \in [Line -> Nat] /\ LineSize[Blank] = 0
  /\ Outputs \subseteq Seq(Line)
  /\ StrayItem \subseteq [line : Line, size : Nat]

VARIABLES
  pc,              \* what the program waits for, or how it ended
  handler,         \* locals of keyEvent while it handles 's', 'a', 'r', 'u'
  statusItems,     \* State::statusItems
  allStatusItems,  \* State::allStatusItems: the listing as it was split
  selectedItems,   \* State::selectedItems
  cursorPosition,  \* State::cursorPosition
  padPos,          \* State::padPos
  modes,           \* State::add, State::hidden, State::rm
  delay,           \* argument of the last call of timeout()
  screen,          \* what the terminal shows of the pad
  bold,            \* attribute A_BOLD of the pad
  win,             \* texts the message window shows
  curses,          \* initscr called and endwin not yet
  undefined,       \* history: the program has left defined behaviour
  shrunk           \* history: a listing was empty, or shorter than the one
                   \* before it while the cursor was kept

lists    == <<statusItems, allStatusItems>>
view     == <<cursorPosition, padPos>>
settings == <<modes, delay>>
shown    == <<screen, bold>>
history  == <<undefined, shrunk>>
vars == <<pc, handler, lists, selectedItems, view, settings, shown, win,
          curses, history>>

-----------------------------------------------------------------------------
\* A status item is a string.  Printing pads it with blanks in place, so it
\* is a text and a current length; items with the same of both are equal.
Item == [line : Line, size : Nat]

Waiting == {"st", "key", "g", "ask", "keep", "run", "show"}
Ended   == {"exited", "nopad", "failed", "killed"}
Ops     == {"none", "s", "a", "r", "u"}
Modes   == {"ADD", "HIDDEN", "RM"}

\* items: the selection when the key came; agreed (history): the question
\* was answered 'y'; ran: exec of the handler's svn command has returned.
Handler == [op : Ops, items : SUBSET Item, keepLocal : BOOLEAN,
            agreed : BOOLEAN, ran : BOOLEAN]
NoHandler == [op |-> "none", items |-> {}, keepLocal |-> FALSE,
              agreed |-> FALSE, ran |-> FALSE]

\* The question each handler asks; 'r' asks a second one.
Question == [a |-> "Add selected items?", r |-> "Delete selected items?",
             u |-> "Bring changes from the repository?"]
KeepQuestion == "Keep local files?"
Questions == {Question.a, Question.r, Question.u, KeepQuestion}
Busy == "..."

\* A line of the pad; NoRow is one below the last entry.
Row == [item : Item, selected : BOOLEAN, cursor : BOOLEAN, bold : BOOLEAN]
NoRow == [item |-> [line |-> Blank, size |-> 0], selected |-> FALSE,
          cursor |-> FALSE, bold |-> FALSE]

Range(s) == {s[i] : i \in DOMAIN s}

\* Entries are counted from 0.
At(s, i) == s[i + 1]

V == INSTANCE Viewport WITH
       size <- Len(statusItems),
       Sizes <- {Len(out) : out \in Outputs \ {<<>>}} \cup {1}

-----------------------------------------------------------------------------
\* find(selectedItems, statusItems[i]), before the item is padded.
isItemSelected(list, sel, i) == At(list, i) \in sel

\* append(padSize, ' ') with a negative padSize throws length_error;
\* insert(8, " ") on a string shorter than 8 throws out_of_range.
printThrows(list, sel, pos) ==
  \E i \in pos..(Len(list) - 1) :
    At(list, i).size > maxX \/ (isItemSelected(list, sel, i) /\ maxX < 8)

\* Fault: pads only the items that fit on the pad.
paddedOnPad(list, pos) ==
  [i \in 1..Len(list) |-> IF i \in (pos + 1)..(pos + V!rows)
                          THEN [list[i] EXCEPT !.size = maxX] ELSE list[i]]

\* Every item from padPos on is padded to maxX in place, also the ones that
\* do not fit on the pad.
padded(list, pos) ==
  [i \in 1..Len(list) |-> IF i > pos THEN [list[i] EXCEPT !.size = maxX]
                                     ELSE list[i]]

\* A_BOLD is switched on for a selected item that is not under the cursor
\* and never switched off: it stays on for every later item and drawing.
boldAfter(list, sel, cur, pos, i) ==
  bold \/ \E j \in pos..i : j # cur /\ isItemSelected(list, sel, j)

\* Entry i on the pad.  A selected item is shifted by one column and has its
\* own colour; the item under the cursor is inverted.
printStatusWithColor(list, sel, cur, pos, i) ==
  [item     |-> At(padded(list, pos), i),
   selected |-> isItemSelected(list, sel, i),
   cursor   |-> i = cur,
   bold     |-> boldAfter(list, sel, cur, pos, i)]

drawn(list, sel, cur, pos) ==
  [r \in 0..(V!rows - 1) |->
     IF pos + r < Len(list)
     THEN printStatusWithColor(list, sel, cur, pos, pos + r) ELSE NoRow]

\* Fault: prefresh is forgotten.
noPrefresh(pad) == UNCHANGED screen
prefresh(pad) == screen' = pad

\* Fault: endwin is forgotten.
noEndwin == UNCHANGED curses
endwin == curses' = FALSE

\* printAllStatus and prefresh, then back to the main loop; an exception
\* goes to the handler in main, which calls endwin and returns 1.
printAllStatus(list, sel, cur, pos) ==
  IF printThrows(list, sel, pos)
  THEN /\ statusItems' = list
       /\ pc' = "failed" /\ endwin
       /\ UNCHANGED shown
  ELSE /\ statusItems' = padded(list, pos)
       /\ prefresh(drawn(list, sel, cur, pos))
       /\ bold' = boldAfter(list, sel, cur, pos, Len(list) - 1)
       /\ pc' = "key"
       /\ UNCHANGED curses

\* mvwprintw in the message window: nothing outside the window.
mvwprintw(w, y, text) == IF y < bottomWindowSize THEN w \cup {text} ELSE w

\* Fault: the message window is not cleared.
noWclear == UNCHANGED win
wclear == win' = {}

\* Fault: getch is left to block.
noTimeout(ms) == UNCHANGED delay
timeout(ms) == delay' = ms

-----------------------------------------------------------------------------
(***************************************************************************)
(* Start and listing.                                                      *)
(***************************************************************************)
Init ==
  /\ pc = "boot" /\ handler = NoHandler
  /\ statusItems = <<>> /\ allStatusItems = <<>> /\ selectedItems = {}
  /\ cursorPosition = 0 /\ padPos = 0
  /\ modes = [m \in Modes |-> FALSE] /\ delay = -1
  /\ screen = [r \in 0..(V!rows - 1) |-> NoRow] /\ bold = FALSE
  /\ win = {} /\ curses = FALSE
  /\ undefined = FALSE /\ shrunk = FALSE

\* refreshStatusItems up to its call of exec("svn st"); w is what the message
\* window holds when it is called.
refreshStatusItems(w) ==
  /\ selectedItems' = {}
  /\ win' = mvwprintw(w, maxY - 1, Busy)
  /\ pc' = "st"

\* main up to the first listing.  newpad fails without a line for the pad.
Boot ==
  /\ pc = "boot"
  /\ timeout(1000)
  /\ IF V!rows > 0
     THEN refreshStatusItems({}) /\ curses' = TRUE
     ELSE pc' = "nopad" /\ endwin /\ UNCHANGED <<selectedItems, win>>
  /\ UNCHANGED <<handler, lists, view, modes, shown, history>>

\* Fault: the last character of every line is dropped, not of the output.
freshChopped(l) == [line |-> l, size |-> LineSize[l] - 1]

\* A freshly split item.
fresh(l) == [line |-> l, size |-> LineSize[l]]

\* refreshStatusItems from split on, and the rest of the handler that called
\* it.  'a' then clears the message window.
showListing(list) ==
  /\ allStatusItems' = list
  /\ printAllStatus(list, selectedItems, cursorPosition, padPos)
  /\ win' = IF pc' = "key" /\ handler.op = "a" THEN {} ELSE win \ {Busy}
  /\ handler' = NoHandler
  /\ UNCHANGED <<selectedItems, view, settings>>

\* exec("svn st") returns a listing.
ListingDone(out) ==
  /\ pc = "st"
  /\ out # <<>>
  /\ shrunk' = (shrunk \/ /\ handler.op \in {"a", "u"}
                          /\ Len(out) < Len(statusItems))
  /\ showListing([i \in 1..Len(out) |-> fresh(out[i])])
  /\ UNCHANGED undefined

\* exec("svn st") returns the empty string, and pop_back on it is undefined:
\* with libstdc++ the string gets a length close to SizeMod and split runs
\* off the memory; with libc++ it stays empty and is split into one item.
EmptyListing ==
  /\ pc = "st"
  /\ <<>> \in Outputs
  /\ undefined' = TRUE /\ shrunk' = TRUE
  /\ \/ showListing(<<fresh(Blank)>>)
     \/ /\ pc' = "killed"
        /\ UNCHANGED <<handler, lists, selectedItems, view, settings, shown,
                       win, curses>>

\* popen fails: exec throws, main calls endwin and returns 1.
PopenFails ==
  /\ pc \in {"st", "run"}
  /\ pc' = "failed" /\ endwin
  /\ UNCHANGED <<handler, lists, selectedItems, view, settings, shown, win,
                 history>>

-----------------------------------------------------------------------------
(***************************************************************************)
(* Keys of the main loop.  Any other key, and getch's timeout, return to   *)
(* the loop without a change.                                              *)
(***************************************************************************)
KeyQuit ==
  /\ pc = "key"
  /\ pc' = "exited" /\ endwin
  /\ UNCHANGED <<handler, lists, selectedItems, view, settings, shown, win,
                 history>>

\* A movement followed by printAllStatus.
moveAndPrint(movement, sel) ==
  /\ movement
  /\ selectedItems' = sel
  /\ printAllStatus(statusItems, sel, cursorPosition', padPos')
  /\ UNCHANGED <<handler, allStatusItems, settings, win, shrunk>>

KeyMove ==
  /\ pc = "key"
  /\ \/ moveAndPrint(V!moveOneRowDown, selectedItems)
     \/ moveAndPrint(V!moveOneRowUp, selectedItems)
     \/ moveAndPrint(V!gotoBottom, selectedItems)
  /\ UNCHANGED undefined

goto(next) ==
  /\ pc' = next
  /\ UNCHANGED <<handler, lists, selectedItems, view, settings, shown, win,
                 curses, history>>

\* Fault: the cursor goes to the top and the pad stays scrolled.
toTopScrolled == cursorPosition' = 0 /\ UNCHANGED padPos
toTop == V!gotoTop

\* 'g' waits for one more key; any other than 'g' is swallowed.
KeyG == pc = "key" /\ goto("g")
SecondG ==
  /\ pc = "g"
  /\ moveAndPrint(toTop, selectedItems)
  /\ UNCHANGED undefined
\* Fault: waits until the second 'g' comes.
SwallowAll == pc = "g" /\ goto("g")
SwallowKey == pc = "g" /\ goto("key")

\* Fault: the item is taken from allStatusItems, where it is not padded.
toggledRaw(sel, item) ==
  IF item \in sel THEN sel \ {item} ELSE sel \cup {fresh(item.line)}

\* find, then erase(remove(...)) or push_back.
toggled(sel, item) == IF item \in sel THEN sel \ {item} ELSE sel \cup {item}

KeySpace ==
  /\ pc = "key"
  /\ cursorPosition < Len(statusItems)
  /\ moveAndPrint(V!moveOneRowDown,
                  toggled(selectedItems, At(statusItems, cursorPosition)))
  /\ UNCHANGED undefined

\* statusItems[cursorPosition] past the end of the vector: some string is
\* read and toggled, or the process dies, or an exception ends it.
KeySpaceStray ==
  /\ pc = "key"
  /\ cursorPosition >= Len(statusItems)
  /\ undefined' = TRUE
  /\ \/ \E item \in StrayItem :
          moveAndPrint(V!moveOneRowDown, toggled(selectedItems, item))
     \/ /\ \/ pc' = "killed" /\ UNCHANGED curses
           \/ pc' = "failed" /\ endwin
        /\ UNCHANGED <<handler, lists, selectedItems, view, settings, shown,
                       win, shrunk>>

toggleMode(m) == modes' = [modes EXCEPT ![m] = ~@]
getMode(ms, m) == ms[m]

KeyHidden ==
  /\ pc = "key"
  /\ toggleMode("HIDDEN")
  /\ win' = {IF getMode(modes', "HIDDEN") THEN "HIDDEN = true" ELSE "HIDDEN = false"}
  /\ UNCHANGED <<pc, handler, lists, selectedItems, view, delay, shown, curses,
                 history>>

KeyStatus ==
  /\ pc = "key"
  /\ toTop
  /\ refreshStatusItems(win)
  /\ handler' = [NoHandler EXCEPT !.op = "s"]
  /\ UNCHANGED <<lists, settings, shown, curses, history>>

-----------------------------------------------------------------------------
(***************************************************************************)
(* Keys 'a', 'r' and 'u': ask, run svn, list again.                        *)
(***************************************************************************)
\* The last line of the message window, where the questions are asked.
questionLine == bottomWindowSize - 1

ask(key, its, w, ms) ==
  /\ pc = "key"
  /\ pc' = "ask"
  /\ handler' = [NoHandler EXCEPT !.op = key, !.items = its]
  /\ win' = mvwprintw(w, questionLine, Question[key])
  /\ timeout(ms)
  /\ UNCHANGED <<lists, selectedItems, view, modes, shown, curses, history>>

KeyAdd    == ask("a", selectedItems, {}, 12000)
KeyRemove == ask("r", selectedItems, {}, 12000)
\* 'u' writes its question over what the window shows.
KeyUpdate == ask("u", {}, win, 8000)

AnswerYes ==
  /\ pc = "ask"
  /\ handler' = [handler EXCEPT !.agreed = TRUE]
  /\ \/ /\ handler.op = "r"
        /\ pc' = "keep"
        /\ win' = mvwprintw({}, questionLine, KeepQuestion)
     \/ handler.op # "r" /\ pc' = "run" /\ wclear
  /\ UNCHANGED <<lists, selectedItems, view, settings, shown, curses, history>>

AnswerKeep(keep) ==
  /\ pc = "keep"
  /\ pc' = "run" /\ wclear
  /\ handler' = [handler EXCEPT !.keepLocal = keep]
  /\ UNCHANGED <<lists, selectedItems, view, settings, shown, curses, history>>

\* Fault: 'r' keeps the cursor as 'a' does.
neverBackToTop == UNCHANGED view
backToTop == IF handler.op = "r" THEN toTop ELSE UNCHANGED view

\* Fault: the list is left as it is.
listNothing ==
  /\ handler.op \in {"a", "r"}
  /\ backToTop
  /\ pc' = "key" /\ selectedItems' = {} /\ win' = {}

\* What follows svn add and svn rm, and their question when it is not
\* answered by 'y'.  'r' clears the message window first.
listAgain ==
  /\ handler.op \in {"a", "r"}
  /\ backToTop
  /\ refreshStatusItems(IF handler.op = "r" THEN {} ELSE win)

\* Fault: any answer runs the command.
RefuseRuns == pc = "ask" /\ goto("run")

\* Fault: the question is asked until it is answered by 'y'.
AskAgain == pc = "ask" /\ goto("ask")

Refuse ==
  /\ pc = "ask"
  /\ \/ listAgain /\ UNCHANGED handler
     \/ /\ handler.op = "u"
        /\ pc' = "key" /\ wclear /\ handler' = NoHandler
        /\ UNCHANGED <<selectedItems, view>>
  /\ UNCHANGED <<lists, settings, shown, curses, history>>

\* The command line: columns 0 to 6 of every item are cut off, the rest is
\* joined with blanks and split into words by the shell.
targets(its) == UNION {Words[item.line] : item \in its}

\* exec of svn add, svn rm or svn up returns.
RunDone ==
  /\ pc = "run"
  /\ handler' = [handler EXCEPT !.ran = TRUE]
  /\ \/ listAgain
     \/ /\ handler.op = "u"
        /\ pc' = "show" /\ win' = {"output of svn up"}
        /\ UNCHANGED <<selectedItems, view>>
  /\ UNCHANGED <<lists, settings, shown, curses, history>>

\* The getch that keeps the output of svn up on the screen returns.
LeaveOutput ==
  /\ pc = "show"
  /\ refreshStatusItems(win)
  /\ UNCHANGED <<handler, lists, view, settings, shown, curses, history>>

-----------------------------------------------------------------------------
Terminated == pc \in Ended /\ UNCHANGED vars

SvnReturns ==
  \/ \E out \in Outputs : ListingDone(out)
  \/ EmptyListing
  \/ RunDone

User ==
  \/ KeyQuit \/ KeyMove \/ KeyG \/ SecondG \/ SwallowKey
  \/ KeySpace \/ KeySpaceStray \/ KeyHidden \/ KeyStatus
  \/ KeyAdd \/ KeyRemove \/ KeyUpdate
  \/ AnswerYes \/ Refuse \/ LeaveOutput
  \/ \E keep \in BOOLEAN : AnswerKeep(keep)

\* getch returns ERR when no key came in time.
Timeout ==
  /\ delay >= 0
  /\ SwallowKey \/ Refuse \/ AnswerKeep(FALSE) \/ LeaveOutput

Next == Boot \/ SvnReturns \/ PopenFails \/ User \/ Timeout \/ Terminated

Spec == Init /\ [][Next]_vars

\* The program does not stop between two waits, getch returns after its
\* timeout, and svn processes end.  The user owes nothing.
Fairness == WF_vars(Boot) /\ WF_vars(SvnReturns) /\ WF_vars(Timeout)

FairSpec == Spec /\ Fairness
-----------------------------------------------------------------------------
TypeOK ==
  /\ pc \in Waiting \cup Ended \cup {"boot"}
  /\ handler \in Handler
  /\ statusItems \in Seq(Item) /\ allStatusItems \in Seq(Item)
  /\ selectedItems \subseteq Item
  /\ cursorPosition \in Nat /\ padPos \in Nat
  /\ modes \in [Modes -> BOOLEAN] /\ delay \in Int
  /\ screen \in [0..(V!rows - 1) -> Row] /\ bold \in BOOLEAN
  /\ curses \in BOOLEAN /\ undefined \in BOOLEAN /\ shrunk \in BOOLEAN

\* Waits during which the list is the one that was last printed.
Browsing == Waiting \ {"st"}

(***************************************************************************)
(* While a list is on the screen, every item from the first pad line to    *)
(* the end of the list, on the pad or below it, is exactly one terminal    *)
(* line wide: printAllStatus pads them in place after every movement and   *)
(* every refresh, also when a refresh keeps a scrolled pad and leaves the  *)
(* items above it as svn printed them.                                     *)
(***************************************************************************)
PrintedItemsFit ==
  pc \in Browsing =>
    \A i \in padPos..(Len(statusItems) - 1) : At(statusItems, i).size = maxX

(***************************************************************************)
(* As long as behaviour is defined, every selected item is an entry of the *)
(* current list, as a string: selection compares padded strings, padding   *)
(* changes statusItems in place and refreshes replace it, yet no selected  *)
(* item is ever left behind by either, so ' ' on it always finds it again  *)
(* and 'a' and 'r' only name entries of the list.                          *)
(***************************************************************************)
SelectionIsListed ==
  pc \in Waiting /\ ~undefined => selectedItems \subseteq Range(statusItems)

\* No other entry has the text of entry i.
unique(i) ==
  \A j \in 0..(Len(statusItems) - 1) :
    At(statusItems, j).line = At(statusItems, i).line => j = i

(***************************************************************************)
(* Whenever a key is awaited the pad on the terminal shows the program's   *)
(* state: line r is entry padPos + r, the line under the cursor and no     *)
(* other is inverted, every line marked as selected is selected, and every *)
(* selected entry is marked unless another entry has the same text (such   *)
(* an entry is compared before it is padded, and printed unmarked when it  *)
(* scrolls into the pad for the first time).                               *)
(***************************************************************************)
ScreenShowsState ==
  pc \in Browsing /\ ~undefined =>
    \A r \in DOMAIN screen :
      IF padPos + r < Len(statusItems)
      THEN /\ screen[r].item = At(statusItems, padPos + r)
           /\ screen[r].cursor <=> padPos + r = cursorPosition
           /\ screen[r].selected => screen[r].item \in selectedItems
           /\ screen[r].item \in selectedItems /\ unique(padPos + r) =>
                screen[r].selected
      ELSE screen[r] = NoRow

(***************************************************************************)
(* The program leaves defined behaviour (pop_back on an empty string, a    *)
(* read of statusItems past its end) only after "svn st" has printed       *)
(* nothing, or fewer lines than before when 'a' or 'u' kept the cursor.    *)
(***************************************************************************)
UndefinedOnlyAfterShrink == undefined => shrunk

(***************************************************************************)
(* The message window asks a question exactly while keyEvent waits for its *)
(* answer ('a' leaves a refused question there until the list is back),    *)
(* never shows two, and never shows the "..." that refreshStatusItems      *)
(* writes to line maxY - 1, which is outside the window.                   *)
(***************************************************************************)
MessageWindow ==
  /\ Busy \notin win
  /\ pc \in Browsing =>
       win \cap Questions = CASE pc = "ask"  -> {Question[handler.op]}
                              [] pc = "keep" -> {KeepQuestion}
                              [] OTHER       -> {}

(***************************************************************************)
(* Curses mode ends on every way out of main: quit, no pad, and exceptions *)
(* from printing or popen in any handler.  Only a killed process leaves    *)
(* the terminal in curses mode.                                            *)
(***************************************************************************)
TerminalRestored == curses <=> pc \in Waiting \cup {"killed"}

(***************************************************************************)
(* Every wait other than the main loop's comes to an end, even if the user *)
(* answers nothing: getch has a timeout in every question, and every       *)
(* handler leads back to the main loop or ends the program.                *)
(***************************************************************************)
AlwaysBackToKeys == pc # "key" ~> pc \in {"key"} \cup Ended

\* The arguments of the handler's command, the command the user is asked
\* about or has agreed to, and the one that has run.
arguments == IF handler.op = "u" THEN {} ELSE targets(handler.items)
request ==
  IF pc \in {"ask", "keep", "run"} THEN [op |-> handler.op, targets |-> arguments]
                                   ELSE [op |-> "none", targets |-> {}]
sent ==
  IF handler.ran
  THEN [op |-> handler.op, keep |-> handler.keepLocal, targets |-> arguments]
  ELSE [op |-> "none", keep |-> FALSE, targets |-> {}]

CC == INSTANCE ChangeControl WITH
        marked <- selectedItems, agreed <- handler.agreed

(***************************************************************************)
(* The program implements ChangeControl: 'a' and 'r' hand to svn the items *)
(* selected when the key was pressed and still selected when svn runs,     *)
(* only after 'y', and every refresh drops the selection, so that nothing  *)
(* is added or removed twice for one selection.                            *)
(***************************************************************************)
ChangesAreControlled == CC!Spec

(***************************************************************************)
(* The program implements Viewport: printing, selecting and refreshing     *)
(* move the cursor and the pad only as the movements of Viewport do, and   *)
(* padding never changes the length of the list.                           *)
(***************************************************************************)
ViewMovesAsViewport == V!Spec
=============================================================================
