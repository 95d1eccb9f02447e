------------------------------ MODULE Viewport ------------------------------
(***************************************************************************)
(* The cursor and the scroll position of svn_curses (State::cursorPosition *)
(* and State::padPos in state.cpp, moved by keyEvent in svn_curses.cpp),   *)
(* over a list of which only the length matters here.                      *)
(*                                                                         *)
(* The pad has `rows' lines.  Pad line r shows list entry padPos + r, with *)
(* entries counted from 0 as in the code.  The list is replaced as a whole *)
(* by refreshStatusItems: keys 's' and 'r' move the cursor to the top      *)
(* before that, keys 'a' and 'u' leave it where it was.                    *)
(*                                                                         *)
(* The four cursor movements constrain only cursorPosition and padPos, so  *)
(* that a module that knows more about the list (SvnCurses) can use them   *)
(* as parts of its own actions.                                            *)
(***************************************************************************)
EXTENDS Integers

CONSTANTS
  maxY,              \* State::maxY: lines of the terminal, read once in main
  bottomWindowSize,  \* lines of the message window below the pad
  SizeMod,           \* size_t is arithmetic modulo SizeMod (2^64)
  Sizes              \* lengths that a listing of "svn st" may have

\* main leaves with "Couldn't create pad" unless the pad has a line.
ASSUME ViewportAssumption ==
  /\ maxY \in Nat
  /\ bottomWindowSize \in Nat \ {0}
  /\ maxY > bottomWindowSize
  /\ SizeMod \in Nat
  /\ Sizes \subseteq Nat \ {0}

VARIABLES
  size,            \* State::statusItems.size(); 0 before the first listing
  cursorPosition,  \* State::cursorPosition
  padPos           \* State::padPos

vars == <<size, cursorPosition, padPos>>

\* Lines of the pad: newpad(State::maxY - bottomWindowSize, State::maxX).
rows == maxY - bottomWindowSize

\* Conversion of an int to the unsigned type of vector::size().
SizeT(x) == IF x < 0 THEN x + SizeMod ELSE x

-----------------------------------------------------------------------------
\* Fault: scrolls one line too late.
moveOneRowDownLate ==
  IF SizeT(cursorPosition) < SizeT(size - 1)
  THEN /\ cursorPosition' = cursorPosition + 1
       /\ padPos' = IF cursorPosition' > rows + padPos THEN padPos + 1
                                                       ELSE padPos
  ELSE UNCHANGED <<cursorPosition, padPos>>

\* Fault: goes one entry past the last.
moveOneRowDownPastEnd ==
  IF SizeT(cursorPosition) < SizeT(size)
  THEN /\ cursorPosition' = cursorPosition + 1
       /\ padPos' = IF cursorPosition' >= rows + padPos THEN padPos + 1
                                                        ELSE padPos
  ELSE UNCHANGED <<cursorPosition, padPos>>

\* The comparison with size() - 1 is unsigned.
moveOneRowDown ==
  IF SizeT(cursorPosition) < SizeT(size - 1)
  THEN /\ cursorPosition' = cursorPosition + 1
       /\ padPos' = IF cursorPosition' >= rows + padPos THEN padPos + 1
                                                        ELSE padPos
  ELSE UNCHANGED <<cursorPosition, padPos>>

\* Fault: scrolls without max(0, ...).
moveOneRowUpUnclamped ==
  IF cursorPosition > 0
  THEN /\ cursorPosition' = cursorPosition - 1
       /\ padPos' = IF cursorPosition' > padPos THEN padPos ELSE padPos - 1
  ELSE UNCHANGED <<cursorPosition, padPos>>

\* Fault: does not scroll.
moveOneRowUpNoScroll ==
  IF cursorPosition > 0
  THEN cursorPosition' = cursorPosition - 1 /\ UNCHANGED padPos
  ELSE UNCHANGED <<cursorPosition, padPos>>

\* The pad scrolls when the cursor reaches its first line, one line early.
moveOneRowUp ==
  IF cursorPosition > 0
  THEN /\ cursorPosition' = cursorPosition - 1
       /\ padPos' = IF cursorPosition' > padPos THEN padPos
                    ELSE IF padPos > 0 THEN padPos - 1 ELSE 0
  ELSE UNCHANGED <<cursorPosition, padPos>>

\* Fault: scrolls one line too far.
gotoBottomTooFar ==
  IF SizeT(cursorPosition) < SizeT(size - 1)
  THEN /\ cursorPosition' = size - 1
       /\ padPos' = IF SizeT(maxY) < SizeT(size - 1)
                    THEN size - maxY + bottomWindowSize + 1
                    ELSE padPos
  ELSE UNCHANGED <<cursorPosition, padPos>>

\* Key 'G'.  The pad is scrolled only if the list outgrows the whole
\* terminal, although it has bottomWindowSize lines less than that.
gotoBottom ==
  IF SizeT(cursorPosition) < SizeT(size - 1)
  THEN /\ cursorPosition' = size - 1
       /\ padPos' = IF SizeT(maxY) < SizeT(size - 1)
                    THEN size - maxY + bottomWindowSize
                    ELSE padPos
  ELSE UNCHANGED <<cursorPosition, padPos>>

\* Keys "gg"; also what 's' and 'r' do before they refresh the list.
gotoTop ==
  /\ cursorPosition' = 0
  /\ padPos' = 0

-----------------------------------------------------------------------------
Init ==
  /\ size = 0
  /\ cursorPosition = 0
  /\ padPos = 0

\* main reads keys only after the first listing.
Move(movement) ==
  /\ size > 0
  /\ movement
  /\ UNCHANGED size

\* refreshStatusItems after 'a' or 'u', and the first one: the list is
\* replaced under the cursor.
RelistKeep ==
  /\ size' \in Sizes
  /\ UNCHANGED <<cursorPosition, padPos>>

Down   == Move(moveOneRowDown)
Up     == Move(moveOneRowUp)
Bottom == Move(gotoBottom)
Top    == Move(gotoTop)

Next == Down \/ Up \/ Bottom \/ Top \/ RelistKeep

Spec == Init /\ [][Next]_vars
-----------------------------------------------------------------------------
TypeOK ==
  /\ size \in Sizes \cup {0}
  /\ cursorPosition \in Nat
  /\ padPos \in Nat

\* The cursor is on a line of the pad; it is on an entry of the list.
OnPad  == cursorPosition < padPos + rows
InList == cursorPosition < size

(***************************************************************************)
(* Whatever the keys and the listings, the cursor is never above the first *)
(* line of the pad (so the entry under it has always been printed, and     *)
(* padded, by printAllStatus) and never more than maxY entries below it:   *)
(* scrolling in moveOneRowUp, moveOneRowDown and 'G' keeps cursorPosition  *)
(* and padPos together although refreshes change the list under both.      *)
(***************************************************************************)
CursorNearPad ==
  /\ padPos <= cursorPosition
  /\ cursorPosition <= padPos + maxY

(***************************************************************************)
(* The only step that takes the cursor off the visible pad is 'G' on a     *)
(* list that outgrows the pad but not the terminal by two (rows < size <=  *)
(* maxY + 1), where keyEvent jumps to the last entry without scrolling.    *)
(***************************************************************************)
OnlyShortJumpLeavesPad ==
  [][OnPad /\ ~OnPad' =>
       /\ rows < size /\ size <= maxY + 1
       /\ cursorPosition' = size - 1
       /\ UNCHANGED <<size, padPos>>]_vars

(***************************************************************************)
(* No movement pushes the cursor past the end of the list (the entry that  *)
(* key ' ' reads without a bounds check): only a refresh that keeps the    *)
(* cursor ('a', 'u') and brings a shorter list does.  A cursor past the    *)
(* end is not moved further down by any key.                               *)
(***************************************************************************)
OnlyShrinkingStrands ==
  [][/\ InList /\ ~InList' => size' < size /\ UNCHANGED <<cursorPosition, padPos>>
     /\ ~InList => cursorPosition' <= cursorPosition]_vars

\* No pad line below the end of the list is left empty while the pad is
\* scrolled.
PadFull == padPos = 0 \/ padPos + rows <= size

(***************************************************************************)
(* Scrolling never shows lines beyond the end of the list: moveOneRowDown  *)
(* and 'G' stop scrolling when the last entry is on the last line.  Only a *)
(* refresh can leave empty lines under a scrolled list.                    *)
(***************************************************************************)
ScrollingKeepsPadFull == [][PadFull /\ size' = size => PadFull']_vars
=============================================================================
