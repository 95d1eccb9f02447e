----------------------------- MODULE StatusLine -----------------------------
(***************************************************************************)
(* A line of "svn st" on its way from the listing to the screen and back   *)
(* to svn as an argument, character by character: padding, the shift of    *)
(* selected items, the vector of selected items, and the command line,     *)
(* which the shell splits into words.  Paths have no '%' and no character  *)
(* other than the blank that is special to the shell.                      *)
(*                                                                         *)
(* Definitions marked "Fault" are wrong variants of the one that follows.  *)
(***************************************************************************)
EXTENDS Integers, Sequences, FiniteSets, SequencesExt

CONSTANTS
  Char,       \* characters of a path or of a state, the blank among them
  Paths,      \* paths "svn st" may list: sequences of characters
  Listings,   \* what it may print: sequences of paths
  maxX        \* State::maxX

Blank == " "

ASSUME StatusLineAssumption ==
  /\ maxX \in Nat
  /\ {Blank, "?"} \subseteq Char
  /\ \A p \in Paths : p \in Seq(Char) /\ 0 < Len(p) /\ Len(p) + 8 <= maxX
  /\ \A out \in Listings : out # <<>> /\ out \in Seq(Paths)

VARIABLES
  paths,          \* history: the paths of the listing
  statusItems,    \* State::statusItems: strings
  selectedItems,  \* State::selectedItems: a vector
  rows,           \* the lines of the pad
  args,           \* words of the last command line, without "svn rm"
  chosen          \* history: paths selected when it was made

vars == <<paths, statusItems, selectedItems, rows, args, chosen>>

-----------------------------------------------------------------------------
\* Seven columns of states and a blank, then the path.
line(path) == [c \in 1..8 |-> IF c = 1 THEN "?" ELSE Blank] \o path

\* append(padSize, ' ')
padded(item) == item \o [c \in 1..(maxX - Len(item)) |-> Blank]

\* Fault: the last character is not taken away.
shiftedOnly(item) == InsertAt(item, 9, Blank)

\* insert(8, " ") and erase(end() - 1) on the copy that is printed.
shifted(item) == Front(InsertAt(item, 9, Blank))

printStatusWithColor(items, sel, i) ==
  IF Contains(sel, items[i]) THEN shifted(padded(items[i])) ELSE padded(items[i])

\* Items are padded in place; whether one is selected is decided before.
printAllStatus(items, sel) ==
  /\ statusItems' = [i \in DOMAIN items |-> padded(items[i])]
  /\ rows' = [i \in DOMAIN items |-> printStatusWithColor(items, sel, i)]

\* Fault: the item is pushed without looking for it.
toggledAlways(sel, item) == Append(sel, item)

\* erase(remove(begin, end, item), end): the other items, in their order.
erased(sel, item) ==
  LET kept    == {i \in DOMAIN sel : sel[i] # item}
      rank(i) == Cardinality({j \in kept : j <= i})
  IN  [n \in 1..Cardinality(kept) |-> sel[CHOOSE i \in kept : rank(i) = n]]

\* find, then erase or push_back.
toggled(sel, item) ==
  IF Contains(sel, item) THEN erased(sel, item) ELSE Append(sel, item)

\* Fault: the states are not cut off.
uncut(item) == item

\* erase(0, 7)
cutOff(item) == SubSeq(item, 8, Len(item))

\* join(items, " "): joined[n] is what the first n items give.
join(items) ==
  LET joined[n \in 0..Len(items)] ==
        IF n = 0 THEN <<>>
        ELSE IF n = 1 THEN items[1] ELSE joined[n - 1] \o <<Blank>> \o items[n]
  IN  joined[Len(items)]

\* The words the shell makes of a command line.
words(s) ==
  LET ink == {i \in DOMAIN s : s[i] # Blank}
      ends == {w \in ink \X ink : /\ w[1] <= w[2] /\ w[1]..w[2] \subseteq ink
                                  /\ w[1] - 1 \notin ink /\ w[2] + 1 \notin ink}
  IN  {SubSeq(s, w[1], w[2]) : w \in ends}

commandLine(sel) == join([i \in DOMAIN sel |-> cutOff(sel[i])])

-----------------------------------------------------------------------------
Init ==
  /\ paths = <<>> /\ statusItems = <<>> /\ selectedItems = <<>> /\ rows = <<>>
  /\ args = {} /\ chosen = {}

refreshStatusItems(out) ==
  /\ paths' = out
  /\ selectedItems' = <<>>
  /\ printAllStatus([i \in DOMAIN out |-> line(out[i])], <<>>)

KeyStatus(out) == refreshStatusItems(out) /\ UNCHANGED <<args, chosen>>

KeySpace(i) ==
  /\ selectedItems' = toggled(selectedItems, statusItems[i])
  /\ printAllStatus(statusItems, selectedItems')
  /\ UNCHANGED <<paths, args, chosen>>

isChosen(i) == statusItems[i] \in ToSet(selectedItems)

\* 'a' or 'r' with its question answered by 'y'.
KeyCommand(out) ==
  /\ args' = words(commandLine(selectedItems))
  /\ chosen' = {paths[i] : i \in {j \in DOMAIN paths : isChosen(j)}}
  /\ refreshStatusItems(out)

Next ==
  \/ \E out \in Listings : KeyStatus(out) \/ (paths # <<>> /\ KeyCommand(out))
  \/ \E i \in DOMAIN statusItems : KeySpace(i)

Spec == Init /\ [][Next]_vars

-----------------------------------------------------------------------------
hasBlank(path) == Blank \in ToSet(path)

(***************************************************************************)
(* The vector of selected strings never holds one twice, and all of them   *)
(* are entries: in any order of selections and deselections, and with the  *)
(* same path listed twice, ' ' adds what it does not find and takes away   *)
(* what it finds, so the vector is a set.                                  *)
(***************************************************************************)
SelectionIsASet ==
  /\ ToSet(selectedItems) \subseteq ToSet(statusItems)
  /\ \A i, j \in DOMAIN selectedItems :
       selectedItems[i] = selectedItems[j] => i = j

(***************************************************************************)
(* Every row is one terminal line wide and shows the path of its entry in  *)
(* full, shifted by one column if it is selected; only a selected path     *)
(* that reaches the last column loses its last character.                  *)
(***************************************************************************)
RowsShowPaths ==
  \A i \in DOMAIN rows :
    LET first == IF isChosen(i) THEN 10 ELSE 9
        last  == first + Len(paths[i]) - 1
    IN  /\ Len(rows[i]) = maxX
        /\ last <= maxX => SubSeq(rows[i], first, last) = paths[i]

(***************************************************************************)
(* The arguments svn add and svn rm get are exactly the selected paths,    *)
(* none of them cut, as long as no selected path has a blank:              *)
(* padding, cutting off the states, joining and splitting by the shell     *)
(* cancel out in any order of selection.                                   *)
(***************************************************************************)
ArgumentsAreSelected == (\A p \in chosen : ~hasBlank(p)) => args = chosen

(***************************************************************************)
(* svn add and svn rm get selected paths and nothing else, whatever the    *)
(* paths are.                                                              *)
(***************************************************************************)
OnlySelectedArguments == args \subseteq chosen
=============================================================================
