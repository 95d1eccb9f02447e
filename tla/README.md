# A verification project for svnCurses

svnCurses is a curses front end for the `svn` command line: it lists `svn st`,
lets the user move over the list and select entries, and runs `svn add`,
`svn rm` and `svn up`. Its own code is `src/src/` (`svn_curses.cpp`,
`svn_curses.h`, `state.cpp`, `state.h`); `svn_api.cpp` holds one struct that nothing uses,
and `src/dependecies/` is vendored apr and subversion, of which no function is
called; but the program runs the `svn` client as a process, so the client's
sources there say what `svn st`, `add`, `rm` and `up` do. There are no tests and no
documentation, so the code is the only reference.

## 1. Inventory

| part | code | state | operations |
|---|---|---|---|
| cursor and scrolling | `moveOneRowUp`, `moveOneRowDown`, keys `G`, `gg` | `State::cursorPosition`, `State::padPos` | j, k, G, gg; resets in s and r |
| list and printing | `refreshStatusItems`, `printAllStatus`, `printStatusWithColor` | `State::statusItems`, `State::allStatusItems`, the pad | replace the list, pad its strings in place, draw |
| selection | key `' '` | `State::selectedItems` | toggle; cleared by every refresh |
| svn commands | `keyEvent` cases s, a, r, u | locals `items`, `keepLocal`; the getch timeout | ask, ask again (r), run, show (u), list again |
| exec | `exec` | a pipe | run a command, collect its output, throw if popen fails |
| message window | `win` in all of them | the texts it shows | questions, mode, output of svn up |
| modes | `state.cpp` | `add`, `hidden`, `rm` | `toggleMode`, `getMode` ('.' toggles HIDDEN, which nothing else reads) |
| main | `main` | curses mode, `isRunning` | start, loop, quit, exception handler |

How they interact: the program is one thread. `main` loops over `keyEvent`,
which reads a key with a timeout and runs one handler; handlers call `exec` and
wait for an svn process, or call `getch` again and wait for an answer. All parts
share the static members of `State`. The outside world moves while the program
waits: the user presses keys (or not), other processes change the working copy,
svn fails.

What is hard here, and the property that makes each part correct:

* *Cursor and scroll position are two integers kept together by hand*, by code
  with different thresholds in each direction, over a list that refreshes replace.
  The cursor must stay near the pad and on the list (`CursorNearPad`,
  `OnlyShortJumpLeavesPad`, `OnlyShrinkingStrands`, `ScrollingKeepsPadFull`).
* *Strings are identities.* Selection compares strings, and printing lengthens
  the strings in place. A selected string must remain one of the list
  (`SelectionIsListed`), which rests on what has been padded when
  (`PrintedItemsFit`); what the terminal shows must be the state
  (`ScreenShowsState`).
* *State is read before a wait and used after it.* A command must be run on the
  entries selected when it was asked for, only after 'y', and once
  (`ChangesAreControlled`); the window must show the question that is being
  answered (`MessageWindow`); every nested wait must end (`AlwaysBackToKeys`).
* *Unchecked accesses.* A clean working copy, or a list that shrinks under the
  cursor, leaves defined behaviour; nothing else may (`UndefinedOnlyAfterShrink`).
* *Exceptions from the middle of a handler.* The terminal must be restored
  (`TerminalRestored`).
* *A pipe between two processes that share a terminal.* `exec` must collect the
  output whole (`Conserved`), end with svn (`ExecReturns`) and, because it takes
  an interrupted read for the end, at least not invent a path
  (`ReturnsBeginning`, `CutAtLineEnd`).
* *A path goes to the screen and back.* It is padded, shifted, cut, joined with
  others and split by a shell (`RowsShowPaths`, `ArgumentsAreSelected`), and
  selected by string in a vector (`SelectionIsASet`).
* *Keys are typed before they are read.* A 'y' must not answer a question it was
  not typed for (`YesFollowsItsKey`), and there must be a way out
  (`TwoQuitsEnd`).
* *The files change under the list.* A command from an old list, a refused one,
  one that races with an editor, or one that a timeout has decided must
  not lose what the user has not saved, beyond what svn cannot see
  (`UnsavedTextSurvives`), must not be done by half (`RemovesAllOrNone`), and its
  result must be on the screen, as far as `svn st` could see it and its output
  came through (`ListIsCurrent`).

`PROJECT.json` lists the hazards line by line.

## 2. Modules

| module | what it is |
|---|---|
| `Viewport` | cursor, scroll position and length of the list; an abstraction of the program and the home of the movements that `SvnCurses` uses |
| `ChangeControl` | abstract specification of marking, asking and running commands |
| `SvnCurses` | the program |
| `Exec` | one call of `exec`: the fgets loop, the pipe and the svn process |
| `StatusLine` | lines and selection by characters, up to the words of a command |
| `TypeAhead` | `SvnCurses` behind a queue of keys |
| `WorkingCopy` | files of a working copy and what svn processes do to them |
| `Session` | composition of `SvnCurses` and `WorkingCopy` with other programs |
| `MC*` | instances for TLC |
| `ViewportProofs`, `ExecProofs`, `StatusLineProofs` | theorems and proofs about one component |
| `SvnCursesProofs` | types, and the invariant `SafeInv` of list, selection, cursor and terminal |
| `HandlerProofs`, `ScreenProofs` | on top of it: questions and commands; the screen |
| `TypeAheadProofs`, `SessionProofs` | the compositions, which implement `SvnCurses` |

`SvnCurses` uses `Viewport` in two ways: its movement operators
(`V!moveOneRowDown`, ...) are parts of the program's actions, and `V!Spec`, with
the length of `statusItems` for `size`, is a property of the program.
`ChangeControl` is a property with `marked` the selection and `request` and
`sent` computed from the handler's locals.

Definitions marked *Fault* in a comment are wrong variants of the definition
that follows them. No action uses them; each is what the property it belongs to has
to notice.

### Viewport

`size` is `statusItems.size()`, entries count from 0, pad line `r` shows entry
`padPos + r`. `Down`, `Up`, `Bottom`, `Top` are the movements; they need a list
because main reads no key before the first listing. `RelistKeep` is the
assignment to `statusItems` in a refresh; the resets that s and r do before
theirs are `Top`. Comparisons with `size() - 1` are unsigned in the code, hence
`SizeT`. `gotoBottom` compares the list with `maxY` and not with the pad's lines,
as the code does.

### SvnCurses

`pc` says what the program waits for: `boot` (nothing yet), `st` (`svn st`),
`key` (the loop's getch), `g` (the second key of gg), `ask` and `keep` (the
questions), `run` (svn add, rm, up), `show` (the getch after svn up); or how it
ended: `exited`, `nopad`, `failed` (exception caught by main), `killed`.
Everything between two waits is one action, because nothing else can change the
program's state meanwhile. A handler is therefore a chain of actions, and
`handler` holds its locals:

| key | actions |
|---|---|
| j, k, G | `KeyMove` |
| gg, g and another key | `KeyG`, then `SecondG` or `SwallowKey` |
| blank | `KeySpace`, or `KeySpaceStray` if the cursor is past the end |
| . | `KeyHidden` |
| s | `KeyStatus`, listing |
| a | `KeyAdd`, `AnswerYes`, `RunDone` (or `Refuse`), listing |
| r | `KeyRemove`, `AnswerYes`, `AnswerKeep`, `RunDone` (or `Refuse`), listing |
| u | `KeyUpdate`, `AnswerYes`, `RunDone`, `LeaveOutput`, listing (or `Refuse`) |
| q | `KeyQuit` |

A listing is `ListingDone`, `EmptyListing` or `PopenFails`. `Timeout` is getch
returning ERR, which each wait treats like a key that is not the expected one.
Any other key in the loop, and a timeout there, changes nothing.

Abstractions:

* A status item is a text and a current length. Padding sets the length to
  `maxX`. Two items are equal if both agree; texts that differ only in trailing
  blanks are not distinguished from each other's padded form in the code, and
  `svn st` does not print such pairs for different paths unless a name ends in a
  blank.
* `selectedItems` is a set: ' ' looks for the string before it adds it.
* `Words` stands for cutting off 7 columns, joining with blanks and the shell's
  splitting.
* Colours by status letter, `%` in names (the items are passed to `wprintw` as
  its format) and what svn writes to stderr over the screen are left out. So is
  one character: when the list goes on below the pad, curses writes on the pad's
  last cell.
* `A_BOLD` is modelled as the code sets it: on at the first selected item that
  is not under the cursor, and never off again.
* The terminal's size is read once by main and never again, so it is a constant.
* `boot` and `nopad`: a pad with no lines cannot be created, and main leaves.

Undefined behaviour is a choice between outcomes. `pop_back` on the empty output
of a clean working copy: with libstdc++ the string's length wraps and `split` runs
into unmapped memory (`killed`); with libc++ the string stays empty and is split
into one empty item. A read of `statusItems` past its end: some string
(`StrayItem`), an exception, or a crash. The history variable `undefined` records
that it happened, and `shrunk` that its cause did.

### ChangeControl

Marks are toggled one at a time, and only while no command is pending. A command
is proposed for the marked items, granted, and sent; it may be withdrawn at any
time before. `Send` demands that the items are still the marked ones and takes
the marks away; `Close` ends the command when no mark is left. The refinement
shows that the copy of the selection that a and r take before their questions
cannot go stale.

### Exec

`at` is where the parent is (`fgets`, `pclose`, `returned`); `result` and
`buffer` are the string and the characters fgets has taken for its current call;
`pipe` is everything between the two processes. `Fgets`, `EndOfOutput`,
`Interrupt` and `Pclose` are the parent's steps, `Write`, `Exit`, `Ask`, `Answer`
and `Die` the child's. A full pipe blocks `Write`, an empty one blocks the parent
as long as the child lives. curses installs its SIGWINCH handler without
`SA_RESTART`, so a resize interrupts a waiting read: glibc's `fgets` then returns
NULL and drops the characters it had, others return them first (`split`).

### StatusLine

The only module with characters; `Char` has those that occur. `padded`, `shifted` (insert a blank at column 8,
drop the last character), `toggled` on a vector (`erased` is the erase-remove
idiom: the other elements in their order), `commandLine` (columns from 7
on, joined) and `words` (what the shell makes of it). The listing that follows a
command is part of `KeyCommand`; scrolling is left to `SvnCurses`, so every entry
is on the pad.

### TypeAhead

`Read` gives the oldest key of `queue` to whatever getch is waiting: each case of
`getch` is the action of `SvnCurses` that this key fires. `Expire` is the
timeout, possible only with an empty queue. `last` remembers the key read last
while a handler is at work. A kept scroll, moves up and `G` are all `KeyMove`.

### WorkingCopy and Session

A path has a state in svn's database (`node`) and one on the disk (`disk`):
absent, the repository's text ("base"), or another text that is nowhere else
("edited"). svn does not compare texts when a file has the recorded size and time;
"base" is therefore every file that svn takes for the recorded text, and a save is
taken to change the size or the time. `letter` is the first column of `svn st`
(`assemble_status`).

svn processes work in steps, as the client does, and other programs save and erase
files between them. What they look at they do not look at again:

* `svn add` deals with one target after the other (`AddOne`).
* `svn rm` checks all targets (`CheckOne`, `find_undeletables`), marks them in one
  transaction (`MarkAll`) and queues the removal of their files; with `--keep-local`
  it only marks.
* `svn up` reads the directory (`StartUpdate`) and restores each missing file that
  is still missing when it is looked for once more (`Restore`); the repository then
  answers (`Report`) with a deletion, an addition or a change of any path, each at
  most once (`delete_entry`, `add_file`, `merge_file`). Each of these looks at the
  file, changes the database and queues an installation, a merge or a removal; or
  nothing, where the client keeps an edited file or one that is in the way.
* The work queue (`queue`) is run item by item (`RunItem`) without another look: an
  installation moves the new file over whatever is there, a merge puts the merged
  text there, a removal erases. The items of an update may run before its last change
  has come, as they do at the end of a directory.

Other programs commit too, as one step, while no svn process holds the lock
(`Commit`).

`Session` lets `exec` be such a process: `StartSvn`, `SvnStep`..., `EndSvn` take
the place of `RunDone` alone. `svn st` reads the directory (`StartStatus`), then the
database (`ReadInfo`), and then reports one name after the other
(`one_child_status`), looking again only at a file whose size or time was different
(`reported`); it holds no lock. (The directory is read in one step: a change to
a path while it is read is seen or not, as one before or after.) `SvnStatus` is the
return of `exec`, and may come at any time: with all lines; with the first of them,
where a read was interrupted or svn failed (`cuts`; `svn st` writes each line when it
has it); or with a last line that has lost its end, where svn was killed or a long
line was interrupted (`tears`; `Torn` gives the lines that `split` can make of
it). `Exec` says why these are the results there are.

`stale` (paths changed by others since `svn st` was started), `raced` (files changed
since svn has looked at them and while it may still write them), `listed` (how the
list on the screen was returned) and `before` are history. Every action of
`SvnCurses` other than those above is taken as it is (`Program`).

## 3. Runs

**viewport** (`MCViewport.cfg`): terminal of 11 lines, the message window's real
8 lines, so a pad of 3; lists of 1 to 15 entries. The interesting lengths are up
to the pad (3), between pad and `maxY + 1` = 12 where G does not scroll, and
above, where it does; 15 leaves room for three of the last kind. All
movements and all replacements of one length by another are interleaved.

* `CursorNearPad`: never above the pad, at most `maxY` entries below its first line.
* `OnlyShortJumpLeavesPad`: G with 4 to 12 entries is the only step that takes
  the cursor to a line that is not shown.
* `OnlyShrinkingStrands`: only a shorter list puts the cursor past the end.
* `ScrollingKeepsPadFull`: only refreshes leave a scrolled pad with empty lines.

**svn_curses** (`MCSvnCurses.cfg`): terminal of 3 lines with a message window of
one (so a pad of 2; the window only needs a last line, and the line of the busy
mark is outside it as with the real 8), 10 columns. `svn st` may print nothing,
two entries, three with one too wide, three with two alike, or five (the length
at which G scrolls) with three alike: every pair of consecutive listings
can grow, shrink, lose or gain entries. One text has the terminal's width
exactly. About 72,000 states.

* `PrintedItemsFit`, `SelectionIsListed`: padding and selection.
* `ScreenShowsState`: the pad on the terminal is the state. An entry may be
  drawn unmarked although its string is selected, if another entry has the same
  text; this exception is needed (`svn st` prints a blank line before every
  heading of a changelist or an external; paths are unique).
* `UndefinedOnlyAfterShrink`, `MessageWindow`, `TerminalRestored`: see section 1.
* `ChangesAreControlled`, `ViewMovesAsViewport`: the two refinements.
* `AlwaysBackToKeys`: liveness.

Fairness (`FairSpec` of `SvnCurses`), used by `AlwaysBackToKeys` only: the program does not
stop between two waits (`Boot`); getch returns after the timeout that was set
(`Timeout`, which is enabled only if a timeout is set: main sets one and no
handler removes it); svn processes end (`SvnReturns`). The last one is an
assumption about svn and not a guarantee of the code: an `svn up` that asks on
the terminal waits for the user. No fairness is assumed of the user.

**exec** (`MCExec.cfg`): a buffer of 4, so calls of at most 3 characters; a pipe
of 2; all outputs of up to 5 characters over a newline and two others. Lines
below, at and above the size of a call, empty lines, two calls that fill their
buffer or nearly, a last line with and without end, and a pipe that fills all
occur. 56,212 states.

* `Conserved`, `ReturnsBeginning`: what is in the result, the buffer, the pipe and
  still with svn is the output, in order; a result is a beginning of it.
* `CutAtLineEnd`: with glibc a cut listing ends at the end of a line, so that no
  entry of it is a shorter path; except in a line of 255 characters or more.
* `ExecReturns`: exec returns unless svn waits for the user. Fairness: the parent
  runs on whenever it can, and so does an svn process that is not waiting for the
  user; nothing is assumed of the user, of signals or of svn dying.

**status_line** (`MCStatusLine.cfg`): 12 columns; paths of one to four characters
with common beginnings, one with a blank, one up to the last column; a listing
with a repetition. 1,409 states. `SelectionIsASet`, `RowsShowPaths`,
`ArgumentsAreSelected`.

**status_line_blank** (`MCStatusLineBlank.cfg`, violated): the question is about
"selected items", but a selected path `a b` makes svn get `a` and `b`.

**type_ahead** (`MCTypeAhead.cfg`): two keys waiting, listings of one entry or
none, every key. Two are enough: a third key in front of the two
'q' only moves the program to another state, from which they are at the head of
the queue; and the run has every state. 246,198 states. `YesFollowsItsKey`,
`TwoQuitsEnd`. Fairness as in `SvnCurses`, with a getch that returns a waiting
key at once. `TwoQuitsEnd` is why one 'q' is not enough: a question or `g` takes it.

**session** (`MCSession.cfg`): two paths that start unversioned, missing, modified
or absent, the name of one a beginning of the other's, so that a torn line may name
the wrong path; one change by another program, at any time. Two paths are needed for
a target that is refused after another has passed, and for a list with one line
missing. One change makes a list stale, or races with `svn st`, `svn rm` or
`svn up`; a stale list and a race in one behaviour need two, which only the
theorems cover (with two the run takes much longer). States are compared by `MCView`, which leaves
out what no guard and no property of the run reads: the screen, the second copy of
the list, the modes and the value of the timeout. 2.9 million states, less than
three minutes. No fairness: safety only.

* `ListIsCurrent`: every line is true of its path and no path is missing, except for
  paths that others have changed since `svn st` was started and for the end of a
  listing that was cut. After a torn listing the last line may be wrong.
* `RemovesAllOrNone`: `svn rm` on a selection.
* `UnsavedTextSurvives`: `svn up` and `svn rm` lose a text (erase it, install over
  it, or merge a version of it that is no longer the last) if it was saved between
  their look at the file and their writing it; otherwise only `svn rm` does, without
  `--keep-local`, of a path that was scheduled for deletion before. All of these
  losses occur in the run.

**session_loss** (`MCSessionLoss.cfg`, violated): without other programs,
'r' 'y' 'y' on a modified file and later 'r' 'y' and 'n' (or no answer) on the same
entry erases it: `find_undeletables` lets every path pass that is scheduled for
deletion, while the comment on `can_delete_node` promises deletion "without losing
stuff". The installed client behaves so.

Deadlock is checked in all runs. `Terminated` and `Returned` let ended programs
stutter. Each property of a passing run is known to fail when one definition is
replaced by its *Fault*.

## 4. Proofs

All safety properties of the passing runs, invariants, action properties and both
refinements, are proved for every value of the constants under these assumptions,
which TLC evaluates in the runs:

* `ViewportAssumption`, `SvnCursesAssumption`: natural numbers; listings are
  sequences of lines; in `Viewport` the pad has a line, in `SvnCurses` not even that.
* `ExecAssumption`: a buffer of at least 2.
* `StatusLineAssumption`: paths are not empty and fit on the terminal behind the
  states (others make printing throw, which `SvnCurses` has); a listing has a path.
* `SessionAssumption`: the names are different; `Outputs` has the empty listing, with
  a listing also its beginnings and what is torn from it, and with a listing of
  some names also those with an entry for a later name; every word of a line is one of
  the names (a name may be of a path that is not there).

Every invariant below was also evaluated by TLC on the instance of the module's run
(membership in infinite sets of sequences left out).

**`ViewportProofs`**: `TypeOK` and `CursorNearPad`, inductive together; then the
three action properties, by cases on the movement, from one of them.

**`SvnCursesProofs`**:

* `TypeCorrect`. `TypeOK` alone is not inductive: G stores `size() - 1`, so a
  key must not be read while the list is empty (`Listed`).
* `SafeInv`, the inductive invariant of the rest, has the parts
  `TerminalRestored`, `PrintedItemsFit`, `PadUnderCursor`, `SelectionPadded` and
  `CursorListed`. The selection stays in the list because selected items already
  have the length that padding gives (`SelectionPadded`); that is so for the
  entry that ' ' adds because it is printed, `PrintedItemsFit`, being not above
  the pad, `PadUnderCursor`. `CursorListed` says for every wait why the cursor
  will be on an entry when keys are read again, as long as nothing shrank: during
  `svn st` either it is 0, or the handler is one whose shrinking listing counts.
* `ItemsFit`, `SelectionListed`, `DefinedUntilShrink` and
  `TerminalAlwaysRestored` follow from it. The last covers terminals without
  room for a pad, which the run's instance does not.
* `ImplementsViewport`: every step of the program is a step of `Viewport` or
  leaves its variables alone.

**`ScreenProofs`**: `ScreenIsTrue`. No invariant beside `SafeInv` is needed: every
step that changes list, selection or positions and then waits for a key draws the
pad. That an entry is looked up in the selection before it is padded does no harm
because what is selected was padded before (`MarkedFacts`); only an entry with the
same text can be drawn unmarked, the exception in the property.

**`HandlerProofs`**: `WindowAsksQuestion` and the refinement
`ImplementsChangeControl`. The invariant `HandlerInv` says for each wait how far
the command is (`Answered`: agreed before it is run, run before its output is
shown), that the copy of the selection taken before the questions is still the
selection while one is pending (`Asked`), and what is in the window (`Window`:
the one question that is being asked; after `a`, the old question until the
listing is back).

**`TypeAheadProofs`**: `TypingImplements`, a step with a queue is a step of
`SvnCurses` or leaves its variables alone, so what is proved of the program with
any user holds when the user types ahead. `YesIsForItsQuestion` needs that the
key read last is that of the command while its question is open (`LastKey`), and
that nothing but 'y' agrees.

**`ExecProofs`**, for every set of outputs and all sizes: `TypeCorrect`, `NothingLost`,
`BeginningReturned`, `CutsAtLineEnds`. The inductive invariant `IInv` adds to
`TypeOK` and `Conserved`: the result is a beginning of the output (`Beginning`,
which `Conserved` gives until a read is cut, and which no later step touches); the
buffer is empty outside the loop (`LoopLeft`); and the buffer has no newline while
the result ends as calls of fgets do (`LineByLine`), which is what a cut leaves.
Characters move between sequences (`Moved`, `Grouping`).

**`SessionProofs`**, for any number of paths and of changes, any lines and terminal:

* `RemoveIsAtomic` and `UnsavedTextIsKept`. The invariant `SInv`: the program waits
  while svn works (`ProgramWaits`), so the handler's locals stay what svn was started
  with, and each command has its own steps (`Steps`); svn runs only after 'y'
  (`Agreed`); while `svn rm` checks, the database is as it was, and every target that
  has passed is unedited, scheduled for deletion before, or was changed meanwhile
  (`Removing`, `lost`); a file for which work is queued is not dealt with again, and
  if its text is unsaved, then the work is a merge, or the text was saved after svn
  looked, or it is one that `svn rm` may erase (`Queued`). A text can then only be lost
  by `RunItem`, and `Queued` says of which file.
* `ListAlwaysCurrent`. The invariant `Walk` of the `svn st` process: what it has read
  of the directory and the database is still so, and what it has printed is true, for
  every path that is not stale, and every name it has passed that has a status is
  printed. What `exec` returns is therefore true as far as it goes (`ReturnedTells`);
  padding keeps the texts of the list, and while no command is on its way to its
  listing nothing but other programs changes a file (`Current`).
* `SessionImplements`: a session implements `SvnCurses`, because what a walk prints,
  and any cut of it, is one of `Outputs` (`Walk` again); the theorems about the
  program hold in it.
* `SessionTypeCorrect`, with the svn process's state `JobOK`.

**`StatusLineProofs`**, for paths of any length, any listing and any width: the
invariant `LineInv` says that items are the padded lines of the listing (so padding
them again changes nothing), that rows are made from them by the present selection,
and that the selection is a set of items. `SelectionStaysASet` and
`RowsAlwaysShowPaths` follow. `ArgumentsAreThePaths` needs what the shell does:
a blank between two strings separates their words (`JoinedWords`), a cut item
without blanks is one word, its path (`ItemWords`), hence the words of a joined
command line are those of its items (`JoinWords`). The last, and that the recursion
in `join` defines a function at all (`JoinDefined`), are inductions over the number
of items, done with the least element of the set of counterexamples (`Least`).

Only model-checked: `AlwaysBackToKeys`, `ExecReturns` and `TwoQuitsEnd` (liveness
under fairness, out of the prover's reach), and the absence of deadlock.

## 5. Not modelled

* `svn_api.cpp`, build files, the vendored sources (about 740,000 lines) other than
  what the four svn commands do to files: nothing of them runs in the program.
  The share of the repository's lines that the models stand for is small for this reason;
  of `src/src/` all code that changes state is modelled.
* Of the svn client: directories, properties, copies, moves, the network and the
  repository. Two svn processes that write never run together (svn's own lock sees to
  that; the one that does not get it does nothing). `svn ci` by another program is one
  step, and only its effect matters.
* Conflicts: they are postponed. Their marks in the status ('C', and the lines that
  describe a tree conflict), the files that are left beside a conflicted one and the
  interactive resolver are left out, and with them what the list shows of them; a file
  that is kept in a tree conflict is one that was added, without the copy behind it.
* A path that is deleted and added again in one update; an update that fails after it
  has queued work (as for a crash below); and the recording of size and time after a
  file was installed, which, if the file is saved between, makes svn take the saved
  text for the recorded one until it is saved again.
* Ctrl-C and crashes: the program persists nothing; what an interrupted svn leaves
  behind is svn's.
* Resizing the terminal: the code does not react. In a getch it is a key like any
  other that is not expected (KEY_RESIZE); in `exec` it is `Interrupt`.
* `%` in names and outputs, which `wprintw` takes for a format: undefined.
* NUL characters, characters special to the shell other than the blank, what svn
  writes to the terminal through stderr, colours.

## 6. Plan

Done: all modules of section 2 with their runs; proofs of all their safety
properties, in `Session` with `svn st`, `rm` and `up` taken apart into their steps.

1. What leads to the liveness properties and can be proved: that every wait has a
   timeout set (`timeout` is never taken back), and that each handler's waits come in
   one order, so that only finitely many lie before the next key.
2. The consequences of the two implementations as theorems of their own, where a
   reader would look for them: the program's invariants in a session and with
   typing ahead.
3. What `StatusLine` says of a selection with blanks: which words svn gets then.
