-------------------------------- MODULE Exec --------------------------------
(***************************************************************************)
(* One call of exec: popen starts an svn process whose output is a pipe,   *)
(* fgets collects the output line by line, and pclose closes the pipe and  *)
(* waits for the process.  SvnCurses takes the call as one step with any   *)
(* result; this module shows which results there are.                      *)
(*                                                                         *)
(* A resize of the terminal interrupts a read that waits (curses handles   *)
(* SIGWINCH without restarting system calls), and the loop takes the NULL  *)
(* of an interrupted fgets for the end of the output.  Outputs have no NUL *)
(* characters, so that result += buffer.data() appends all that was read.  *)
(*                                                                         *)
(* Definitions marked "Fault" are wrong variants of the one that follows.  *)
(***************************************************************************)
EXTENDS Integers, Sequences

CONSTANTS
  Char,      \* characters svn prints
  Newline,   \* the one that ends a line
  Outputs,   \* what the svn process would print
  PipeSize,  \* characters the pipe and the buffer of its stream can hold
  BufSize    \* buffer.size(), 256

ASSUME ExecAssumption ==
  /\ Newline \in Char
  /\ Outputs \subseteq Seq(Char)
  /\ PipeSize \in Nat \ {0}
  /\ BufSize \in Nat \ {0, 1}

VARIABLES
  at,      \* where exec is: in fgets, in pclose, or back in its caller
  result,  \* the local string
  buffer,  \* characters fgets has read for its current call
  pipe,    \* characters written and not yet read by fgets
  child,   \* the svn process
  rest,    \* what it has not written yet
  output,  \* history: all it would print
  cut,     \* history: an interrupted read has ended the loop
  split    \* history: an interrupted read has ended a line early

parent == <<at, result, buffer>>
svn    == <<child, rest, output>>
vars   == <<parent, pipe, svn, cut, split>>

Init ==
  /\ at = "fgets" /\ result = <<>> /\ buffer = <<>> /\ pipe = <<>>
  /\ child = "runs" /\ output \in Outputs /\ rest = output
  /\ cut = FALSE /\ split = FALSE

-----------------------------------------------------------------------------
(***************************************************************************)
(* The svn process.                                                        *)
(***************************************************************************)
Write ==
  /\ child = "runs" /\ rest # <<>>
  /\ at = "fgets" /\ Len(pipe) < PipeSize
  /\ pipe' = Append(pipe, Head(rest)) /\ rest' = Tail(rest)
  /\ UNCHANGED <<parent, child, output, cut, split>>

become(state) ==
  /\ child' = state
  /\ UNCHANGED <<parent, pipe, rest, output, cut, split>>

\* It ends with all written, or because nobody reads what it writes.
Exit == child = "runs" /\ (rest = <<>> \/ at # "fgets") /\ become("ended")

\* svn up asks about a conflict or a password on the terminal.
Ask    == child = "runs" /\ become("asks")
Answer == child = "asks" /\ become("runs")

Die == child # "ended" /\ become("ended")

-----------------------------------------------------------------------------
(***************************************************************************)
(* The loop of exec.                                                       *)
(***************************************************************************)
\* Fault: the output is read after the process has ended.
FgetsAfterEnd ==
  /\ at = "fgets" /\ pipe # <<>> /\ child = "ended"
  /\ result' = Append(result, Head(pipe)) /\ pipe' = Tail(pipe)
  /\ UNCHANGED <<at, buffer, svn, cut, split>>

\* Fault: fgets is taken to fill the whole buffer.
FgetsWholeBuffer ==
  /\ at = "fgets" /\ pipe # <<>>
  /\ pipe' = Tail(pipe)
  /\ LET read == Append(buffer, Head(pipe))
     IN  IF Head(pipe) = Newline \/ Len(read) = BufSize
         THEN result' = result \o read /\ buffer' = <<>>
         ELSE buffer' = read /\ UNCHANGED result
  /\ UNCHANGED <<at, svn, cut, split>>

\* fgets returns after a newline or BufSize - 1 characters.
Fgets ==
  /\ at = "fgets" /\ pipe # <<>>
  /\ pipe' = Tail(pipe)
  /\ LET read == Append(buffer, Head(pipe))
     IN  IF Head(pipe) = Newline \/ Len(read) = BufSize - 1
         THEN result' = result \o read /\ buffer' = <<>>
         ELSE buffer' = read /\ UNCHANGED result
  /\ UNCHANGED <<at, svn, cut, split>>

\* Fault: a line without newline at the end is not appended.
EndOfOutputDropsLine ==
  /\ at = "fgets" /\ pipe = <<>> /\ child = "ended"
  /\ at' = "pclose" /\ buffer' = <<>>
  /\ UNCHANGED <<result, pipe, svn, cut, split>>

\* fgets returns what it has, if anything, and the next call NULL.
EndOfOutput ==
  /\ at = "fgets" /\ pipe = <<>> /\ child = "ended"
  /\ at' = "pclose"
  /\ result' = result \o buffer /\ buffer' = <<>>
  /\ UNCHANGED <<pipe, svn, cut, split>>

Blocked == at = "fgets" /\ pipe = <<>> /\ child # "ended"

\* Fault: the loop goes on after an interrupted read.
InterruptIgnored ==
  /\ Blocked
  /\ buffer' = <<>>
  /\ UNCHANGED <<at, result, pipe, svn, cut, split>>

\* Fault: the buffer is appended whatever fgets returns.
InterruptAppends ==
  /\ Blocked
  /\ at' = "pclose" /\ cut' = TRUE
  /\ result' = result \o buffer /\ buffer' = <<>>
  /\ UNCHANGED <<pipe, svn, split>>

\* A waiting read is interrupted.  glibc returns NULL and drops what it has
\* read of the line; other libraries return that first.
Interrupt ==
  /\ Blocked
  /\ buffer' = <<>>
  /\ \/ /\ at' = "pclose" /\ cut' = TRUE
        /\ UNCHANGED <<result, split>>
     \/ /\ buffer # <<>>
        /\ result' = result \o buffer /\ split' = TRUE
        /\ UNCHANGED <<at, cut>>
  /\ UNCHANGED <<pipe, svn>>

\* The destructor of the pipe has closed it; it waits for the process.
Pclose ==
  /\ at = "pclose" /\ child = "ended"
  /\ at' = "returned"
  /\ UNCHANGED <<result, buffer, pipe, svn, cut, split>>

-----------------------------------------------------------------------------
Returned == at = "returned" /\ UNCHANGED vars

Child  == Write \/ Exit \/ Ask \/ Answer \/ Die
Parent == Fgets \/ EndOfOutput \/ Interrupt \/ Pclose
Next   == Child \/ Parent \/ Returned

Spec == Init /\ [][Next]_vars

\* exec runs on, and so does an svn process that does not wait for the user.
Fairness == WF_vars(Fgets \/ EndOfOutput \/ Pclose) /\ WF_vars(Write \/ Exit)

FairSpec == Spec /\ Fairness

-----------------------------------------------------------------------------
TypeOK ==
  /\ at \in {"fgets", "pclose", "returned"}
  /\ result \in Seq(Char) /\ buffer \in Seq(Char) /\ pipe \in Seq(Char)
  /\ child \in {"runs", "asks", "ended"}
  /\ rest \in Seq(Char) /\ output \in Seq(Char)
  /\ cut \in BOOLEAN /\ split \in BOOLEAN
  /\ Len(pipe) <= PipeSize /\ Len(buffer) < BufSize - 1

(***************************************************************************)
(* Until a read is interrupted for good no character is lost, doubled or   *)
(* reordered between svn and the result, whatever the sizes of the pipe    *)
(* and of the buffer in exec and wherever svn stops.                       *)
(***************************************************************************)
Conserved == ~cut => result \o buffer \o pipe \o rest = output

(***************************************************************************)
(* exec returns the beginning of the output, and all of it that svn has    *)
(* written unless a read was interrupted: a listing is never a mixture of  *)
(* parts.                                                                  *)
(***************************************************************************)
ReturnsBeginning ==
  /\ Len(result) <= Len(output) /\ SubSeq(output, 1, Len(result)) = result
  /\ at # "fgets" /\ ~cut => result \o rest = output

(***************************************************************************)
(* With glibc, an output cut short by an interrupted read ends with a      *)
(* newline, or after a whole buffer without one: pop_back in               *)
(* refreshStatusItems drops the newline it is meant for, and no status     *)
(* line shorter than the buffer is taken for a shorter path.               *)
(***************************************************************************)
CutAtLineEnd ==
  cut /\ ~split /\ result # <<>> =>
    \/ result[Len(result)] = Newline
    \/ /\ Len(result) >= BufSize - 1
       /\ \A i \in (Len(result) - BufSize + 2)..Len(result) :
            result[i] # Newline

(***************************************************************************)
(* exec returns, unless svn waits for the user again and again or for      *)
(* good: a full pipe, an output larger than the pipe, an interrupted read  *)
(* or the death of svn never leave exec and svn waiting for each other.    *)
(***************************************************************************)
ExecReturns == <>(at = "returned") \/ []<>(child = "asks")
=============================================================================
