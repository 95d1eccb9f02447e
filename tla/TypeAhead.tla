----------------------------- MODULE TypeAhead ------------------------------
(***************************************************************************)
(* SvnCurses behind a terminal that queues keys: the user types at any     *)
(* time, also while svn runs and before a question is on the screen, and   *)
(* getch takes the oldest key or, if there is none in time, gives up.      *)
(* Nothing in the program discards keys.                                   *)
(***************************************************************************)
EXTENDS SvnCurses

CONSTANTS
  Keys,      \* keys the user types; "j" stands for the movements
  MaxAhead   \* bound: keys waiting at the same time

ASSUME TypeAheadAssumption == MaxAhead \in Nat

VARIABLES
  queue,  \* keys typed and not yet read
  last    \* history: the key keyEvent has read last, "none" in the main
          \* loop and after a timeout

terminal == <<queue, last>>
typeVars == <<vars, terminal>>

TypeInit == Init /\ queue = <<>> /\ last = "none"

-----------------------------------------------------------------------------
MainKeys == {"q", "j", "g", " ", ".", "s", "a", "r", "u"}

\* switch (getch()) in keyEvent.
mainLoop(k) ==
  \/ k = "q" /\ KeyQuit
  \/ k = "j" /\ KeyMove
  \/ k = "g" /\ KeyG
  \/ k = " " /\ (KeySpace \/ KeySpaceStray)
  \/ k = "." /\ KeyHidden
  \/ k = "s" /\ KeyStatus
  \/ k = "a" /\ KeyAdd
  \/ k = "r" /\ KeyRemove
  \/ k = "u" /\ KeyUpdate
  \/ k \notin MainKeys /\ pc = "key" /\ UNCHANGED vars

\* Every getch of the program, with the key it gets.
getch(k) ==
  \/ mainLoop(k)
  \/ IF k = "g" THEN SecondG ELSE SwallowKey
  \/ IF k = "y" THEN AnswerYes ELSE Refuse
  \/ AnswerKeep(k = "y")
  \/ LeaveOutput

lastKey(k) == IF pc' = "key" THEN "none" ELSE k

Read ==
  /\ queue # <<>>
  /\ getch(Head(queue))
  /\ queue' = Tail(queue) /\ last' = lastKey(Head(queue))

\* getch returns ERR; in the main loop that changes nothing.
Expire == queue = <<>> /\ Timeout /\ last' = "none" /\ UNCHANGED queue

Type(k) ==
  /\ Len(queue) < MaxAhead
  /\ queue' = Append(queue, k)
  /\ UNCHANGED <<vars, last>>

Machine ==
  /\ Boot \/ SvnReturns \/ PopenFails \/ Terminated
  /\ last' = lastKey(last) /\ UNCHANGED queue

TypeNext == Read \/ Expire \/ Machine \/ \E k \in Keys : Type(k)

TypeSpec == TypeInit /\ [][TypeNext]_typeVars

\* As in SvnCurses: the program runs on, getch returns, svn processes end.
TypeFairness ==
  /\ WF_typeVars(Read \/ Expire)
  /\ WF_typeVars(Machine /\ (Boot \/ SvnReturns))

FairTyping == TypeSpec /\ TypeFairness

-----------------------------------------------------------------------------
(***************************************************************************)
(* A command is agreed to only by a 'y' typed right after the key that     *)
(* asked for it, with no other key and no timeout between: a 'y' that was  *)
(* typed before, or for an earlier question that has run out of time, is   *)
(* never taken for an answer.                                              *)
(***************************************************************************)
YesFollowsItsKey ==
  [][handler'.agreed /\ ~handler.agreed =>
       last = handler.op /\ last' = "y"]_typeVars

twoQuits == \E i \in 1..(Len(queue) - 1) : queue[i] = "q" /\ queue[i + 1] = "q"

(***************************************************************************)
(* 'q' typed twice in a row ends the program, whatever it is doing and     *)
(* whatever was typed before: a question, 'g' or the output of svn up      *)
(* swallows one key at most, and no wait is left for good.                 *)
(***************************************************************************)
TwoQuitsEnd == twoQuits ~> pc \in Ended
=============================================================================
