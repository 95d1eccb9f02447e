--------------------------- MODULE TypeAheadProofs ---------------------------
(***************************************************************************)
(* Proofs about TypeAhead: the queue of keys adds no behaviour to          *)
(* SvnCurses, and a question is answered by the key typed after its own.   *)
(***************************************************************************)
EXTENDS TypeAhead, HandlerProofs

-----------------------------------------------------------------------------
\* Whatever key getch returns, what follows is a step of the program.
LEMMA GetchIsUser ==
  ASSUME NEW k, getch(k)
  PROVE  User \/ UNCHANGED vars
<1>1. mainLoop(k) => User \/ UNCHANGED vars
  BY DEF mainLoop, User
<1>2. AnswerKeep(k = "y") => User
  <2>1. (k = "y") \in BOOLEAN
    OBVIOUS
  <2> QED BY <2>1 DEF User
<1> QED BY <1>1, <1>2 DEF getch, User

LEMMA TypingStep == [TypeNext]_typeVars => [Next]_vars
<1> SUFFICES ASSUME [TypeNext]_typeVars PROVE Next \/ UNCHANGED vars
  OBVIOUS
<1>1. CASE Read
  BY <1>1, GetchIsUser DEF Read, Next
<1>2. CASE Expire
  BY <1>2 DEF Expire, Next
<1>3. CASE Machine
  BY <1>3 DEF Machine, Next
<1>4. CASE \E k \in Keys : Type(k)
  BY <1>4 DEF Type
<1>5. CASE UNCHANGED typeVars
  BY <1>5 DEF typeVars
<1> QED BY <1>1, <1>2, <1>3, <1>4, <1>5 DEF TypeNext

(***************************************************************************)
(* The program behind a queue of keys is the program, for every set of     *)
(* keys and every length of the queue: keys typed early make it do nothing *)
(* that keys typed in time do not, so all theorems about Spec hold here.   *)
(***************************************************************************)
THEOREM TypingImplements == TypeSpec => Spec
<1>1. TypeInit => Init
  BY DEF TypeInit
<1> QED BY <1>1, TypingStep, PTL DEF TypeSpec, Spec

-----------------------------------------------------------------------------
\* While the first question waits, the last key is the one that asked it.
LastKey == pc = "ask" => last = handler.op

\* Only 'a', 'r' and 'u' lead to a question.
LEMMA AskedBy ==
  ASSUME TypeInv, TypeInv', Next, pc' = "ask"
  PROVE  KeyAdd \/ KeyRemove \/ KeyUpdate
<1>1. ASSUME NEW movement, NEW sel, moveAndPrint(movement, sel) PROVE FALSE
  BY <1>1, MovePrintFacts
<1>2. ~(\E out \in Outputs : ListingDone(out)) /\ ~EmptyListing
  BY DEF ListingDone, EmptyListing, showListing, printAllStatus
<1>3. ~(KeyMove \/ SecondG \/ KeySpace \/ KeySpaceStray)
  BY <1>1 DEF KeyMove, SecondG, KeySpace, KeySpaceStray
<1>4. ~(Boot \/ RunDone \/ PopenFails \/ Refuse \/ LeaveOutput \/ KeyStatus)
  BY DEF Boot, RunDone, PopenFails, Refuse, LeaveOutput, KeyStatus, listAgain,
         refreshStatusItems
<1>5. ~(KeyQuit \/ KeyG \/ SwallowKey \/ KeyHidden \/ AnswerYes \/ Terminated)
  BY DEF KeyQuit, KeyG, SwallowKey, goto, KeyHidden, AnswerYes, Terminated,
         vars, Ended
<1>6. ~\E keep \in BOOLEAN : AnswerKeep(keep)
  BY DEF AnswerKeep
<1> QED BY <1>2, <1>3, <1>4, <1>5, <1>6, NextActions

\* Only 'y' to the first question agrees to a command.
LEMMA AgreedBy ==
  ASSUME TypeInv, TypeInv', SafeInv, HandlerInv, Next,
         handler'.agreed, ~handler.agreed
  PROVE  AnswerYes
<1>0. TypeOK
  BY DEF TypeInv
<1>1. handler' # handler /\ handler' # NoHandler
  BY NoHandlerFacts
<1>2. ~(\E out \in Outputs : ListingDone(out)) /\ ~EmptyListing
  BY <1>1 DEF ListingDone, EmptyListing, showListing
<1>3. ~(KeyMove \/ SecondG \/ KeySpace \/ KeySpaceStray)
  BY <1>1 DEF KeyMove, SecondG, KeySpace, KeySpaceStray, moveAndPrint
<1>4. ~(Boot \/ PopenFails \/ Refuse \/ LeaveOutput)
  BY <1>1 DEF Boot, PopenFails, Refuse, LeaveOutput
<1>5. ~(KeyQuit \/ KeyG \/ SwallowKey \/ KeyHidden \/ Terminated)
  BY <1>1 DEF KeyQuit, KeyG, SwallowKey, goto, KeyHidden, Terminated, vars
<1>6. ~RunDone /\ ~\E keep \in BOOLEAN : AnswerKeep(keep)
  <2>1. pc \in {"run", "keep"} => handler.agreed
    BY DEF HandlerInv, Answered
  <2> QED BY <2>1 DEF RunDone, AnswerKeep
<1>7. ~KeyStatus
  <2>1. pc = "key" => V!rows > 0
    BY DEF SafeInv, PadUnderCursor, Waiting
  <2> QED BY <2>1, StatusFacts DEF KeyStatus
<1>8. ~(KeyAdd \/ KeyRemove \/ KeyUpdate)
  <2>1. selectedItems \in SUBSET Item /\ {} \in SUBSET Item
    BY <1>0 DEF TypeOK
  <2> QED BY <2>1, AskFacts DEF KeyAdd, KeyRemove, KeyUpdate
<1> QED BY <1>2, <1>3, <1>4, <1>5, <1>6, <1>7, <1>8, NextActions

\* The key that leads to a question is the handler's.
LEMMA AskingKey ==
  ASSUME TypeInv, TypeInv', NEW k, getch(k), pc' = "ask", pc # "ask"
  PROVE  handler'.op = k
<1>0. TypeOK
  BY DEF TypeInv
<1>1. KeyAdd \/ KeyRemove \/ KeyUpdate
  <2>1. ~UNCHANGED vars
    BY DEF vars
  <2> QED BY <2>1, GetchIsUser, AskedBy DEF Next
<1>2. pc = "key"
  BY <1>1 DEF KeyAdd, KeyRemove, KeyUpdate, ask
<1>3. mainLoop(k)
  BY <1>2 DEF getch, SecondG, SwallowKey, AnswerYes, Refuse, AnswerKeep, LeaveOutput
<1>4. ASSUME NEW movement, NEW sel, moveAndPrint(movement, sel) PROVE FALSE
  BY <1>4, MovePrintFacts
<1>5. ~(KeyMove \/ KeySpace \/ KeySpaceStray)
  BY <1>4 DEF KeyMove, KeySpace, KeySpaceStray
<1>6. ~(KeyQuit \/ KeyG \/ KeyHidden \/ KeyStatus \/ UNCHANGED vars)
  BY <1>2 DEF KeyQuit, KeyG, goto, KeyHidden, KeyStatus, refreshStatusItems, vars
<1>7. (k = "a" /\ KeyAdd) \/ (k = "r" /\ KeyRemove) \/ (k = "u" /\ KeyUpdate)
  BY <1>3, <1>5, <1>6 DEF mainLoop
<1>8. selectedItems \in SUBSET Item /\ {} \in SUBSET Item
  BY <1>0 DEF TypeOK
<1> QED BY <1>7, <1>8, AskFacts DEF KeyAdd, KeyRemove, KeyUpdate

\* No wait for a question is followed by another for a first question.
LEMMA NoAskAgain ==
  ASSUME TypeInv, TypeInv', Next, pc = "ask"
  PROVE  pc' # "ask"
BY AskedBy DEF KeyAdd, KeyRemove, KeyUpdate, ask

LEMMA LastKeyStep ==
  TypeInv /\ TypeInv' /\ LastKey /\ [TypeNext]_typeVars => LastKey'
<1> SUFFICES ASSUME TypeInv, TypeInv', LastKey, [TypeNext]_typeVars, pc' = "ask"
             PROVE  last' = handler'.op
  BY DEF LastKey
<1>1. CASE Read
  <2>1. getch(Head(queue)) /\ last' = Head(queue)
    BY <1>1 DEF Read, lastKey
  <2>2. CASE pc = "ask"
    <3>1. ~mainLoop(Head(queue))
      BY <2>2 DEF mainLoop, KeyQuit, KeyMove, KeyG, KeySpace, KeySpaceStray, KeyHidden,
                  KeyStatus, KeyAdd, KeyRemove, KeyUpdate, ask
    <3>2. AnswerYes \/ Refuse
      BY <2>1, <2>2, <3>1 DEF getch, SecondG, SwallowKey, AnswerKeep, LeaveOutput
    <3> QED BY <2>2, <3>2, NoAskAgain DEF Next, User
  <2>3. CASE pc # "ask"
    BY <2>1, <2>3, AskingKey
  <2> QED BY <2>2, <2>3
<1>2. CASE Expire \/ Machine
  <2>1. Next
    BY <1>2 DEF Expire, Machine, Next
  <2>2. KeyAdd \/ KeyRemove \/ KeyUpdate
    BY <2>1, AskedBy
  <2>3. pc = "key"
    BY <2>2 DEF KeyAdd, KeyRemove, KeyUpdate, ask
  <2>4. Expire => FALSE
    BY <2>3 DEF Expire, Timeout, SwallowKey, Refuse, AnswerKeep, LeaveOutput
  <2>5. Machine => FALSE
    BY <2>3 DEF Machine, Boot, SvnReturns, ListingDone, EmptyListing, RunDone,
                PopenFails, Terminated, Ended
  <2> QED BY <1>2, <2>4, <2>5
<1>3. CASE \E k \in Keys : Type(k)
  BY <1>3 DEF Type, vars, LastKey
<1>4. CASE UNCHANGED typeVars
  BY <1>4 DEF typeVars, terminal, vars, LastKey
<1> QED BY <1>1, <1>2, <1>3, <1>4 DEF TypeNext

\* The invariants of the program, and LastKey, hold behind the queue.
LEMMA TypingInvariance ==
  TypeSpec => [](TypeInv /\ SafeInv /\ HandlerInv /\ LastKey)
<1>1. TypeInit => LastKey
  BY DEF TypeInit, Init, LastKey
<1> QED BY <1>1, TypingImplements, HandlerInvariance, LastKeyStep, PTL DEF TypeSpec

(***************************************************************************)
(* However many keys wait, a command is agreed to only by a 'y' typed      *)
(* right after its key: no key typed for something else answers getch.     *)
(***************************************************************************)
THEOREM YesIsForItsQuestion == TypeSpec => YesFollowsItsKey
<1>1. /\ TypeInv /\ TypeInv' /\ SafeInv /\ HandlerInv /\ LastKey
      /\ [TypeNext]_typeVars
      => [handler'.agreed /\ ~handler.agreed =>
            last = handler.op /\ last' = "y"]_typeVars
  <2> SUFFICES ASSUME TypeInv, TypeInv', SafeInv, HandlerInv, LastKey, TypeNext,
                      handler'.agreed, ~handler.agreed
               PROVE  last = handler.op /\ last' = "y"
    OBVIOUS
  <2>1. handler' # handler
    OBVIOUS
  <2>2. AnswerYes
    BY <2>1, TypingStep, AgreedBy DEF vars
  <2>3. pc = "ask" /\ pc' # "key"
    BY <2>2 DEF AnswerYes
  <2>4. last = handler.op
    BY <2>3 DEF LastKey
  <2>5. ~Expire /\ ~Machine
    <3>1. ~Timeout
      <4>1. handler' # NoHandler
        BY NoHandlerFacts
      <4> QED BY <2>1, <2>3, <4>1 DEF Timeout, SwallowKey, Refuse, AnswerKeep, LeaveOutput
    <3> QED BY <2>3, <3>1 DEF Expire, Machine, Boot, SvnReturns, ListingDone,
                EmptyListing, RunDone, PopenFails, Terminated, Ended
  <2>6. Read
    BY <2>1, <2>5 DEF TypeNext, Type, vars
  <2>7. Head(queue) = "y"
    <3>1. ~mainLoop(Head(queue))
      BY <2>3 DEF mainLoop, KeyQuit, KeyMove, KeyG, KeySpace, KeySpaceStray, KeyHidden,
                  KeyStatus, KeyAdd, KeyRemove, KeyUpdate, ask
    <3>2. ~Refuse
      BY <2>1, NoHandlerFacts DEF Refuse
    <3> QED BY <2>3, <2>6, <3>1, <3>2
            DEF Read, getch, SecondG, SwallowKey, AnswerKeep, LeaveOutput
  <2> QED BY <2>3, <2>4, <2>6, <2>7 DEF Read, lastKey
<1> QED BY <1>1, TypingInvariance, PTL DEF TypeSpec, YesFollowsItsKey
=============================================================================
