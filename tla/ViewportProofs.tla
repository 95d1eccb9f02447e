--------------------------- MODULE ViewportProofs ---------------------------
(***************************************************************************)
(* Proofs about Viewport, for every terminal with a line for the pad and   *)
(* every list whose length a size_t can hold.                              *)
(***************************************************************************)
EXTENDS Viewport, TLAPS

\* A list length is a value of size_t: the difference of size() and 1 that
\* the code takes wraps around for the empty list only.
LEMMA SizeTLemma ==
  ASSUME NEW x \in Int, x >= 0
  PROVE  SizeT(x) = x
BY DEF SizeT

\* The movements change neither the list nor the types of the positions.
LEMMA MovementTypes ==
  ASSUME size \in Nat \ {0}, cursorPosition \in Nat, padPos \in Nat,
         moveOneRowDown \/ moveOneRowUp \/ gotoBottom \/ gotoTop
  PROVE  cursorPosition' \in Nat /\ padPos' \in Nat
<1>1. CASE moveOneRowDown
  BY <1>1 DEF moveOneRowDown
<1>2. CASE moveOneRowUp
  BY <1>2 DEF moveOneRowUp
<1>3. CASE gotoBottom
  BY <1>3, ViewportAssumption, SizeTLemma DEF gotoBottom
<1>4. CASE gotoTop
  BY <1>4 DEF gotoTop
<1> QED BY <1>1, <1>2, <1>3, <1>4

(***************************************************************************)
(* The list length, the cursor and the scroll position keep their types:   *)
(* no movement makes cursorPosition or padPos negative (padPos is an index *)
(* into statusItems).                                                      *)
(***************************************************************************)
THEOREM TypeCorrect == Spec => []TypeOK
<1>1. Init => TypeOK
  BY DEF Init, TypeOK
<1>2. TypeOK /\ [Next]_vars => TypeOK'
  <2> SUFFICES ASSUME TypeOK, [Next]_vars PROVE TypeOK'
    OBVIOUS
  <2>1. size \in Nat
    BY ViewportAssumption DEF TypeOK
  <2>2. CASE Down \/ Up \/ Bottom \/ Top
    BY <2>1, <2>2, MovementTypes DEF Down, Up, Bottom, Top, Move, TypeOK
  <2>3. CASE RelistKeep
    BY <2>3 DEF RelistKeep, TypeOK
  <2>4. CASE UNCHANGED vars
    BY <2>4 DEF vars, TypeOK
  <2> QED BY <2>2, <2>3, <2>4 DEF Next
<1> QED BY <1>1, <1>2, PTL DEF Spec

-----------------------------------------------------------------------------
(***************************************************************************)
(* CursorNearPad is inductive together with TypeOK.                        *)
(***************************************************************************)
IInv == TypeOK /\ CursorNearPad

LEMMA NearInit == Init => IInv
BY ViewportAssumption DEF Init, IInv, TypeOK, CursorNearPad

LEMMA NearStep == IInv /\ TypeOK' /\ [Next]_vars => IInv'
<1> SUFFICES ASSUME IInv, TypeOK', [Next]_vars PROVE CursorNearPad'
  BY DEF IInv
<1> USE ViewportAssumption DEF IInv, TypeOK, CursorNearPad
<1>1. CASE Down
  <2>1. size \in Nat \ {0} /\ moveOneRowDown
    BY <1>1 DEF Down, Move
  <2>2. CASE UNCHANGED <<cursorPosition, padPos>>
    BY <2>2
  <2>3. CASE /\ cursorPosition' = cursorPosition + 1
             /\ padPos' = IF cursorPosition' >= rows + padPos THEN padPos + 1
                                                              ELSE padPos
    BY <2>3 DEF rows
  <2> QED BY <2>1, <2>2, <2>3 DEF moveOneRowDown
<1>2. CASE Up
  <2>1. moveOneRowUp
    BY <1>2 DEF Up, Move
  <2>2. CASE cursorPosition > 0 /\ cursorPosition' > padPos
    BY <2>1, <2>2 DEF moveOneRowUp
  <2>3. CASE cursorPosition > 0 /\ ~(cursorPosition' > padPos)
    <3>1. cursorPosition' = cursorPosition - 1
      BY <2>1, <2>3 DEF moveOneRowUp
    <3>2. padPos' = IF padPos > 0 THEN padPos - 1 ELSE 0
      BY <2>1, <2>3 DEF moveOneRowUp
    <3> HIDE DEF TypeOK
    <3>3. cursorPosition \in Nat /\ padPos \in Nat
      BY DEF TypeOK
    <3> QED BY <2>3, <3>1, <3>2, <3>3
  <2>4. CASE ~(cursorPosition > 0)
    BY <2>1, <2>4 DEF moveOneRowUp
  <2> QED BY <2>2, <2>3, <2>4
<1>3. CASE Bottom
  <2>1. size \in Nat \ {0} /\ gotoBottom
    BY <1>3 DEF Bottom, Move
  <2>2. SizeT(size - 1) = size - 1 /\ SizeT(maxY) = maxY
    BY <2>1, SizeTLemma
  <2>3. SizeT(cursorPosition) = cursorPosition
    BY SizeTLemma
  <2>4. CASE UNCHANGED <<cursorPosition, padPos>>
    BY <2>4
  <2>5. CASE /\ cursorPosition < size - 1
             /\ cursorPosition' = size - 1
             /\ padPos' = IF maxY < size - 1
                          THEN size - maxY + bottomWindowSize ELSE padPos
    <3>1. CASE maxY < size - 1
      BY <2>1, <2>5, <3>1
    <3>2. CASE ~(maxY < size - 1)
      BY <2>1, <2>5, <3>2
    <3> QED BY <3>1, <3>2
  <2> QED BY <2>1, <2>2, <2>3, <2>4, <2>5 DEF gotoBottom
<1>4. CASE Top
  BY <1>4 DEF Top, Move, gotoTop
<1>5. CASE RelistKeep
  BY <1>5 DEF RelistKeep
<1>6. CASE UNCHANGED vars
  BY <1>6 DEF vars
<1> QED BY <1>1, <1>2, <1>3, <1>4, <1>5, <1>6 DEF Next

(***************************************************************************)
(* The cursor is never above the pad and at most maxY entries below its    *)
(* first line, for every terminal and every list.                          *)
(***************************************************************************)
THEOREM CursorStaysNear == Spec => []CursorNearPad
<1>1. IInv => CursorNearPad
  BY DEF IInv
<1> QED BY TypeCorrect, NearInit, NearStep, <1>1, PTL DEF Spec

(***************************************************************************)
(* Only 'G' on a list slightly longer than the pad leaves the pad.         *)
(***************************************************************************)
THEOREM JumpLeavesPad == Spec => OnlyShortJumpLeavesPad
<1> DEFINE Act == OnPad /\ ~OnPad' =>
                    /\ rows < size /\ size <= maxY + 1
                    /\ cursorPosition' = size - 1
                    /\ UNCHANGED <<size, padPos>>
<1>1. TypeOK /\ [Next]_vars => [Act]_vars
  <2> SUFFICES ASSUME TypeOK, Next, OnPad, ~OnPad'
               PROVE  /\ rows < size /\ size <= maxY + 1
                      /\ cursorPosition' = size - 1
                      /\ UNCHANGED <<size, padPos>>
    OBVIOUS
  <2> USE ViewportAssumption, SizeTLemma DEF TypeOK, OnPad, rows
  <2>1. CASE Down
    BY <2>1 DEF Down, Move, moveOneRowDown
  <2>2. CASE Up
    BY <2>2 DEF Up, Move, moveOneRowUp
  <2>3. CASE Bottom
    BY <2>3 DEF Bottom, Move, gotoBottom
  <2>4. CASE Top
    BY <2>4 DEF Top, Move, gotoTop
  <2>5. CASE RelistKeep
    BY <2>5 DEF RelistKeep
  <2> QED BY <2>1, <2>2, <2>3, <2>4, <2>5 DEF Next
<1> QED BY <1>1, TypeCorrect, PTL DEF Spec, OnlyShortJumpLeavesPad

(***************************************************************************)
(* Only a shrinking list strands the cursor behind the end of the list.    *)
(***************************************************************************)
THEOREM ShrinkingStrands == Spec => OnlyShrinkingStrands
<1> DEFINE Act == /\ InList /\ ~InList' =>
                       size' < size /\ UNCHANGED <<cursorPosition, padPos>>
                  /\ ~InList => cursorPosition' <= cursorPosition
<1>1. TypeOK /\ [Next]_vars => [Act]_vars
  <2> SUFFICES ASSUME TypeOK, Next PROVE Act
    OBVIOUS
  <2> USE ViewportAssumption, SizeTLemma DEF TypeOK, InList
  <2>1. CASE Down
    BY <2>1 DEF Down, Move, moveOneRowDown
  <2>2. CASE Up
    BY <2>2 DEF Up, Move, moveOneRowUp
  <2>3. CASE Bottom
    BY <2>3 DEF Bottom, Move, gotoBottom
  <2>4. CASE Top
    BY <2>4 DEF Top, Move, gotoTop
  <2>5. CASE RelistKeep
    BY <2>5 DEF RelistKeep
  <2> QED BY <2>1, <2>2, <2>3, <2>4, <2>5 DEF Next
<1> QED BY <1>1, TypeCorrect, PTL DEF Spec, OnlyShrinkingStrands

(***************************************************************************)
(* No movement scrolls past the end of the list.                           *)
(***************************************************************************)
THEOREM ScrollingStopsAtEnd == Spec => ScrollingKeepsPadFull
<1> DEFINE Act == PadFull /\ size' = size => PadFull'
<1>1. IInv /\ [Next]_vars => [Act]_vars
  <2> SUFFICES ASSUME IInv, Next, PadFull, size' = size PROVE PadFull'
    OBVIOUS
  <2> USE ViewportAssumption, SizeTLemma DEF IInv, TypeOK, CursorNearPad, PadFull, rows
  <2>1. CASE Down
    BY <2>1 DEF Down, Move, moveOneRowDown
  <2>2. CASE Up
    BY <2>2 DEF Up, Move, moveOneRowUp
  <2>3. CASE Bottom
    BY <2>3 DEF Bottom, Move, gotoBottom
  <2>4. CASE Top
    BY <2>4 DEF Top, Move, gotoTop
  <2>5. CASE RelistKeep
    BY <2>5 DEF RelistKeep
  <2> QED BY <2>1, <2>2, <2>3, <2>4, <2>5 DEF Next
<1> QED BY <1>1, TypeCorrect, NearInit, NearStep, PTL DEF Spec, ScrollingKeepsPadFull
=============================================================================
