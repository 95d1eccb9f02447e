----------------------------- MODULE ExecProofs -----------------------------
(***************************************************************************)
(* Proofs about Exec, for every set of outputs and all sizes of the pipe   *)
(* and of the buffer.                                                      *)
(***************************************************************************)
EXTENDS Exec, SequenceTheorems, TLAPS

-----------------------------------------------------------------------------
(***************************************************************************)
(* Sequences.                                                              *)
(***************************************************************************)
\* Moving one character from one sequence to the one before it.
LEMMA Moved ==
  ASSUME NEW S, NEW s \in Seq(S), NEW t \in Seq(S), t # <<>>
  PROVE  /\ Append(s, Head(t)) \in Seq(S) /\ Tail(t) \in Seq(S)
         /\ Head(t) \in S
         /\ Append(s, Head(t)) \o Tail(t) = s \o t
         /\ Len(Append(s, Head(t))) = Len(s) + 1
         /\ Len(Tail(t)) = Len(t) - 1
<1>1. /\ Head(t) \in S /\ Tail(t) \in Seq(S) /\ Len(Tail(t)) = Len(t) - 1
      /\ \A i \in 1..Len(Tail(t)) : Tail(t)[i] = t[i + 1]
      /\ Head(t) = t[1]
  BY HeadTailProperties
<1>2. /\ Append(s, Head(t)) \in Seq(S)
      /\ Len(Append(s, Head(t))) = Len(s) + 1
      /\ \A i \in 1..Len(s) : Append(s, Head(t))[i] = s[i]
      /\ Append(s, Head(t))[Len(s) + 1] = Head(t)
  BY <1>1, AppendProperties
<1>3. /\ s \o t \in Seq(S) /\ Len(s \o t) = Len(s) + Len(t)
      /\ \A i \in 1..Len(s) + Len(t) :
           (s \o t)[i] = IF i <= Len(s) THEN s[i] ELSE t[i - Len(s)]
  BY ConcatProperties
<1> DEFINE u == Append(s, Head(t))
           v == Tail(t)
<1>4. /\ u \o v \in Seq(S) /\ Len(u \o v) = Len(u) + Len(v)
      /\ \A i \in 1..Len(u) + Len(v) :
           (u \o v)[i] = IF i <= Len(u) THEN u[i] ELSE v[i - Len(u)]
  BY <1>1, <1>2, ConcatProperties
<1>5. Len(s) \in Nat /\ Len(t) \in Nat /\ Len(u) = Len(s) + 1 /\ Len(v) = Len(t) - 1
  BY <1>1, <1>2, LenProperties
<1>6. \A i \in 1..Len(s \o t) : (u \o v)[i] = (s \o t)[i]
  <2> SUFFICES ASSUME NEW i \in 1..(Len(s) + Len(t))
               PROVE  (u \o v)[i] = (s \o t)[i]
    BY <1>3
  <2>1. CASE i <= Len(s)
    BY <2>1, <1>2, <1>3, <1>4, <1>5
  <2>2. CASE i = Len(s) + 1
    BY <2>2, <1>1, <1>2, <1>3, <1>4, <1>5
  <2>3. CASE i > Len(s) + 1
    BY <2>3, <1>1, <1>3, <1>4, <1>5
  <2> QED BY <2>1, <2>2, <2>3, <1>5
<1>7. u \o v = s \o t
  BY <1>3, <1>4, <1>5, <1>6, SeqEqual
<1> QED BY <1>1, <1>2, <1>7

LEMMA Assoc ==
  ASSUME NEW a \in Seq(Char), NEW b \in Seq(Char), NEW c \in Seq(Char)
  PROVE  (a \o b) \o c = a \o (b \o c)
BY ConcatAssociative, SMT

LEMMA Closed ==
  /\ <<>> \in Seq(Char)
  /\ \A a, b \in Seq(Char) : a \o b \in Seq(Char)
  /\ \A a \in Seq(Char) : a \o <<>> = a /\ <<>> \o a = a
BY ConcatProperties, ConcatEmptySeq

\* Four sequences joined in another order.
Grouped(a, b, c, d) ==
  /\ a \o b \o c \o d = a \o b \o (c \o d)
  /\ a \o b \o c \o d = a \o (b \o c) \o d
  /\ a \o b \o c \o d = a \o (b \o c \o d)

LEMMA Grouping ==
  ASSUME NEW a \in Seq(Char), NEW b \in Seq(Char), NEW c \in Seq(Char),
         NEW d \in Seq(Char)
  PROVE  Grouped(a, b, c, d)
<1> DEFINE ab == a \o b
           bc == b \o c
<1>1. ab \in Seq(Char) /\ bc \in Seq(Char)
  BY Closed, Zenon
<1>2. ab \o c = a \o bc
  BY Assoc
<1> HIDE DEF ab, bc
<1>3. (ab \o c) \o d = ab \o (c \o d)
  BY <1>1, Assoc
<1>4. (a \o bc) \o d = a \o (bc \o d)
  BY <1>1, Assoc
<1> QED BY <1>2, <1>3, <1>4 DEF ab, bc, Grouped

-----------------------------------------------------------------------------
(***************************************************************************)
(* The inductive invariant.                                                *)
(***************************************************************************)
Beginning == \E t \in Seq(Char) : output = result \o t

\* What is left behind when the loop ends.
LoopLeft ==
  /\ at # "fgets" => buffer = <<>> /\ (~cut => pipe = <<>>)
  /\ cut => at # "fgets"

NoNewline(s) == \A i \in 1..Len(s) : s[i] # Newline

\* s ends as a string that some calls of fgets have read.
EndsLine(s) ==
  \/ s = <<>>
  \/ s[Len(s)] = Newline
  \/ /\ Len(s) >= BufSize - 1
     /\ \A i \in (Len(s) - BufSize + 2)..Len(s) : s[i] # Newline

LineByLine ==
  /\ NoNewline(buffer)
  /\ ~split /\ (at = "fgets" \/ cut) => EndsLine(result)

IInv == TypeOK /\ Conserved /\ Beginning /\ LoopLeft /\ LineByLine

-----------------------------------------------------------------------------
\* The initial state.
LEMMA InitIInv == Init => IInv
<1> SUFFICES ASSUME Init PROVE IInv
  OBVIOUS
<1>1. <<>> \in Seq(Char) /\ output \in Seq(Char) /\ Len(<<>>) = 0
  BY ExecAssumption, EmptySeq DEF Init
<1>2. TypeOK
  <2>1. Len(<<>>) <= PipeSize /\ Len(<<>>) < BufSize - 1
    BY <1>1, ExecAssumption
  <2>2. cut \in BOOLEAN /\ split \in BOOLEAN
    BY DEF Init
  <2> QED BY <1>1, <2>1, <2>2, Zenon DEF Init, TypeOK
<1>3. <<>> \o output = output /\ <<>> \o <<>> = <<>>
  BY <1>1, ConcatEmptySeq
<1>4. Conserved
  BY <1>3, Zenon DEF Init, Conserved
<1>5. Beginning
  BY <1>1, <1>3 DEF Init, Beginning
<1>6. LoopLeft /\ LineByLine
  BY <1>1 DEF Init, LoopLeft, LineByLine, NoNewline, EndsLine
<1> QED BY <1>2, <1>4, <1>5, <1>6 DEF IInv

\* The svn process changes only what is not read yet.
LEMMA WriteIInv ==
  ASSUME IInv, Write
  PROVE  IInv'
<1> USE DEF IInv
<1>1. /\ Append(pipe, Head(rest)) \in Seq(Char) /\ Tail(rest) \in Seq(Char)
      /\ Append(pipe, Head(rest)) \o Tail(rest) = pipe \o rest
      /\ Len(Append(pipe, Head(rest))) = Len(pipe) + 1
  BY Moved DEF TypeOK, Write
<1>2. TypeOK'
  <2>1. Len(pipe) \in Nat
    BY LenProperties DEF TypeOK
  <2>2. Len(pipe') <= PipeSize
    BY <1>1, <2>1, ExecAssumption DEF Write
  <2> QED BY <1>1, <2>2 DEF TypeOK, Write, parent
<1>3. result \o buffer \o pipe' \o rest' = result \o buffer \o pipe \o rest
  <2>0. /\ result \in Seq(Char) /\ buffer \in Seq(Char) /\ pipe \in Seq(Char)
        /\ rest \in Seq(Char) /\ pipe' \in Seq(Char) /\ rest' \in Seq(Char)
    BY <1>1 DEF TypeOK, Write
  <2>1. Grouped(result, buffer, pipe, rest) /\ Grouped(result, buffer, pipe', rest')
    BY <2>0, Grouping
  <2>2. pipe' \o rest' = pipe \o rest
    BY <1>1 DEF Write
  <2> QED BY <2>1, <2>2 DEF Grouped
<1>4. Conserved'
  BY <1>3 DEF Conserved, Write, parent
<1>5. Beginning' /\ LineByLine'
  BY DEF Beginning, LineByLine, EndsLine, NoNewline, Write, parent
<1>6. LoopLeft'
  BY DEF LoopLeft, Write, parent
<1> QED BY <1>2, <1>4, <1>5, <1>6

LEMMA BecomeIInv ==
  ASSUME IInv, NEW state \in {"runs", "asks", "ended"}, become(state)
  PROVE  IInv'
BY DEF IInv, TypeOK, Conserved, Beginning, LoopLeft, LineByLine, EndsLine,
       NoNewline, become, parent

\* While nothing is lost the result is a beginning of the output.
LEMMA ConservedBeginning ==
  ASSUME TypeOK, Conserved, ~cut
  PROVE  Beginning
<1>0. /\ result \in Seq(Char) /\ buffer \in Seq(Char) /\ pipe \in Seq(Char)
      /\ rest \in Seq(Char)
  BY DEF TypeOK
<1>1. buffer \o pipe \o rest \in Seq(Char)
  BY <1>0, Closed, Zenon
<1>2. Grouped(result, buffer, pipe, rest)
  BY <1>0, Grouping
<1>3. output = result \o (buffer \o pipe \o rest)
  BY <1>2 DEF Conserved, Grouped
<1> QED BY <1>1, <1>3 DEF Beginning

\* A result to which a complete call of fgets is appended ends as one.
LEMMA Collected ==
  ASSUME NEW s \in Seq(Char), NEW b \in Seq(Char), NEW c \in Char,
         NoNewline(b), c = Newline \/ Len(b) + 1 = BufSize - 1
  PROVE  EndsLine(s \o Append(b, c))
<1> DEFINE r == Append(b, c)
           u == s \o r
<1>1. /\ r \in Seq(Char) /\ Len(r) = Len(b) + 1
      /\ \A i \in 1..Len(b) : r[i] = b[i]
      /\ r[Len(b) + 1] = c
  BY AppendProperties
<1>2. /\ Len(u) = Len(s) + Len(r)
      /\ \A i \in 1..Len(s) + Len(r) :
           u[i] = IF i <= Len(s) THEN s[i] ELSE r[i - Len(s)]
  BY <1>1, ConcatProperties
<1>3. Len(s) \in Nat /\ Len(b) \in Nat /\ BufSize \in Nat /\ BufSize >= 2
  BY LenProperties, ExecAssumption
<1> HIDE DEF r, u
<1>4. u[Len(u)] = c
  <2>1. /\ Len(u) \in 1..Len(s) + Len(r) /\ ~(Len(u) <= Len(s))
        /\ Len(u) - Len(s) = Len(b) + 1
    BY <1>1, <1>2, <1>3
  <2>2. u[Len(u)] = r[Len(u) - Len(s)]
    BY <1>2, <2>1
  <2> QED BY <1>1, <2>1, <2>2
<1>5. CASE c = Newline
  BY <1>4, <1>5 DEF EndsLine, u, r
<1>6. CASE c # Newline
  <2>1. Len(b) + 1 = BufSize - 1 /\ Len(u) = Len(s) + BufSize - 1
    BY <1>1, <1>2, <1>3, <1>6
  <2>2. ASSUME NEW i \in (Len(u) - BufSize + 2)..Len(u)
        PROVE  u[i] # Newline
    <3>1. i \in 1..Len(s) + Len(r) /\ i > Len(s) /\ i - Len(s) \in 1..Len(b) + 1
      BY <1>1, <1>2, <1>3, <2>1
    <3>2. u[i] = r[i - Len(s)]
      BY <1>2, <1>3, <3>1
    <3>3. CASE i - Len(s) \in 1..Len(b)
      BY <1>1, <3>2, <3>3 DEF NoNewline
    <3>4. CASE i - Len(s) = Len(b) + 1
      BY <1>1, <1>6, <3>2, <3>4
    <3> QED BY <1>3, <3>1, <3>3, <3>4
  <2>3. Len(u) >= BufSize - 1
    BY <1>3, <2>1
  <2>4. EndsLine(u)
    BY <2>2, <2>3 DEF EndsLine
  <2> QED BY <2>4 DEF u, r
<1> QED BY <1>5, <1>6

\* A call of fgets moves a character into its buffer, or its buffer and a
\* character to the result.
LEMMA FgetsIInv ==
  ASSUME IInv, Fgets
  PROVE  IInv'
<1> USE DEF IInv
<1> DEFINE c == Head(pipe)
           read == Append(buffer, c)
<1>1. /\ at = "fgets" /\ pipe # <<>> /\ pipe' = Tail(pipe) /\ ~cut
      /\ UNCHANGED <<at, child, rest, output, cut, split>>
  BY DEF Fgets, svn, LoopLeft
<1>2. /\ result \in Seq(Char) /\ buffer \in Seq(Char) /\ pipe \in Seq(Char)
      /\ rest \in Seq(Char) /\ Len(pipe) \in Nat /\ Len(buffer) \in Nat
      /\ Len(buffer) < BufSize - 1 /\ BufSize \in Nat
  BY LenProperties, ExecAssumption DEF TypeOK
<1>3. /\ read \in Seq(Char) /\ pipe' \in Seq(Char) /\ c \in Char
      /\ read \o pipe' = buffer \o pipe
      /\ Len(read) = Len(buffer) + 1 /\ Len(pipe') = Len(pipe) - 1
  BY <1>1, <1>2, Moved
<1>4. \/ /\ c = Newline \/ Len(read) = BufSize - 1
         /\ result' = result \o read /\ buffer' = <<>>
      \/ /\ c # Newline /\ Len(read) # BufSize - 1
         /\ buffer' = read /\ result' = result
  BY DEF Fgets
<1> HIDE DEF read, c
<1>5. /\ result' \in Seq(Char) /\ buffer' \in Seq(Char)
      /\ Len(buffer') < BufSize - 1
  <2>1. result \o read \in Seq(Char) /\ <<>> \in Seq(Char)
    BY <1>2, <1>3, Closed, Zenon
  <2>2. Len(<<>>) < BufSize - 1
    BY <1>2, EmptySeq
  <2>3. CASE buffer' = <<>>
    BY <1>2, <1>3, <1>4, <2>1, <2>2, <2>3
  <2>4. CASE buffer' = read /\ result' = result /\ Len(read) # BufSize - 1
    BY <1>2, <1>3, <2>4
  <2> QED BY <1>4, <2>3, <2>4
<1>6. TypeOK'
  <2>1. Len(pipe') <= PipeSize
    BY <1>2, <1>3, ExecAssumption DEF TypeOK
  <2> QED BY <1>1, <1>3, <1>5, <2>1 DEF TypeOK
<1>7. result' \o buffer' \o pipe' \o rest' = result \o buffer \o pipe \o rest
  <2>1. Grouped(result, buffer, pipe, rest) /\ Grouped(result, read, pipe', rest)
    BY <1>2, <1>3, Grouping
  <2>2. result \o read \o pipe' \o rest = result \o buffer \o pipe \o rest
    BY <1>3, <2>1 DEF Grouped
  <2>3. result' \o buffer' = result \o read
    <3>1. CASE result' = result \o read /\ buffer' = <<>>
      <4>1. result \o read \in Seq(Char)
        BY <1>2, <1>3, Closed, Zenon
      <4> QED BY <3>1, <4>1, Closed, Zenon
    <3>2. CASE buffer' = read /\ result' = result
      BY <3>2
    <3> QED BY <1>4, <3>1, <3>2
  <2>4. rest' = rest
    BY <1>1
  <2> QED BY <2>2, <2>3, <2>4, Zenon
<1>8. Conserved'
  BY <1>1, <1>7, Zenon DEF Conserved
<1>9. Beginning'
  <2>1. ~cut'
    BY <1>1
  <2> QED BY <1>6, <1>8, <2>1, ConservedBeginning, PTL
<1>10. LoopLeft'
  BY <1>1 DEF LoopLeft
<1>11. LineByLine'
  <2>1. CASE /\ c = Newline \/ Len(read) = BufSize - 1
             /\ result' = result \o read /\ buffer' = <<>>
    <3>1. NoNewline(buffer')
      BY <2>1, EmptySeq DEF NoNewline
    <3>2. EndsLine(result \o Append(buffer, c))
      BY <1>2, <1>3, <2>1, Collected DEF LineByLine, read
    <3> QED BY <2>1, <3>1, <3>2, Zenon DEF LineByLine, EndsLine, NoNewline, read
  <2>2. CASE c # Newline /\ buffer' = read /\ result' = result
    <3>1. \A i \in 1..Len(buffer) : read[i] = buffer[i]
      BY <1>2, <1>3, AppendProperties DEF read
    <3>2. read[Len(buffer) + 1] = c
      BY <1>2, <1>3, AppendProperties DEF read
    <3>3. NoNewline(read)
      <4> SUFFICES ASSUME NEW i \in 1..Len(read) PROVE read[i] # Newline
        BY DEF NoNewline
      <4>1. CASE i \in 1..Len(buffer)
        BY <3>1, <4>1 DEF NoNewline, LineByLine
      <4>2. CASE i = Len(buffer) + 1
        BY <2>2, <3>2, <4>2
      <4> QED BY <1>2, <1>3, <4>1, <4>2
    <3>4. NoNewline(buffer)' /\ EndsLine(result)' = EndsLine(result)
      BY <2>2, <3>3 DEF NoNewline, EndsLine
    <3> QED BY <1>1, <3>4 DEF LineByLine
  <2> QED BY <1>4, <2>1, <2>2
<1> QED BY <1>6, <1>8, <1>9, <1>10, <1>11

\* The last call appends what the buffer holds.
LEMMA EndOfOutputIInv ==
  ASSUME IInv, EndOfOutput
  PROVE  IInv'
<1> USE DEF IInv
<1>1. /\ at = "fgets" /\ pipe = <<>> /\ ~cut /\ at' = "pclose"
      /\ result' = result \o buffer /\ buffer' = <<>>
      /\ UNCHANGED <<pipe, child, rest, output, cut, split>>
  BY DEF EndOfOutput, svn, LoopLeft
<1>2. /\ result \in Seq(Char) /\ buffer \in Seq(Char) /\ rest \in Seq(Char)
      /\ result \o buffer \in Seq(Char) /\ <<>> \in Seq(Char)
      /\ result \o buffer \o <<>> = result \o buffer
  <2>1. result \in Seq(Char) /\ buffer \in Seq(Char) /\ rest \in Seq(Char)
    BY DEF TypeOK
  <2>2. result \o buffer \in Seq(Char) /\ <<>> \in Seq(Char)
    BY <2>1, Closed, Zenon
  <2> QED BY <2>1, <2>2, Closed, Zenon
<1>3. Len(<<>>) < BufSize - 1 /\ Len(<<>>) = 0
  BY EmptySeq, ExecAssumption
<1>4. TypeOK'
  BY <1>1, <1>2, <1>3 DEF TypeOK
<1>5. Conserved'
  BY <1>1, <1>2, Zenon DEF Conserved
<1>6. Beginning'
  <2>1. ~cut'
    BY <1>1
  <2> QED BY <1>4, <1>5, <2>1, ConservedBeginning, PTL
<1>7. LoopLeft' /\ LineByLine'
  BY <1>1, <1>3 DEF LoopLeft, LineByLine, NoNewline
<1> QED BY <1>4, <1>5, <1>6, <1>7

\* An interrupted read ends the loop at the end of a line, or breaks a line.
LEMMA InterruptIInv ==
  ASSUME IInv, Interrupt
  PROVE  IInv'
<1> USE DEF IInv
<1>1. /\ at = "fgets" /\ pipe = <<>> /\ ~cut /\ buffer' = <<>>
      /\ UNCHANGED <<pipe, child, rest, output>>
  BY DEF Interrupt, Blocked, svn, LoopLeft
<1>2. /\ result \in Seq(Char) /\ buffer \in Seq(Char) /\ rest \in Seq(Char)
      /\ result \o buffer \in Seq(Char) /\ <<>> \in Seq(Char)
      /\ result \o buffer \o <<>> = result \o buffer
  <2>1. result \in Seq(Char) /\ buffer \in Seq(Char) /\ rest \in Seq(Char)
    BY DEF TypeOK
  <2>2. result \o buffer \in Seq(Char) /\ <<>> \in Seq(Char)
    BY <2>1, Closed, Zenon
  <2> QED BY <2>1, <2>2, Closed, Zenon
<1>3. Len(<<>>) < BufSize - 1 /\ Len(<<>>) = 0
  BY EmptySeq, ExecAssumption
<1>4. CASE at' = "pclose" /\ cut' = TRUE /\ UNCHANGED <<result, split>>
  <2>1. TypeOK' /\ Conserved' /\ LoopLeft'
    BY <1>1, <1>2, <1>3, <1>4 DEF TypeOK, Conserved, LoopLeft
  <2>2. Beginning'
    BY <1>1, <1>4 DEF Beginning
  <2>3. LineByLine'
    BY <1>1, <1>3, <1>4 DEF LineByLine, NoNewline, EndsLine
  <2> QED BY <2>1, <2>2, <2>3
<1>5. CASE result' = result \o buffer /\ split' = TRUE /\ UNCHANGED <<at, cut>>
  <2>1. TypeOK'
    BY <1>1, <1>2, <1>3, <1>5 DEF TypeOK
  <2>2. Conserved'
    BY <1>1, <1>2, <1>5, Zenon DEF Conserved
  <2>3. Beginning'
    <3>1. ~cut'
      BY <1>1, <1>5
    <3> QED BY <2>1, <2>2, <3>1, ConservedBeginning, PTL
  <2>4. LoopLeft' /\ LineByLine'
    BY <1>1, <1>3, <1>5 DEF LoopLeft, LineByLine, NoNewline
  <2> QED BY <2>1, <2>2, <2>3, <2>4
<1> QED BY <1>4, <1>5 DEF Interrupt

LEMMA PcloseIInv ==
  ASSUME IInv, Pclose
  PROVE  IInv'
BY DEF IInv, TypeOK, Conserved, Beginning, LoopLeft, LineByLine, EndsLine,
       NoNewline, Pclose, svn

LEMMA IInvStep == IInv /\ [Next]_vars => IInv'
<1> SUFFICES ASSUME IInv, [Next]_vars PROVE IInv'
  OBVIOUS
<1>1. CASE Write
  BY <1>1, WriteIInv
<1>2. CASE Exit \/ Ask \/ Answer \/ Die
  BY <1>2, BecomeIInv DEF Exit, Ask, Answer, Die
<1>3. CASE Fgets
  BY <1>3, FgetsIInv
<1>4. CASE EndOfOutput
  BY <1>4, EndOfOutputIInv
<1>5. CASE Interrupt
  BY <1>5, InterruptIInv
<1>6. CASE Pclose
  BY <1>6, PcloseIInv
<1>7. CASE UNCHANGED vars
  BY <1>7 DEF IInv, TypeOK, Conserved, Beginning, LoopLeft, LineByLine,
       EndsLine, NoNewline, vars, parent, svn
<1> QED BY <1>1, <1>2, <1>3, <1>4, <1>5, <1>6, <1>7
         DEF Next, Child, Parent, Returned

LEMMA IInvAlways == Spec => []IInv
BY InitIInv, IInvStep, PTL DEF Spec

-----------------------------------------------------------------------------
(***************************************************************************)
(* Theorems.                                                               *)
(***************************************************************************)
\* exec never holds more than its buffer nor the pipe more than its size.
THEOREM TypeCorrect == Spec => []TypeOK
<1>1. IInv => TypeOK
  BY DEF IInv
<1> QED BY <1>1, IInvAlways, PTL

\* The fgets loop loses, doubles and reorders no character of the output of
\* svn, as long as no read is interrupted for good.
THEOREM NothingLost == Spec => []Conserved
<1>1. IInv => Conserved
  BY DEF IInv
<1> QED BY <1>1, IInvAlways, PTL

\* What exec returns is a beginning of what svn prints, and everything svn
\* has written unless a read was interrupted.
THEOREM BeginningReturned == Spec => []ReturnsBeginning
<1>1. IInv => ReturnsBeginning
  <2> SUFFICES ASSUME IInv PROVE ReturnsBeginning
    OBVIOUS
  <2>1. /\ result \in Seq(Char) /\ buffer \in Seq(Char) /\ pipe \in Seq(Char)
        /\ rest \in Seq(Char)
    BY DEF IInv, TypeOK
  <2>2. PICK t \in Seq(Char) : output = result \o t
    BY DEF IInv, Beginning
  <2>3. /\ Len(output) = Len(result) + Len(t)
        /\ Len(result) \in Nat /\ Len(t) \in Nat
    BY <2>1, <2>2, ConcatProperties, LenProperties
  <2>4. SubSeq(output, 1, Len(result)) = result
    BY <2>1, <2>2, SubSeqOfConcat1
  <2>5. ASSUME at # "fgets", ~cut
        PROVE  result \o rest = output
    <3>1. buffer = <<>> /\ pipe = <<>>
      BY <2>5 DEF IInv, LoopLeft
    <3>2. result \o <<>> = result
      BY <2>1, Closed, Zenon
    <3>3. result \o buffer \o pipe \o rest = output
      BY <2>5 DEF IInv, Conserved
    <3> QED BY <3>1, <3>2, <3>3, Zenon
  <2>6. Len(result) <= Len(output)
    BY <2>3
  <2> QED BY <2>4, <2>5, <2>6 DEF ReturnsBeginning
<1> QED BY <1>1, IInvAlways, PTL

\* An output that an interrupted read cuts short ends with a line, or with
\* a buffer full of a longer line.
THEOREM CutsAtLineEnds == Spec => []CutAtLineEnd
<1>1. IInv => CutAtLineEnd
  BY DEF IInv, LineByLine, EndsLine, CutAtLineEnd
<1> QED BY <1>1, IInvAlways, PTL
=============================================================================
