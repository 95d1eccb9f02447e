-------------------------- MODULE StatusLineProofs ---------------------------
(***************************************************************************)
(* Proofs about StatusLine, for all paths, all listings and every width of *)
(* the terminal.                                                           *)
(***************************************************************************)
EXTENDS StatusLine, TLAPS, FiniteSetTheorems, WellFoundedInduction

Str == Seq(Char)

-----------------------------------------------------------------------------
(***************************************************************************)
(* Sequences.                                                              *)
(***************************************************************************)
LEMMA SeqEqual ==
  ASSUME NEW S, NEW s \in Seq(S), NEW t \in Seq(S), Len(s) = Len(t),
         \A i \in 1..Len(s) : s[i] = t[i]
  PROVE  s = t
OBVIOUS

LEMMA SubSeqFacts ==
  ASSUME NEW S, NEW s \in Seq(S), NEW m \in 1..(Len(s) + 1), NEW n \in (m - 1)..Len(s)
  PROVE  /\ SubSeq(s, m, n) \in Seq(S)
         /\ Len(SubSeq(s, m, n)) = n - m + 1
         /\ \A i \in 1..(n - m + 1) : SubSeq(s, m, n)[i] = s[m + i - 1]
<1>1. \A i \in m..n : s[i] \in S
  OBVIOUS
<1> QED BY <1>1

LEMMA ConcatFacts ==
  ASSUME NEW S, NEW s \in Seq(S), NEW t \in Seq(S)
  PROVE  /\ s \o t \in Seq(S)
         /\ Len(s \o t) = Len(s) + Len(t)
         /\ \A i \in 1..Len(s) : (s \o t)[i] = s[i]
         /\ \A i \in (Len(s) + 1)..(Len(s) + Len(t)) : (s \o t)[i] = t[i - Len(s)]
OBVIOUS

\* A sequence given by its elements.
LEMMA FunFacts ==
  ASSUME NEW S, NEW n \in Nat, NEW f \in [1..n -> S]
  PROVE  f \in Seq(S) /\ Len(f) = n
OBVIOUS

\* A set of natural numbers that is not empty has a least element.
LEMMA Least ==
  ASSUME NEW T \in SUBSET Nat, T # {}
  PROVE  \E x \in T : \A y \in T : x <= y
<1>1. PICK x \in T : \A y \in T : ~(<<y, x>> \in OpToRel(<, Nat))
  BY NatLessThanWellFounded, WFMin
<1>2. \A y \in T : ~(y < x)
  BY <1>1 DEF OpToRel
<1> QED BY <1>2

LEMMA ContainsFacts ==
  ASSUME NEW S, NEW s \in Seq(S), NEW e
  PROVE  Contains(s, e) <=> e \in ToSet(s)
BY DEF Contains, ToSet

-----------------------------------------------------------------------------
(***************************************************************************)
(* What padding, shifting and cutting make of a line.                      *)
(***************************************************************************)
LEMMA LineFacts ==
  ASSUME NEW path \in Paths
  PROVE  /\ path \in Str /\ Len(path) \in Nat /\ 0 < Len(path) /\ Len(path) + 8 <= maxX
         /\ line(path) \in Str
         /\ Len(line(path)) = Len(path) + 8
         /\ \A c \in 2..8 : line(path)[c] = Blank
         /\ \A c \in 9..(Len(path) + 8) : line(path)[c] = path[c - 8]
<1> DEFINE states == [c \in 1..8 |-> IF c = 1 THEN "?" ELSE Blank]
<1>1. path \in Str /\ Len(path) \in Nat /\ 0 < Len(path) /\ Len(path) + 8 <= maxX
  BY StatusLineAssumption DEF Str
<1>2. states \in Str /\ Len(states) = 8 /\ \A c \in 2..8 : states[c] = Blank
  <2>1. states \in [1..8 -> Char]
    BY StatusLineAssumption
  <2>2. states \in Seq(Char) /\ Len(states) = 8
    BY <2>1, FunFacts
  <2> QED BY <2>2 DEF Str
<1>3. line(path) = states \o path
  BY DEF line
<1> HIDE DEF states
<1>4. /\ states \o path \in Seq(Char) /\ Len(states \o path) = Len(states) + Len(path)
      /\ \A i \in 1..Len(states) : (states \o path)[i] = states[i]
      /\ \A i \in (Len(states) + 1)..(Len(states) + Len(path)) :
           (states \o path)[i] = path[i - Len(states)]
  <2>1. states \in Seq(Char) /\ path \in Seq(Char)
    BY <1>1, <1>2 DEF Str
  <2> QED BY <2>1, ConcatFacts
<1>5. \A c \in 2..8 : line(path)[c] = Blank
  BY <1>1, <1>2, <1>3, <1>4
<1>6. \A c \in 9..(Len(path) + 8) : line(path)[c] = path[c - 8]
  BY <1>1, <1>2, <1>3, <1>4
<1> QED BY <1>1, <1>2, <1>3, <1>4, <1>5, <1>6 DEF Str

\* append(padSize, ' ') makes a string as long as the terminal is wide and
\* leaves one alone that is so already.
LEMMA PaddedFacts ==
  ASSUME NEW s \in Str, Len(s) <= maxX
  PROVE  /\ padded(s) \in Str /\ Len(padded(s)) = maxX
         /\ \A c \in 1..Len(s) : padded(s)[c] = s[c]
         /\ \A c \in (Len(s) + 1)..maxX : padded(s)[c] = Blank
         /\ Len(s) = maxX => padded(s) = s
<1> DEFINE blanks == [c \in 1..(maxX - Len(s)) |-> Blank]
<1>1. s \in Seq(Char) /\ Len(s) \in Nat /\ maxX - Len(s) \in Nat
  BY StatusLineAssumption DEF Str
<1>2. blanks \in Seq(Char) /\ Len(blanks) = maxX - Len(s)
  <2>1. blanks \in [1..(maxX - Len(s)) -> Char]
    BY StatusLineAssumption
  <2> QED BY <1>1, <2>1, FunFacts
<1>3. \A c \in 1..(maxX - Len(s)) : blanks[c] = Blank
  OBVIOUS
<1>4. padded(s) = s \o blanks
  BY DEF padded
<1> HIDE DEF blanks
<1>5. /\ padded(s) \in Seq(Char) /\ Len(padded(s)) = maxX
      /\ \A c \in 1..Len(s) : padded(s)[c] = s[c]
  <2>1. /\ s \o blanks \in Seq(Char) /\ Len(s \o blanks) = Len(s) + Len(blanks)
        /\ \A i \in 1..Len(s) : (s \o blanks)[i] = s[i]
    BY <1>1, <1>2, ConcatFacts
  <2> QED BY <1>1, <1>2, <1>4, <2>1, StatusLineAssumption
<1>6. ASSUME NEW c \in (Len(s) + 1)..maxX PROVE padded(s)[c] = Blank
  <2>1. c \in (Len(s) + 1)..(Len(s) + Len(blanks)) /\ c - Len(s) \in 1..(maxX - Len(s))
    BY <1>1, <1>2, StatusLineAssumption
  <2>2. padded(s)[c] = blanks[c - Len(s)]
    BY <1>1, <1>2, <1>4, <2>1, ConcatFacts
  <2> QED BY <1>3, <2>1, <2>2
<1>7. Len(s) = maxX => padded(s) = s
  BY <1>1, <1>5, SeqEqual
<1> QED BY <1>5, <1>6, <1>7 DEF Str

\* insert and erase on the copy that is printed.
LEMMA ShiftedFacts ==
  ASSUME NEW s \in Str, Len(s) >= 9
  PROVE  /\ shifted(s) \in Str /\ Len(shifted(s)) = Len(s)
         /\ \A c \in 10..Len(s) : shifted(s)[c] = s[c - 1]
<1>1. s \in Seq(Char) /\ Len(s) \in Nat /\ Blank \in Char
  BY StatusLineAssumption DEF Str
<1> DEFINE head == SubSeq(s, 1, 8)
           tail == SubSeq(s, 9, Len(s))
           wide == head \o <<Blank>> \o tail
<1>2. /\ head \in Seq(Char) /\ Len(head) = 8
  BY <1>1, SubSeqFacts
<1>3. /\ tail \in Seq(Char) /\ Len(tail) = Len(s) - 8
      /\ \A i \in 1..(Len(s) - 8) : tail[i] = s[9 + i - 1]
  BY <1>1, SubSeqFacts
<1>4. shifted(s) = SubSeq(wide, 1, Len(wide) - 1)
  BY DEF shifted, Front, InsertAt
<1> HIDE DEF head, tail
<1>5. head \o <<Blank>> \in Seq(Char) /\ Len(head \o <<Blank>>) = 9
  <2> DEFINE one == <<Blank>>
  <2>1. one \in Seq(Char) /\ Len(one) = 1
    BY <1>1
  <2> HIDE DEF one
  <2>2. head \o one \in Seq(Char) /\ Len(head \o one) = Len(head) + Len(one)
    BY <1>2, <2>1, ConcatFacts
  <2>3. Len(head \o one) = 9
    BY <1>2, <2>1, <2>2
  <2> QED BY <2>2, <2>3 DEF one
<1>6. /\ wide \in Seq(Char) /\ Len(wide) = Len(s) + 1
      /\ \A i \in 10..(Len(s) + 1) : wide[i] = tail[i - 9]
  BY <1>1, <1>3, <1>5, ConcatFacts
<1> HIDE DEF wide
<1>7. /\ shifted(s) \in Seq(Char) /\ Len(shifted(s)) = Len(s)
      /\ \A i \in 1..Len(s) : shifted(s)[i] = wide[1 + i - 1]
  BY <1>1, <1>4, <1>6, SubSeqFacts
<1>8. ASSUME NEW c \in 10..Len(s) PROVE shifted(s)[c] = s[c - 1]
  <2>1. c \in 1..Len(s) /\ c \in 10..(Len(s) + 1) /\ c - 9 \in 1..(Len(s) - 8)
        /\ 1 + c - 1 = c /\ 9 + (c - 9) - 1 = c - 1
    BY <1>1
  <2>2. shifted(s)[c] = wide[c]
    BY <1>7, <2>1
  <2> QED BY <1>3, <1>6, <2>1, <2>2
<1> QED BY <1>7, <1>8 DEF Str

\* erase(0, 7)
LEMMA CutOffFacts ==
  ASSUME NEW s \in Str, Len(s) >= 8
  PROVE  /\ cutOff(s) \in Str /\ Len(cutOff(s)) = Len(s) - 7
         /\ \A c \in 1..(Len(s) - 7) : cutOff(s)[c] = s[c + 7]
<1>1. s \in Seq(Char) /\ Len(s) \in Nat
  BY DEF Str
<1>2. /\ cutOff(s) \in Seq(Char) /\ Len(cutOff(s)) = Len(s) - 8 + 1
      /\ \A i \in 1..(Len(s) - 8 + 1) : cutOff(s)[i] = s[8 + i - 1]
  BY <1>1, SubSeqFacts DEF cutOff
<1> QED BY <1>1, <1>2 DEF Str

-----------------------------------------------------------------------------
(***************************************************************************)
(* The selection: pushing a string and erasing it again.                   *)
(***************************************************************************)
Distinct(s) == \A i, j \in DOMAIN s : s[i] = s[j] => i = j

\* The other positions are numbered from 1 without gaps, in their order.
LEMMA RankFacts ==
  ASSUME NEW n \in Nat, NEW kept \in SUBSET (1..n)
  PROVE  LET rank(i) == Cardinality({j \in kept : j <= i})
         IN  /\ IsFiniteSet(kept) /\ Cardinality(kept) \in Nat
             /\ \A i \in kept : rank(i) \in 1..Cardinality(kept)
             /\ \A i, k \in kept : rank(i) = rank(k) => i = k
             /\ \A m \in 1..Cardinality(kept) : \E i \in kept : rank(i) = m
<1> DEFINE upTo(i) == {j \in kept : j <= i}
           rank == [i \in kept |-> Cardinality(upTo(i))]
           N == Cardinality(kept)
<1>1. IsFiniteSet(kept) /\ N \in Nat
  <2>1. IsFiniteSet(1..n)
    BY FS_Interval
  <2> QED BY <2>1, FS_Subset, FS_CardinalityType
<1>2. ASSUME NEW i \in kept
      PROVE  IsFiniteSet(upTo(i)) /\ rank[i] \in 1..N
  <2>1. upTo(i) \in SUBSET kept /\ i \in upTo(i)
    OBVIOUS
  <2>2. IsFiniteSet(upTo(i)) /\ Cardinality(upTo(i)) <= N
    BY <1>1, <2>1, FS_Subset
  <2>3. Cardinality(upTo(i)) \in Nat /\ Cardinality(upTo(i)) # 0
    BY <2>1, <2>2, FS_CardinalityType, FS_EmptySet
  <2> QED BY <1>1, <2>2, <2>3
<1>3. ASSUME NEW i \in kept, NEW k \in kept, i < k
      PROVE  rank[i] # rank[k]
  <2>1. upTo(i) \in SUBSET upTo(k) /\ k \in upTo(k) /\ k \notin upTo(i)
    <3>1. \A j \in kept : j \in Int
      OBVIOUS
    <3>2. (\A j \in kept : j <= i => j <= k) /\ k <= k /\ ~(k <= i)
      BY <1>3, <3>1
    <3> QED BY <3>2, Zenon
  <2>2. IsFiniteSet(upTo(k))
    BY <1>2
  <2> QED BY <2>1, <2>2, FS_Subset
<1>4. \A i, k \in kept : rank[i] = rank[k] => i = k
  BY <1>3
<1>5. rank \in Injection(kept, 1..N)
  <2>1. rank \in [kept -> 1..N]
    BY <1>2
  <2>2. IsInjective(rank)
    BY <1>4 DEF IsInjective
  <2> QED BY <2>1, <2>2 DEF Injection
<1>6. IsFiniteSet(1..N) /\ Cardinality(1..N) = N
  BY <1>1, FS_Interval
<1>7. rank \in Surjection(kept, 1..N)
  BY <1>5, <1>6, FS_Injection
<1>8. \A m \in 1..N : \E i \in kept : rank[i] = m
  BY <1>7 DEF Surjection
<1>9. \A i \in kept : rank[i] = Cardinality({j \in kept : j <= i})
  OBVIOUS
<1> HIDE DEF rank, N
<1>10. N = Cardinality(kept)
  BY DEF N
<1> QED BY <1>1, <1>2, <1>4, <1>8, <1>9, <1>10

\* erase(remove(begin, end, item), end) takes out item and nothing else.
LEMMA ErasedFacts ==
  ASSUME NEW S, NEW sel \in Seq(S), NEW item
  PROVE  /\ erased(sel, item) \in Seq(S)
         /\ ToSet(erased(sel, item)) = ToSet(sel) \ {item}
         /\ Distinct(sel) => Distinct(erased(sel, item))
<1> DEFINE kept == {i \in DOMAIN sel : sel[i] # item}
           rank(i) == Cardinality({j \in kept : j <= i})
           N == Cardinality(kept)
           at(m) == CHOOSE i \in kept : rank(i) = m
           rest == [m \in 1..N |-> sel[at(m)]]
<1>1. erased(sel, item) = rest
  BY DEF erased
<1>2. Len(sel) \in Nat /\ kept \in SUBSET (1..Len(sel)) /\ \A i \in DOMAIN sel : sel[i] \in S
  OBVIOUS
<1>3. /\ N \in Nat
      /\ \A i \in kept : rank(i) \in 1..N
      /\ \A i, k \in kept : rank(i) = rank(k) => i = k
      /\ \A m \in 1..N : \E i \in kept : rank(i) = m
  BY <1>2, RankFacts
<1>4. \A m \in 1..N : at(m) \in kept /\ rank(at(m)) = m
  BY <1>3
<1>5. \A i \in kept : at(rank(i)) = i
  BY <1>3, <1>4
<1>6. \A i \in kept : i \in DOMAIN sel /\ sel[i] # item
  OBVIOUS
<1>7. \A i \in DOMAIN sel : sel[i] # item => i \in kept
  OBVIOUS
<1> HIDE DEF kept, rank, at, N
<1>8. rest \in Seq(S) /\ Len(rest) = N /\ DOMAIN rest = 1..N
  <2>1. rest \in [1..N -> S]
    BY <1>2, <1>4, <1>6
  <2> QED BY <1>3, <2>1, FunFacts
<1>9. ToSet(rest) = {sel[at(m)] : m \in 1..N}
  BY <1>8 DEF ToSet
<1>10. ToSet(rest) = ToSet(sel) \ {item}
  <2>1. ASSUME NEW x \in ToSet(rest) PROVE x \in ToSet(sel) \ {item}
    BY <1>4, <1>6, <1>9 DEF ToSet
  <2>2. ASSUME NEW x \in ToSet(sel) \ {item} PROVE x \in ToSet(rest)
    <3>1. PICK i \in DOMAIN sel : sel[i] = x
      BY DEF ToSet
    <3>2. i \in kept /\ rank(i) \in 1..N /\ at(rank(i)) = i
      BY <1>3, <1>5, <1>7, <3>1
    <3> QED BY <1>9, <3>1, <3>2
  <2> QED BY <2>1, <2>2
<1>11. ASSUME Distinct(sel), NEW m \in 1..N, NEW k \in 1..N, rest[m] = rest[k]
       PROVE  m = k
  <2>1. sel[at(m)] = sel[at(k)] /\ at(m) \in DOMAIN sel /\ at(k) \in DOMAIN sel
    BY <1>4, <1>6, <1>11
  <2>2. at(m) = at(k)
    BY <1>11, <2>1 DEF Distinct
  <2> QED BY <1>4, <2>2
<1>12. Distinct(sel) => Distinct(rest)
  BY <1>8, <1>11 DEF Distinct
<1> QED BY <1>1, <1>8, <1>10, <1>12

\* ' ' adds what it does not find and takes away what it finds.
LEMMA ToggledFacts ==
  ASSUME NEW S, NEW sel \in Seq(S), NEW item \in S, Distinct(sel)
  PROVE  /\ toggled(sel, item) \in Seq(S)
         /\ ToSet(toggled(sel, item)) \subseteq ToSet(sel) \cup {item}
         /\ Distinct(toggled(sel, item))
<1>1. CASE Contains(sel, item)
  <2>1. toggled(sel, item) = erased(sel, item)
    BY <1>1 DEF toggled
  <2> QED BY <2>1, ErasedFacts
<1>2. CASE ~Contains(sel, item)
  <2>1. toggled(sel, item) = Append(sel, item)
    BY <1>2 DEF toggled
  <2>2. \A i \in 1..Len(sel) : sel[i] # item
    BY <1>2, ContainsFacts DEF ToSet
  <2>3. /\ Append(sel, item) \in Seq(S) /\ DOMAIN Append(sel, item) = 1..(Len(sel) + 1)
        /\ \A i \in 1..Len(sel) : Append(sel, item)[i] = sel[i]
        /\ Append(sel, item)[Len(sel) + 1] = item
    OBVIOUS
  <2>4. ToSet(Append(sel, item)) \subseteq ToSet(sel) \cup {item}
    BY <2>3 DEF ToSet
  <2>5. \A i, j \in 1..Len(sel) : sel[i] = sel[j] => i = j
    BY DEF Distinct
  <2>6. Distinct(Append(sel, item))
    BY <2>2, <2>3, <2>5 DEF Distinct
  <2> QED BY <2>1, <2>3, <2>4, <2>6
<1> QED BY <1>1, <1>2

-----------------------------------------------------------------------------
(***************************************************************************)
(* The inductive invariant.  Items are the padded lines of the listing, so *)
(* printing them again changes none; rows are made of them by the present  *)
(* selection; and the selection holds items only, none twice.              *)
(***************************************************************************)
item(p) == padded(line(p))

Items ==
  /\ paths \in Seq(Paths)
  /\ statusItems = [i \in DOMAIN paths |-> item(paths[i])]

Selection ==
  /\ selectedItems \in Seq(Str)
  /\ SelectionIsASet

Rows ==
  rows = [i \in DOMAIN paths |->
            IF isChosen(i) THEN shifted(statusItems[i]) ELSE statusItems[i]]

LineInv == Items /\ Selection /\ Rows

LEMMA ItemFacts ==
  ASSUME NEW p \in Paths
  PROVE  /\ item(p) \in Str /\ Len(item(p)) = maxX /\ padded(item(p)) = item(p)
         /\ p \in Str /\ Len(p) \in Nat /\ maxX \in Nat /\ Len(p) + 8 <= maxX /\ Len(p) >= 1
         /\ \A c \in 2..8 : item(p)[c] = Blank
         /\ \A c \in 9..(Len(p) + 8) : item(p)[c] = p[c - 8]
         /\ \A c \in (Len(p) + 9)..maxX : item(p)[c] = Blank
<1>1. /\ p \in Str /\ Len(p) \in Nat /\ 0 < Len(p) /\ Len(p) + 8 <= maxX
      /\ line(p) \in Str /\ Len(line(p)) = Len(p) + 8 /\ maxX \in Nat
      /\ \A c \in 2..8 : line(p)[c] = Blank
      /\ \A c \in 9..(Len(p) + 8) : line(p)[c] = p[c - 8]
  BY LineFacts, StatusLineAssumption
<1>2. /\ item(p) \in Str /\ Len(item(p)) = maxX
      /\ \A c \in 1..Len(line(p)) : item(p)[c] = line(p)[c]
      /\ \A c \in (Len(line(p)) + 1)..maxX : item(p)[c] = Blank
  BY <1>1, PaddedFacts DEF item
<1>3. padded(item(p)) = item(p)
  BY <1>1, <1>2, PaddedFacts
<1>4. \A c \in 2..8 : item(p)[c] = Blank
  BY <1>1, <1>2
<1>5. \A c \in 9..(Len(p) + 8) : item(p)[c] = p[c - 8]
  BY <1>1, <1>2
<1>6. \A c \in (Len(p) + 9)..maxX : item(p)[c] = Blank
  BY <1>1, <1>2
<1> QED BY <1>1, <1>2, <1>3, <1>4, <1>5, <1>6

LEMMA LineInvInit == Init => LineInv
<1> SUFFICES ASSUME Init PROVE LineInv
  OBVIOUS
<1>1. Items
  BY DEF Init, Items
<1>2. Selection
  BY DEF Init, Selection, SelectionIsASet, ToSet
<1>3. Rows
  BY DEF Init, Rows
<1> QED BY <1>1, <1>2, <1>3 DEF LineInv

\* A listing replaces the items and clears the selection.
LEMMA RefreshKeeps ==
  ASSUME NEW out \in Listings, refreshStatusItems(out)
  PROVE  LineInv'
<1> DEFINE fresh == [i \in DOMAIN out |-> line(out[i])]
<1>1. out \in Seq(Paths) /\ \A i \in DOMAIN out : out[i] \in Paths
  BY StatusLineAssumption
<1>2. paths' = out /\ selectedItems' = <<>> /\ printAllStatus(fresh, <<>>)
  BY DEF refreshStatusItems
<1>3. DOMAIN fresh = DOMAIN out /\ \A i \in DOMAIN out : fresh[i] = line(out[i])
  OBVIOUS
<1> HIDE DEF fresh
<1>4. statusItems' = [i \in DOMAIN out |-> item(out[i])]
  BY <1>2, <1>3 DEF printAllStatus, item
<1>5. rows' = [i \in DOMAIN out |-> item(out[i])]
  <2>1. \A e : ~Contains(<<>>, e)
    BY DEF Contains
  <2>2. \A i \in DOMAIN out : printStatusWithColor(fresh, <<>>, i) = item(out[i])
    BY <1>3, <2>1 DEF printStatusWithColor, item
  <2> QED BY <1>2, <1>3, <2>2 DEF printAllStatus
<1>6. Items'
  BY <1>1, <1>2, <1>4 DEF Items
<1>7. Selection'
  BY <1>2 DEF Selection, SelectionIsASet, ToSet
<1>8. Rows'
  <2>1. \A i \in DOMAIN out : ~(isChosen(i))'
    BY <1>2 DEF isChosen, ToSet
  <2> QED BY <1>2, <1>4, <1>5, <2>1 DEF Rows, isChosen
<1> QED BY <1>6, <1>7, <1>8 DEF LineInv

\* ' ' toggles one item and prints all again.
LEMMA SpaceKeeps ==
  ASSUME LineInv, NEW k \in DOMAIN statusItems, KeySpace(k)
  PROVE  LineInv'
<1>1. /\ paths \in Seq(Paths) /\ DOMAIN statusItems = DOMAIN paths
      /\ \A i \in DOMAIN paths : paths[i] \in Paths /\ statusItems[i] = item(paths[i])
  BY DEF LineInv, Items
<1>2. \A i \in DOMAIN paths : statusItems[i] \in Str /\ padded(statusItems[i]) = statusItems[i]
  BY <1>1, ItemFacts
<1>3. /\ selectedItems' = toggled(selectedItems, statusItems[k])
      /\ printAllStatus(statusItems, selectedItems') /\ paths' = paths
  BY DEF KeySpace
<1>4. statusItems' = statusItems
  <2>1. statusItems' = [i \in DOMAIN paths |-> statusItems[i]]
    BY <1>1, <1>2, <1>3 DEF printAllStatus
  <2>2. statusItems = [i \in DOMAIN paths |-> statusItems[i]]
    BY DEF LineInv, Items
  <2> QED BY <2>1, <2>2
<1>5. Items'
  BY <1>3, <1>4 DEF LineInv, Items
<1>6. /\ selectedItems \in Seq(Str) /\ Distinct(selectedItems)
      /\ ToSet(selectedItems) \subseteq ToSet(statusItems)
  BY DEF LineInv, Selection, SelectionIsASet, Distinct
<1>7. /\ selectedItems' \in Seq(Str) /\ Distinct(selectedItems')
      /\ ToSet(selectedItems') \subseteq ToSet(selectedItems) \cup {statusItems[k]}
  BY <1>1, <1>2, <1>3, <1>6, ToggledFacts
<1>8. Selection'
  <2>1. statusItems[k] \in ToSet(statusItems)
    BY DEF ToSet
  <2> QED BY <1>4, <1>6, <1>7, <2>1 DEF Selection, SelectionIsASet, Distinct
<1>9. Rows'
  <2>1. \A i \in DOMAIN paths :
          Contains(selectedItems', statusItems[i]) <=> (isChosen(i))'
    BY <1>4, <1>7, ContainsFacts DEF isChosen
  <2>2. \A i \in DOMAIN paths :
          printStatusWithColor(statusItems, selectedItems', i)
            = IF (isChosen(i))' THEN shifted(statusItems[i]) ELSE statusItems[i]
    BY <1>2, <2>1 DEF printStatusWithColor
  <2>3. rows' = [i \in DOMAIN paths |-> printStatusWithColor(statusItems, selectedItems', i)]
    BY <1>1, <1>3 DEF printAllStatus
  <2>4. rows' = [i \in DOMAIN paths |->
                   IF (isChosen(i))' THEN shifted(statusItems[i]) ELSE statusItems[i]]
    BY <2>2, <2>3
  <2> QED BY <1>3, <1>4, <2>4 DEF Rows
<1> QED BY <1>5, <1>8, <1>9 DEF LineInv

LEMMA LineInvStep == LineInv /\ [Next]_vars => LineInv'
<1> SUFFICES ASSUME LineInv, [Next]_vars PROVE LineInv'
  OBVIOUS
<1>1. CASE UNCHANGED vars
  BY <1>1 DEF vars, LineInv, Items, Selection, SelectionIsASet, Rows, isChosen
<1>2. ASSUME NEW out \in Listings, KeyStatus(out) PROVE LineInv'
  BY <1>2, RefreshKeeps DEF KeyStatus
<1>3. ASSUME NEW out \in Listings, KeyCommand(out) PROVE LineInv'
  BY <1>3, RefreshKeeps DEF KeyCommand
<1>4. ASSUME NEW i \in DOMAIN statusItems, KeySpace(i) PROVE LineInv'
  BY <1>4, SpaceKeeps
<1> QED BY <1>1, <1>2, <1>3, <1>4 DEF Next

LEMMA LineInvAlways == Spec => []LineInv
BY LineInvInit, LineInvStep, PTL DEF Spec

(***************************************************************************)
(* The vector of selected strings is a set of entries, whatever is listed  *)
(* and in whatever order ' ' selects and deselects.                        *)
(***************************************************************************)
THEOREM SelectionStaysASet == Spec => []SelectionIsASet
<1>1. LineInv => SelectionIsASet
  BY DEF LineInv, Selection
<1> QED BY <1>1, LineInvAlways, PTL

LEMMA RowsFromInv == LineInv => RowsShowPaths
<1> SUFFICES ASSUME LineInv, NEW i \in DOMAIN rows
             PROVE  LET first == IF isChosen(i) THEN 10 ELSE 9
                        last  == first + Len(paths[i]) - 1
                    IN  /\ Len(rows[i]) = maxX
                        /\ last <= maxX => SubSeq(rows[i], first, last) = paths[i]
  BY DEF RowsShowPaths
<1> DEFINE p == paths[i]
           row == rows[i]
           first == IF isChosen(i) THEN 10 ELSE 9
           last == first + Len(p) - 1
<1>1. i \in DOMAIN paths /\ p \in Paths
      /\ row = IF isChosen(i) THEN shifted(item(p)) ELSE item(p)
  BY DEF LineInv, Items, Rows
<1> HIDE DEF p, row
<1>2. /\ item(p) \in Str /\ Len(item(p)) = maxX
      /\ p \in Str /\ Len(p) \in Nat /\ maxX \in Nat /\ Len(p) + 8 <= maxX /\ Len(p) >= 1
      /\ \A c \in 9..(Len(p) + 8) : item(p)[c] = p[c - 8]
  BY <1>1, ItemFacts
<1>3. /\ row \in Str /\ Len(row) = maxX
      /\ last <= maxX => \A c \in 1..Len(p) : row[first + c - 1] = p[c]
  <2>1. CASE isChosen(i)
    <3>1. /\ row \in Str /\ Len(row) = maxX
          /\ \A c \in 10..maxX : row[c] = item(p)[c - 1]
      <4>1. row = shifted(item(p)) /\ Len(item(p)) >= 9
        BY <1>1, <1>2, <2>1
      <4>2. /\ shifted(item(p)) \in Str /\ Len(shifted(item(p))) = Len(item(p))
            /\ \A c \in 10..Len(item(p)) : shifted(item(p))[c] = item(p)[c - 1]
        BY <1>2, <4>1, ShiftedFacts
      <4> QED BY <1>2, <4>1, <4>2
    <3>2. ASSUME last <= maxX, NEW c \in 1..Len(p) PROVE row[first + c - 1] = p[c]
      <4>1. first + c - 1 \in 10..maxX /\ first + c - 2 \in 9..(Len(p) + 8)
            /\ (first + c - 1) - 1 = first + c - 2 /\ first + c - 2 - 8 = c
        BY <1>2, <2>1, <3>2
      <4> QED BY <1>2, <3>1, <4>1
    <3> QED BY <3>1, <3>2
  <2>2. CASE ~isChosen(i)
    <3>1. row = item(p) /\ first = 9
      BY <1>1, <2>2
    <3>2. ASSUME NEW c \in 1..Len(p) PROVE row[first + c - 1] = p[c]
      <4>1. first + c - 1 \in 9..(Len(p) + 8) /\ first + c - 1 - 8 = c
        BY <1>2, <3>1
      <4> QED BY <1>2, <3>1, <4>1
    <3> QED BY <1>2, <3>1, <3>2
  <2> QED BY <2>1, <2>2
<1>4. ASSUME last <= maxX PROVE SubSeq(row, first, last) = p
  <2> DEFINE sub == SubSeq(row, first, last)
  <2>1. /\ first \in 1..(Len(row) + 1) /\ last \in (first - 1)..Len(row)
        /\ last - first + 1 = Len(p) /\ row \in Seq(Char) /\ p \in Seq(Char)
    BY <1>2, <1>3, <1>4 DEF Str
  <2>2. /\ sub \in Seq(Char) /\ Len(sub) = last - first + 1
        /\ \A c \in 1..(last - first + 1) : sub[c] = row[first + c - 1]
    <3> HIDE DEF first, last
    <3> QED BY <2>1, SubSeqFacts
  <2> HIDE DEF sub
  <2>3. \A c \in 1..Len(sub) : sub[c] = p[c]
    BY <1>3, <1>4, <2>1, <2>2
  <2>4. sub = p
    BY <2>1, <2>2, <2>3, SeqEqual
  <2> QED BY <2>4 DEF sub
<1> QED BY <1>3, <1>4 DEF p, row

(***************************************************************************)
(* Every row is one terminal line wide and shows its path, shifted if it   *)
(* is selected: printing in place and the shift of the printed copy never  *)
(* leave a trace of an earlier selection, on every terminal.               *)
(***************************************************************************)
THEOREM RowsAlwaysShowPaths == Spec => []RowsShowPaths
BY LineInvAlways, RowsFromInv, PTL

-----------------------------------------------------------------------------
(***************************************************************************)
(* The words of a command line.                                            *)
(***************************************************************************)
Ink(s, i) == i \in 1..Len(s) /\ s[i] # Blank

\* The characters from a to b are a word of s.
WordAt(s, a, b) ==
  /\ a \in 1..Len(s) /\ b \in 1..Len(s) /\ a <= b
  /\ \A i \in a..b : Ink(s, i)
  /\ ~Ink(s, a - 1) /\ ~Ink(s, b + 1)

LEMMA WordsFacts ==
  ASSUME NEW s \in Str
  PROVE  \A x : x \in words(s) <=>
           \E a, b \in 1..Len(s) : WordAt(s, a, b) /\ x = SubSeq(s, a, b)
<1> DEFINE ink == {i \in DOMAIN s : s[i] # Blank}
           ends == {w \in ink \X ink : /\ w[1] <= w[2] /\ w[1]..w[2] \subseteq ink
                                       /\ w[1] - 1 \notin ink /\ w[2] + 1 \notin ink}
<1>1. words(s) = {SubSeq(s, w[1], w[2]) : w \in ends}
  BY DEF words
<1>2. \A i : i \in ink <=> Ink(s, i)
  BY DEF Ink, Str
<1>3. \A i \in ink : i \in 1..Len(s)
  BY DEF Str
<1> HIDE DEF ink
<1>4. ASSUME NEW x \in words(s)
      PROVE  \E a, b \in 1..Len(s) : WordAt(s, a, b) /\ x = SubSeq(s, a, b)
  <2>1. PICK w \in ends : x = SubSeq(s, w[1], w[2])
    BY <1>1, <1>4
  <2>2. w[1] \in ink /\ w[2] \in ink
    OBVIOUS
  <2>3. /\ w[1] \in 1..Len(s) /\ w[2] \in 1..Len(s) /\ w[1] <= w[2]
        /\ w[1]..w[2] \subseteq ink /\ w[1] - 1 \notin ink /\ w[2] + 1 \notin ink
    BY <1>3, <2>2
  <2>4. WordAt(s, w[1], w[2])
    BY <1>2, <2>3 DEF WordAt
  <2> QED BY <2>1, <2>3, <2>4
<1>5. ASSUME NEW a \in 1..Len(s), NEW b \in 1..Len(s), WordAt(s, a, b)
      PROVE  SubSeq(s, a, b) \in words(s)
  <2>1. a \in a..b /\ b \in a..b /\ a <= b
    BY <1>5 DEF WordAt
  <2>2. a..b \subseteq ink /\ a - 1 \notin ink /\ b + 1 \notin ink
    BY <1>2, <1>5 DEF WordAt
  <2>3. <<a, b>> \in ends
    BY <2>1, <2>2
  <2>4. <<a, b>>[1] = a /\ <<a, b>>[2] = b
    OBVIOUS
  <2> HIDE DEF ends
  <2> QED BY <1>1, <2>3, <2>4
<1> QED BY <1>4, <1>5

\* What a joined string consists of.
LEMMA JoinTwo ==
  ASSUME NEW s \in Str, NEW t \in Str
  PROVE  LET u == s \o <<Blank>> \o t
         IN  /\ u \in Str /\ Len(u) = Len(s) + 1 + Len(t)
             /\ \A i \in 1..Len(s) : u[i] = s[i]
             /\ u[Len(s) + 1] = Blank
             /\ \A i \in 1..Len(t) : u[Len(s) + 1 + i] = t[i]
<1> DEFINE one == <<Blank>>
           v == s \o one
           u == v \o t
<1>1. s \in Seq(Char) /\ t \in Seq(Char) /\ Len(s) \in Nat /\ Len(t) \in Nat
  BY DEF Str
<1>2. one \in Seq(Char) /\ Len(one) = 1 /\ one[1] = Blank
  BY StatusLineAssumption
<1> HIDE DEF one
<1>3. /\ v \in Seq(Char) /\ Len(v) = Len(s) + Len(one)
      /\ \A i \in 1..Len(s) : v[i] = s[i]
      /\ \A i \in (Len(s) + 1)..(Len(s) + Len(one)) : v[i] = one[i - Len(s)]
  BY <1>1, <1>2, ConcatFacts
<1>4. Len(v) = Len(s) + 1 /\ v[Len(s) + 1] = Blank
  BY <1>1, <1>2, <1>3
<1> HIDE DEF v
<1>5. /\ u \in Seq(Char) /\ Len(u) = Len(v) + Len(t)
      /\ \A i \in 1..Len(v) : u[i] = v[i]
      /\ \A i \in (Len(v) + 1)..(Len(v) + Len(t)) : u[i] = t[i - Len(v)]
  <2>1. v \in Seq(Char) /\ t \in Seq(Char)
    BY <1>1, <1>3
  <2> QED BY <2>1, ConcatFacts
<1>6. \A i \in 1..Len(s) : u[i] = s[i]
  BY <1>1, <1>3, <1>4, <1>5
<1>7. u[Len(s) + 1] = Blank
  BY <1>1, <1>4, <1>5
<1>8. ASSUME NEW i \in 1..Len(t) PROVE u[Len(s) + 1 + i] = t[i]
  <2>1. Len(s) + 1 + i \in (Len(v) + 1)..(Len(v) + Len(t)) /\ Len(s) + 1 + i - Len(v) = i
    BY <1>1, <1>4
  <2> QED BY <1>5, <2>1
<1>9. u \in Str /\ Len(u) = Len(s) + 1 + Len(t)
  BY <1>1, <1>4, <1>5 DEF Str
<1>10. u = s \o <<Blank>> \o t
  BY DEF v, one
<1> HIDE DEF u
<1> QED BY <1>6, <1>7, <1>8, <1>9, <1>10

\* Two strings with the same characters from a and from a + d on have the
\* same subsequences there.
LEMMA SameSubSeq ==
  ASSUME NEW s \in Str, NEW u \in Str, NEW d \in Nat,
         NEW a \in 1..Len(s), NEW b \in a..Len(s), b + d <= Len(u),
         \A i \in a..b : u[i + d] = s[i]
  PROVE  SubSeq(u, a + d, b + d) = SubSeq(s, a, b)
<1>1. s \in Seq(Char) /\ u \in Seq(Char) /\ Len(s) \in Nat /\ Len(u) \in Nat
  BY DEF Str
<1> DEFINE x == SubSeq(s, a, b)
           y == SubSeq(u, a + d, b + d)
           n == b - a + 1
<1>2. x \in Seq(Char) /\ Len(x) = n /\ \A i \in 1..n : x[i] = s[a + i - 1]
  <2>1. a \in 1..(Len(s) + 1) /\ b \in (a - 1)..Len(s)
    BY <1>1
  <2> QED BY <1>1, <2>1, SubSeqFacts
<1>3. y \in Seq(Char) /\ Len(y) = n /\ \A i \in 1..n : y[i] = u[a + d + i - 1]
  <2> DEFINE ad == a + d
             bd == b + d
  <2>1. ad \in 1..(Len(u) + 1) /\ bd \in (ad - 1)..Len(u) /\ bd - ad + 1 = n
    BY <1>1
  <2> HIDE DEF n
  <2>2. y = SubSeq(u, ad, bd) /\ \A i \in 1..n : a + d + i - 1 = ad + i - 1
    OBVIOUS
  <2> HIDE DEF ad, bd, y
  <2>3. /\ y \in Seq(Char) /\ Len(y) = bd - ad + 1
        /\ \A i \in 1..(bd - ad + 1) : y[i] = u[ad + i - 1]
    BY <1>1, <2>1, <2>2, SubSeqFacts
  <2> QED BY <2>1, <2>2, <2>3
<1> HIDE DEF x, y
<1>4. ASSUME NEW i \in 1..n PROVE y[i] = x[i]
  <2>1. a + i - 1 \in a..b /\ a + i - 1 + d = a + d + i - 1
    BY <1>1
  <2>2. u[a + i - 1 + d] = s[a + i - 1]
    BY <2>1
  <2> QED BY <1>2, <1>3, <2>1, <2>2
<1>5. y = x
  BY <1>2, <1>3, <1>4, SeqEqual
<1> QED BY <1>5 DEF x, y

\* A blank between two strings separates their words.
LEMMA JoinedWords ==
  ASSUME NEW s \in Str, NEW t \in Str
  PROVE  words(s \o <<Blank>> \o t) = words(s) \cup words(t)
<1> DEFINE u == s \o <<Blank>> \o t
           n == Len(s) + 1
<1>1. /\ u \in Str /\ Len(u) = Len(s) + 1 + Len(t)
      /\ \A i \in 1..Len(s) : u[i] = s[i]
      /\ u[Len(s) + 1] = Blank
      /\ \A i \in 1..Len(t) : u[Len(s) + 1 + i] = t[i]
  BY JoinTwo
<1> HIDE DEF u
<1>2. Len(s) \in Nat /\ Len(t) \in Nat /\ n \in Nat
  BY DEF Str
<1>3. ASSUME NEW i \in Int, i < n PROVE Ink(u, i) <=> Ink(s, i)
  BY <1>1, <1>2, <1>3 DEF Ink
<1>4. ~Ink(u, n)
  BY <1>1 DEF Ink
<1>5. ASSUME NEW i \in Int, i > 0 PROVE Ink(u, i + n) <=> Ink(t, i)
  <2>1. i \in 1..Len(t) => u[n + i] = t[i] /\ n + i = i + n
    BY <1>1, <1>2
  <2>2. i + n \in 1..Len(u) <=> i \in 1..Len(t)
    BY <1>1, <1>2, <1>5
  <2> QED BY <2>1, <2>2 DEF Ink
<1>6. ASSUME NEW a \in 1..Len(s), NEW b \in 1..Len(s)
      PROVE  WordAt(u, a, b) <=> WordAt(s, a, b)
  <2>1. /\ a \in 1..Len(u) /\ b \in 1..Len(u) /\ a - 1 \in Int /\ b + 1 \in Int
        /\ a - 1 < n /\ b + 1 <= n /\ \A i \in a..b : i \in Int /\ i < n
    BY <1>1, <1>2
  <2>2. Ink(u, b + 1) <=> Ink(s, b + 1)
    <3>1. CASE b + 1 = n
      <4>1. ~Ink(s, n)
        BY <1>2 DEF Ink
      <4> QED BY <1>4, <3>1, <4>1
    <3>2. CASE b + 1 < n
      BY <1>3, <2>1, <3>2
    <3> QED BY <1>2, <2>1, <3>1, <3>2
  <2>3. (Ink(u, a - 1) <=> Ink(s, a - 1)) /\ \A i \in a..b : Ink(u, i) <=> Ink(s, i)
    BY <1>3, <2>1
  <2> QED BY <2>1, <2>2, <2>3 DEF WordAt
<1>7. ASSUME NEW a \in 1..Len(t), NEW b \in 1..Len(t)
      PROVE  WordAt(u, a + n, b + n) <=> WordAt(t, a, b)
  <2>1. /\ a + n \in 1..Len(u) /\ b + n \in 1..Len(u) /\ (a + n <= b + n <=> a <= b)
        /\ b + n + 1 = (b + 1) + n /\ b + 1 \in Int /\ b + 1 > 0
    BY <1>1, <1>2
  <2>2. Ink(u, b + n + 1) <=> Ink(t, b + 1)
    BY <1>5, <2>1
  <2>3. Ink(u, a + n - 1) <=> Ink(t, a - 1)
    <3>1. CASE a = 1
      <4>1. a + n - 1 = n /\ ~Ink(t, a - 1)
        BY <1>2, <3>1 DEF Ink
      <4> QED BY <1>4, <4>1
    <3>2. CASE a > 1
      <4>1. a + n - 1 = (a - 1) + n /\ a - 1 \in Int /\ a - 1 > 0
        BY <1>2, <3>2
      <4> QED BY <1>5, <4>1
    <3> QED BY <3>1, <3>2
  <2>4. (\A i \in (a + n)..(b + n) : Ink(u, i)) <=> (\A i \in a..b : Ink(t, i))
    <3>1. ASSUME \A i \in (a + n)..(b + n) : Ink(u, i), NEW i \in a..b PROVE Ink(t, i)
      <4>1. i + n \in (a + n)..(b + n) /\ i \in Int /\ i > 0
        BY <1>2
      <4> QED BY <1>5, <3>1, <4>1
    <3>2. ASSUME \A i \in a..b : Ink(t, i), NEW i \in (a + n)..(b + n) PROVE Ink(u, i)
      <4>1. i - n \in a..b /\ i - n \in Int /\ i - n > 0 /\ (i - n) + n = i
        BY <1>2
      <4>2. Ink(t, i - n)
        BY <3>2, <4>1
      <4> QED BY <1>5, <4>1, <4>2
    <3> QED BY <3>1, <3>2
  <2> QED BY <2>1, <2>2, <2>3, <2>4 DEF WordAt
<1>8. ASSUME NEW a \in 1..Len(s), NEW b \in 1..Len(s), a <= b
      PROVE  SubSeq(u, a, b) = SubSeq(s, a, b)
  <2>1. /\ b \in a..Len(s) /\ b + 0 <= Len(u) /\ a + 0 = a /\ b + 0 = b
        /\ \A i \in a..b : u[i + 0] = s[i]
    <3>1. \A i \in a..b : i + 0 = i /\ i \in 1..Len(s)
      BY <1>2
    <3> QED BY <1>1, <1>2, <1>8, <3>1
  <2>2. SubSeq(u, a + 0, b + 0) = SubSeq(s, a, b)
    BY <1>1, <2>1, SameSubSeq
  <2> QED BY <2>1, <2>2
<1>9. ASSUME NEW a \in 1..Len(t), NEW b \in 1..Len(t), a <= b
      PROVE  SubSeq(u, a + n, b + n) = SubSeq(t, a, b)
  <2>1. b \in a..Len(t) /\ b + n <= Len(u) /\ \A i \in a..b : u[i + n] = t[i]
    <3>1. \A i \in a..b : i + n = Len(s) + 1 + i /\ i \in 1..Len(t)
      BY <1>2
    <3> QED BY <1>1, <1>2, <1>9, <3>1
  <2> HIDE DEF n
  <2> QED BY <1>1, <1>2, <2>1, SameSubSeq
<1>10. ASSUME NEW x \in words(s) \cup words(t) PROVE x \in words(u)
  <2>1. CASE x \in words(s)
    <3>1. PICK a, b \in 1..Len(s) : WordAt(s, a, b) /\ x = SubSeq(s, a, b)
      BY <2>1, WordsFacts
    <3>2. a <= b /\ a \in 1..Len(u) /\ b \in 1..Len(u)
      BY <1>1, <1>2, <3>1 DEF WordAt
    <3>3. WordAt(u, a, b) /\ x = SubSeq(u, a, b)
      BY <1>6, <1>8, <3>1, <3>2
    <3> QED BY <1>1, <3>2, <3>3, WordsFacts
  <2>2. CASE x \in words(t)
    <3>1. PICK a, b \in 1..Len(t) : WordAt(t, a, b) /\ x = SubSeq(t, a, b)
      BY <2>2, WordsFacts
    <3>2. a <= b /\ a + n \in 1..Len(u) /\ b + n \in 1..Len(u)
      BY <1>1, <1>2, <3>1 DEF WordAt
    <3>3. WordAt(u, a + n, b + n) /\ x = SubSeq(u, a + n, b + n)
      BY <1>7, <1>9, <3>1, <3>2
    <3> QED BY <1>1, <3>2, <3>3, WordsFacts
  <2> QED BY <2>1, <2>2
<1>11. ASSUME NEW x \in words(u) PROVE x \in words(s) \cup words(t)
  <2>1. PICK a, b \in 1..Len(u) : WordAt(u, a, b) /\ x = SubSeq(u, a, b)
    BY <1>1, <1>11, WordsFacts
  <2>2. a <= b /\ n \notin a..b
    BY <1>4, <2>1 DEF WordAt
  <2>3. CASE b < n
    <3>1. a \in 1..Len(s) /\ b \in 1..Len(s)
      BY <1>1, <1>2, <2>2, <2>3
    <3>2. WordAt(s, a, b) /\ x = SubSeq(s, a, b)
      BY <1>6, <1>8, <2>1, <2>2, <3>1
    <3> QED BY <3>1, <3>2, WordsFacts
  <2>4. CASE a > n
    <3> DEFINE i == a - n
               j == b - n
    <3>1. i \in 1..Len(t) /\ j \in 1..Len(t) /\ i <= j /\ i + n = a /\ j + n = b
      BY <1>1, <1>2, <2>2, <2>4
    <3> HIDE DEF i, j
    <3>2. WordAt(t, i, j) /\ x = SubSeq(t, i, j)
      BY <1>7, <1>9, <2>1, <3>1
    <3> QED BY <3>1, <3>2, WordsFacts
  <2> QED BY <1>1, <1>2, <2>2, <2>3, <2>4
<1> QED BY <1>10, <1>11 DEF u

\* Cut off and split by the shell, an item is its path again, unless there
\* is a blank in it.
LEMMA ItemWords ==
  ASSUME NEW p \in Paths, ~hasBlank(p)
  PROVE  cutOff(item(p)) \in Str /\ words(cutOff(item(p))) = {p}
<1> DEFINE s == cutOff(item(p))
           last == Len(p) + 1
<1>1. /\ item(p) \in Str /\ Len(item(p)) = maxX
      /\ p \in Str /\ Len(p) \in Nat /\ maxX \in Nat /\ Len(p) + 8 <= maxX /\ Len(p) >= 1
      /\ \A c \in 2..8 : item(p)[c] = Blank
      /\ \A c \in 9..(Len(p) + 8) : item(p)[c] = p[c - 8]
      /\ \A c \in (Len(p) + 9)..maxX : item(p)[c] = Blank
  BY ItemFacts
<1>2. /\ s \in Str /\ Len(s) = maxX - 7
      /\ \A c \in 1..(maxX - 7) : s[c] = item(p)[c + 7]
  <2>1. Len(item(p)) >= 8
    BY <1>1
  <2>2. /\ s \in Str /\ Len(s) = Len(item(p)) - 7
        /\ \A c \in 1..(Len(item(p)) - 7) : s[c] = item(p)[c + 7]
    BY <1>1, <2>1, CutOffFacts
  <2> QED BY <1>1, <2>2
<1> HIDE DEF s
<1>3. \A i \in 1..Len(p) : p[i] # Blank
  <2>1. DOMAIN p = 1..Len(p)
    BY <1>1 DEF Str
  <2> QED BY <2>1 DEF hasBlank, ToSet
<1>4. ASSUME NEW i \in 1..Len(p) PROVE s[i + 1] = p[i]
  <2>1. i + 1 \in 1..(maxX - 7) /\ (i + 1) + 7 \in 9..(Len(p) + 8) /\ (i + 1) + 7 - 8 = i
    BY <1>1
  <2>2. s[i + 1] = item(p)[(i + 1) + 7]
    BY <1>2, <2>1
  <2>3. item(p)[(i + 1) + 7] = p[(i + 1) + 7 - 8]
    BY <1>1, <2>1
  <2> QED BY <2>1, <2>2, <2>3
<1>5. ASSUME NEW i \in Int PROVE Ink(s, i) <=> i \in 2..last
  <2>1. CASE i \in 2..last
    <3>1. i - 1 \in 1..Len(p) /\ i - 1 + 1 = i /\ i \in 1..Len(s)
      BY <1>1, <1>2, <2>1
    <3>2. s[i] = p[i - 1] /\ p[i - 1] # Blank
      BY <1>3, <1>4, <3>1
    <3> QED BY <2>1, <3>1, <3>2 DEF Ink
  <2>2. CASE i \notin 2..last
    <3>1. ASSUME i \in 1..Len(s) PROVE s[i] = Blank
      <4>1. i \in 1..(maxX - 7) /\ (i + 7 \in 2..8 \/ i + 7 \in (Len(p) + 9)..maxX)
        BY <1>1, <1>2, <2>2, <3>1
      <4> QED BY <1>1, <1>2, <4>1
    <3> QED BY <2>2, <3>1 DEF Ink
  <2> QED BY <2>1, <2>2
<1>6. SubSeq(s, 2, last) = p
  <2> DEFINE sub == SubSeq(s, 2, last)
  <2>1. /\ 2 \in 1..(Len(s) + 1) /\ last \in (2 - 1)..Len(s) /\ last - 2 + 1 = Len(p)
        /\ s \in Seq(Char) /\ p \in Seq(Char)
    BY <1>1, <1>2 DEF Str
  <2>2. /\ sub \in Seq(Char) /\ Len(sub) = last - 2 + 1
        /\ \A i \in 1..(last - 2 + 1) : sub[i] = s[2 + i - 1]
    <3> HIDE DEF last
    <3> QED BY <2>1, SubSeqFacts
  <2> HIDE DEF sub
  <2>3. \A i \in 1..Len(sub) : sub[i] = p[i]
    <3>1. \A i \in 1..Len(p) : 2 + i - 1 = i + 1
      BY <1>1
    <3> QED BY <1>4, <2>1, <2>2, <3>1
  <2>4. sub = p
    BY <2>1, <2>2, <2>3, SeqEqual
  <2> QED BY <2>4 DEF sub
<1>7. last \in Int /\ 2 \in 1..Len(s) /\ last \in 1..Len(s) /\ 2 <= last
  BY <1>1, <1>2
<1>8. WordAt(s, 2, last)
  <2>1. \A i \in 2..last : Ink(s, i)
    BY <1>5
  <2>2. ~Ink(s, 2 - 1) /\ ~Ink(s, last + 1)
    BY <1>5, <1>7
  <2> QED BY <1>7, <2>1, <2>2 DEF WordAt
<1>9. ASSUME NEW a \in 1..Len(s), NEW b \in 1..Len(s), WordAt(s, a, b)
      PROVE  a = 2 /\ b = last
  <2>1. /\ a \in Int /\ b \in Int /\ a - 1 \in Int /\ b + 1 \in Int
        /\ Ink(s, a) /\ Ink(s, b) /\ ~Ink(s, a - 1) /\ ~Ink(s, b + 1)
    BY <1>9 DEF WordAt
  <2>2. a \in 2..last /\ b \in 2..last /\ a - 1 \notin 2..last /\ b + 1 \notin 2..last
    BY <1>5, <2>1
  <2> QED BY <1>7, <2>1, <2>2
<1>10. \A x : x \in words(s) <=>
         \E a, b \in 1..Len(s) : WordAt(s, a, b) /\ x = SubSeq(s, a, b)
  BY <1>2, WordsFacts
<1>11. words(s) = {p}
  <2>1. p \in words(s)
    BY <1>6, <1>7, <1>8, <1>10
  <2>2. ASSUME NEW x \in words(s) PROVE x = p
    <3>1. PICK a, b \in 1..Len(s) : WordAt(s, a, b) /\ x = SubSeq(s, a, b)
      BY <1>10, <2>2
    <3> QED BY <1>6, <1>9, <3>1
  <2> QED BY <2>1, <2>2
<1> QED BY <1>2, <1>11 DEF s

-----------------------------------------------------------------------------
(***************************************************************************)
(* join, by induction over the number of items.                            *)
(***************************************************************************)
JoinStep(items, f, n) ==
  IF n = 0 THEN <<>>
  ELSE IF n = 1 THEN items[1] ELSE f[n - 1] \o <<Blank>> \o items[n]

\* The recursion of join defines a function.
LEMMA JoinDefined ==
  ASSUME NEW items, NEW N \in Nat
  PROVE  \E f : f = [n \in 0..N |-> JoinStep(items, f, n)]
<1> DEFINE Def(m) == \E f : f = [n \in 0..m |-> JoinStep(items, f, n)]
           Bad == {m \in Nat : ~Def(m)}
<1> SUFFICES ASSUME Bad # {} PROVE FALSE
  OBVIOUS
<1>1. PICK m \in Bad : \A k \in Bad : m <= k
  <2>1. Bad \in SUBSET Nat
    OBVIOUS
  <2> HIDE DEF Bad
  <2> QED BY <2>1, Least
<1>2. CASE m = 0
  <2> DEFINE g == [n \in 0..0 |-> <<>>]
  <2>1. g = [n \in 0..0 |-> JoinStep(items, g, n)]
    <3>1. \A n \in 0..0 : JoinStep(items, g, n) = <<>>
      BY DEF JoinStep
    <3> QED BY <3>1
  <2>2. Def(0)
    BY <2>1
  <2> QED BY <1>2, <2>2
<1>3. CASE m # 0
  <2>1. m - 1 \in Nat /\ m - 1 < m /\ m \in Nat
    BY <1>3
  <2>2. Def(m - 1)
    BY <1>1, <2>1
  <2>3. PICK g : g = [n \in 0..(m - 1) |-> JoinStep(items, g, n)]
    BY <2>2
  <2> DEFINE f == [n \in 0..m |-> IF n = m THEN JoinStep(items, g, m) ELSE g[n]]
  <2>4. \A n \in 0..m : n # 0 => n - 1 \in 0..(m - 1) /\ n - 1 \in 0..m /\ n - 1 # m
    BY <2>1
  <2>5. ASSUME NEW n \in 0..m PROVE JoinStep(items, f, n) = JoinStep(items, g, n)
    <3>1. n # 0 => f[n - 1] = g[n - 1]
      BY <2>4
    <3> HIDE DEF f
    <3> QED BY <3>1 DEF JoinStep
  <2>6. ASSUME NEW n \in 0..m PROVE f[n] = JoinStep(items, g, n)
    <3>1. CASE n = m
      BY <3>1
    <3>2. CASE n # m
      <4>1. n \in 0..(m - 1)
        BY <2>1, <3>2
      <4>2. g[n] = JoinStep(items, g, n)
        BY <2>3, <4>1
      <4> QED BY <3>2, <4>2
    <3> QED BY <3>1, <3>2
  <2>7. f = [n \in 0..m |-> f[n]]
    OBVIOUS
  <2> HIDE DEF f
  <2>8. f = [n \in 0..m |-> JoinStep(items, f, n)]
    BY <2>5, <2>6, <2>7
  <2>9. Def(m)
    BY <2>8
  <2> QED BY <2>9
<1> QED BY <1>2, <1>3

\* The shell finds the words of the items, whichever and however many.
LEMMA JoinWords ==
  ASSUME NEW items \in Seq(Str)
  PROVE  words(join(items)) = UNION {words(items[i]) : i \in 1..Len(items)}
<1> DEFINE N == Len(items)
           f == CHOOSE g : g = [n \in 0..N |-> JoinStep(items, g, n)]
           found(n) == UNION {words(items[i]) : i \in 1..n}
           Bad == {n \in 0..N : ~(f[n] \in Str /\ words(f[n]) = found(n))}
<1>1. N \in Nat /\ \A i \in 1..N : items[i] \in Str
  OBVIOUS
<1>2. join(items) = f[N]
  BY DEF join, JoinStep
<1> HIDE DEF N
<1>3. f = [n \in 0..N |-> JoinStep(items, f, n)]
  BY <1>1, JoinDefined
<1> HIDE DEF f
<1>4. ASSUME Bad # {} PROVE FALSE
  <2>1. PICK m \in Bad : \A k \in Bad : m <= k
    <3>1. Bad \in SUBSET Nat
      BY <1>1
    <3> HIDE DEF Bad
    <3> QED BY <1>4, <3>1, Least
  <2>2. m \in 0..N /\ m \in Nat /\ f[m] = JoinStep(items, f, m)
    BY <1>1, <1>3
  <2>3. CASE m = 0
    <3>1. f[m] = <<>>
      BY <2>2, <2>3 DEF JoinStep
    <3>2. <<>> \in Str /\ Len(<<>>) = 0
      BY DEF Str
    <3>3. words(<<>>) = {}
      BY <3>2, WordsFacts
    <3>4. found(m) = {}
      BY <2>3
    <3> QED BY <3>1, <3>2, <3>3, <3>4
  <2>4. CASE m = 1
    <3>1. f[m] = items[1] /\ items[1] \in Str
      BY <1>1, <2>2, <2>4 DEF JoinStep
    <3>2. found(m) = words(items[1])
      BY <2>4
    <3> QED BY <3>1, <3>2
  <2>5. CASE m > 1
    <3>1. m - 1 \in 0..N /\ ~(m <= m - 1) /\ m \in 1..N
      BY <1>1, <2>2, <2>5
    <3>2. f[m - 1] \in Str /\ words(f[m - 1]) = found(m - 1)
      BY <2>1, <3>1
    <3>3. f[m] = f[m - 1] \o <<Blank>> \o items[m] /\ items[m] \in Str
      <4>1. m # 0 /\ m # 1
        BY <2>2, <2>5
      <4>2. JoinStep(items, f, m) = f[m - 1] \o <<Blank>> \o items[m]
        BY <4>1, Zenon DEF JoinStep
      <4> QED BY <1>1, <2>2, <3>1, <4>2, Zenon
    <3>4. f[m] \in Str
      BY <3>2, <3>3, JoinTwo
    <3>5. words(f[m]) = words(f[m - 1]) \cup words(items[m])
      BY <3>2, <3>3, JoinedWords
    <3>6. found(m) = found(m - 1) \cup words(items[m])
      <4>1. \A i : i \in 1..m <=> i \in 1..(m - 1) \/ i = m
        BY <2>2, <2>5
      <4> QED BY <4>1
    <3> QED BY <3>2, <3>4, <3>5, <3>6
  <2> QED BY <2>2, <2>3, <2>4, <2>5
<1>5. f[N] \in Str /\ words(f[N]) = found(N)
  BY <1>1, <1>4
<1> QED BY <1>2, <1>5 DEF N

\* The command line of a selection of paths without blanks.
LEMMA CommandWords ==
  ASSUME LineInv,
         \A j \in DOMAIN paths : isChosen(j) => ~hasBlank(paths[j])
  PROVE  words(commandLine(selectedItems))
           = {paths[i] : i \in {j \in DOMAIN paths : isChosen(j)}}
<1> DEFINE sel == selectedItems
           cut == [i \in DOMAIN sel |-> cutOff(sel[i])]
           named == {paths[i] : i \in {j \in DOMAIN paths : isChosen(j)}}
<1>1. /\ DOMAIN statusItems = DOMAIN paths
      /\ \A j \in DOMAIN paths : paths[j] \in Paths /\ statusItems[j] = item(paths[j])
  BY DEF LineInv, Items
<1>2. DOMAIN sel = 1..Len(sel) /\ Len(sel) \in Nat
  BY DEF LineInv, Selection
<1>3. ASSUME NEW i \in 1..Len(sel)
      PROVE  \E j \in DOMAIN paths : sel[i] = statusItems[j] /\ isChosen(j)
  <2>1. sel[i] \in ToSet(sel)
    BY <1>2 DEF ToSet
  <2>2. sel[i] \in ToSet(statusItems)
    BY <2>1 DEF LineInv, Selection, SelectionIsASet
  <2>3. PICK j \in DOMAIN paths : sel[i] = statusItems[j]
    BY <1>1, <2>2 DEF ToSet
  <2> QED BY <2>1, <2>3 DEF isChosen
<1>4. \A j \in DOMAIN paths : isChosen(j) => \E i \in 1..Len(sel) : sel[i] = statusItems[j]
  BY <1>2 DEF isChosen, ToSet
<1>5. \A j \in DOMAIN paths : isChosen(j) =>
        cutOff(statusItems[j]) \in Str /\ words(cutOff(statusItems[j])) = {paths[j]}
  BY <1>1, ItemWords
<1>6. \A i \in 1..Len(sel) : cut[i] = cutOff(sel[i])
  BY <1>2
<1>7. cut \in Seq(Str) /\ Len(cut) = Len(sel)
  <2>1. cut \in [1..Len(sel) -> Str]
    BY <1>2, <1>3, <1>5
  <2> HIDE DEF cut
  <2> QED BY <1>2, <2>1, FunFacts
<1>8. commandLine(sel) = join(cut)
  BY DEF commandLine
<1> HIDE DEF cut, sel
<1>9. words(commandLine(sel)) = UNION {words(cut[i]) : i \in 1..Len(sel)}
  BY <1>7, <1>8, JoinWords
<1>10. ASSUME NEW x \in words(commandLine(sel)) PROVE x \in named
  <2>1. PICK i \in 1..Len(sel) : x \in words(cut[i])
    BY <1>9, <1>10
  <2>2. PICK j \in DOMAIN paths : sel[i] = statusItems[j] /\ isChosen(j)
    BY <1>3
  <2>3. x = paths[j]
    BY <1>5, <1>6, <2>1, <2>2
  <2> QED BY <2>2, <2>3
<1>11. ASSUME NEW j \in DOMAIN paths, isChosen(j) PROVE paths[j] \in words(commandLine(sel))
  <2>1. PICK i \in 1..Len(sel) : sel[i] = statusItems[j]
    BY <1>4, <1>11
  <2>2. paths[j] \in words(cut[i])
    BY <1>5, <1>6, <1>11, <2>1
  <2> QED BY <1>9, <2>2
<1>12. words(commandLine(sel)) = named
  BY <1>10, <1>11
<1> QED BY <1>12 DEF sel

LEMMA ArgumentsStep ==
  LineInv /\ ArgumentsAreSelected /\ [Next]_vars => ArgumentsAreSelected'
<1> SUFFICES ASSUME LineInv, ArgumentsAreSelected, [Next]_vars
             PROVE  ArgumentsAreSelected'
  OBVIOUS
<1>1. CASE UNCHANGED <<args, chosen>>
  BY <1>1 DEF ArgumentsAreSelected, hasBlank
<1>2. ASSUME NEW out \in Listings, KeyCommand(out) PROVE ArgumentsAreSelected'
  <2>1. /\ args' = words(commandLine(selectedItems))
        /\ chosen' = {paths[i] : i \in {j \in DOMAIN paths : isChosen(j)}}
    BY <1>2 DEF KeyCommand
  <2>2. ASSUME \A p \in chosen' : ~hasBlank(p) PROVE args' = chosen'
    <3>1. \A j \in DOMAIN paths : isChosen(j) => ~hasBlank(paths[j])
      BY <2>1, <2>2
    <3> QED BY <2>1, <3>1, CommandWords
  <2> QED BY <2>2 DEF ArgumentsAreSelected, hasBlank
<1>3. ASSUME NEW out \in Listings, KeyStatus(out) PROVE UNCHANGED <<args, chosen>>
  BY <1>3 DEF KeyStatus
<1>4. ASSUME NEW i \in DOMAIN statusItems, KeySpace(i) PROVE UNCHANGED <<args, chosen>>
  BY <1>4 DEF KeySpace
<1>5. CASE UNCHANGED vars
  BY <1>1, <1>5 DEF vars
<1> QED BY <1>1, <1>2, <1>3, <1>4, <1>5 DEF Next

(***************************************************************************)
(* Padding, cutting off the states, joining with blanks and splitting by   *)
(* the shell give svn exactly the selected paths, for every selection of   *)
(* paths without blanks, of any number, length and order, on every         *)
(* terminal they fit on.                                                   *)
(***************************************************************************)
THEOREM ArgumentsAreThePaths == Spec => []ArgumentsAreSelected
<1>1. Init => ArgumentsAreSelected
  BY DEF Init, ArgumentsAreSelected
<1> QED BY <1>1, ArgumentsStep, LineInvAlways, PTL DEF Spec
=============================================================================
