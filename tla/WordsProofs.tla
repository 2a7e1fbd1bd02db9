---------------------------- MODULE WordsProofs ----------------------------
(***************************************************************************)
(* TLAPS proofs about Words: what a read returns of a line, for lines of   *)
(* any number of words of any length.                                      *)
(***************************************************************************)
EXTENDS Words, FiniteSetTheorems, SequenceTheorems, TLAPS

\* Induction, on a set rather than a predicate: a number outside S would let
\* successor map the members of S up to it one to one into those above 0.
LEMMA SetInduction ==
  ASSUME NEW S, 0 \in S, \A n \in Nat : n \in S => n + 1 \in S
  PROVE  Nat \subseteq S
<1> SUFFICES ASSUME NEW n \in Nat, n \notin S
             PROVE  FALSE
  OBVIOUS
<1> DEFINE B == {k \in 0..n : k \in S}
           C == B \ {0}
           f == [k \in B |-> k + 1]
<1>1. f \in [B -> C]
  <2> SUFFICES ASSUME NEW k \in B
               PROVE  k + 1 \in C
    OBVIOUS
  <2>1. k \in Nat /\ k + 1 \in S /\ k # n
    OBVIOUS
  <2> QED BY <2>1
<1>2. IsFiniteSet(B) /\ Cardinality(B) \in Nat
  <2>1. IsFiniteSet(B)
    BY FS_Interval, FS_Subset, n \in Int, 0 \in Int, B \in SUBSET (0..n)
  <2> HIDE DEF B
  <2> QED BY <2>1, FS_CardinalityType
<1>3. IsFiniteSet(C) /\ Cardinality(C) < Cardinality(B)
  <2>1. 0 \in B
    OBVIOUS
  <2> HIDE DEF B
  <2>2. IsFiniteSet(C) /\ Cardinality(C) = IF 0 \in B THEN Cardinality(B) - 1 ELSE Cardinality(B)
    BY <1>2, FS_RemoveElement, Zenon
  <2> HIDE DEF C
  <2> QED BY <1>2, <2>1, <2>2
<1>4. \A x, y \in B : f[x] = f[y] => x = y
  OBVIOUS
<1> QED
  <2> HIDE DEF B, C, f
  <2> QED BY <1>1, <1>2, <1>3, <1>4, FS_PigeonHole

-----------------------------------------------------------------------------
(* Offsets.                                                                *)

\* f starts with 0 and goes on from each of n words to the next.
AreOffsets(f, size, n) ==
  /\ f \in [1..n + 1 -> Nat]
  /\ f[1] = 0
  /\ \A i \in 1..n : f[i + 1] = f[i] + size[i] + 1

\* The recursion of Offsets has a solution, for any number of words.
LEMMA OffsetsExist ==
  ASSUME NEW n \in Nat, NEW size, \A i \in 1..n : size[i] \in Nat
  PROVE  \E f : AreOffsets(f, size, n)
<1> DEFINE S == {m \in Nat : m <= n => \E f : AreOffsets(f, size, m)}
<1>1. 0 \in S
  <2>1. AreOffsets([i \in 1..1 |-> 0], size, 0)
    BY DEF AreOffsets
  <2> QED BY <2>1
<1>2. ASSUME NEW m \in Nat, m \in S
      PROVE  m + 1 \in S
  <2> SUFFICES ASSUME m + 1 <= n
               PROVE  \E f : AreOffsets(f, size, m + 1)
    OBVIOUS
  <2>1. PICK f : AreOffsets(f, size, m)
    BY <1>2
  <2> DEFINE g == [i \in 1..m + 2 |-> IF i = m + 2 THEN f[m + 1] + size[m + 1] + 1 ELSE f[i]]
  <2>2. g \in [1..m + 2 -> Nat]
    BY <2>1 DEF AreOffsets
  <2>3. g[1] = 0
    BY <2>1 DEF AreOffsets
  <2>4. ASSUME NEW i \in 1..m + 1
        PROVE  g[i + 1] = g[i] + size[i] + 1
    BY <2>1 DEF AreOffsets
  <2> HIDE DEF g
  <2>5. AreOffsets(g, size, m + 1)
    BY <2>2, <2>3, <2>4 DEF AreOffsets
  <2> QED BY <2>5
<1>3. Nat \subseteq S
  <2> HIDE DEF S
  <2> QED BY <1>1, <1>2, SetInduction
<1> QED BY <1>3

\* The offsets of a line are what the recursion says they are.
LEMMA OffsetsDef ==
  ASSUME NEW ws, Len(ws) \in Nat, \A i \in 1..Len(ws) : Size(ws[i]) \in Nat
  PROVE  AreOffsets(Offsets(ws), [i \in 1..Len(ws) |-> Size(ws[i])], Len(ws))
<1> DEFINE n == Len(ws)
           size == [i \in 1..n |-> Size(ws[i])]
<1>1. PICK f : AreOffsets(f, size, n)
  BY OffsetsExist
<1>2. f = [i \in 1..n + 1 |-> IF i = 1 THEN 0 ELSE f[i - 1] + Size(ws[i - 1]) + 1]
  <2>1. ASSUME NEW i \in 1..n + 1
        PROVE  f[i] = IF i = 1 THEN 0 ELSE f[i - 1] + Size(ws[i - 1]) + 1
    <3>1. CASE i # 1
      BY <1>1, <3>1, i - 1 \in 1..n DEF AreOffsets
    <3> QED BY <1>1, <3>1 DEF AreOffsets
  <2> QED BY <1>1, <2>1 DEF AreOffsets
<1> DEFINE off == Offsets(ws)
<1>3. off = [i \in 1..n + 1 |->
              IF i = 1 THEN 0 ELSE off[i - 1] + Size(ws[i - 1]) + 1]
  BY <1>2 DEF Offsets
<1> HIDE DEF off
<1>4. off[1] = 0 /\ \A i \in 1..n : off[i + 1] = off[i] + size[i] + 1
  BY <1>3
<1> DEFINE S == {m \in Nat : m <= n => off[m + 1] \in Nat}
<1>5. 0 \in S
  BY <1>4
<1>6. ASSUME NEW m \in Nat, m \in S
      PROVE  m + 1 \in S
  BY <1>4, <1>6
<1>7. Nat \subseteq S
  <2> HIDE DEF S
  <2> QED BY <1>5, <1>6, SetInduction
<1>8. off \in [1..n + 1 -> Nat]
  <2>1. ASSUME NEW i \in 1..n + 1
        PROVE  off[i] \in Nat
    BY <1>7, i - 1 \in Nat, i - 1 \in S
  <2> QED BY <1>3, <2>1
<1> QED BY <1>4, <1>8 DEF AreOffsets, off

\* A line whose words have a number of bytes.
IsText(ws) ==
  Len(ws) \in Nat /\ DOMAIN ws = 1..Len(ws) /\ \A i \in 1..Len(ws) : Size(ws[i]) \in Nat

\* A word starts one blank after the end of the one before.
LEMMA OffsetsStep ==
  ASSUME NEW ws, IsText(ws)
  PROVE  /\ Offsets(ws) \in [1..Len(ws) + 1 -> Nat]
         /\ Offsets(ws)[1] = 0
         /\ \A i \in 1..Len(ws) : Offsets(ws)[i + 1] = Offsets(ws)[i] + Size(ws[i]) + 1
BY OffsetsDef DEF AreOffsets, IsText

\* Every word ends before the line does (induction from the last word).
LEMMA OffsetsIncrease ==
  ASSUME NEW ws, IsText(ws), NEW i \in 1..Len(ws)
  PROVE  Offsets(ws)[i + 1] <= Offsets(ws)[Len(ws) + 1]
<1> DEFINE n == Len(ws)
           off == Offsets(ws)
           S == {m \in Nat : m < n => off[n + 1 - m] <= off[n + 1]}
<1>1. /\ n \in Nat /\ off \in [1..n + 1 -> Nat]
      /\ \A j \in 1..n : Size(ws[j]) \in Nat /\ off[j + 1] = off[j] + Size(ws[j]) + 1
  BY OffsetsStep DEF IsText
<1> HIDE DEF n, off
<1>2. 0 \in S
  BY <1>1
<1>3. ASSUME NEW m \in Nat, m \in S
      PROVE  m + 1 \in S
  <2> SUFFICES ASSUME m + 1 < n
               PROVE  off[n - m] <= off[n + 1]
    BY <1>1, n + 1 - (m + 1) = n - m
  <2>1. off[n + 1 - m] <= off[n + 1]
    BY <1>1, <1>3
  <2>2. /\ n - m \in 1..n /\ (n - m) + 1 = n + 1 - m
        /\ n - m \in 1..n + 1 /\ n + 1 - m \in 1..n + 1 /\ n + 1 \in 1..n + 1
    BY <1>1
  <2>3. off[n + 1 - m] = off[n - m] + Size(ws[n - m]) + 1 /\ Size(ws[n - m]) \in Nat
    BY <1>1, <2>2
  <2> HIDE DEF S
  <2> QED BY <1>1, <2>1, <2>2, <2>3
<1>4. Nat \subseteq S
  <2> HIDE DEF S
  <2> QED BY <1>2, <1>3, SetInduction
<1>5. n - i \in Nat /\ n - i < n /\ n + 1 - (n - i) = i + 1
  BY <1>1 DEF n
<1> QED BY <1>4, <1>5 DEF n, off

-----------------------------------------------------------------------------
(* What a read that is long enough returns.                                *)

\* The larger and the smaller of two numbers.
LEMMA MaxMin ==
  ASSUME NEW a \in Int, NEW b \in Int
  PROVE  /\ Max({a, b}) = IF a >= b THEN a ELSE b
         /\ Min({a, b}) = IF a <= b THEN a ELSE b
BY DEF Max, Min

\* The k-th member of 1..m is k.
LEMMA Nth ==
  ASSUME NEW m \in Nat, NEW k \in 1..m
  PROVE  k = CHOOSE i \in 1..m : Cardinality({j \in 1..m : j <= i}) = k
<1>1. ASSUME NEW i \in 1..m
      PROVE  Cardinality({j \in 1..m : j <= i}) = i
  <2>1. {j \in 1..m : j <= i} = 1..i
    OBVIOUS
  <2>2. Cardinality(1..i) = i
    BY FS_Interval, i \in Int, 1 \in Int
  <2> QED BY <2>1, <2>2
<1> QED BY <1>1

\* A word of which nothing was cut off.
IsWhole(w) == IF IsNumeral(w) THEN w = Numeral(w.digits) /\ w.digits \in Seq(0..9)
              ELSE w = [text |-> w.text, from |-> 0, len |-> w.len] /\ w.len \in Nat

\* Cutting such a word at its ends leaves it as it is.
LEMMA CutNothing ==
  ASSUME NEW w, IsWhole(w)
  PROVE  Cut(w, 0, Size(w)) = w /\ Size(w) \in Nat
<1>1. CASE IsNumeral(w)
  <2>1. w = Numeral(w.digits) /\ w.digits \in Seq(0..9)
    BY <1>1 DEF IsWhole
  <2>2. SubSeq(w.digits, 0 + 1, Len(w.digits)) = w.digits /\ Len(w.digits) \in Nat
    BY <2>1, SubSeqFull
  <2>3. Size(w) = Len(w.digits) /\ Cut(w, 0, Size(w)) = Numeral(SubSeq(w.digits, 0 + 1, Size(w)))
    BY <1>1 DEF Cut, Size
  <2> QED BY <2>1, <2>2, <2>3
<1>2. CASE ~IsNumeral(w)
  <2>1. w = [text |-> w.text, from |-> 0, len |-> w.len] /\ w.len \in Nat
    BY <1>2 DEF IsWhole
  <2>2. w.from = 0 /\ w.from + 0 = 0 /\ w.len - 0 = w.len
    BY <2>1
  <2> QED BY <1>2, <2>1, <2>2 DEF Cut, Size
<1> QED BY <1>1, <1>2

\* A read that has room for a line returns its words, and leaves out what is
\* empty at its end.
LEMMA SliceAll ==
  ASSUME NEW ws, IsText(ws), NEW n \in Nat, Bytes(ws) <= n, NEW m \in 0..Len(ws),
         \A i \in 1..Len(ws) : Size(ws[i]) > 0 <=> i <= m,
         \A i \in 1..m : IsWhole(ws[i])
  PROVE  Slice(ws, 0, n) = [k \in 1..m |-> ws[k]]
<1> DEFINE off == Offsets(ws)
           Inside == {i \in 1..Len(ws) : Size(ws[i]) > 0 /\ off[i] < 0 + n /\ off[i] + Size(ws[i]) > 0}
           Part(i) == Cut(ws[i], Max({0, 0 - off[i]}), Min({Size(ws[i]), 0 + n - off[i]}))
           Place(k) == CHOOSE i \in Inside : Cardinality({j \in Inside : j <= i}) = k
<1>1. Slice(ws, 0, n) = [k \in 1..Cardinality(Inside) |-> Part(Place(k))]
  BY DEF Slice
<1>0. m \in Nat /\ Len(ws) \in Nat /\ m <= Len(ws)
  BY DEF IsText
<1>2. ASSUME NEW i \in 1..m
      PROVE  /\ i \in 1..Len(ws) /\ off[i] \in Nat /\ Size(ws[i]) \in Nat /\ Size(ws[i]) > 0
             /\ off[i] + Size(ws[i]) <= n
  <2>1. /\ i \in 1..Len(ws) /\ i \in 1..Len(ws) + 1
        /\ i + 1 \in 1..Len(ws) + 1 /\ Len(ws) + 1 \in 1..Len(ws) + 1
    BY <1>0
  <2>2. Bytes(ws) = off[Len(ws) + 1] - 1
    BY <2>1 DEF Bytes
  <2>3. off[i + 1] <= off[Len(ws) + 1]
    BY <2>1, OffsetsIncrease
  <2>4. off \in [1..Len(ws) + 1 -> Nat] /\ off[i + 1] = off[i] + Size(ws[i]) + 1
    BY <2>1, OffsetsStep
  <2>5. Size(ws[i]) \in Nat /\ Size(ws[i]) > 0
    BY <2>1 DEF IsText
  <2> HIDE DEF off
  <2>6. off[i] \in Nat /\ off[i + 1] \in Nat /\ off[Len(ws) + 1] \in Nat
    BY <2>1, <2>4
  <2> QED BY <2>1, <2>2, <2>3, <2>4, <2>5, <2>6
<1>3. Inside = 1..m
  <2>1. Inside \subseteq 1..m
    BY <1>0
  <2>2. 1..m \subseteq Inside
    BY <1>2
  <2> QED BY <2>1, <2>2
<1> HIDE DEF Inside
<1>4. Cardinality(1..m) = m
  BY <1>0, FS_Interval, m \in Int, 1 \in Int
<1>5. ASSUME NEW k \in 1..m
      PROVE  Part(Place(k)) = ws[k]
  <2>1. Place(k) = k
    BY <1>0, <1>3, Nth, Zenon
  <2>2. off[k] \in Nat /\ Size(ws[k]) \in Nat /\ off[k] + Size(ws[k]) <= n
    BY <1>2
  <2> HIDE DEF off
  <2>3. /\ 0 - off[k] \in Int /\ 0 + n - off[k] \in Int /\ Size(ws[k]) \in Int
        /\ 0 >= 0 - off[k] /\ Size(ws[k]) <= 0 + n - off[k]
    BY <2>2
  <2>4. ASSUME NEW x \in Int, NEW y \in Int, NEW z \in Int, 0 >= x, y <= z
        PROVE  Max({0, x}) = 0 /\ Min({y, z}) = y
    <3>1. 0 \in Int
      OBVIOUS
    <3> QED BY <2>4, <3>1, MaxMin
  <2>5. Max({0, 0 - off[k]}) = 0 /\ Min({Size(ws[k]), 0 + n - off[k]}) = Size(ws[k])
    BY <2>3, <2>4, Zenon
  <2> QED BY <2>1, <2>5, CutNothing
<1> QED BY <1>1, <1>3, <1>4, <1>5

\* A line has a number of bytes.
LEMMA BytesIsInt ==
  ASSUME NEW ws, IsText(ws)
  PROVE  Bytes(ws) \in Int
<1>1. Len(ws) + 1 \in 1..Len(ws) + 1
  BY DEF IsText
<1> QED BY <1>1, OffsetsStep DEF Bytes

-----------------------------------------------------------------------------
(* Lines that are written out.                                             *)

\* A sequence that goes on where s ends is s with one more element.
LEMMA OneMore ==
  ASSUME NEW S, NEW s \in Seq(S), NEW x \in S, NEW t \in Seq(S), Len(t) = Len(s) + 1,
         \A i \in 1..Len(s) : t[i] = s[i], t[Len(s) + 1] = x
  PROVE  s \o <<x>> = t
<1>1. <<x>> \in Seq(S) /\ Len(<<x>>) = 1 /\ <<x>>[1] = x
  OBVIOUS
<1>2. /\ s \o <<x>> \in Seq(S) /\ Len(s \o <<x>>) = Len(s) + 1
      /\ \A i \in 1..Len(s) + 1 : (s \o <<x>>)[i] = IF i <= Len(s) THEN s[i] ELSE <<x>>[i - Len(s)]
  BY <1>1, ConcatProperties
<1>3. \A i \in 1..Len(s) + 1 : (s \o <<x>>)[i] = t[i]
  BY <1>1, <1>2
<1> QED BY <1>2, <1>3, SeqEqual

\* The lines the application composes, of up to five words.
LEMMA Joined ==
  /\ \A a : <<a>> \o <<>> = <<a>>
  /\ \A a, b : <<a, b>> \o <<>> = <<a, b>>
  /\ \A a, b : <<a>> \o <<b>> = <<a, b>>
  /\ \A a, b, c : <<a, b>> \o <<c>> = <<a, b, c>>
  /\ \A a, b, c, d : <<a, b, c>> \o <<d>> = <<a, b, c, d>>
  /\ \A a, b, c, d, e : <<a, b, c, d>> \o <<e>> = <<a, b, c, d, e>>
<1>1. \A a : <<a>> \o <<>> = <<a>>
  OBVIOUS
<1>2. \A a, b : <<a, b>> \o <<>> = <<a, b>>
  OBVIOUS
<1>3. ASSUME NEW a, NEW b
      PROVE  <<a>> \o <<b>> = <<a, b>>
  <2> DEFINE S == {a, b}
             s == <<a>>
             t == <<a, b>>
  <2>1. s \in Seq(S) /\ t \in Seq(S) /\ b \in S
    OBVIOUS
  <2>2. Len(s) = 1 /\ Len(t) = 2 /\ t[2] = b /\ \A i \in 1..1 : t[i] = s[i]
    OBVIOUS
  <2>3. s \o <<b>> = t
    <3> HIDE DEF S, s, t
    <3>1. Len(t) = Len(s) + 1 /\ t[Len(s) + 1] = b /\ \A i \in 1..Len(s) : t[i] = s[i]
      BY <2>2
    <3> QED BY <2>1, <3>1, OneMore, Zenon
  <2> QED BY <2>3
<1>4. ASSUME NEW a, NEW b, NEW c
      PROVE  <<a, b>> \o <<c>> = <<a, b, c>>
  <2> DEFINE S == {a, b, c}
             s == <<a, b>>
             t == <<a, b, c>>
  <2>1. s \in Seq(S) /\ t \in Seq(S) /\ c \in S
    OBVIOUS
  <2>2. Len(s) = 2 /\ Len(t) = 3 /\ t[3] = c /\ \A i \in 1..2 : t[i] = s[i]
    OBVIOUS
  <2>3. s \o <<c>> = t
    <3> HIDE DEF S, s, t
    <3>1. Len(t) = Len(s) + 1 /\ t[Len(s) + 1] = c /\ \A i \in 1..Len(s) : t[i] = s[i]
      BY <2>2
    <3> QED BY <2>1, <3>1, OneMore, Zenon
  <2> QED BY <2>3
<1>5. ASSUME NEW a, NEW b, NEW c, NEW d
      PROVE  <<a, b, c>> \o <<d>> = <<a, b, c, d>>
  <2> DEFINE S == {a, b, c, d}
             s == <<a, b, c>>
             t == <<a, b, c, d>>
  <2>1. s \in Seq(S) /\ t \in Seq(S) /\ d \in S
    OBVIOUS
  <2>2. Len(s) = 3 /\ Len(t) = 4 /\ t[4] = d /\ \A i \in 1..3 : t[i] = s[i]
    OBVIOUS
  <2>3. s \o <<d>> = t
    <3> HIDE DEF S, s, t
    <3>1. Len(t) = Len(s) + 1 /\ t[Len(s) + 1] = d /\ \A i \in 1..Len(s) : t[i] = s[i]
      BY <2>2
    <3> QED BY <2>1, <3>1, OneMore, Zenon
  <2> QED BY <2>3
<1>6. ASSUME NEW a, NEW b, NEW c, NEW d, NEW e
      PROVE  <<a, b, c, d>> \o <<e>> = <<a, b, c, d, e>>
  <2> DEFINE S == {a, b, c, d, e}
             s == <<a, b, c, d>>
             t == <<a, b, c, d, e>>
  <2>1. s \in Seq(S) /\ t \in Seq(S) /\ e \in S
    OBVIOUS
  <2>2. Len(s) = 4 /\ Len(t) = 5 /\ t[5] = e /\ \A i \in 1..4 : t[i] = s[i]
    OBVIOUS
  <2>3. s \o <<e>> = t
    <3> HIDE DEF S, s, t
    <3>1. Len(t) = Len(s) + 1 /\ t[Len(s) + 1] = e /\ \A i \in 1..Len(s) : t[i] = s[i]
      BY <2>2
    <3> QED BY <2>1, <3>1, OneMore, Zenon
  <2> QED BY <2>3
<1> QED BY <1>1, <1>2, <1>3, <1>4, <1>5, <1>6

-----------------------------------------------------------------------------
(* atoi.                                                                   *)

\* f starts with a and goes on by a step for each number up to n.
IsRecursion(f, n, S, a, step) ==
  /\ f \in [0..n -> S]
  /\ f[0] = a
  /\ \A i \in 1..n : f[i] = step[i][f[i - 1]]

LEMMA RecursionExists ==
  ASSUME NEW n \in Nat, NEW S, NEW a \in S, NEW step \in [1..n -> [S -> S]]
  PROVE  \E f : IsRecursion(f, n, S, a, step)
<1> DEFINE M == {m \in Nat : m <= n => \E f : IsRecursion(f, m, S, a, step)}
<1>1. 0 \in M
  <2>1. IsRecursion([i \in 0..0 |-> a], 0, S, a, step)
    BY DEF IsRecursion
  <2> QED BY <2>1
<1>2. ASSUME NEW m \in Nat, m \in M
      PROVE  m + 1 \in M
  <2> SUFFICES ASSUME m + 1 <= n
               PROVE  \E f : IsRecursion(f, m + 1, S, a, step)
    OBVIOUS
  <2>1. PICK f : IsRecursion(f, m, S, a, step)
    BY <1>2
  <2> DEFINE g == [i \in 0..m + 1 |-> IF i = m + 1 THEN step[m + 1][f[m]] ELSE f[i]]
  <2>2. step[m + 1][f[m]] \in S
    BY <2>1 DEF IsRecursion
  <2>3. g \in [0..m + 1 -> S]
    BY <2>1, <2>2 DEF IsRecursion
  <2>4. g[0] = a
    BY <2>1 DEF IsRecursion
  <2>5. ASSUME NEW i \in 1..m + 1
        PROVE  g[i] = step[i][g[i - 1]]
    BY <2>1 DEF IsRecursion
  <2> HIDE DEF g
  <2>6. IsRecursion(g, m + 1, S, a, step)
    BY <2>3, <2>4, <2>5 DEF IsRecursion
  <2> QED BY <2>6
<1>3. Nat \subseteq M
  <2> HIDE DEF M
  <2> QED BY <1>1, <1>2, SetInduction
<1> QED BY <1>3

\* v[i] is the value of the first i digits of d.
AreValues(v, d) ==
  /\ v \in [0..Len(d) -> Nat]
  /\ v[0] = 0
  /\ \A i \in 1..Len(d) : v[i] = v[i - 1] * 10 + d[i]

\* A number of 32 bits or more in the two halves that atoi keeps of it.
Halves(v) == [hi |-> (v \div 65536) % 65536, lo |-> v % 65536]

\* The two halves after one more digit, as atoi computes them.
Add(h, x) == [hi |-> (h.hi * 10 + (h.lo * 10 + x) \div 65536) % 65536,
              lo |-> (h.lo * 10 + x) % 65536]

\* Quotient and remainder of a number by 2^16 give the number, and only they.
LEMMA HalvesExist ==
  ASSUME NEW v \in Nat
  PROVE  \E q, r \in Nat : r < 65536 /\ v = q * 65536 + r
<1>1. /\ v \div 65536 \in Nat /\ v % 65536 \in Nat /\ v % 65536 < 65536
      /\ v = (v \div 65536) * 65536 + (v % 65536)
  OBVIOUS
<1> WITNESS v \div 65536 \in Nat, v % 65536 \in Nat
<1> QED BY <1>1

LEMMA HalvesAre ==
  ASSUME NEW v \in Nat, NEW q \in Nat, NEW r \in Nat, r < 65536, v = q * 65536 + r
  PROVE  v \div 65536 = q /\ v % 65536 = r
OBVIOUS

\* One more digit: what overflows the lower half goes to the upper one.
LEMMA OneMoreDigit ==
  ASSUME NEW v \in Nat, NEW x \in Nat
  PROVE  Halves(v * 10 + x) = Add(Halves(v), x)
<1>1. PICK q, r \in Nat : r < 65536 /\ v = q * 65536 + r
  BY HalvesExist
<1>2. PICK h, b \in Nat : b < 65536 /\ q = h * 65536 + b
  BY HalvesExist
<1>3. PICK low \in Nat : low = r * 10 + x
  OBVIOUS
<1>4. PICK t, z \in Nat : z < 65536 /\ low = t * 65536 + z
  BY HalvesExist
<1>5. PICK high \in Nat : high = b * 10 + t
  OBVIOUS
<1>6. PICK s, y \in Nat : y < 65536 /\ high = s * 65536 + y
  BY HalvesExist
<1>7. PICK next, upper, over \in Nat : next = v * 10 + x /\ upper = q * 10 + t /\ over = h * 10 + s
  OBVIOUS
<1>8. next = upper * 65536 + z /\ upper = over * 65536 + y
  BY <1>1, <1>2, <1>3, <1>4, <1>5, <1>6, <1>7
<1>9. v \div 65536 = q /\ v % 65536 = r
  BY <1>1, HalvesAre
<1>10. q % 65536 = b
  BY <1>2, HalvesAre
<1>11. low \div 65536 = t /\ low % 65536 = z
  BY <1>4, HalvesAre
<1>12. high % 65536 = y
  BY <1>6, HalvesAre
<1>13. next \div 65536 = upper /\ next % 65536 = z
  BY <1>4, <1>8, HalvesAre
<1>14. upper % 65536 = y
  BY <1>6, <1>8, HalvesAre
<1>15. Halves(v) = [hi |-> b, lo |-> r] /\ Halves(next) = [hi |-> y, lo |-> z]
  BY <1>9, <1>10, <1>13, <1>14 DEF Halves
<1>16. Halves(v).hi = b /\ Halves(v).lo = r
  BY <1>15
<1>17. v * 10 + x = next /\ Halves(v).lo * 10 + x = low /\ Halves(v).hi * 10 + t = high
  BY <1>3, <1>5, <1>7, <1>16
<1> QED BY <1>11, <1>12, <1>15, <1>17 DEF Add

\* Every numeral has values.
LEMMA ValuesExist ==
  ASSUME NEW d \in Seq(0..9)
  PROVE  \E v : AreValues(v, d)
<1> DEFINE n == Len(d)
           step == [i \in 1..n |-> [k \in Nat |-> k * 10 + d[i]]]
<1>1. n \in Nat /\ d \in [1..n -> 0..9] /\ 0 \in Nat
  OBVIOUS
<1>2. step \in [1..n -> [Nat -> Nat]]
  BY <1>1
<1>3. PICK v : v \in [0..n -> Nat] /\ v[0] = 0 /\ \A i \in 1..n : v[i] = step[i][v[i - 1]]
  <2>1. \E v : IsRecursion(v, n, Nat, 0, step)
    <3> HIDE DEF n, step
    <3> QED BY <1>1, <1>2, RecursionExists
  <2> QED BY <2>1 DEF IsRecursion
<1>4. ASSUME NEW i \in 1..n
      PROVE  v[i] = v[i - 1] * 10 + d[i]
  <2>1. v[i - 1] \in Nat /\ v[i] = step[i][v[i - 1]]
    <3> HIDE DEF step, n
    <3>1. i - 1 \in 0..n
      BY <1>1
    <3> QED BY <1>3, <3>1
  <2>2. step[i] = [k \in Nat |-> k * 10 + d[i]]
    OBVIOUS
  <2> HIDE DEF step
  <2> QED BY <2>1, <2>2
<1> QED BY <1>3, <1>4 DEF AreValues

LEMMA NextDigit ==
  ASSUME NEW n \in Nat, NEW d \in [1..n -> 0..9], NEW v \in [0..n -> Nat],
         \A j \in 1..n : v[j] = v[j - 1] * 10 + d[j],
         NEW i \in 1..n
  PROVE  v[i] = v[i - 1] * 10 + d[i] /\ v[i] \in Nat /\ v[i - 1] \in Nat /\ d[i] \in 0..9
<1>1. i \in 0..n /\ i - 1 \in 0..n
  OBVIOUS
<1>2. v[i] \in Nat /\ v[i - 1] \in Nat
  BY <1>1, Zenon
<1>3. d[i] \in 0..9
  BY Zenon
<1>4. v[i] = v[i - 1] * 10 + d[i]
  BY Zenon
<1> QED BY <1>2, <1>3, <1>4

LEMMA BelowTenTimes ==
  ASSUME NEW a \in Nat, NEW m \in Nat, NEW x \in 0..9, a < m
  PROVE  a * 10 + x < m * 10
OBVIOUS

\* atoi of a numeral that a long holds is its decimal value modulo 2^32.
LEMMA DecimalValue ==
  ASSUME NEW d \in Seq(0..9), ~Overflows(d), NEW v, AreValues(v, d)
  PROVE  atoi(Numeral(d)) = Halves(v[Len(d)])
<1> DEFINE n == Len(d)
           w == Numeral(d)
<1>1. n \in Nat /\ d \in [1..n -> 0..9] /\ IsNumeral(w) /\ w.digits = d
  BY DEF Numeral, IsNumeral
<1>2. v \in [0..n -> Nat] /\ v[0] = 0 /\ \A i \in 1..n : v[i] = v[i - 1] * 10 + d[i]
  BY DEF AreValues
<1>d. \A i \in 1..n : v[i] = v[i - 1] * 10 + d[i] /\ v[i - 1] \in Nat /\ d[i] \in Nat
  <2> HIDE DEF n, w
  <2>1. \A x \in 0..9 : x \in Nat
    OBVIOUS
  <2>2. ASSUME NEW i \in 1..n
        PROVE  v[i] = v[i - 1] * 10 + d[i] /\ v[i - 1] \in Nat /\ d[i] \in 0..9
    <3>1. n \in Nat /\ d \in [1..n -> 0..9]
      BY <1>1
    <3>2. v \in [0..n -> Nat] /\ \A j \in 1..n : v[j] = v[j - 1] * 10 + d[j]
      BY <1>2
    <3> QED BY <3>1, <3>2, NextDigit
  <2> QED BY <2>1, <2>2
<1> DEFINE g == [i \in 0..n |-> Halves(v[i])]
           Next(f, i) == IF i = 0 THEN [hi |-> 0, lo |-> 0] ELSE Add(f[i - 1], w.digits[i])
           All(f) == [i \in 0..n |-> Next(f, i)]
<1>3. ASSUME NEW i \in 0..n
      PROVE  g[i] = Next(g, i)
  <2>1. CASE i = 0
    BY <1>1, <1>2, <2>1 DEF Halves
  <2>2. CASE i # 0
    <3>1. v[i] = v[i - 1] * 10 + d[i] /\ v[i - 1] \in Nat /\ d[i] \in Nat
      <4> HIDE DEF n
      <4>1. i \in 1..n
        BY <1>1, <2>2
      <4> QED BY <1>d, <4>1
    <3>2. g[i] = Halves(v[i]) /\ g[i - 1] = Halves(v[i - 1])
      BY <1>1, <2>2
    <3>3. Halves(v[i - 1] * 10 + d[i]) = Add(Halves(v[i - 1]), d[i])
      BY <3>1, OneMoreDigit
    <3> HIDE DEF g
    <3>4. Next(g, i) = Add(g[i - 1], d[i])
      BY <1>1, <2>2
    <3> HIDE DEF Next
    <3> QED BY <3>1, <3>2, <3>3, <3>4
  <2> QED BY <2>1, <2>2
<1>4. g = All(g)
  <2>1. g = [i \in 0..n |-> g[i]]
    OBVIOUS
  <2> HIDE DEF g, Next
  <2> QED BY <1>3, <2>1
<1> HIDE DEF g
<1> DEFINE value == CHOOSE f : f = All(f)
<1>5. value = All(value)
  <2> HIDE DEF All
  <2> QED BY <1>4, Zenon
<1>6. atoi(w) = value[n]
  BY <1>1 DEF atoi, Modulo32, Add
<1> HIDE DEF value
<1> DEFINE M == {i \in Nat : i <= n => value[i] = Halves(v[i])}
<1>7. 0 \in M
  BY <1>1, <1>2, <1>5 DEF Halves
<1>8. ASSUME NEW i \in Nat, i \in M
      PROVE  i + 1 \in M
  <2> SUFFICES ASSUME i + 1 <= n
               PROVE  value[i + 1] = Halves(v[i + 1])
    OBVIOUS
  <2>1. v[i + 1] = v[i] * 10 + d[i + 1] /\ v[i] \in Nat /\ d[i + 1] \in Nat
    <3> HIDE DEF n
    <3>1. i + 1 \in 1..n /\ (i + 1) - 1 = i
      BY <1>1
    <3>2. /\ v[i + 1] = v[(i + 1) - 1] * 10 + d[i + 1] /\ v[(i + 1) - 1] \in Nat
          /\ d[i + 1] \in Nat
      BY <1>d, <3>1
    <3> QED BY <3>1, <3>2
  <2>2. value[i] = Halves(v[i])
    BY <1>1, <1>8
  <2>3. value[i + 1] = Add(value[i], d[i + 1])
    <3>1. i + 1 \in 0..n /\ i + 1 # 0 /\ (i + 1) - 1 = i
      BY <1>1
    <3>2. value[i + 1] = Next(value, i + 1)
      <4> HIDE DEF Next
      <4> QED BY <1>5, <3>1
    <3> QED BY <1>1, <3>1, <3>2
  <2>4. Halves(v[i] * 10 + d[i + 1]) = Add(Halves(v[i]), d[i + 1])
    BY <2>1, OneMoreDigit
  <2> QED BY <2>1, <2>2, <2>3, <2>4
<1>9. Nat \subseteq M
  <2> HIDE DEF M
  <2> QED BY <1>7, <1>8, SetInduction
<1> QED BY <1>1, <1>2, <1>6, <1>9

\* A long holds every number of less than 19 digits.
LEMMA FewDigits ==
  ASSUME NEW d \in Seq(0..9), Len(d) < 19
  PROVE  ~Overflows(d)
BY 0..Len(d) - 19 = {} DEF Overflows

\* The halves h are those of k, and of a port if k is one.
Spells(h, k) ==
  /\ h.hi * 65536 + h.lo = k
  /\ (h.hi = 0 /\ h.lo > 0) <=> (0 < k /\ k < 65536)

LEMMA SmallHalves ==
  ASSUME NEW k \in Nat, k < 100000
  PROVE  Spells(Halves(k), k)
<1>1. PICK q, r \in Nat : r < 65536 /\ k = q * 65536 + r
  BY HalvesExist
<1>2. k \div 65536 = q /\ k % 65536 = r
  BY <1>1, HalvesAre
<1>3. q < 65536 /\ q % 65536 = q
  BY <1>1
<1>4. Halves(k).hi = q /\ Halves(k).lo = r
  BY <1>2, <1>3 DEF Halves
<1>5. CASE q = 0
  <2>1. k = r
    BY <1>1, <1>5
  <2>2. r > 0 <=> (0 < k /\ k < 65536)
    BY <1>1, <2>1
  <2> QED BY <1>1, <1>4, <1>5, <2>2 DEF Spells
<1>6. CASE q # 0
  <2>1. ~(k < 65536)
    BY <1>1, <1>6
  <2> QED BY <1>1, <1>4, <1>6, <2>1 DEF Spells
<1> QED BY <1>5, <1>6

\* Up to five digits, as many as a handler reads of a port, nothing is lost,
\* and is_valid_port accepts just the numbers from 1 to 65535.
THEOREM FiveDigits ==
  ASSUME NEW d \in Seq(0..9), Len(d) \in 1..5, NEW v, AreValues(v, d)
  PROVE  /\ PortNumber(Numeral(d)) = v[Len(d)]
         /\ isValidPort(<<Numeral(d)>>) <=> (0 < v[Len(d)] /\ v[Len(d)] < 65536)
<1> DEFINE n == Len(d)
<1>1. /\ n \in 1..5 /\ d \in [1..n -> 0..9] /\ v \in [0..n -> Nat] /\ v[0] = 0
      /\ \A i \in 1..n : v[i] = v[i - 1] * 10 + d[i]
  BY DEF AreValues
<1> HIDE DEF n
<1>2. ASSUME NEW i \in 1..n, NEW m \in Nat, v[i - 1] < m
      PROVE  v[i] < m * 10
  <2>1. n \in Nat
    BY <1>1
  <2>2. v[i] = v[i - 1] * 10 + d[i] /\ v[i - 1] \in Nat /\ d[i] \in 0..9
    BY <1>1, <2>1, NextDigit
  <2>3. v[i - 1] * 10 + d[i] < m * 10
    BY <1>2, <2>2, BelowTenTimes
  <2> QED BY <2>2, <2>3
<1>3. v[n] \in Nat /\ v[n] < 100000
  <2>1. 1 \in 1..n /\ v[1 - 1] < 1
    BY <1>1
  <2>2. v[1] < 10
    BY <1>2, <2>1, 1 * 10 = 10, 1 \in Nat
  <2>3. n >= 2 => v[2] < 100
    BY <1>1, <1>2, <2>2, 2 - 1 = 1, 10 * 10 = 100, 10 \in Nat
  <2>4. n >= 3 => v[3] < 1000
    BY <1>1, <1>2, <2>3, 3 - 1 = 2, 100 * 10 = 1000, 100 \in Nat
  <2>5. n >= 4 => v[4] < 10000
    BY <1>1, <1>2, <2>4, 4 - 1 = 3, 1000 * 10 = 10000, 1000 \in Nat
  <2>6. n >= 5 => v[5] < 100000
    BY <1>1, <1>2, <2>5, 5 - 1 = 4, 10000 * 10 = 100000, 10000 \in Nat
  <2>7. v[n] \in Nat
    BY <1>1
  <2>8. n = 1 \/ n = 2 \/ n = 3 \/ n = 4 \/ n = 5
    BY <1>1
  <2> QED BY <2>2, <2>3, <2>4, <2>5, <2>6, <2>7, <2>8
<1>4. atoi(Numeral(d)) = Halves(v[n])
  <2>1. Len(d) < 19
    BY <1>1 DEF n
  <2>2. ~Overflows(d)
    BY <2>1, FewDigits
  <2> QED BY <2>2, DecimalValue DEF n
<1>5. Spells(atoi(Numeral(d)), v[n])
  BY <1>3, <1>4, SmallHalves
<1>6. PortNumber(Numeral(d)) = v[n]
  BY <1>5 DEF PortNumber, Spells
<1>7. isValidPort(<<Numeral(d)>>) <=> (atoi(Numeral(d)).hi = 0 /\ atoi(Numeral(d)).lo > 0)
  BY DEF isValidPort, isNumber, IsNumeral, Numeral
<1>8. isValidPort(<<Numeral(d)>>) <=> (0 < v[n] /\ v[n] < 65536)
  BY <1>5, <1>7 DEF Spells
<1> QED BY <1>6, <1>8 DEF n
=============================================================================
