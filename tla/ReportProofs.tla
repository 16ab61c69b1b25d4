------------------------------ MODULE ReportProofs ------------------------------
(* The reports, for tables of any length, any latencies and any checksums.       *)
EXTENDS ReportProperties, FiniteSetTheorems, WellFoundedInduction, TLAPS

-----------------------------------------------------------------------------
(* Induction over the natural numbers, for a set that contains zero and the    *)
(* successors of its elements: the least number outside it has no place.       *)

LEMMA Minimum ==
  ASSUME NEW T, T \subseteq Nat, T # {}
  PROVE  \E n \in T : \A m \in T : n <= m
<1> DEFINE R == {pair \in Nat \X Nat : pair[1] < pair[2]}
<1>1. IsWellFoundedOn(R, Nat)
  BY NatLessThanWellFounded, Zenon DEF OpToRel
<1> HIDE DEF R
<1>2. PICK n \in T : \A m \in T : <<m, n>> \notin R
  BY <1>1, WFMin, Zenon
<1>3. ASSUME NEW m \in T PROVE n <= m
  <2>1. <<m, n>> \notin R
    BY <1>2, Zenon
  <2>2. m < n => <<m, n>> \in R
    BY DEF R
  <2> QED BY <2>1, <2>2
<1> QED BY <1>3

LEMMA Induction ==
  ASSUME NEW S, 0 \in S, \A n \in Nat : n \in S => n + 1 \in S
  PROVE  Nat \subseteq S
<1> DEFINE T == Nat \ S
<1> SUFFICES ASSUME T # {} PROVE FALSE
  OBVIOUS
<1>1. PICK n \in T : \A m \in T : n <= m
  BY Minimum
<1>2. n # 0 /\ n - 1 \in Nat /\ n - 1 \notin T
  BY <1>1
<1> QED BY <1>1, <1>2

-----------------------------------------------------------------------------
(* What a filter keeps.                                                        *)

\* A function that keeps the rows of a table one place after the other.
Keeps(f, rows, places, n) ==
  /\ f = [i \in 0..n |-> f[i]] /\ f[0] = <<>>
  /\ \A i \in 1..n : f[i] = IF i \in places THEN Append(f[i - 1], rows[i]) ELSE f[i - 1]

LEMMA KeepsOnce ==
  ASSUME NEW rows, NEW places, NEW n \in Nat
  PROVE  \E f : Keeps(f, rows, places, n)
<1> DEFINE S == {m \in Nat : \E f : Keeps(f, rows, places, m)}
<1>1. 0 \in S
  <2>1. Keeps([i \in 0..0 |-> <<>>], rows, places, 0)
    BY DEF Keeps
  <2> QED BY <2>1
<1>2. \A m \in Nat : m \in S => m + 1 \in S
  <2> SUFFICES ASSUME NEW m \in Nat, NEW f, Keeps(f, rows, places, m)
               PROVE  \E g : Keeps(g, rows, places, m + 1)
    OBVIOUS
  <2> DEFINE last == IF m + 1 \in places THEN Append(f[m], rows[m + 1]) ELSE f[m]
             g == [i \in 0..(m + 1) |-> IF i = m + 1 THEN last ELSE f[i]]
  <2>1. g = [i \in 0..(m + 1) |-> g[i]] /\ g[m + 1] = last /\ \A i \in 0..m : g[i] = f[i]
    OBVIOUS
  <2>2. g[0] = <<>>
    BY <2>1 DEF Keeps
  <2> HIDE DEF g
  <2>3. ASSUME NEW i \in 1..(m + 1)
        PROVE  g[i] = IF i \in places THEN Append(g[i - 1], rows[i]) ELSE g[i - 1]
    <3>1. CASE i = m + 1
      BY <2>1, <3>1
    <3>2. CASE i # m + 1
      <4>1. i \in 1..m /\ i \in 0..m /\ i - 1 \in 0..m
        BY <3>2
      <4> QED BY <2>1, <4>1 DEF Keeps
    <3> QED BY <3>1, <3>2
  <2>4. Keeps(g, rows, places, m + 1)
    BY <2>1, <2>2, <2>3 DEF Keeps
  <2> QED BY <2>4
<1>3. n \in S
  <2> HIDE DEF S
  <2> QED BY <1>1, <1>2, Induction
<1> QED BY <1>3

LEMMA KeptKeeps ==
  ASSUME NEW rows, NEW places, Len(rows) \in Nat
  PROVE  \E f : Keeps(f, rows, places, Len(rows)) /\ Kept(rows, places) = f[Len(rows)]
<1> DEFINE
      Step(f) == [i \in 0..Len(rows) |->
                    IF i = 0 THEN <<>>
                    ELSE IF i \in places THEN Append(f[i - 1], rows[i]) ELSE f[i - 1]]
      kept == CHOOSE f : f = Step(f)
<1>1. PICK f : Keeps(f, rows, places, Len(rows))
  BY KeepsOnce
<1>2. f = Step(f)
  <2>1. f = [i \in 0..Len(rows) |-> f[i]] /\ f[0] = <<>>
    BY <1>1 DEF Keeps
  <2>2. ASSUME NEW i \in 0..Len(rows) PROVE f[i] = Step(f)[i]
    <3>1. CASE i = 0
      BY <2>1, <3>1
    <3>2. CASE i # 0
      <4>1. i \in 1..Len(rows)
        BY <3>2
      <4> QED BY <1>1, <4>1 DEF Keeps
    <3> QED BY <3>1, <3>2
  <2>3. Step(f) = [i \in 0..Len(rows) |-> Step(f)[i]]
    OBVIOUS
  <2> HIDE DEF Step
  <2> QED BY <2>1, <2>2, <2>3
<1>3. kept = Step(kept)
  <2> HIDE DEF Step
  <2> QED BY <1>2
<1>4. Kept(rows, places) = kept[Len(rows)]
  BY DEF Kept
<1> HIDE DEF kept
<1>5. kept = [i \in 0..Len(rows) |-> kept[i]] /\ kept[0] = <<>>
  BY <1>3
<1>6. ASSUME NEW i \in 1..Len(rows)
      PROVE  kept[i] = IF i \in places THEN Append(kept[i - 1], rows[i]) ELSE kept[i - 1]
  <2>1. i \in 0..Len(rows) /\ i # 0
    OBVIOUS
  <2>2. kept[i] = Step(kept)[i]
    BY <1>3
  <2> QED BY <2>1, <2>2
<1>7. Keeps(kept, rows, places, Len(rows))
  BY <1>5, <1>6 DEF Keeps
<1> QED BY <1>4, <1>7

LEMMA AppendRange ==
  ASSUME NEW R, NEW list \in Seq(R), NEW r \in R
  PROVE  /\ Append(list, r) \in Seq(R) /\ Len(Append(list, r)) = Len(list) + 1
         /\ Range1(Append(list, r)) = Range1(list) \union {r}
<1>1. /\ Append(list, r) \in Seq(R) /\ Len(Append(list, r)) = Len(list) + 1 /\ Len(list) \in Nat
      /\ Append(list, r)[Len(list) + 1] = r
      /\ \A i \in 1..Len(list) : Append(list, r)[i] = list[i]
  OBVIOUS
<1>2. 1..(Len(list) + 1) = (1..Len(list)) \union {Len(list) + 1}
  BY <1>1
<1> QED BY <1>1, <1>2 DEF Range1

\* What is kept are the rows at the places.
LEMMA KeptRows ==
  ASSUME NEW R, NEW rows \in Seq(R), NEW places
  PROVE  /\ Kept(rows, places) \in Seq(R)
         /\ Range1(Kept(rows, places)) = {rows[i] : i \in (1..Len(rows)) \intersect places}
<1> DEFINE At(n) == {rows[i] : i \in (1..n) \intersect places}
<1>1. PICK f : Keeps(f, rows, places, Len(rows)) /\ Kept(rows, places) = f[Len(rows)]
  BY KeptKeeps
<1> DEFINE S == {n \in Nat : n <= Len(rows) => f[n] \in Seq(R) /\ Range1(f[n]) = At(n)}
<1>2. 0 \in S
  BY <1>1 DEF Keeps, Range1
<1>3. \A n \in Nat : n \in S => n + 1 \in S
  <2> SUFFICES ASSUME NEW n \in Nat, n + 1 <= Len(rows), f[n] \in Seq(R), Range1(f[n]) = At(n)
               PROVE  f[n + 1] \in Seq(R) /\ Range1(f[n + 1]) = At(n + 1)
    <3> HIDE DEF At
    <3> QED OBVIOUS
  <2>1. /\ n + 1 \in 1..Len(rows) /\ rows[n + 1] \in R /\ (n + 1) - 1 = n
        /\ 1..(n + 1) = (1..n) \union {n + 1}
    OBVIOUS
  <2>2. f[n + 1] = IF n + 1 \in places THEN Append(f[n], rows[n + 1]) ELSE f[n]
    BY <1>1, <2>1 DEF Keeps
  <2>3. At(n + 1) = IF n + 1 \in places THEN At(n) \union {rows[n + 1]} ELSE At(n)
    BY <2>1
  <2> HIDE DEF At
  <2>4. CASE n + 1 \in places
    <3>1. f[n + 1] = Append(f[n], rows[n + 1]) /\ At(n + 1) = At(n) \union {rows[n + 1]}
      BY <2>2, <2>3, <2>4
    <3>2. /\ Append(f[n], rows[n + 1]) \in Seq(R)
          /\ Range1(Append(f[n], rows[n + 1])) = Range1(f[n]) \union {rows[n + 1]}
      BY <2>1, AppendRange
    <3> QED BY <3>1, <3>2
  <2>5. CASE n + 1 \notin places
    BY <2>2, <2>3, <2>5
  <2> QED BY <2>4, <2>5
<1>4. Len(rows) \in S
  <2> HIDE DEF S
  <2> QED BY <1>2, <1>3, Induction
<1> QED BY <1>1, <1>4

\* Two tables that agree at the places keep the same.
LEMMA KeepsAgree ==
  ASSUME NEW rows, NEW other, NEW places, NEW others, NEW n \in Nat, NEW m \in Nat,
         NEW f, NEW g, Keeps(f, rows, places, n), Keeps(g, other, others, m),
         NEW k \in Nat, k <= n, k <= m,
         \A i \in 1..k : /\ i \in places <=> i \in others
                         /\ i \in places => rows[i] = other[i]
  PROVE  f[k] = g[k]
<1> DEFINE S == {i \in Nat : i <= k => f[i] = g[i]}
<1>1. 0 \in S
  BY DEF Keeps
<1>2. \A i \in Nat : i \in S => i + 1 \in S
  <2> SUFFICES ASSUME NEW i \in Nat, i + 1 <= k, f[i] = g[i] PROVE f[i + 1] = g[i + 1]
    OBVIOUS
  <2>1. i + 1 \in 1..k /\ i + 1 \in 1..n /\ i + 1 \in 1..m /\ (i + 1) - 1 = i
    OBVIOUS
  <2>2. /\ f[i + 1] = IF i + 1 \in places THEN Append(f[i], rows[i + 1]) ELSE f[i]
        /\ g[i + 1] = IF i + 1 \in others THEN Append(g[i], other[i + 1]) ELSE g[i]
    BY <2>1 DEF Keeps
  <2> QED BY <2>1, <2>2
<1>3. k \in S
  <2> HIDE DEF S
  <2> QED BY <1>1, <1>2, Induction
<1> QED BY <1>3

LEMMA KeptSame ==
  ASSUME NEW rows, NEW other, Len(rows) \in Nat, Len(other) = Len(rows),
         NEW places, NEW others,
         \A i \in 1..Len(rows) : /\ i \in places <=> i \in others
                                 /\ i \in places => rows[i] = other[i]
  PROVE  Kept(rows, places) = Kept(other, others)
<1>1. PICK f : Keeps(f, rows, places, Len(rows)) /\ Kept(rows, places) = f[Len(rows)]
  BY KeptKeeps
<1>2. PICK g : Keeps(g, other, others, Len(rows)) /\ Kept(other, others) = g[Len(rows)]
  BY KeptKeeps
<1>3. f[Len(rows)] = g[Len(rows)]
  BY <1>1, <1>2, KeepsAgree
<1> QED BY <1>1, <1>2, <1>3

\* An empty table leaves nothing to keep.
LEMMA KeptOfNone == \A places : Kept(<<>>, places) = <<>>
<1> SUFFICES ASSUME NEW places PROVE Kept(<<>>, places) = <<>>
  OBVIOUS
<1>1. \E f : Keeps(f, <<>>, places, Len(<<>>)) /\ Kept(<<>>, places) = f[Len(<<>>)]
  BY KeptKeeps
<1> QED BY <1>1 DEF Keeps

\* A filter that takes every row takes the table.
LEMMA KeptAll ==
  ASSUME NEW R, NEW rows \in Seq(R), NEW places, 1..Len(rows) \subseteq places
  PROVE  Kept(rows, places) = rows
<1>1. PICK f : Keeps(f, rows, places, Len(rows)) /\ Kept(rows, places) = f[Len(rows)]
  BY KeptKeeps
<1> DEFINE First(n) == f[n] \in Seq(R) /\ Len(f[n]) = n /\ \A i \in 1..n : f[n][i] = rows[i]
           S == {n \in Nat : n <= Len(rows) => First(n)}
<1>2. 0 \in S
  BY <1>1 DEF Keeps
<1>3. \A n \in Nat : n \in S => n + 1 \in S
  <2> HIDE DEF First
  <2> SUFFICES ASSUME NEW n \in Nat, n + 1 <= Len(rows), First(n) PROVE First(n + 1)
    OBVIOUS
  <2>1. n + 1 \in 1..Len(rows) /\ rows[n + 1] \in R /\ (n + 1) - 1 = n
    OBVIOUS
  <2>2. f[n + 1] = Append(f[n], rows[n + 1])
    BY <1>1, <2>1 DEF Keeps
  <2>3. f[n] \in Seq(R) /\ Len(f[n]) = n /\ \A i \in 1..n : f[n][i] = rows[i]
    BY DEF First
  <2>4. /\ f[n + 1] \in Seq(R) /\ Len(f[n + 1]) = n + 1
        /\ \A i \in 1..(n + 1) : f[n + 1][i] = rows[i]
    BY <2>1, <2>2, <2>3
  <2> QED BY <2>4 DEF First
<1>4. First(Len(rows))
  <2>1. Len(rows) \in S
    <3> HIDE DEF S
    <3> QED BY <1>2, <1>3, Induction
  <2> QED BY <2>1
<1> QED BY <1>1, <1>4

\* One filter after another is both at once.
Those(rows, C) == {i \in DOMAIN rows : rows[i] \in C}

LEMMA KeptTwice ==
  ASSUME NEW R, NEW rows \in Seq(R), NEW places, NEW C
  PROVE  Kept(Kept(rows, places), Those(Kept(rows, places), C)) = Kept(rows, places \intersect Those(rows, C))
<1> DEFINE both == places \intersect Those(rows, C)
<1>1. PICK f : Keeps(f, rows, places, Len(rows)) /\ Kept(rows, places) = f[Len(rows)]
  BY KeptKeeps
<1>2. PICK g : Keeps(g, rows, both, Len(rows)) /\ Kept(rows, both) = g[Len(rows)]
  BY KeptKeeps
<1> DEFINE Agrees(n) == f[n] \in Seq(R) /\ Kept(f[n], Those(f[n], C)) = g[n]
           S == {n \in Nat : n <= Len(rows) => Agrees(n)}
<1>3. 0 \in S
  <2>1. f[0] = <<>> /\ g[0] = <<>>
    BY <1>1, <1>2 DEF Keeps
  <2>2. \A P : Kept(<<>>, P) = <<>>
    BY KeptOfNone
  <2> HIDE DEF both
  <2>3. f[0] \in Seq(R) /\ Kept(f[0], Those(f[0], C)) = g[0]
    BY <2>1, <2>2
  <2> QED BY <2>3
<1>4. \A n \in Nat : n \in S => n + 1 \in S
  <2> HIDE DEF Agrees
  <2> SUFFICES ASSUME NEW n \in Nat, n + 1 <= Len(rows), Agrees(n) PROVE Agrees(n + 1)
    OBVIOUS
  <2> DEFINE r == rows[n + 1]
             list == f[n]
             longer == Append(list, r)
  <2>1. /\ n + 1 \in 1..Len(rows) /\ r \in R /\ (n + 1) - 1 = n
        /\ n + 1 \in both <=> (n + 1 \in places /\ r \in C)
    BY DEF Those
  <2>2. /\ f[n + 1] = IF n + 1 \in places THEN longer ELSE list
        /\ g[n + 1] = IF n + 1 \in both THEN Append(g[n], r) ELSE g[n]
    BY <1>1, <1>2, <2>1 DEF Keeps
  <2>3. list \in Seq(R) /\ Kept(list, Those(list, C)) = g[n]
    BY DEF Agrees
  <2> HIDE DEF both, list, r
  <2>4. CASE n + 1 \notin places
    BY <2>1, <2>2, <2>3, <2>4 DEF Agrees, list
  <2>5. CASE n + 1 \in places
    <3>1. /\ longer \in Seq(R) /\ Len(longer) = Len(list) + 1 /\ Len(list) \in Nat
          /\ longer[Len(list) + 1] = r /\ \A i \in 1..Len(list) : longer[i] = list[i]
      BY <2>1, <2>3
    <3> HIDE DEF longer
    <3>2. PICK h : /\ Keeps(h, longer, Those(longer, C), Len(longer))
                   /\ Kept(longer, Those(longer, C)) = h[Len(longer)]
      BY <3>1, KeptKeeps
    <3>3. PICK k : /\ Keeps(k, list, Those(list, C), Len(list))
                   /\ Kept(list, Those(list, C)) = k[Len(list)]
      BY <3>1, KeptKeeps
    <3>4. \A i \in 1..Len(list) : /\ i \in Those(longer, C) <=> i \in Those(list, C)
                                  /\ i \in Those(longer, C) => longer[i] = list[i]
      BY <2>3, <3>1 DEF Those
    <3>5. h[Len(list)] = k[Len(list)]
      <4> SUFFICES ASSUME NEW n1 \in Nat, NEW n2 \in Nat, n1 = Len(longer), n2 = Len(list)
                   PROVE  h[n2] = k[n2]
        BY <3>1
      <4>1. n2 <= n1 /\ Keeps(h, longer, Those(longer, C), n1) /\ Keeps(k, list, Those(list, C), n2)
        BY <3>1, <3>2, <3>3
      <4>2. \A i \in 1..n2 : /\ i \in Those(longer, C) <=> i \in Those(list, C)
                             /\ i \in Those(longer, C) => longer[i] = list[i]
        BY <3>4
      <4> QED BY <4>1, <4>2, KeepsAgree
    <3>6. Len(longer) \in Those(longer, C) <=> r \in C
      BY <3>1 DEF Those
    <3>7. h[Len(longer)] = IF Len(longer) \in Those(longer, C)
                           THEN Append(h[Len(list)], r) ELSE h[Len(list)]
      BY <3>1, <3>2 DEF Keeps
    <3>8. Kept(longer, Those(longer, C)) = g[n + 1]
      BY <2>1, <2>2, <2>3, <2>5, <3>2, <3>3, <3>5, <3>6, <3>7
    <3> QED BY <2>2, <2>5, <3>1, <3>8 DEF Agrees
  <2> QED BY <2>4, <2>5
<1>5. Agrees(Len(rows))
  <2>1. Len(rows) \in S
    <3> HIDE DEF S, Agrees
    <3> QED BY <1>3, <1>4, Induction
  <2> QED BY <2>1
<1> QED BY <1>1, <1>2, <1>5

-----------------------------------------------------------------------------
(* The tables.                                                                 *)

AnswerTyped(answer) ==
  /\ answer.status \in {0, 200, 500} /\ (answer.error = "none" <=> answer.status = 200)
  /\ answer.error \in {"none", "text"} /\ answer.checksum \in Checksums \union {"none"}
  /\ answer.ms \in Nat \ {0}

LEMMA AnswersTyped ==
  ASSUME NEW checksums \in SUBSET Checksums, NEW latencies, latencies \subseteq Nat \ {0},
         NEW plain, plain \subseteq Nat \ {0}, NEW failures \in SUBSET {0, 500}
  PROVE  \A answer \in RequestOnce(checksums, latencies, plain, failures) : AnswerTyped(answer)
<1>1. ASSUME NEW answer,
             answer \in [status : {200}, error : {"none"}, checksum : checksums, ms : latencies]
      PROVE  AnswerTyped(answer)
  <2>1. answer.status \in {0, 200, 500} /\ (answer.error = "none" <=> answer.status = 200)
    BY <1>1
  <2>2. answer.error \in {"none", "text"}
    BY <1>1
  <2>3. answer.ms \in Nat \ {0}
    <3>1. answer.ms \in latencies
      BY <1>1
    <3> QED BY <3>1
  <2>4. answer.checksum \in Checksums \union {"none"}
    BY <1>1
  <2> QED BY <2>1, <2>2, <2>3, <2>4, Zenon DEF AnswerTyped
<1>2. ASSUME NEW answer,
             answer \in [status : {200}, error : {"none"}, checksum : {"none"}, ms : plain]
      PROVE  AnswerTyped(answer)
  <2>1. answer.status \in {0, 200, 500} /\ (answer.error = "none" <=> answer.status = 200)
    BY <1>2
  <2>2. answer.error \in {"none", "text"}
    BY <1>2
  <2>3. answer.ms \in Nat \ {0}
    <3>1. answer.ms \in plain
      BY <1>2
    <3> QED BY <3>1
  <2>4. answer.checksum \in Checksums \union {"none"}
    BY <1>2
  <2> QED BY <2>1, <2>2, <2>3, <2>4, Zenon DEF AnswerTyped
<1>3. ASSUME NEW status \in failures
      PROVE  AnswerTyped([status |-> status, error |-> "text", checksum |-> "none",
                          ms |-> IF status = 0 THEN SlowFailure ELSE FastFailure])
  BY TableAssumption DEF AnswerTyped
<1> QED BY <1>1, <1>2, <1>3 DEF RequestOnce

LEMMA RowTyped ==
  ASSUME NEW answer, AnswerTyped(answer), NEW i \in Nat \ {0}, segmentLength \in SegmentLengths
  PROVE  /\ RowOf(answer, i) \in Rows /\ RowOf(answer, i).invocation = i /\ RowOf(answer, i).ms # 0
         /\ (RowOf(answer, i).error = "none" <=> RowOf(answer, i).status = 200)
<1>1. segmentLength \in Nat \ {0}
  BY TableAssumption
<1>2. ((i - 1) \div segmentLength) + 1 \in Nat \ {0} /\ ((i - 1) % segmentLength) + 1 \in Nat \ {0}
  BY <1>1
<1> QED BY <1>2 DEF AnswerTyped, RowOf, Rows

LEMMA TableGrows ==
  ASSUME NEW rows, TableOK(rows), TookTime(rows),
         NEW row \in Rows, row.invocation = Len(rows) + 1, row.ms # 0,
         (row.error = "none" <=> row.status = 200)
  PROVE  TableOK(Append(rows, row)) /\ TookTime(Append(rows, row))
<1>1. /\ rows \in Seq(Rows) /\ Len(rows) \in Nat
      /\ Append(rows, row) \in Seq(Rows) /\ Len(Append(rows, row)) = Len(rows) + 1
      /\ \A i \in 1..(Len(rows) + 1) :
           Append(rows, row)[i] = IF i = Len(rows) + 1 THEN row ELSE rows[i]
  BY DEF TableOK
<1> QED BY <1>1 DEF TableOK, TookTime

LEMMA TablesAlways == Spec => []TablesTypeOK
<1>1. TablesInit => TablesTypeOK
  <2>1. TableOK(<<>>) /\ TookTime(<<>>)
    BY DEF TableOK, TookTime
  <2> QED BY <2>1 DEF TablesInit, TablesTypeOK
<1>2. TablesTypeOK /\ [TablesNext]_tables => TablesTypeOK'
  <2> SUFFICES ASSUME TablesTypeOK, [TablesNext]_tables PROVE TablesTypeOK'
    OBVIOUS
  <2>1. /\ TableOK(baseline) /\ TableOK(saved) /\ TookTime(baseline) /\ TookTime(saved)
        /\ saved = <<>> \/ Len(saved) = Len(baseline)
        /\ segmentLength \in SegmentLengths
        /\ Len(baseline) + 1 \in Nat \ {0} /\ Len(saved) + 1 \in Nat \ {0}
    BY DEF TablesTypeOK, TableOK
  <2>2. CASE InvokeAlone
    <3>1. PICK answer \in RequestOnce({}, {}, Latencies, Failures) :
            baseline' = Append(baseline, RowOf(answer, Len(baseline) + 1))
      BY <2>2 DEF InvokeAlone
    <3> DEFINE row == RowOf(answer, Len(baseline) + 1)
    <3>2. /\ row \in Rows /\ row.invocation = Len(baseline) + 1 /\ row.ms # 0
          /\ (row.error = "none" <=> row.status = 200)
      BY <2>1, AnswersTyped, RowTyped, TableAssumption
    <3> HIDE DEF row
    <3>3. TableOK(Append(baseline, row)) /\ TookTime(Append(baseline, row))
      BY <2>1, <3>2, TableGrows
    <3> QED BY <2>1, <2>2, <3>1, <3>3 DEF row, InvokeAlone, TablesTypeOK
  <2>3. CASE InvokeBoth
    <3>1. PICK answer \in RequestOnce(Checksums, PairLatencies, PlainLatencies, PairFailures),
               restored \in RequestOnce(Checksums, PairLatencies, PlainLatencies, PairFailures) :
            /\ baseline' = Append(baseline, RowOf(answer, Len(baseline) + 1))
            /\ saved' = Append(saved, RowOf(restored, Len(saved) + 1))
      BY <2>3 DEF InvokeBoth
    <3> DEFINE row == RowOf(answer, Len(baseline) + 1)
               other == RowOf(restored, Len(saved) + 1)
    <3>2. /\ row \in Rows /\ row.invocation = Len(baseline) + 1 /\ row.ms # 0
          /\ (row.error = "none" <=> row.status = 200)
          /\ other \in Rows /\ other.invocation = Len(saved) + 1 /\ other.ms # 0
          /\ (other.error = "none" <=> other.status = 200)
      BY <2>1, AnswersTyped, RowTyped, TableAssumption
    <3> HIDE DEF row, other
    <3>3. /\ TableOK(Append(baseline, row)) /\ TookTime(Append(baseline, row))
          /\ TableOK(Append(saved, other)) /\ TookTime(Append(saved, other))
      BY <2>1, <3>2, TableGrows
    <3> QED BY <2>1, <2>3, <3>1, <3>3 DEF row, other, InvokeBoth, TablesTypeOK
  <2>4. CASE UNCHANGED tables
    BY <2>4 DEF tables, TablesTypeOK
  <2> QED BY <2>2, <2>3, <2>4 DEF TablesNext
<1> QED BY <1>1, <1>2, PTL DEF Spec

\* Every row is of its invocation, and has an error text just when no answer
\* came (request_once).
THEOREM TablesTypeCorrect == Spec => []TablesTypeOK
BY TablesAlways

-----------------------------------------------------------------------------
(* The pairing of the two tables.                                              *)

LEMMA KeptOf ==
  ASSUME NEW rows, TableOK(rows)
  PROVE  \A places : Range1(Kept(rows, places)) = {rows[i] : i \in (1..Len(rows)) \intersect places}
<1>1. rows \in Seq(Rows)
  BY DEF TableOK
<1> QED BY <1>1, KeptRows

LEMMA KeptRow ==
  ASSUME NEW rows, TableOK(rows), NEW places, NEW row \in Range1(Kept(rows, places))
  PROVE  /\ row.invocation \in (1..Len(rows)) \intersect places /\ row = rows[row.invocation]
         /\ row \in Range1(rows) /\ DOMAIN rows = 1..Len(rows)
<1>1. rows \in Seq(Rows) /\ DOMAIN rows = 1..Len(rows)
  BY DEF TableOK
<1>2. PICK i \in (1..Len(rows)) \intersect places : row = rows[i]
  BY <1>1, KeptRows
<1>3. row.invocation = i
  BY <1>2 DEF TableOK
<1> QED BY <1>1, <1>2, <1>3 DEF Range1

\* A row that matches a checksum of the usable rows of a table has its partner
\* there.
LEMMA Partner ==
  ASSUME NEW rows, TableOK(rows), NEW places, \A i \in places : Usable(rows[i]),
         NEW row, Matches(row, ChecksumsOf(Kept(rows, places)))
  PROVE  /\ Usable(rows[row.invocation])
         /\ row.checksum # "none" /\ row.checksum = rows[row.invocation].checksum
<1>1. PICK r \in Range1(Kept(rows, places)) :
        r.checksum # "none" /\ <<row.invocation, row.checksum>> = <<r.invocation, r.checksum>>
  BY DEF Matches, ChecksumsOf
<1>2. r.invocation \in places /\ r = rows[r.invocation]
  BY KeptRow
<1>3. row.invocation = r.invocation /\ row.checksum = r.checksum
  BY <1>1
<1> QED BY <1>1, <1>2, <1>3

LEMMA PairedWhenTyped == TablesTypeOK => SavedSamplesArePaired
<1> SUFFICES ASSUME TableOK(baseline), TableOK(saved) PROVE SavedSamplesArePaired
  BY DEF TablesTypeOK
<1> DEFINE Paired(row) ==
             /\ Usable(row) /\ row \in Range1(saved)
             /\ Usable(baseline[row.invocation])
             /\ row.checksum # "none" /\ row.checksum = baseline[row.invocation].checksum
<1>1. ASSUME NEW row \in Range1(FilterPair(baseline, saved).saved) PROVE Paired(row)
  <2> DEFINE base == {i \in DOMAIN baseline : Usable(baseline[i])}
             checksums == ChecksumsOf(Kept(baseline, base))
             places == {i \in DOMAIN saved : Usable(saved[i]) /\ Matches(saved[i], checksums)}
  <2>1. row \in Range1(Kept(saved, places))
    BY DEF FilterPair, UsableRows, Matching
  <2>2. row.invocation \in places /\ row = saved[row.invocation] /\ row \in Range1(saved)
    BY <2>1, KeptRow
  <2>3. Usable(row) /\ Matches(row, checksums)
    BY <2>2
  <2>4. \A i \in base : Usable(baseline[i])
    OBVIOUS
  <2> HIDE DEF base, places
  <2> QED BY <2>2, <2>3, <2>4, Partner
<1>2. ASSUME NEW row \in Range1(FilterRows(baseline, saved).saved) PROVE Paired(row)
  <2> DEFINE base == {i \in DOMAIN baseline : Usable(baseline[i]) /\ baseline[i].checksum # "none"}
             checksums == ChecksumsOf(Kept(baseline, base))
             places == {i \in DOMAIN saved :
                          /\ Accepted(saved[i]) /\ saved[i].error = "none"
                          /\ ("saved" = "baseline" \/ Matches(saved[i], checksums))}
  <2>1. row \in Range1(Kept(saved, places))
    BY DEF FilterRows
  <2>2. row.invocation \in places /\ row = saved[row.invocation] /\ row \in Range1(saved)
    BY <2>1, KeptRow
  <2>3. Usable(row) /\ Matches(row, checksums)
    BY <2>2 DEF Usable, Accepted
  <2>4. \A i \in base : Usable(baseline[i])
    OBVIOUS
  <2> HIDE DEF base, places
  <2> QED BY <2>2, <2>3, <2>4, Partner
<1>3. ASSUME NEW row \in Range1(LoadRows(baseline, saved).saved) PROVE Paired(row)
  <2> DEFINE base == {i \in DOMAIN baseline : Succeeded(baseline[i])}
             checksums == ChecksumsOf(Kept(baseline, base))
             places == {i \in DOMAIN saved : Succeeded(saved[i]) /\ Matches(saved[i], checksums)}
  <2>1. row \in Range1(Kept(saved, places))
    BY DEF LoadRows, SucceededRows
  <2>2. row.invocation \in places /\ row = saved[row.invocation] /\ row \in Range1(saved)
    BY <2>1, KeptRow
  <2>3. Usable(row) /\ Matches(row, checksums)
    BY <2>2 DEF Usable, Succeeded
  <2>4. \A i \in base : Usable(baseline[i])
    BY DEF Usable, Succeeded
  <2> HIDE DEF base, places
  <2> QED BY <2>2, <2>3, <2>4, Partner
<1> HIDE DEF Paired
<1>4. \A kept \in {FilterPair(baseline, saved), FilterRows(baseline, saved), LoadRows(baseline, saved)} :
        \A row \in Range1(kept.saved) : Paired(row)
  BY <1>1, <1>2, <1>3
<1> QED BY <1>4 DEF SavedSamplesArePaired, Paired

\* A latency counted for the saved artifact is of an invocation that the
\* baseline answered too and with the same checksum, whatever the length of the
\* tables and whichever requests of either run failed (filter_pair,
\* filter_rows, load_rows).
THEOREM SavedPaired == Spec => []SavedSamplesArePaired
BY TablesAlways, PairedWhenTyped, PTL

-----------------------------------------------------------------------------
(* What a failed request leaves behind.                                        *)

\* Only the latency of a failed row is another one.
SameButWaits(rows, other) ==
  /\ TableOK(rows) /\ TableOK(other) /\ Len(other) = Len(rows) /\ DOMAIN rows = 1..Len(rows)
  /\ DOMAIN other = 1..Len(rows)
  /\ \A i \in 1..Len(rows) :
       /\ rows[i].invocation = other[i].invocation /\ rows[i].segment = other[i].segment
       /\ rows[i].position = other[i].position /\ rows[i].status = other[i].status
       /\ rows[i].error = other[i].error /\ rows[i].checksum = other[i].checksum
       /\ Usable(rows[i]) => rows[i] = other[i]

LEMMA BlankSame ==
  ASSUME NEW rows, TableOK(rows)
  PROVE  SameButWaits(rows, Blank(rows))
<1> DEFINE other == Blank(rows)
<1>1. rows \in Seq(Rows) /\ Len(rows) \in Nat /\ DOMAIN rows = 1..Len(rows)
  BY DEF TableOK
<1>2. ASSUME NEW i \in 1..Len(rows)
      PROVE  /\ other[i] \in Rows
             /\ rows[i].invocation = other[i].invocation /\ rows[i].segment = other[i].segment
             /\ rows[i].position = other[i].position /\ rows[i].status = other[i].status
             /\ rows[i].error = other[i].error /\ rows[i].checksum = other[i].checksum
             /\ Usable(rows[i]) => rows[i] = other[i]
  <2>1. rows[i] \in Rows
    BY <1>1
  <2>2. other[i] = IF Usable(rows[i]) THEN rows[i] ELSE [rows[i] EXCEPT !.ms = 0]
    BY <1>1 DEF Blank
  <2> QED BY <2>1, <2>2 DEF Rows
<1>3. other = [i \in 1..Len(rows) |-> other[i]]
  BY <1>1 DEF Blank
<1> HIDE DEF other
<1>4. other \in Seq(Rows) /\ Len(other) = Len(rows) /\ DOMAIN other = 1..Len(rows)
  BY <1>1, <1>2, <1>3
<1>5. TableOK(other)
  BY <1>2, <1>4 DEF TableOK
<1> QED BY <1>1, <1>2, <1>4, <1>5 DEF SameButWaits, other

\* What is usable is an answer with a status, be it read from the status or
\* from the error text.
LEMMA UsableIs ==
  ASSUME NEW rows, TableOK(rows), NEW i \in 1..Len(rows)
  PROVE  /\ Accepted(rows[i]) <=> Usable(rows[i])
         /\ Succeeded(rows[i]) <=> Usable(rows[i])
         /\ rows[i].status = 200 <=> Usable(rows[i])
<1>1. rows[i] \in Rows /\ (rows[i].error = "none" <=> rows[i].status = 200)
  BY DEF TableOK
<1>2. rows[i].status \in {0, 200, 500}
  BY <1>1 DEF Rows
<1> QED BY <1>1, <1>2 DEF Usable, Accepted, Succeeded

\* A filter that takes none but usable rows, by what a row says of its request.
LEMMA SameKept ==
  ASSUME NEW rows, NEW other, SameButWaits(rows, other), NEW places, NEW others,
         \A i \in 1..Len(rows) : /\ i \in places <=> i \in others
                                 /\ i \in places => Usable(rows[i])
  PROVE  Kept(rows, places) = Kept(other, others)
<1>1. Len(rows) \in Nat
  BY DEF SameButWaits, TableOK
<1> QED BY <1>1, KeptSame DEF SameButWaits

\* Every filter and every set the reports take of a table is the same for both.
LEMMA SameReadings ==
  ASSUME NEW rows, NEW other, SameButWaits(rows, other)
  PROVE  /\ UsableRows(rows) = UsableRows(other) /\ AcceptedRows(rows) = AcceptedRows(other)
         /\ SucceededRows(rows) = SucceededRows(other) /\ Answered(rows) = Answered(other)
         /\ ChurnPoints(rows) = ChurnPoints(other)
         /\ {row.segment : row \in Range1(rows)} = {row.segment : row \in Range1(other)}
         /\ \A segment : SegmentRows(rows, segment) = SegmentRows(other, segment)
         /\ \A phase : PhaseRows(rows, phase) = PhaseRows(other, phase)
<1>1. /\ DOMAIN rows = 1..Len(rows) /\ DOMAIN other = 1..Len(rows) /\ Len(other) = Len(rows)
      /\ \A i \in 1..Len(rows) :
           /\ rows[i].invocation = other[i].invocation /\ rows[i].segment = other[i].segment
           /\ rows[i].position = other[i].position
      /\ \A i \in 1..Len(rows) :
           /\ rows[i].status = other[i].status
           /\ Usable(rows[i]) => rows[i] = other[i]
           /\ Usable(rows[i]) <=> Usable(other[i])
           /\ Accepted(rows[i]) <=> Usable(rows[i])
           /\ Accepted(other[i]) <=> Usable(other[i])
           /\ Succeeded(rows[i]) <=> Usable(rows[i])
           /\ Succeeded(other[i]) <=> Usable(other[i])
           /\ rows[i].status = 200 <=> Usable(rows[i])
           /\ other[i].status = 200 <=> Usable(other[i])
  <2>1. DOMAIN rows = 1..Len(rows) /\ DOMAIN other = 1..Len(rows) /\ Len(other) = Len(rows)
    BY DEF SameButWaits
  <2>2. ASSUME NEW i \in 1..Len(rows)
        PROVE  /\ rows[i].invocation = other[i].invocation /\ rows[i].segment = other[i].segment
               /\ rows[i].position = other[i].position /\ rows[i].status = other[i].status
               /\ Usable(rows[i]) => rows[i] = other[i]
               /\ Usable(rows[i]) <=> Usable(other[i])
    BY DEF SameButWaits, Usable
  <2>3. ASSUME NEW i \in 1..Len(rows)
        PROVE  /\ Accepted(rows[i]) <=> Usable(rows[i])
               /\ Succeeded(rows[i]) <=> Usable(rows[i])
               /\ rows[i].status = 200 <=> Usable(rows[i])
               /\ Accepted(other[i]) <=> Usable(other[i])
               /\ Succeeded(other[i]) <=> Usable(other[i])
               /\ other[i].status = 200 <=> Usable(other[i])
    BY <2>1, UsableIs DEF SameButWaits
  <2> QED BY <2>1, <2>2, <2>3
<1>2. UsableRows(rows) = UsableRows(other)
  BY <1>1, SameKept DEF UsableRows
<1>3. AcceptedRows(rows) = AcceptedRows(other)
  BY <1>1, SameKept DEF AcceptedRows
<1>4. SucceededRows(rows) = SucceededRows(other)
  BY <1>1, SameKept DEF SucceededRows
<1>5. Answered(rows) = Answered(other)
  BY <1>1, SameKept DEF Answered
<1>6. ChurnPoints(rows) = ChurnPoints(other)
  <2> DEFINE Starts(table) ==
               {table[i].invocation : i \in {j \in 1..Len(rows) : table[j].position = 1}}
  <2>1. ASSUME NEW table, Len(table) = Len(rows) PROVE ChurnPoints(table) = Starts(table)
    <3>1. \A n : n \in Starts(table) <=>
             \E i \in 1..Len(rows) : table[i].position = 1 /\ n = table[i].invocation
      BY Zenon
    <3>2. \A n : n \in ChurnPoints(table) <=>
             \E i \in 1..Len(rows) : table[i].position = 1 /\ n = table[i].invocation
      BY <2>1 DEF ChurnPoints, Range1
    <3> QED BY <3>1, <3>2
  <2>2. Starts(rows) = Starts(other)
    <3>1. {j \in 1..Len(rows) : rows[j].position = 1} = {j \in 1..Len(rows) : other[j].position = 1}
      BY <1>1
    <3> QED BY <1>1, <3>1
  <2> HIDE DEF Starts
  <2>3. ChurnPoints(rows) = Starts(rows) /\ ChurnPoints(other) = Starts(other)
    BY <1>1, <2>1
  <2> QED BY <2>2, <2>3
<1>7. {row.segment : row \in Range1(rows)} = {row.segment : row \in Range1(other)}
  <2> DEFINE Segments(table) == {table[i].segment : i \in 1..Len(rows)}
  <2>1. ASSUME NEW table, Len(table) = Len(rows)
        PROVE  {row.segment : row \in Range1(table)} = Segments(table)
    BY <2>1 DEF Range1
  <2>2. Segments(rows) = Segments(other)
    BY <1>1
  <2> HIDE DEF Segments
  <2> QED BY <1>1, <2>1, <2>2
<1>8. ASSUME NEW segment PROVE SegmentRows(rows, segment) = SegmentRows(other, segment)
  <2> DEFINE In(table) ==
               {i \in 1..Len(rows) :
                  table[i].status >= 200 /\ table[i].status < 400 /\ table[i].segment = segment}
  <2>1. \A i \in 1..Len(rows) : /\ i \in In(rows) <=> i \in In(other)
                                /\ i \in In(rows) => Usable(rows[i])
    BY <1>1 DEF Accepted
  <2> HIDE DEF In
  <2>2. Kept(rows, In(rows)) = Kept(other, In(other))
    BY <2>1, SameKept
  <2> QED BY <1>1, <2>2 DEF In, SegmentRows
<1>9. ASSUME NEW phase PROVE PhaseRows(rows, phase) = PhaseRows(other, phase)
  <2> DEFINE In(table) ==
               {i \in 1..Len(rows) : /\ Usable(table[i])
                                     /\ phase = "cold" => table[i].position = 1
                                     /\ phase = "hot" => table[i].position >= 4}
  <2>1. \A i \in 1..Len(rows) : /\ i \in In(rows) <=> i \in In(other)
                                /\ i \in In(rows) => Usable(rows[i])
    BY <1>1
  <2> HIDE DEF In
  <2>2. Kept(rows, In(rows)) = Kept(other, In(other))
    BY <2>1, SameKept
  <2> QED BY <1>1, <2>2 DEF In, PhaseRows
<1> QED BY <1>2, <1>3, <1>4, <1>5, <1>6, <1>7, <1>8, <1>9

\* The rows a filter takes of a table, among the usable ones, by their checksums.
SucceededMatching(rows, checksums) ==
  Kept(rows, {i \in DOMAIN rows : Succeeded(rows[i]) /\ Matches(rows[i], checksums)})
NotContradicted(rows, checksums) ==
  Kept(rows, {i \in DOMAIN rows :
    Usable(rows[i]) /\ (rows[i].checksum = "none" \/ Matches(rows[i], checksums))})
WithChecksum(rows) ==
  Kept(rows, {i \in DOMAIN rows : Usable(rows[i]) /\ rows[i].checksum # "none"})
OfLabel(rows, label, checksums) ==
  Kept(rows, {i \in DOMAIN rows :
    /\ Accepted(rows[i]) /\ rows[i].error = "none"
    /\ (label = "baseline" \/ Matches(rows[i], checksums))})

LEMMA SameChosen ==
  ASSUME NEW rows, NEW other, SameButWaits(rows, other), NEW checksums, NEW label
  PROVE  /\ Matching(rows, checksums) = Matching(other, checksums)
         /\ SucceededMatching(rows, checksums) = SucceededMatching(other, checksums)
         /\ NotContradicted(rows, checksums) = NotContradicted(other, checksums)
         /\ WithChecksum(rows) = WithChecksum(other)
         /\ OfLabel(rows, label, checksums) = OfLabel(other, label, checksums)
<1>1. /\ DOMAIN rows = 1..Len(rows) /\ DOMAIN other = 1..Len(rows) /\ Len(other) = Len(rows)
      /\ \A i \in 1..Len(rows) :
           /\ Usable(rows[i]) => rows[i] = other[i]
           /\ Usable(rows[i]) <=> Usable(other[i])
           /\ Usable(rows[i]) <=> (Accepted(rows[i]) /\ rows[i].error = "none")
           /\ Usable(other[i]) <=> (Accepted(other[i]) /\ other[i].error = "none")
  BY DEF SameButWaits, Usable, Accepted
<1>2. \A i \in 1..Len(rows) : /\ Succeeded(rows[i]) <=> Usable(rows[i])
                              /\ Succeeded(other[i]) <=> Usable(other[i])
  BY UsableIs DEF SameButWaits
<1>3. Matching(rows, checksums) = Matching(other, checksums)
  BY <1>1, SameKept DEF Matching
<1>4. SucceededMatching(rows, checksums) = SucceededMatching(other, checksums)
  BY <1>1, <1>2, SameKept DEF SucceededMatching
<1>5. NotContradicted(rows, checksums) = NotContradicted(other, checksums)
  BY <1>1, SameKept DEF NotContradicted
<1>6. WithChecksum(rows) = WithChecksum(other)
  BY <1>1, SameKept DEF WithChecksum
<1>7. OfLabel(rows, label, checksums) = OfLabel(other, label, checksums)
  BY <1>1, SameKept DEF OfLabel
<1> QED BY <1>3, <1>4, <1>5, <1>6, <1>7

LEMMA SameFiltered ==
  ASSUME NEW b, NEW s, NEW b2, NEW s2, SameButWaits(b, b2), SameButWaits(s, s2)
  PROVE  /\ FilterPair(b, s) = FilterPair(b2, s2) /\ FilterRows(b, s) = FilterRows(b2, s2)
         /\ PythonLinegraphs(b, s) = PythonLinegraphs(b2, s2)
         /\ LoadRows(b, s) = LoadRows(b2, s2)
<1>1. /\ UsableRows(b) = UsableRows(b2) /\ SucceededRows(b) = SucceededRows(b2)
      /\ WithChecksum(b) = WithChecksum(b2)
  BY SameReadings, SameChosen
<1>2. FilterPair(b, s) = FilterPair(b2, s2)
  BY <1>1, SameChosen DEF FilterPair
<1>3. LoadRows(b, s) = LoadRows(b2, s2)
  <2>1. \A t, u : LoadRows(t, u) = [baseline |-> SucceededRows(t),
                                    saved |-> SucceededMatching(u, ChecksumsOf(SucceededRows(t)))]
    BY Zenon DEF LoadRows, SucceededMatching
  <2> QED BY <1>1, <2>1, SameChosen
<1>4. PythonLinegraphs(b, s) = PythonLinegraphs(b2, s2)
  <2>1. \A t, u : PythonLinegraphs(t, u) = [baseline |-> UsableRows(t),
                                            saved |-> NotContradicted(u, ChecksumsOf(UsableRows(t)))]
    BY Zenon DEF PythonLinegraphs, NotContradicted
  <2> QED BY <1>1, <2>1, SameChosen
<1>5. FilterRows(b, s) = FilterRows(b2, s2)
  <2>1. \A t, u : FilterRows(t, u) =
          [baseline |-> OfLabel(t, "baseline", ChecksumsOf(WithChecksum(t))),
           saved |-> OfLabel(u, "saved", ChecksumsOf(WithChecksum(t)))]
    BY Zenon DEF FilterRows, WithChecksum, OfLabel
  <2> QED BY <1>1, <2>1, SameChosen
<1> QED BY <1>2, <1>3, <1>4, <1>5

LEMMA SameReports ==
  ASSUME NEW b, NEW s, NEW b2, NEW s2, SameButWaits(b, b2), SameButWaits(s, s2)
  PROVE  FilteredReports(b, s) = FilteredReports(b2, s2)
<1>1. /\ UsableRows(b) = UsableRows(b2) /\ UsableRows(s) = UsableRows(s2)
      /\ SucceededRows(b) = SucceededRows(b2) /\ SucceededRows(s) = SucceededRows(s2)
      /\ Answered(b) = Answered(b2) /\ Answered(s) = Answered(s2)
      /\ AcceptedRows(s) = AcceptedRows(s2)
      /\ ChurnPoints(b) = ChurnPoints(b2) /\ ChurnPoints(s) = ChurnPoints(s2)
  BY SameReadings
<1>2. /\ FilterPair(b, s) = FilterPair(b2, s2) /\ FilterRows(b, s) = FilterRows(b2, s2)
      /\ PythonLinegraphs(b, s) = PythonLinegraphs(b2, s2) /\ LoadRows(b, s) = LoadRows(b2, s2)
  BY SameFiltered
<1>3. ChurnSummary(b) = ChurnSummary(b2) /\ StatusChurnSummary(s) = StatusChurnSummary(s2)
  BY <1>1 DEF ChurnSummary, StatusChurnSummary
<1>4. OpenwhiskAll(b, s) = OpenwhiskAll(b2, s2) /\ OpenwhiskTrend(b, s) = OpenwhiskTrend(b2, s2)
  BY <1>2 DEF OpenwhiskAll, OpenwhiskTrend
<1>5. PlotLargeScale(b, s) = PlotLargeScale(b2, s2)
  BY <1>2 DEF PlotLargeScale
<1>6. RunnerSummary(b, s) = RunnerSummary(b2, s2)
  BY <1>1 DEF RunnerSummary
<1>7. PositionMedians(s) = PositionMedians(s2) /\ InvocationTrace(s) = InvocationTrace(s2)
  BY <1>1 DEF PositionMedians, InvocationTrace
<1>8. StrengthMetrics(b) = StrengthMetrics(b2)
  BY <1>1 DEF StrengthMetrics
<1>9. SpecializationProof(b, s) = SpecializationProof(b2, s2)
  BY <1>1 DEF SpecializationProof
<1>10. NodeMatrix(b, s) = NodeMatrix(b2, s2)
  <2>1. \A phase : PhaseRows(b, phase) = PhaseRows(b2, phase) /\ PhaseRows(s, phase) = PhaseRows(s2, phase)
    BY SameReadings
  <2>2. ChecksumMismatches(b, s) = ChecksumMismatches(b2, s2)
    BY <1>1 DEF ChecksumMismatches
  <2>3. /\ [phase \in {"all", "cold", "hot"} |-> LinearStats(Ms(PhaseRows(b, phase)))] =
             [phase \in {"all", "cold", "hot"} |-> LinearStats(Ms(PhaseRows(b2, phase)))]
        /\ [phase \in {"all", "cold", "hot"} |-> LinearStats(Ms(PhaseRows(s, phase)))] =
             [phase \in {"all", "cold", "hot"} |-> LinearStats(Ms(PhaseRows(s2, phase)))]
    BY <2>1
  <2> QED BY <2>2, <2>3 DEF NodeMatrix
<1>11. WarmupShape(b) = WarmupShape(b2)
  <2>1. \A segment : SegmentRows(b, segment) = SegmentRows(b2, segment)
    BY SameReadings
  <2>2. {row.segment : row \in Range1(b)} = {row.segment : row \in Range1(b2)}
    BY SameReadings
  <2>3. ASSUME NEW segment PROVE SegmentMetrics(b, segment) = SegmentMetrics(b2, segment)
    <3>1. SegmentRows(b, segment) = SegmentRows(b2, segment)
      BY <2>1
    <3> QED BY <3>1, Zenon DEF SegmentMetrics
  <2> DEFINE Found(table) == {k \in {row.segment : row \in Range1(table)} : SegmentRows(table, k) # <<>>}
  <2>4. Found(b) = Found(b2)
    BY <2>1, <2>2
  <2>5. WarmupShape(b) = [segment \in Found(b) |-> SegmentMetrics(b, segment)] /\
        WarmupShape(b2) = [segment \in Found(b2) |-> SegmentMetrics(b2, segment)]
    BY DEF WarmupShape
  <2> HIDE DEF Found
  <2> QED BY <2>3, <2>4, <2>5
<1> QED BY <1>2, <1>3, <1>4, <1>5, <1>6, <1>7, <1>8, <1>9, <1>10, <1>11 DEF FilteredReports

LEMMA NoTraceWhenTyped == TablesTypeOK => FailuresLeaveNoTrace
<1> SUFFICES ASSUME TableOK(baseline), TableOK(saved)
             PROVE  FilteredReports(baseline, saved) = FilteredReports(Blank(baseline), Blank(saved))
  BY DEF TablesTypeOK, FailuresLeaveNoTrace
<1>1. SameButWaits(baseline, Blank(baseline)) /\ SameButWaits(saved, Blank(saved))
  BY BlankSame
<1> QED BY <1>1, SameReports

\* How long a request took that failed is in no figure of the reports that
\* leave failed rows out, for tables of any length, whatever each filter reads
\* of a row (the status, the error text or both) and whatever a report makes of
\* the rows it keeps.
THEOREM NoTraceOfFailures == Spec => []FailuresLeaveNoTrace
BY TablesAlways, NoTraceWhenTyped, PTL

-----------------------------------------------------------------------------
(* The statistics.                                                             *)

Kth(values, k, v) ==
  v \in {values[i] : i \in DOMAIN values} /\ Below(values, v) < k /\ k <= UpTo(values, v)

LEMMA Counts ==
  ASSUME NEW values \in Seq(Nat), NEW v \in Nat, NEW w \in Nat
  PROVE  /\ Below(values, v) \in Nat /\ UpTo(values, v) \in 0..Len(values)
         /\ w < v => UpTo(values, w) <= Below(values, v)
         /\ (\A i \in 1..Len(values) : values[i] <= v) => UpTo(values, v) = Len(values)
         /\ (\A i \in 1..Len(values) : values[i] < v <=> values[i] <= w) => Below(values, v) = UpTo(values, w)
         /\ (\A i \in 1..Len(values) : values[i] # v) => Below(values, v) = UpTo(values, v)
<1> DEFINE Before == {i \in DOMAIN values : values[i] < v}
           Until(u) == {i \in DOMAIN values : values[i] <= u}
<1>1. DOMAIN values = 1..Len(values) /\ Len(values) \in Nat
  OBVIOUS
<1>2. \A i \in 1..Len(values) : values[i] \in Nat
  OBVIOUS
<1>3. IsFiniteSet(1..Len(values)) /\ Cardinality(1..Len(values)) = Len(values)
  <2> DEFINE n == Len(values)
  <2>1. n \in Nat
    BY <1>1
  <2> HIDE DEF n
  <2>2. IsFiniteSet(1..n) /\ Cardinality(1..n) = n
    BY <2>1, FS_Interval
  <2> QED BY <2>2 DEF n
<1>4. Before \subseteq 1..Len(values) /\ \A u : Until(u) \subseteq 1..Len(values)
  BY <1>1
<1>5. IsFiniteSet(Before) /\ Cardinality(Before) \in Nat
  BY <1>3, <1>4, FS_Subset, FS_CardinalityType
<1>6. \A u : /\ IsFiniteSet(Until(u)) /\ Cardinality(Until(u)) \in Nat
             /\ Cardinality(Until(u)) <= Len(values)
  <2> SUFFICES ASSUME NEW u
               PROVE  /\ IsFiniteSet(Until(u)) /\ Cardinality(Until(u)) \in Nat
                      /\ Cardinality(Until(u)) <= Len(values)
    OBVIOUS
  <2>1. Until(u) \subseteq 1..Len(values)
    BY <1>4
  <2> HIDE DEF Until
  <2> QED BY <1>3, <2>1, FS_Subset, FS_CardinalityType
<1>7. ASSUME w < v PROVE Cardinality(Until(w)) <= Cardinality(Before)
  <2>1. Until(w) \subseteq Before
    BY <1>1, <1>2, <1>7
  <2> HIDE DEF Until, Before
  <2> QED BY <1>5, <2>1, FS_Subset
<1>8. ASSUME \A i \in 1..Len(values) : values[i] <= v PROVE Cardinality(Until(v)) = Len(values)
  <2>1. Until(v) = 1..Len(values)
    BY <1>1, <1>8
  <2> HIDE DEF Until
  <2> QED BY <1>3, <2>1
<1>9. ASSUME \A i \in 1..Len(values) : values[i] < v <=> values[i] <= w PROVE Before = Until(w)
  BY <1>1, <1>9
<1>10. ASSUME \A i \in 1..Len(values) : values[i] # v PROVE Before = Until(v)
  BY <1>1, <1>2, <1>10
<1>11. Below(values, v) = Cardinality(Before) /\ \A u : UpTo(values, u) = Cardinality(Until(u))
  BY DEF Below, UpTo
<1> HIDE DEF Before, Until
<1> QED BY <1>1, <1>5, <1>6, <1>7, <1>8, <1>9, <1>10, <1>11

\* Values have a bound.
LEMMA Bound ==
  ASSUME NEW values \in Seq(Nat)
  PROVE  \E top \in Nat : \A i \in 1..Len(values) : values[i] <= top
<1> DEFINE Bounded(n) == \E top \in Nat : \A i \in 1..n : values[i] <= top
           S == {n \in Nat : n <= Len(values) => Bounded(n)}
<1>1. 0 \in S
  OBVIOUS
<1>2. \A n \in Nat : n \in S => n + 1 \in S
  <2> HIDE DEF Bounded
  <2> SUFFICES ASSUME NEW n \in Nat, n + 1 <= Len(values), Bounded(n) PROVE Bounded(n + 1)
    OBVIOUS
  <2> PICK top \in Nat : \A i \in 1..n : values[i] <= top
    BY DEF Bounded
  <2> DEFINE other == IF values[n + 1] > top THEN values[n + 1] ELSE top
  <2>1. values[n + 1] \in Nat /\ \A i \in 1..n : values[i] \in Nat
    OBVIOUS
  <2>2. other \in Nat /\ other >= top /\ other >= values[n + 1]
    BY <2>1
  <2> HIDE DEF other
  <2>3. \A i \in 1..(n + 1) : i \in 1..n \/ i = n + 1
    OBVIOUS
  <2>4. \A i \in 1..(n + 1) : values[i] <= other
    BY <2>1, <2>2, <2>3
  <2> QED BY <2>2, <2>4 DEF Bounded
<1>3. Len(values) \in S
  <2> HIDE DEF S
  <2> QED BY <1>1, <1>2, Induction
<1> QED BY <1>3

\* There is a k-th value in order: the least number with k values up to it.
LEMMA KthExists ==
  ASSUME NEW values \in Seq(Nat), NEW k \in 1..Len(values)
  PROVE  \E v \in Nat : Kth(values, k, v)
<1> DEFINE T == {v \in Nat : k <= UpTo(values, v)}
<1>1. T # {}
  <2>1. PICK top \in Nat : \A i \in 1..Len(values) : values[i] <= top
    BY Bound
  <2>2. UpTo(values, top) = Len(values)
    BY <2>1, Counts
  <2> QED BY <2>2
<1>2. PICK v \in T : \A w \in T : v <= w
  BY <1>1, Minimum
<1>3. v \in Nat /\ k <= UpTo(values, v)
  BY <1>2
<1>4. \A i \in 1..Len(values) : values[i] \in Nat
  OBVIOUS
<1>5. Below(values, v) < k
  <2>1. CASE v = 0
    <3>1. \A i \in 1..Len(values) : ~(values[i] < v)
      BY <1>4, <2>1
    <3>2. {i \in DOMAIN values : values[i] < v} = {}
      BY <3>1
    <3>3. Below(values, v) = 0
      BY <3>2, FS_EmptySet, Zenon DEF Below
    <3> QED BY <3>3
  <2>2. CASE v # 0
    <3>1. v - 1 \in Nat /\ v - 1 \notin T
      BY <1>2, <1>3, <2>2
    <3>2. \A i \in 1..Len(values) : values[i] < v <=> values[i] <= v - 1
      BY <1>3, <1>4
    <3>3. Below(values, v) = UpTo(values, v - 1) /\ UpTo(values, v - 1) \in Nat
      BY <1>3, <3>1, <3>2, Counts
    <3> QED BY <3>1, <3>3
  <2> QED BY <2>1, <2>2
<1>6. \E i \in 1..Len(values) : values[i] = v
  <2> SUFFICES ASSUME \A i \in 1..Len(values) : values[i] # v PROVE FALSE
    OBVIOUS
  <2>1. Below(values, v) = UpTo(values, v) /\ UpTo(values, v) \in Nat
    BY <1>3, Counts
  <2> QED BY <1>3, <1>5, <2>1
<1> QED BY <1>3, <1>5, <1>6 DEF Kth

\* A later value in order is no less, so there is one k-th value.
LEMMA KthInOrder ==
  ASSUME NEW values \in Seq(Nat), NEW k \in Nat, NEW l \in Nat, k <= l,
         NEW v, NEW w, Kth(values, k, v), Kth(values, l, w)
  PROVE  v <= w /\ v \in Nat /\ w \in Nat
<1>1. v \in Nat /\ w \in Nat
  BY DEF Kth
<1>2. /\ Below(values, v) \in Nat /\ UpTo(values, v) \in Nat
      /\ Below(values, w) \in Nat /\ UpTo(values, w) \in Nat
      /\ w < v => UpTo(values, w) <= Below(values, v)
      /\ v < w => UpTo(values, v) <= Below(values, w)
  BY <1>1, Counts
<1> QED BY <1>1, <1>2 DEF Kth

LEMMA OneKth ==
  ASSUME NEW values \in Seq(Nat), NEW k \in Nat, NEW v, NEW w, Kth(values, k, v), Kth(values, k, w)
  PROVE  v = w
<1>1. k <= k
  OBVIOUS
<1>2. v <= w /\ w <= v /\ v \in Nat /\ w \in Nat
  BY <1>1, KthInOrder, Zenon
<1> QED BY <1>2

LEMMA SortedKth ==
  ASSUME NEW values \in Seq(Nat)
  PROVE  /\ Sorted(values) \in Seq(Nat) /\ Len(Sorted(values)) = Len(values)
         /\ \A k \in 1..Len(values) : Kth(values, k, Sorted(values)[k])
         /\ \A k, l \in 1..Len(values) : k <= l => Sorted(values)[k] <= Sorted(values)[l]
<1> DEFINE sorted == Sorted(values)
<1>1. ASSUME NEW k \in 1..Len(values) PROVE sorted[k] \in Nat /\ Kth(values, k, sorted[k])
  <2> DEFINE Is(v) == Below(values, v) < k /\ k <= UpTo(values, v)
             all == {values[i] : i \in DOMAIN values}
  <2>1. \E v \in all : Is(v)
    BY KthExists DEF Kth
  <2>2. sorted[k] = CHOOSE v \in all : Is(v)
    BY DEF Sorted
  <2>3. all \subseteq Nat
    OBVIOUS
  <2> HIDE DEF all, Is
  <2>4. sorted[k] \in all /\ Is(sorted[k])
    BY <2>1, <2>2
  <2> QED BY <2>3, <2>4 DEF all, Is, Kth
<1>2. sorted = [k \in 1..Len(values) |-> sorted[k]] /\ Len(values) \in Nat
  BY DEF Sorted
<1> HIDE DEF sorted
<1>3. sorted \in Seq(Nat) /\ Len(sorted) = Len(values)
  BY <1>1, <1>2
<1>4. ASSUME NEW k \in 1..Len(values), NEW l \in 1..Len(values), k <= l PROVE sorted[k] <= sorted[l]
  BY <1>1, <1>4, KthInOrder
<1> QED BY <1>1, <1>3, <1>4 DEF sorted

\* What is sorted stays as it is.
LEMMA SortedTwice ==
  ASSUME NEW values \in Seq(Nat)
  PROVE  Sorted(Sorted(values)) = Sorted(values)
<1> DEFINE sorted == Sorted(values)
<1>1. /\ sorted \in Seq(Nat) /\ Len(sorted) = Len(values) /\ Len(values) \in Nat
      /\ \A k, l \in 1..Len(values) : k <= l => sorted[k] <= sorted[l]
  BY SortedKth
<1> HIDE DEF sorted
<1>2. ASSUME NEW k \in 1..Len(values) PROVE Kth(sorted, k, sorted[k])
  <2> DEFINE Before == {i \in DOMAIN sorted : sorted[i] < sorted[k]}
             Until == {i \in DOMAIN sorted : sorted[i] <= sorted[k]}
  <2>1. DOMAIN sorted = 1..Len(values) /\ \A i \in 1..Len(values) : sorted[i] \in Nat
    BY <1>1
  <2>2. Before \subseteq 1..(k - 1)
    BY <1>1, <2>1
  <2>3. 1..k \subseteq Until /\ Until \subseteq 1..Len(values)
    BY <1>1, <2>1
  <2>4. \A n \in Nat : IsFiniteSet(1..n) /\ Cardinality(1..n) = n
    BY FS_Interval
  <2> HIDE DEF Before, Until
  <2>5. Cardinality(Before) \in Nat /\ Cardinality(Before) <= k - 1
    <3>1. k - 1 \in Nat
      BY <1>1
    <3>2. IsFiniteSet(1..(k - 1)) /\ Cardinality(1..(k - 1)) = k - 1
      BY <2>4, <3>1
    <3> QED BY <2>2, <3>2, FS_Subset, FS_CardinalityType
  <2>6. k <= Cardinality(Until)
    <3>1. k \in Nat /\ Cardinality(1..k) = k /\ IsFiniteSet(1..Len(values))
      BY <1>1, <2>4
    <3>2. IsFiniteSet(Until)
      BY <2>3, <3>1, FS_Subset
    <3> QED BY <2>3, <3>1, <3>2, FS_Subset, FS_CardinalityType
  <2>7. sorted[k] \in {sorted[i] : i \in DOMAIN sorted}
    BY <2>1
  <2> QED BY <2>5, <2>6, <2>7 DEF Kth, Below, UpTo, Before, Until
<1>3. ASSUME NEW k \in 1..Len(values) PROVE Sorted(sorted)[k] = sorted[k]
  <2>1. Kth(sorted, k, Sorted(sorted)[k])
    BY <1>1, SortedKth
  <2>2. Kth(sorted, k, sorted[k]) /\ k \in Nat
    BY <1>2
  <2>3. sorted \in Seq(Nat)
    BY <1>1
  <2> QED BY <2>1, <2>2, <2>3, OneKth
<1>4. Sorted(sorted) = [k \in 1..Len(values) |-> Sorted(sorted)[k]]
  BY <1>1 DEF Sorted
<1>5. sorted = [k \in 1..Len(values) |-> sorted[k]]
  BY <1>1
<1> QED BY <1>3, <1>4, <1>5 DEF sorted

\* A value between two others, by hundredths.
LEMMA Interpolated ==
  ASSUME NEW a \in Nat, NEW b \in Nat, a <= b, NEW w \in 0..100, NEW v \in 0..100, w <= v
  PROVE  /\ a * (100 - w) + b * w \in Nat
         /\ 100 * a <= a * (100 - w) + b * w /\ a * (100 - w) + b * w <= 100 * b
         /\ a * (100 - w) + b * w <= a * (100 - v) + b * v
<1> DEFINE d == b - a
<1>1. d \in Nat /\ b = a + d
  OBVIOUS
<1> HIDE DEF d
<1>2. d * w \in Nat /\ d * v \in Nat /\ d * w <= d * v /\ d * v <= d * 100
  BY <1>1
<1>3. a * (100 - w) + b * w = 100 * a + d * w /\ a * (100 - v) + b * v = 100 * a + d * v
  BY <1>1
<1> QED BY <1>1, <1>2, <1>3

LEMMA Indexes ==
  ASSUME NEW n \in Nat \ {0}, NEW p \in Reported
  PROVE  /\ RankIndex(n, p) \in 0..(n - 1) /\ Weight(n, p) \in 0..99
         /\ LowerIndex(n, p) \in 0..(n - 1) /\ UpperIndex(n, p) \in 0..(n - 1)
         /\ LowerIndex(n, p) <= UpperIndex(n, p)
         /\ (n - 1) * p = 100 * LowerIndex(n, p) + Weight(n, p)
<1>1. CASE p = 50
  BY <1>1 DEF RankIndex, Weight, LowerIndex, UpperIndex
<1>2. CASE p = 95
  BY <1>2 DEF RankIndex, Weight, LowerIndex, UpperIndex
<1>3. CASE p = 99
  BY <1>3 DEF RankIndex, Weight, LowerIndex, UpperIndex
<1> QED BY <1>1, <1>2, <1>3 DEF Reported

\* A higher percentile is further on, or between the same two values.
LEMMA IndexesInOrder ==
  ASSUME NEW n \in Nat \ {0}, NEW p \in Reported, NEW q \in Reported, p <= q
  PROVE  /\ RankIndex(n, p) <= RankIndex(n, q)
         /\ \/ UpperIndex(n, p) <= LowerIndex(n, q)
            \/ /\ LowerIndex(n, p) = LowerIndex(n, q) /\ UpperIndex(n, p) = UpperIndex(n, q)
               /\ Weight(n, p) <= Weight(n, q)
<1>1. p \in 50..99 /\ q \in 50..99
  BY DEF Reported
<1>2. p * n <= q * n /\ (n - 1) * p <= (n - 1) * q
  <2>1. \A x, y, m \in Nat : x <= y => x * m <= y * m /\ m * x <= m * y
    OBVIOUS
  <2> QED BY <1>1, <2>1
<1>3. RankIndex(n, p) <= RankIndex(n, q)
  <2>1. \A x, y \in Nat : x <= y => x \div 100 <= y \div 100
    OBVIOUS
  <2>2. p * n \in Nat /\ q * n \in Nat
    BY <1>1
  <2>3. (p * n) \div 100 \in Nat /\ (q * n) \div 100 \in Nat /\ (p * n) \div 100 <= (q * n) \div 100
    BY <1>2, <2>1, <2>2
  <2> QED BY <2>3 DEF RankIndex
<1> DEFINE lower(r) == LowerIndex(n, r)
<1>4. /\ lower(p) \in 0..(n - 1) /\ lower(q) \in 0..(n - 1)
      /\ Weight(n, p) \in 0..99 /\ Weight(n, q) \in 0..99
      /\ 100 * lower(p) + Weight(n, p) <= 100 * lower(q) + Weight(n, q)
  BY <1>2, Indexes
<1>5. \A r : UpperIndex(n, r) = IF lower(r) < n - 1 THEN lower(r) + 1 ELSE n - 1
  BY DEF UpperIndex
<1> HIDE DEF lower
<1>6. lower(p) < lower(q) \/ (lower(p) = lower(q) /\ Weight(n, p) <= Weight(n, q))
  BY <1>4
<1>7. CASE lower(p) < lower(q)
  BY <1>3, <1>4, <1>5, <1>7 DEF lower
<1>8. CASE lower(p) = lower(q) /\ Weight(n, p) <= Weight(n, q)
  BY <1>3, <1>5, <1>8 DEF lower
<1> QED BY <1>6, <1>7, <1>8

\* The rank percentile takes a value no earlier than the interpolation does.
LEMMA RankIsLater ==
  ASSUME NEW n \in Nat \ {0}, NEW p \in Reported
  PROVE  \/ UpperIndex(n, p) <= RankIndex(n, p)
         \/ Weight(n, p) = 0 /\ LowerIndex(n, p) <= RankIndex(n, p)
<1>1. CASE p = 50
  BY <1>1 DEF RankIndex, Weight, LowerIndex, UpperIndex
<1>2. CASE p = 95
  BY <1>2 DEF RankIndex, Weight, LowerIndex, UpperIndex
<1>3. CASE p = 99
  BY <1>3 DEF RankIndex, Weight, LowerIndex, UpperIndex
<1> QED BY <1>1, <1>2, <1>3 DEF Reported

\* The median is the value in the middle, or between the two.
LEMMA MedianIndexes ==
  ASSUME NEW n \in Nat \ {0}
  PROVE  /\ (n + 1) \div 2 \in 1..n /\ (n \div 2) + 1 \in 1..n
         /\ \/ /\ Weight(n, 50) = 0
               /\ LowerIndex(n, 50) + 1 = (n + 1) \div 2 /\ (n + 1) \div 2 = (n \div 2) + 1
            \/ /\ Weight(n, 50) = 50
               /\ LowerIndex(n, 50) + 1 = (n + 1) \div 2 /\ UpperIndex(n, 50) + 1 = (n \div 2) + 1
<1>1. \E m \in Nat : n = 2 * m \/ n = 2 * m + 1
  <2>1. n \div 2 \in Nat /\ (n = 2 * (n \div 2) \/ n = 2 * (n \div 2) + 1)
    OBVIOUS
  <2> QED BY <2>1
<1>2. PICK m \in Nat : n = 2 * m \/ n = 2 * m + 1
  BY <1>1
<1>3. CASE n = 2 * m
  BY <1>3 DEF Weight, LowerIndex, UpperIndex
<1>4. CASE n = 2 * m + 1
  BY <1>4 DEF Weight, LowerIndex, UpperIndex
<1> QED BY <1>2, <1>3, <1>4

\* The percentiles of the latencies of a table that has any.
LEMMA PercentilesInOrder ==
  ASSUME NEW values \in Seq(Nat), Len(values) # 0
  PROVE  /\ \A p \in Reported :
              /\ 100 * Least(values) <= RankPercentile(values, p)
              /\ RankPercentile(values, p) <= 100 * Greatest(values)
              /\ 100 * Least(values) <= LinearPercentile(values, p)
              /\ LinearPercentile(values, p) <= 100 * Greatest(values)
              /\ LinearPercentile(values, p) <= RankPercentile(values, p)
         /\ \A p, q \in Reported : p <= q =>
              /\ RankPercentile(values, p) <= RankPercentile(values, q)
              /\ LinearPercentile(values, p) <= LinearPercentile(values, q)
         /\ LinearPercentile(values, 50) = 50 * MedianTwice(values)
<1> DEFINE n == Len(values)
           sorted == Sorted(values)
           at(i) == sorted[i + 1]
           between(a, b, w) == a * (100 - w) + b * w
<1>1. n \in Nat \ {0} /\ values # <<>>
  OBVIOUS
<1>2. /\ \A i \in 0..(n - 1) : at(i) \in Nat
      /\ \A i, j \in 0..(n - 1) : i <= j => at(i) <= at(j)
  <2>1. /\ sorted \in Seq(Nat) /\ Len(sorted) = n
        /\ \A k, l \in 1..n : k <= l => sorted[k] <= sorted[l]
    BY SortedKth
  <2> HIDE DEF sorted, n
  <2>2. \A i \in 0..(n - 1) : i + 1 \in 1..n
    BY <1>1
  <2>3. \A k \in 1..n : sorted[k] \in Nat
    BY <2>1
  <2>4. ASSUME NEW i \in 0..(n - 1), NEW j \in 0..(n - 1), i <= j PROVE sorted[i + 1] <= sorted[j + 1]
    <3>1. i + 1 \in 1..n /\ j + 1 \in 1..n /\ i + 1 <= j + 1
      BY <1>1, <2>4
    <3> QED BY <2>1, <3>1
  <2> QED BY <2>2, <2>3, <2>4
<1>3. /\ Least(values) = at(0) /\ Greatest(values) = at(n - 1)
      /\ \A p : RankPercentile(values, p) = 100 * at(RankIndex(n, p))
      /\ \A p : LinearPercentile(values, p) =
                  between(at(LowerIndex(n, p)), at(UpperIndex(n, p)), Weight(n, p))
  <2>1. Least(values) = at(0) /\ Greatest(values) = at(n - 1)
    BY <1>1 DEF Least, Greatest
  <2>2. \A p : RankPercentile(values, p) = 100 * at(RankIndex(n, p))
    BY <1>1 DEF RankPercentile
  <2>3. \A p : LinearPercentile(values, p) =
                 between(at(LowerIndex(n, p)), at(UpperIndex(n, p)), Weight(n, p))
    BY <1>1 DEF LinearPercentile
  <2> QED BY <2>1, <2>2, <2>3
<1>4. MedianTwice(values) = sorted[(n + 1) \div 2] + sorted[(n \div 2) + 1]
  BY DEF MedianTwice
<1>5. LinearPercentile(values, 50) = 50 * MedianTwice(values)
  <2>1. 50 \in Reported
    BY DEF Reported
  <2>2. LinearPercentile(values, 50) =
          between(at(LowerIndex(n, 50)), at(UpperIndex(n, 50)), Weight(n, 50))
    BY <1>3
  <2>3. at(LowerIndex(n, 50)) \in Nat /\ at(UpperIndex(n, 50)) \in Nat
    BY <1>1, <1>2, <2>1, Indexes
  <2> HIDE DEF n, sorted
  <2>4. CASE Weight(n, 50) = 0 /\ LowerIndex(n, 50) + 1 = (n + 1) \div 2 /\ (n + 1) \div 2 = (n \div 2) + 1
    <3>1. MedianTwice(values) = at(LowerIndex(n, 50)) + at(LowerIndex(n, 50))
      BY <1>4, <2>4
    <3> QED BY <2>2, <2>3, <2>4, <3>1
  <2>5. CASE Weight(n, 50) = 50 /\ LowerIndex(n, 50) + 1 = (n + 1) \div 2 /\ UpperIndex(n, 50) + 1 = (n \div 2) + 1
    <3>1. MedianTwice(values) = at(LowerIndex(n, 50)) + at(UpperIndex(n, 50))
      BY <1>4, <2>5
    <3> QED BY <2>2, <2>3, <2>5, <3>1
  <2> QED BY <1>1, <2>4, <2>5, MedianIndexes
<1> HIDE DEF n, sorted, at, between
<1>6. \A a, b \in Nat, w, v \in 0..100 : a <= b /\ w <= v =>
         /\ between(a, b, w) \in Nat /\ 100 * a <= between(a, b, w) /\ between(a, b, w) <= 100 * b
         /\ between(a, b, w) <= between(a, b, v)
  <2> TAKE a, b \in Nat, w, v \in 0..100
  <2> HAVE a <= b /\ w <= v
  <2>1. /\ between(a, b, w) = a * (100 - w) + b * w
        /\ between(a, b, v) = a * (100 - v) + b * v
    BY DEF between
  <2>2. /\ a * (100 - w) + b * w \in Nat
        /\ 100 * a <= a * (100 - w) + b * w /\ a * (100 - w) + b * w <= 100 * b
        /\ a * (100 - w) + b * w <= a * (100 - v) + b * v
    BY Interpolated
  <2> QED BY <2>1, <2>2
<1>7. ASSUME NEW p \in Reported
      PROVE  /\ RankIndex(n, p) \in 0..(n - 1) /\ LowerIndex(n, p) \in 0..(n - 1)
             /\ UpperIndex(n, p) \in 0..(n - 1) /\ Weight(n, p) \in 0..100
             /\ at(RankIndex(n, p)) \in Nat /\ at(LowerIndex(n, p)) \in Nat
             /\ at(UpperIndex(n, p)) \in Nat /\ at(LowerIndex(n, p)) <= at(UpperIndex(n, p))
             /\ LinearPercentile(values, p) \in Nat
             /\ 100 * at(LowerIndex(n, p)) <= LinearPercentile(values, p)
             /\ LinearPercentile(values, p) <= 100 * at(UpperIndex(n, p))
  <2>1. /\ RankIndex(n, p) \in 0..(n - 1) /\ LowerIndex(n, p) \in 0..(n - 1)
        /\ UpperIndex(n, p) \in 0..(n - 1) /\ Weight(n, p) \in 0..99
        /\ LowerIndex(n, p) <= UpperIndex(n, p)
    BY <1>1, Indexes
  <2>2. /\ at(RankIndex(n, p)) \in Nat /\ at(LowerIndex(n, p)) \in Nat
        /\ at(UpperIndex(n, p)) \in Nat /\ at(LowerIndex(n, p)) <= at(UpperIndex(n, p))
    BY <1>2, <2>1
  <2>3. Weight(n, p) \in 0..100
    BY <2>1
  <2>4. \A w \in 0..100 : w <= w
    OBVIOUS
  <2> DEFINE middle == between(at(LowerIndex(n, p)), at(UpperIndex(n, p)), Weight(n, p))
  <2>5. /\ middle \in Nat /\ 100 * at(LowerIndex(n, p)) <= middle
        /\ middle <= 100 * at(UpperIndex(n, p))
    BY <1>6, <2>2, <2>3, <2>4, Zenon
  <2>6. LinearPercentile(values, p) = middle
    BY <1>3
  <2> HIDE DEF middle
  <2> QED BY <2>1, <2>2, <2>3, <2>5, <2>6
<1>8. ASSUME NEW p \in Reported
      PROVE  /\ 100 * Least(values) <= RankPercentile(values, p)
             /\ RankPercentile(values, p) <= 100 * Greatest(values)
             /\ 100 * Least(values) <= LinearPercentile(values, p)
             /\ LinearPercentile(values, p) <= 100 * Greatest(values)
  <2>1. /\ at(0) \in Nat /\ at(n - 1) \in Nat
        /\ at(0) <= at(RankIndex(n, p)) /\ at(RankIndex(n, p)) <= at(n - 1)
        /\ at(0) <= at(LowerIndex(n, p)) /\ at(UpperIndex(n, p)) <= at(n - 1)
    BY <1>1, <1>2, <1>7
  <2> QED BY <1>3, <1>7, <2>1
<1>9. ASSUME NEW p \in Reported PROVE LinearPercentile(values, p) <= RankPercentile(values, p)
  <2>1. CASE UpperIndex(n, p) <= RankIndex(n, p)
    <3>1. at(UpperIndex(n, p)) <= at(RankIndex(n, p))
      BY <1>2, <1>7, <2>1
    <3> QED BY <1>3, <1>7, <3>1
  <2>2. CASE Weight(n, p) = 0 /\ LowerIndex(n, p) <= RankIndex(n, p)
    <3>1. at(LowerIndex(n, p)) <= at(RankIndex(n, p))
      BY <1>2, <1>7, <2>2
    <3>2. LinearPercentile(values, p) = 100 * at(LowerIndex(n, p))
      BY <1>3, <1>7, <2>2 DEF between
    <3> QED BY <1>3, <1>7, <3>1, <3>2
  <2> QED BY <1>1, <2>1, <2>2, RankIsLater
<1>10. ASSUME NEW p \in Reported, NEW q \in Reported, p <= q
       PROVE  /\ RankPercentile(values, p) <= RankPercentile(values, q)
              /\ LinearPercentile(values, p) <= LinearPercentile(values, q)
  <2>1. RankPercentile(values, p) <= RankPercentile(values, q)
    <3>1. at(RankIndex(n, p)) <= at(RankIndex(n, q))
      BY <1>1, <1>2, <1>7, <1>10, IndexesInOrder
    <3> QED BY <1>3, <1>7, <3>1
  <2>2. CASE UpperIndex(n, p) <= LowerIndex(n, q)
    <3>1. at(UpperIndex(n, p)) <= at(LowerIndex(n, q))
      BY <1>2, <1>7, <2>2
    <3>2. /\ LinearPercentile(values, p) \in Nat /\ at(UpperIndex(n, p)) \in Nat
          /\ LinearPercentile(values, p) <= 100 * at(UpperIndex(n, p))
      BY <1>7
    <3>3. /\ LinearPercentile(values, q) \in Nat /\ at(LowerIndex(n, q)) \in Nat
          /\ 100 * at(LowerIndex(n, q)) <= LinearPercentile(values, q)
      BY <1>7
    <3>4. LinearPercentile(values, p) <= LinearPercentile(values, q)
      BY <3>1, <3>2, <3>3
    <3> QED BY <2>1, <3>4
  <2>3. CASE /\ LowerIndex(n, p) = LowerIndex(n, q) /\ UpperIndex(n, p) = UpperIndex(n, q)
             /\ Weight(n, p) <= Weight(n, q)
    <3>0. /\ at(LowerIndex(n, p)) \in Nat /\ at(UpperIndex(n, p)) \in Nat
          /\ at(LowerIndex(n, p)) <= at(UpperIndex(n, p))
          /\ Weight(n, p) \in 0..100 /\ Weight(n, q) \in 0..100
      BY <1>7
    <3>1. between(at(LowerIndex(n, p)), at(UpperIndex(n, p)), Weight(n, p)) <=
            between(at(LowerIndex(n, p)), at(UpperIndex(n, p)), Weight(n, q))
      BY <1>6, <2>3, <3>0, Zenon
    <3>2. LinearPercentile(values, p) <= LinearPercentile(values, q)
      BY <1>3, <2>3, <3>1
    <3> QED BY <2>1, <3>2
  <2> QED BY <1>1, <1>10, <2>2, <2>3, IndexesInOrder
<1> QED BY <1>5, <1>8, <1>9, <1>10

LEMMA InOrderWhenTyped == TablesTypeOK => StatisticsInOrder
<1> SUFFICES ASSUME TableOK(baseline), baseline # <<>> PROVE StatisticsInOrder
  BY DEF TablesTypeOK, StatisticsInOrder
<1> DEFINE values == Ms(baseline)
           rank == RankStats(values)
           linear == LinearStats(values)
<1>1. values \in Seq(Nat) /\ Len(values) # 0
  <2>1. baseline \in Seq(Rows) /\ Len(baseline) \in Nat \ {0}
    BY DEF TableOK
  <2>2. \A row \in Rows : row.ms \in Nat
    BY DEF Rows
  <2>3. \A i \in 1..Len(baseline) : baseline[i] \in Rows
    BY <2>1
  <2>4. \A i \in 1..Len(baseline) : baseline[i].ms \in Nat
    BY <2>2, <2>3
  <2> QED BY <2>1, <2>4 DEF Ms
<1> HIDE DEF values
<1>2. /\ rank.min = Least(values) /\ linear.min = Least(values)
      /\ rank.max = Greatest(values) /\ linear.max = Greatest(values)
      /\ rank.p50 = RankPercentile(values, 50) /\ linear.p50 = LinearPercentile(values, 50)
      /\ rank.p95 = RankPercentile(values, 95) /\ linear.p95 = LinearPercentile(values, 95)
      /\ rank.p99 = RankPercentile(values, 99) /\ linear.p99 = LinearPercentile(values, 99)
  BY DEF RankStats, LinearStats, StatsBy, Reported
<1>3. /\ HttpInvokeSummary(baseline).latency = rank /\ ColdStartSummary(baseline).latency = rank
      /\ OpenfaasSummary(baseline, saved).baseline = rank /\ ProgressiveStats(values) = rank
      /\ GoDemoSummary(values) = linear
  BY DEF values, HttpInvokeSummary, ColdStartSummary, OpenfaasSummary, ProgressiveStats, GoDemoSummary
<1>4. /\ ExportOverhead(values).p50 = rank.p50 /\ ExportOverhead(values).max = rank.max
      /\ JavaSeries(baseline).p50 = rank.p50 /\ JavaSeries(baseline).max = rank.max
  BY <1>2 DEF values, ExportOverhead, JavaSeries
<1>5. PythonPlotSummary(baseline).p50 = rank.p50 /\ PythonPlotSummary(baseline).max = rank.max
  <2> DEFINE walls == Sorted(values)
  <2>1. walls \in Seq(Nat) /\ Len(walls) = Len(values) /\ Sorted(walls) = walls
    BY <1>1, SortedKth, SortedTwice
  <2>2. values # <<>> /\ walls # <<>>
    BY <1>1, <2>1
  <2>3. RankPercentile(walls, 50) = RankPercentile(values, 50)
    BY <2>1, <2>2 DEF RankPercentile
  <2>4. walls[Len(walls)] = Greatest(values)
    BY <2>1, <2>2 DEF Greatest
  <2>5. /\ PythonPlotSummary(baseline).p50 = RankPercentile(walls, 50)
        /\ PythonPlotSummary(baseline).max = walls[Len(walls)]
    BY DEF PythonPlotSummary, values
  <2> QED BY <1>2, <2>3, <2>4, <2>5
<1> HIDE DEF rank, linear
<1>6. /\ \A stats \in {rank, linear} :
           /\ 100 * stats.min <= stats.p50 /\ stats.p50 <= stats.p95
           /\ stats.p95 <= stats.p99 /\ stats.p99 <= 100 * stats.max
      /\ linear.p50 = 50 * MedianTwice(values)
      /\ linear.p50 <= rank.p50 /\ linear.p95 <= rank.p95 /\ linear.p99 <= rank.p99
  <2>1. 50 \in Reported /\ 95 \in Reported /\ 99 \in Reported
    BY DEF Reported
  <2>2. /\ 100 * Least(values) <= RankPercentile(values, 50)
        /\ RankPercentile(values, 99) <= 100 * Greatest(values)
        /\ 100 * Least(values) <= LinearPercentile(values, 50)
        /\ LinearPercentile(values, 99) <= 100 * Greatest(values)
        /\ LinearPercentile(values, 50) = 50 * MedianTwice(values)
        /\ LinearPercentile(values, 50) <= RankPercentile(values, 50)
        /\ LinearPercentile(values, 95) <= RankPercentile(values, 95)
        /\ LinearPercentile(values, 99) <= RankPercentile(values, 99)
    BY <1>1, <2>1, PercentilesInOrder
  <2>3. /\ RankPercentile(values, 50) <= RankPercentile(values, 95)
        /\ RankPercentile(values, 95) <= RankPercentile(values, 99)
        /\ LinearPercentile(values, 50) <= LinearPercentile(values, 95)
        /\ LinearPercentile(values, 95) <= LinearPercentile(values, 99)
    BY <1>1, <2>1, PercentilesInOrder
  <2> QED BY <1>2, <2>2, <2>3
<1>7. \A summary \in {ExportOverhead(values), PythonPlotSummary(baseline), JavaSeries(baseline)} :
        summary.p50 = rank.p50 /\ summary.max = rank.max
  BY <1>4, <1>5
<1> QED BY <1>3, <1>6, <1>7 DEF StatisticsInOrder, values, linear

\* The percentiles of every report lie in order between the least and the
\* greatest latency, for any number of rows and any latencies; the interpolated
\* ones are no later than those by rank, though the two round the index their
\* own way (percentile and the copies of it); the interpolated median is the
\* median; and the scripts that sort first say the same as those that do not.
THEOREM StatisticsAreInOrder == Spec => []StatisticsInOrder
BY TablesAlways, InOrderWhenTyped, PTL

-----------------------------------------------------------------------------
(* Reports that copy one another's code.                                       *)

LEMMA LatenciesOf ==
  ASSUME NEW rows \in Seq(Rows)
  PROVE  Ms(rows) \in Seq(Nat) /\ Len(Ms(rows)) = Len(rows)
<1>1. \A row \in Rows : row.ms \in Nat
  BY DEF Rows
<1>2. Len(rows) \in Nat /\ \A i \in 1..Len(rows) : rows[i] \in Rows
  OBVIOUS
<1> QED BY <1>1, <1>2 DEF Ms

LEMMA LinearMedian ==
  ASSUME NEW rows \in Seq(Rows), rows # <<>>
  PROVE  LinearStats(Ms(rows)).p50 = 50 * MedianTwice(Ms(rows))
<1>1. Ms(rows) \in Seq(Nat) /\ Len(Ms(rows)) # 0
  BY LatenciesOf
<1>2. LinearPercentile(Ms(rows), 50) = 50 * MedianTwice(Ms(rows))
  BY <1>1, PercentilesInOrder
<1>3. LinearStats(Ms(rows)).p50 = LinearPercentile(Ms(rows), 50)
  BY DEF LinearStats, StatsBy, Reported
<1> QED BY <1>2, <1>3

\* Whatever a script looks for in a row, it takes the rows that were answered.
LEMMA SameSuccess ==
  ASSUME NEW rows, TableOK(rows)
  PROVE  /\ AcceptedRows(rows) = UsableRows(rows) /\ SucceededRows(rows) = UsableRows(rows)
         /\ PhaseRows(rows, "all") = UsableRows(rows)
         /\ UsableRows(rows) \in Seq(Rows) /\ Range1(UsableRows(rows)) \subseteq Range1(rows)
<1>1. rows \in Seq(Rows) /\ Len(rows) \in Nat /\ DOMAIN rows = 1..Len(rows)
  BY DEF TableOK
<1>2. \A i \in 1..Len(rows) : /\ Accepted(rows[i]) <=> Usable(rows[i])
                              /\ Succeeded(rows[i]) <=> Usable(rows[i])
  BY UsableIs
<1>3. AcceptedRows(rows) = UsableRows(rows)
  BY <1>1, <1>2, KeptSame DEF AcceptedRows, UsableRows
<1>4. SucceededRows(rows) = UsableRows(rows)
  BY <1>1, <1>2, KeptSame DEF SucceededRows, UsableRows
<1>5. PhaseRows(rows, "all") = UsableRows(rows)
  <2> DEFINE In == {i \in DOMAIN rows : /\ Usable(rows[i])
                                        /\ "all" = "cold" => rows[i].position = 1
                                        /\ "all" = "hot" => rows[i].position >= 4}
  <2>1. In = {i \in DOMAIN rows : Usable(rows[i])}
    OBVIOUS
  <2>2. PhaseRows(rows, "all") = Kept(rows, In)
    BY DEF PhaseRows
  <2> HIDE DEF In
  <2> QED BY <2>1, <2>2 DEF UsableRows
<1>6. UsableRows(rows) \in Seq(Rows) /\ Range1(UsableRows(rows)) \subseteq Range1(rows)
  <2> DEFINE places == {i \in DOMAIN rows : Usable(rows[i])}
  <2>1. /\ Kept(rows, places) \in Seq(Rows)
        /\ Range1(Kept(rows, places)) = {rows[i] : i \in (1..Len(rows)) \intersect places}
    BY <1>1, KeptRows
  <2> QED BY <2>1 DEF UsableRows, Range1
<1> QED BY <1>3, <1>4, <1>5, <1>6

\* The rows of a phase, be they taken with the answered ones or of those.
LEMMA SamePhases ==
  ASSUME NEW rows, TableOK(rows)
  PROVE  LET ok == UsableRows(rows)
         IN  /\ AtPosition(ok, 1) = PhaseRows(rows, "cold") /\ AtPosition(ok, 1) \in Seq(Rows)
             /\ Kept(ok, {i \in DOMAIN ok : ok[i].position >= 4}) = PhaseRows(rows, "hot")
             /\ PhaseRows(rows, "hot") \in Seq(Rows)
<1> DEFINE ok == UsableRows(rows)
           answered == {i \in DOMAIN rows : Usable(rows[i])}
           cold == {row \in Rows : row.position = 1}
           hot == {row \in Rows : row.position >= 4}
<1>1. /\ rows \in Seq(Rows) /\ Len(rows) \in Nat /\ DOMAIN rows = 1..Len(rows)
      /\ \A i \in 1..Len(rows) : rows[i] \in Rows
  BY DEF TableOK
<1>2. ok \in Seq(Rows) /\ ok = Kept(rows, answered)
  BY SameSuccess DEF UsableRows
<1>3. \A C : Kept(ok, Those(ok, C)) = Kept(rows, answered \intersect Those(rows, C))
  BY <1>1, <1>2, KeptTwice
<1> HIDE DEF ok
<1>4. /\ Those(ok, cold) = {i \in DOMAIN ok : ok[i].position = 1}
      /\ Those(ok, hot) = {i \in DOMAIN ok : ok[i].position >= 4}
  <2>1. \A i \in DOMAIN ok : ok[i] \in Rows
    BY <1>2
  <2> QED BY <2>1 DEF Those
<1>5. answered \intersect Those(rows, cold) = {i \in DOMAIN rows : Usable(rows[i]) /\ rows[i].position = 1}
  BY <1>1 DEF Those
<1>6. answered \intersect Those(rows, hot) = {i \in DOMAIN rows : Usable(rows[i]) /\ rows[i].position >= 4}
  BY <1>1 DEF Those
<1>7. /\ {i \in DOMAIN rows : /\ Usable(rows[i])
                              /\ "cold" = "cold" => rows[i].position = 1
                              /\ "cold" = "hot" => rows[i].position >= 4} =
         {i \in DOMAIN rows : Usable(rows[i]) /\ rows[i].position = 1}
      /\ {i \in DOMAIN rows : /\ Usable(rows[i])
                              /\ "hot" = "cold" => rows[i].position = 1
                              /\ "hot" = "hot" => rows[i].position >= 4} =
         {i \in DOMAIN rows : Usable(rows[i]) /\ rows[i].position >= 4}
  OBVIOUS
<1>8. /\ PhaseRows(rows, "cold") = Kept(rows, {i \in DOMAIN rows : Usable(rows[i]) /\ rows[i].position = 1})
      /\ PhaseRows(rows, "hot") = Kept(rows, {i \in DOMAIN rows : Usable(rows[i]) /\ rows[i].position >= 4})
  BY <1>7 DEF PhaseRows
<1>9. AtPosition(ok, 1) = PhaseRows(rows, "cold")
  BY <1>3, <1>4, <1>5, <1>8 DEF AtPosition
<1>10. Kept(ok, {i \in DOMAIN ok : ok[i].position >= 4}) = PhaseRows(rows, "hot")
  BY <1>3, <1>4, <1>6, <1>8
<1>11. AtPosition(ok, 1) \in Seq(Rows) /\ PhaseRows(rows, "hot") \in Seq(Rows)
  <2>1. \A P : Kept(ok, P) \in Seq(Rows)
    BY <1>2, KeptRows
  <2> QED BY <1>10, <2>1 DEF AtPosition
<1> QED BY <1>9, <1>10, <1>11 DEF ok

\* The two OpenWhisk plots filter alike.
LEMMA SameOpenwhisk ==
  ASSUME NEW b, NEW s, TableOK(b), TableOK(s)
  PROVE  OpenwhiskAll(b, s) = OpenwhiskTrend(b, s)
<1>1. \A rows \in {b, s} : /\ Len(rows) \in Nat /\ DOMAIN rows = 1..Len(rows) /\ rows \in Seq(Rows)
                           /\ \A i \in 1..Len(rows) :
                                Usable(rows[i]) <=> (Accepted(rows[i]) /\ rows[i].error = "none")
  BY DEF TableOK, Usable, Accepted
<1>2. \A t, u : FilterRows(t, u) =
        [baseline |-> OfLabel(t, "baseline", ChecksumsOf(WithChecksum(t))),
         saved |-> OfLabel(u, "saved", ChecksumsOf(WithChecksum(t)))]
  BY Zenon DEF FilterRows, WithChecksum, OfLabel
<1>3. ASSUME NEW checksums
      PROVE  /\ OfLabel(b, "baseline", checksums) = UsableRows(b)
             /\ OfLabel(s, "saved", checksums) = Matching(s, checksums)
  <2>1. OfLabel(b, "baseline", checksums) = UsableRows(b)
    BY <1>1, KeptSame DEF OfLabel, UsableRows
  <2>2. OfLabel(s, "saved", checksums) = Matching(s, checksums)
    <3> DEFINE P == {i \in DOMAIN s : /\ Accepted(s[i]) /\ s[i].error = "none"
                                      /\ ("saved" = "baseline" \/ Matches(s[i], checksums))}
               Q == {i \in DOMAIN s : Usable(s[i]) /\ Matches(s[i], checksums)}
    <3>1. P = Q
      BY <1>1
    <3>2. OfLabel(s, "saved", checksums) = Kept(s, P) /\ Matching(s, checksums) = Kept(s, Q)
      BY DEF OfLabel, Matching
    <3> HIDE DEF P, Q
    <3> QED BY <3>1, <3>2
  <2> QED BY <2>1, <2>2
<1>4. ChecksumsOf(WithChecksum(b)) = ChecksumsOf(UsableRows(b))
  <2> DEFINE P == {i \in DOMAIN b : Usable(b[i]) /\ b[i].checksum # "none"}
             Q == {i \in DOMAIN b : Usable(b[i])}
  <2>1. Range1(Kept(b, P)) = {b[i] : i \in (1..Len(b)) \intersect P}
    BY <1>1, KeptRows
  <2>2. Range1(Kept(b, Q)) = {b[i] : i \in (1..Len(b)) \intersect Q}
    BY <1>1, KeptRows
  <2>3. {r \in Range1(Kept(b, P)) : r.checksum # "none"} = {r \in Range1(Kept(b, Q)) : r.checksum # "none"}
    BY <2>1, <2>2
  <2>4. ChecksumsOf(Kept(b, P)) = ChecksumsOf(Kept(b, Q))
    BY <2>3 DEF ChecksumsOf
  <2> QED BY <2>4 DEF WithChecksum, UsableRows
<1>5. FilterPair(b, s) = FilterRows(b, s)
  BY <1>2, <1>3, <1>4 DEF FilterPair
<1> QED BY <1>5 DEF OpenwhiskAll, OpenwhiskTrend

\* The median of any latencies, and of a single one.
LEMMA Median ==
  ASSUME NEW rows \in Seq(Rows), rows # <<>>
  PROVE  /\ MedianTwice(Ms(rows)) \in Nat
         /\ Len(rows) = 1 => MedianTwice(Ms(rows)) = 2 * rows[1].ms
<1> DEFINE values == Ms(rows)
           n == Len(values)
           sorted == Sorted(values)
<1>1. values \in Seq(Nat) /\ n \in Nat \ {0} /\ n = Len(rows)
  BY LatenciesOf
<1>2. MedianTwice(values) = sorted[(n + 1) \div 2] + sorted[(n \div 2) + 1]
  BY DEF MedianTwice
<1>3. /\ \A k \in 1..n : sorted[k] \in Nat
      /\ \A k \in 1..n : Kth(values, k, sorted[k])
  <2>1. sorted \in Seq(Nat) /\ Len(sorted) = n /\ \A k \in 1..n : Kth(values, k, sorted[k])
    BY <1>1, SortedKth
  <2> HIDE DEF sorted, n
  <2> QED BY <2>1
<1> HIDE DEF sorted
<1>4. (n + 1) \div 2 \in 1..n /\ (n \div 2) + 1 \in 1..n
  BY <1>1, MedianIndexes
<1>5. MedianTwice(values) \in Nat
  BY <1>2, <1>3, <1>4
<1>6. ASSUME n = 1 PROVE MedianTwice(values) = 2 * rows[1].ms
  <2>1. sorted[1] \in {values[i] : i \in DOMAIN values} /\ DOMAIN values = 1..1
    BY <1>1, <1>3, <1>6 DEF Kth
  <2>2. values[1] = rows[1].ms /\ sorted[1] = values[1]
    BY <1>1, <1>6, <2>1 DEF Ms
  <2> QED BY <1>2, <1>3, <1>6, <2>2
<1> QED BY <1>1, <1>5, <1>6

\* The two tables are those of the rows that matched, when every saved row
\* has a checksum (the line graphs), or matches (the runner).
LEMMA SameChecked ==
  ASSUME NEW b, NEW s, TableOK(b), TableOK(s),
         \A row \in Range1(UsableRows(s)) : row.checksum # "none"
  PROVE  PythonLinegraphs(b, s) = FilterPair(b, s)
<1> DEFINE checksums == ChecksumsOf(UsableRows(b))
           In == {i \in DOMAIN s : Usable(s[i])}
           P == {i \in DOMAIN s : Usable(s[i]) /\ (s[i].checksum = "none" \/ Matches(s[i], checksums))}
           Q == {i \in DOMAIN s : Usable(s[i]) /\ Matches(s[i], checksums)}
<1>1. s \in Seq(Rows) /\ DOMAIN s = 1..Len(s)
  BY DEF TableOK
<1>2. Range1(UsableRows(s)) = {s[i] : i \in (1..Len(s)) \intersect In}
  BY <1>1, KeptRows DEF UsableRows
<1>3. P = Q
  BY <1>1, <1>2
<1>4. PythonLinegraphs(b, s) = [baseline |-> UsableRows(b), saved |-> Kept(s, P)]
  BY DEF PythonLinegraphs
<1>5. FilterPair(b, s) = [baseline |-> UsableRows(b), saved |-> Kept(s, Q)]
  BY DEF FilterPair, Matching
<1> HIDE DEF P, Q
<1> QED BY <1>3, <1>4, <1>5

\* The checksums of a table are finitely many.
LEMMA FiniteChecksums ==
  ASSUME NEW rows \in Seq(Rows)
  PROVE  IsFiniteSet(ChecksumsOf(rows))
<1> DEFINE f == [i \in 1..Len(rows) |-> <<rows[i].invocation, rows[i].checksum>>]
           image == {f[i] : i \in 1..Len(rows)}
<1>1. IsFiniteSet(1..Len(rows))
  BY FS_Interval
<1>2. f \in Surjection(1..Len(rows), image)
  BY DEF Surjection
<1>3. IsFiniteSet(image)
  <2> HIDE DEF f, image
  <2> QED BY <1>1, <1>2, FS_Surjection
<1>4. ChecksumsOf(rows) \subseteq image
  BY DEF ChecksumsOf, Range1
<1> HIDE DEF image
<1> QED BY <1>3, <1>4, FS_Subset

\* The large-scale plot leaves out no row of tables in which the runner finds
\* no mismatch and every saved row has its partner.
LEMMA SameComparison ==
  ASSUME NEW b, NEW s, TableOK(b), TableOK(s), s = <<>> \/ Len(s) = Len(b),
         \A row \in Range1(UsableRows(s)) :
           row.checksum # "none" /\ Usable(b[row.invocation]) /\ b[row.invocation].checksum # "none",
         RunnerSummary(b, s).mismatches = 0
  PROVE  RunnerSummary(b, s).comparison = PlotLargeScale(b, s)
<1> DEFINE base == SucceededRows(b)
           after == SucceededRows(s)
           pairs == {pair \in ChecksumsOf(base) \X ChecksumsOf(after) : pair[1][1] = pair[2][1]}
           wrong == {pair \in pairs : pair[1] # pair[2]}
           P == {i \in DOMAIN s : Succeeded(s[i])}
           Q == {i \in DOMAIN s : Succeeded(s[i]) /\ Matches(s[i], ChecksumsOf(base))}
<1>1. /\ RunnerSummary(b, s).comparison = Compare(base, after)
      /\ RunnerSummary(b, s).mismatches = Cardinality(wrong)
      /\ PlotLargeScale(b, s) = Compare(base, Kept(s, Q))
      /\ after = Kept(s, P)
  BY DEF RunnerSummary, PlotLargeScale, LoadRows, SucceededRows
<1>2. /\ b \in Seq(Rows) /\ s \in Seq(Rows) /\ DOMAIN b = 1..Len(b) /\ DOMAIN s = 1..Len(s)
      /\ \A i \in 1..Len(b) : b[i].invocation = i
      /\ \A i \in 1..Len(s) : s[i].invocation = i
  BY DEF TableOK
<1>3. wrong = {}
  <2>1. base \in Seq(Rows) /\ after \in Seq(Rows)
    BY SameSuccess
  <2> HIDE DEF base, after
  <2>2. IsFiniteSet(ChecksumsOf(base) \X ChecksumsOf(after))
    BY <2>1, FiniteChecksums, FS_Product
  <2>3. wrong \subseteq ChecksumsOf(base) \X ChecksumsOf(after)
    OBVIOUS
  <2> HIDE DEF wrong
  <2>4. IsFiniteSet(wrong) /\ Cardinality(wrong) = 0
    BY <1>1, <2>2, <2>3, FS_Subset
  <2> QED BY <2>4, FS_EmptySet
<1>4. ASSUME NEW i \in 1..Len(s), Succeeded(s[i]) PROVE Matches(s[i], ChecksumsOf(base))
  <2>1. i \in 1..Len(b)
    <3>1. s \in Seq(Rows)
      BY <1>2
    <3> HIDE DEF Rows, base, after, pairs, wrong, P, Q
    <3>2. s # <<>>
      BY <3>1
    <3> QED BY <3>2
  <2>2. s[i] \in Range1(after) /\ s[i] \in Range1(UsableRows(s))
    <3>1. Range1(Kept(s, P)) = {s[j] : j \in (1..Len(s)) \intersect P}
      BY KeptOf
    <3>2. after = UsableRows(s)
      BY SameSuccess
    <3>3. i \in (1..Len(s)) \intersect P
      BY <1>2, <1>4
    <3> QED BY <1>1, <3>1, <3>2, <3>3
  <2>3. s[i].checksum # "none" /\ Usable(b[i]) /\ b[i].checksum # "none"
    BY <1>2, <2>2
  <2>4. b[i] \in Range1(base)
    <3> DEFINE B == {j \in DOMAIN b : Succeeded(b[j])}
    <3>1. Range1(Kept(b, B)) = {b[j] : j \in (1..Len(b)) \intersect B}
      BY KeptOf
    <3>2. Succeeded(b[i])
      BY <2>1, <2>3, UsableIs
    <3>3. i \in (1..Len(b)) \intersect B
      BY <1>2, <2>1, <3>2
    <3>4. base = Kept(b, B)
      BY DEF SucceededRows
    <3> HIDE DEF B, base
    <3> QED BY <3>1, <3>3, <3>4
  <2> HIDE DEF base, after
  <2>5. <<i, b[i].checksum>> \in ChecksumsOf(base)
    BY <1>2, <2>1, <2>3, <2>4 DEF ChecksumsOf
  <2>6. <<i, s[i].checksum>> \in ChecksumsOf(after)
    BY <1>2, <2>2, <2>3 DEF ChecksumsOf
  <2>7. <<i, b[i].checksum>> = <<i, s[i].checksum>>
    <3> DEFINE pair == <<<<i, b[i].checksum>>, <<i, s[i].checksum>>>>
    <3>1. pair \in pairs
      BY <2>5, <2>6
    <3>2. pair[1] = pair[2]
      BY <1>3, <3>1
    <3> QED BY <3>2
  <2> QED BY <1>2, <2>5, <2>7 DEF Matches
<1>5. P = Q
  BY <1>2, <1>4
<1> HIDE DEF P, Q, base, after
<1> QED BY <1>1, <1>5

\* What a plot drops of a table in which every request took some time, and
\* what the split of the first row leaves.
LEMMA SameAfterFirst ==
  ASSUME NEW rows, TableOK(rows), TookTime(rows), rows # <<>>
  PROVE  /\ Kept(rows, {i \in DOMAIN rows : rows[i].ms > 0}) = rows
         /\ ColdWarmSplit(rows).first = rows[1].ms
         /\ ColdWarmSplit(rows).warmTwice = MedianTwice(Ms(From(rows, 2)))
<1>1. /\ rows \in Seq(Rows) /\ Len(rows) \in Nat \ {0} /\ DOMAIN rows = 1..Len(rows)
      /\ \A i \in 1..Len(rows) : rows[i] \in Rows /\ rows[i].invocation = i /\ rows[i].ms # 0
  BY DEF TableOK, TookTime
<1>2. Kept(rows, {i \in DOMAIN rows : rows[i].ms > 0}) = rows
  <2>1. \A row \in Rows : row.ms \in Nat
    BY DEF Rows
  <2>2. 1..Len(rows) \subseteq {i \in DOMAIN rows : rows[i].ms > 0}
    BY <1>1, <2>1
  <2> HIDE DEF Rows
  <2> QED BY <1>1, <2>2, KeptAll
<1> DEFINE later == {i \in DOMAIN rows : rows[i].invocation >= 2}
           warm == Kept(rows, later)
<1>3. /\ From(rows, 2) = IF warm = <<>> THEN rows ELSE warm
      /\ ColdWarmSplit(rows).first = rows[1].ms
      /\ ColdWarmSplit(rows).warmTwice = IF warm = <<>> THEN 2 * rows[1].ms ELSE MedianTwice(Ms(warm))
  BY DEF From, ColdWarmSplit
<1>4. ASSUME warm = <<>> PROVE Len(rows) = 1
  <2>1. Range1(warm) = {rows[i] : i \in (1..Len(rows)) \intersect later}
    BY KeptOf
  <2>2. Range1(warm) = {}
    BY <1>4 DEF Range1
  <2>3. \A i \in 1..Len(rows) : i \notin later
    <3> HIDE DEF later, warm
    <3> QED BY <2>1, <2>2
  <2>4. ~(2 \in 1..Len(rows))
    BY <1>1, <2>3
  <2> QED BY <1>1, <2>4
<1> HIDE DEF warm
<1> QED BY <1>1, <1>2, <1>3, <1>4, Median

LEMMA AgreeWhenTyped == TablesTypeOK => ReportsAgree
<1> SUFFICES ASSUME TablesTypeOK PROVE ReportsAgree
  OBVIOUS
<1> DEFINE b == baseline
           s == saved
           all == OpenwhiskAll(b, s)
           matrix == NodeMatrix(b, s)
           strength == StrengthMetrics(b)
           runner == RunnerSummary(b, s)
           effect == ProfileEffect(b, s)
           phases == PaperPhases(b, s, 2)
           answered == \A row \in Range1(b) \union Range1(s) : Usable(row)
           paired == \A row \in Range1(UsableRows(s)) :
                       row.checksum # "none" /\ Usable(b[row.invocation]) /\ b[row.invocation].checksum # "none"
<1>1. /\ TableOK(b) /\ TableOK(s) /\ TookTime(b) /\ TookTime(s)
      /\ s = <<>> \/ Len(s) = Len(b)
  BY DEF TablesTypeOK
<1>2. /\ b \in Seq(Rows) /\ s \in Seq(Rows) /\ DOMAIN b = 1..Len(b) /\ DOMAIN s = 1..Len(s)
  BY <1>1 DEF TableOK
<1> HIDE DEF b, s
<1>3. all = OpenwhiskTrend(b, s)
  BY <1>1, SameOpenwhisk
<1>4. Series(PythonLinegraphs(b, s).baseline) = all.baseline
  BY DEF PythonLinegraphs, OpenwhiskAll, FilterPair
<1>5. (\A row \in Range1(UsableRows(s)) : row.checksum # "none") =>
         Series(PythonLinegraphs(b, s).saved) = all.saved
  BY <1>1, SameChecked DEF OpenwhiskAll
<1>6. paired /\ runner.mismatches = 0 => runner.comparison = PlotLargeScale(b, s)
  BY <1>1, SameComparison
<1>7. /\ matrix.baseline["all"] = LinearStats(Ms(PhaseRows(b, "all")))
      /\ matrix.baseline["cold"] = LinearStats(Ms(PhaseRows(b, "cold")))
      /\ matrix.baseline["hot"] = LinearStats(Ms(PhaseRows(b, "hot")))
      /\ matrix.p50Saved["all"] = LinearStats(Ms(PhaseRows(b, "all"))).p50 - LinearStats(Ms(PhaseRows(s, "all"))).p50
  BY Zenon DEF NodeMatrix
<1>8. matrix.baseline["all"] = ChurnSummary(b).latency
  BY <1>1, <1>7, SameSuccess DEF ChurnSummary
<1>9. ChurnSummary(s) = StatusChurnSummary(s)
  BY <1>1, SameSuccess DEF ChurnSummary, StatusChurnSummary
<1>10. {ChurnSummary(s), JaxChurnSummary(s), GoChurnSummary(s), OpenwhiskChurnSummary(s),
        JvmChurnSummary(s), JuliaChurnSummary(s), DotnetChurnPlot(s)} = {StatusChurnSummary(s)}
  BY <1>9 DEF JaxChurnSummary, GoChurnSummary, OpenwhiskChurnSummary, JvmChurnSummary,
              JuliaChurnSummary, DotnetChurnPlot
<1>11. /\ JuliaChurnPlot(s).ok = JvmChurnPlot(s).ok
       /\ \A field \in DOMAIN JuliaChurnPlot(s) : JuliaChurnPlot(s)[field] = StatusChurnSummary(s)[field]
       /\ JvmChurnPlot(s).max = StatusChurnSummary(s).latency.max
  <2> DEFINE rows == AcceptedRows(s)
  <2>1. rows \in Seq(Rows) /\ Len(Ms(rows)) = Len(rows)
    BY <1>1, SameSuccess, LatenciesOf
  <2> HIDE DEF rows
  <2>2. StatusChurnSummary(s).ok = Len(rows) /\ JvmChurnPlot(s).ok = Len(rows)
    BY <2>1 DEF StatusChurnSummary, JvmChurnPlot, rows
  <2>3. JvmChurnPlot(s).max = StatusChurnSummary(s).latency.max
    BY DEF JvmChurnPlot, StatusChurnSummary, LinearStats, StatsBy
  <2>4. CASE rows = <<>>
    <3>1. JuliaChurnPlot(s) = [ok |-> 0] /\ Len(rows) = 0
      BY <2>4 DEF JuliaChurnPlot, rows
    <3>2. JuliaChurnPlot(s).ok = 0 /\ DOMAIN JuliaChurnPlot(s) = {"ok"}
      BY <3>1
    <3> QED BY <2>2, <2>3, <3>1, <3>2
  <2>5. CASE rows # <<>>
    <3>1. JuliaChurnPlot(s) = StatusChurnSummary(s)
      BY <2>5 DEF JuliaChurnPlot, rows
    <3> QED BY <2>2, <2>3, <3>1
  <2> QED BY <2>4, <2>5
<1>12. all.baseline.churn \subseteq ChurnSummary(b).churn
  <2>1. Range1(UsableRows(b)) \subseteq Range1(b)
    BY <1>1, SameSuccess
  <2>2. ChurnPoints(UsableRows(b)) \subseteq ChurnPoints(b)
    BY <2>1 DEF ChurnPoints
  <2> QED BY <2>2 DEF OpenwhiskAll, FilterPair, Series, ChurnSummary
<1>13. strength.made => /\ 50 * strength.cold = matrix.baseline["cold"].p50
                        /\ 50 * strength.hot = matrix.baseline["hot"].p50
  <2> DEFINE ok == UsableRows(b)
             coldRows == AtPosition(ok, 1)
             hotRows == Kept(ok, {i \in DOMAIN ok : ok[i].position >= 4})
  <2>1. /\ coldRows = PhaseRows(b, "cold") /\ coldRows \in Seq(Rows)
        /\ hotRows = PhaseRows(b, "hot") /\ hotRows \in Seq(Rows)
    BY <1>1, SamePhases
  <2>2. strength = IF Ms(coldRows) = <<>> \/ Ms(hotRows) = <<>> THEN Raised
                   ELSE [made |-> TRUE, cold |-> MedianTwice(Ms(coldRows)),
                         hot |-> MedianTwice(Ms(hotRows)), all |-> MedianTwice(Ms(ok)),
                         max |-> Greatest(Ms(ok)), points |-> Len(ok)]
    BY DEF StrengthMetrics
  <2> HIDE DEF ok, coldRows, hotRows, strength
  <2> SUFFICES ASSUME strength.made PROVE /\ 50 * strength.cold = matrix.baseline["cold"].p50
                                          /\ 50 * strength.hot = matrix.baseline["hot"].p50
    OBVIOUS
  <2>3. Ms(coldRows) # <<>> /\ Ms(hotRows) # <<>>
    BY <2>2 DEF Raised
  <2>4. coldRows # <<>> /\ hotRows # <<>>
    BY <2>3 DEF Ms
  <2>5. strength.cold = MedianTwice(Ms(coldRows)) /\ strength.hot = MedianTwice(Ms(hotRows))
    BY <2>2, <2>3
  <2>6. /\ LinearStats(Ms(coldRows)).p50 = 50 * MedianTwice(Ms(coldRows))
        /\ LinearStats(Ms(hotRows)).p50 = 50 * MedianTwice(Ms(hotRows))
    BY <2>1, <2>4, LinearMedian
  <2> QED BY <1>7, <2>1, <2>5, <2>6
<1>14. answered => UsableRows(b) = b /\ UsableRows(s) = s
  BY <1>2, KeptAll DEF UsableRows, Range1
<1>15. effect.made => b # <<>> /\ s # <<>>
  BY DEF ProfileEffect, Raised
<1>16. ASSUME b # <<>>, s # <<>>
       PROVE  /\ effect = [made |-> TRUE, first |-> <<b[1].ms, s[1].ms>>,
                           after |-> <<MedianTwice(Ms(From(b, 2))), MedianTwice(Ms(From(s, 2)))>>,
                           wins |-> PairedWins(b, s, 2)]
              /\ phases = [made |-> TRUE, first |-> <<b[1].ms, s[1].ms>>,
                           hot |-> <<MedianTwice(Ms(From(b, 2))), MedianTwice(Ms(From(s, 2)))>>,
                           wins |-> PairedWins(b, s, 2)]
  <2>1. /\ Kept(b, {i \in DOMAIN b : b[i].ms > 0}) = b
        /\ Kept(s, {i \in DOMAIN s : s[i].ms > 0}) = s
    BY <1>1, <1>16, SameAfterFirst
  <2>2. effect = [made |-> TRUE, first |-> <<b[1].ms, s[1].ms>>,
                  after |-> <<MedianTwice(Ms(From(b, 2))), MedianTwice(Ms(From(s, 2)))>>,
                  wins |-> PairedWins(b, s, 2)]
    BY <1>16 DEF ProfileEffect
  <2>3. phases = [made |-> TRUE, first |-> <<b[1].ms, s[1].ms>>,
                  hot |-> <<MedianTwice(Ms(From(b, 2))), MedianTwice(Ms(From(s, 2)))>>,
                  wins |-> PairedWins(b, s, 2)]
    BY <1>16, <2>1 DEF PaperPhases
  <2> QED BY <2>2, <2>3
<1>17. answered => /\ LifecyclePoints(b) = MediansByPosition(UsableRows(b))
                   /\ phases.made = effect.made
  <2>1. phases.made = effect.made
    <3>1. CASE b # <<>> /\ s # <<>>
      <4> DEFINE first == <<b[1].ms, s[1].ms>>
                 hot == <<MedianTwice(Ms(From(b, 2))), MedianTwice(Ms(From(s, 2)))>>
                 wins == PairedWins(b, s, 2)
      <4>1. /\ effect = [made |-> TRUE, first |-> first, after |-> hot, wins |-> wins]
            /\ phases = [made |-> TRUE, first |-> first, hot |-> hot, wins |-> wins]
        BY <1>16, <3>1
      <4> HIDE DEF effect, phases, first, hot, wins
      <4> QED BY <4>1
    <3>2. CASE b = <<>> \/ s = <<>>
      <4>1. \A P : Kept(<<>>, P) = <<>>
        BY KeptOfNone
      <4>2. effect = Raised
        BY <3>2 DEF ProfileEffect
      <4>3. \/ Kept(b, {i \in DOMAIN b : b[i].ms > 0}) = <<>>
            \/ Kept(s, {i \in DOMAIN s : s[i].ms > 0}) = <<>>
        BY <3>2, <4>1
      <4>4. phases = Raised
        BY <4>3, Zenon DEF PaperPhases
      <4> QED BY <4>2, <4>4
    <3> QED BY <3>1, <3>2
  <2> QED BY <1>14, <2>1 DEF LifecyclePoints
<1>18. effect.made =>
         /\ phases.hot = effect.after /\ phases.wins = effect.wins
         /\ \A i \in 1..2 : LET split == ColdWarmSplit(<<b, s>>[i])
                            IN  split.first = effect.first[i] /\ split.warmTwice = effect.after[i]
  <2> SUFFICES ASSUME b # <<>>, s # <<>>
               PROVE  /\ phases.hot = effect.after /\ phases.wins = effect.wins
                      /\ \A i \in 1..2 : LET split == ColdWarmSplit(<<b, s>>[i])
                                         IN  split.first = effect.first[i] /\ split.warmTwice = effect.after[i]
    BY <1>15
  <2> HIDE DEF effect, phases
  <2>1. /\ ColdWarmSplit(b).first = b[1].ms /\ ColdWarmSplit(s).first = s[1].ms
        /\ ColdWarmSplit(b).warmTwice = MedianTwice(Ms(From(b, 2)))
        /\ ColdWarmSplit(s).warmTwice = MedianTwice(Ms(From(s, 2)))
    BY <1>1, SameAfterFirst
  <2>2. /\ phases.hot = effect.after /\ phases.wins = effect.wins
        /\ effect.first = <<b[1].ms, s[1].ms>>
        /\ effect.after = <<MedianTwice(Ms(From(b, 2))), MedianTwice(Ms(From(s, 2)))>>
    BY <1>16
  <2> QED BY <2>1, <2>2
<1>19. answered /\ XlaSummary(b, s).compared =>
         50 * XlaSummary(b, s).savedTwice = matrix.p50Saved["all"]
  <2> DEFINE xla == XlaSummary(b, s)
  <2> SUFFICES ASSUME answered, xla.compared PROVE 50 * xla.savedTwice = matrix.p50Saved["all"]
    OBVIOUS
  <2>1. xla = IF b = <<>> \/ s = <<>> \/ MedianTwice(Ms(b)) = 0 THEN [compared |-> FALSE]
              ELSE [compared |-> TRUE, savedTwice |-> MedianTwice(Ms(b)) - MedianTwice(Ms(s))]
    BY DEF XlaSummary
  <2> HIDE DEF xla
  <2>2. b # <<>> /\ s # <<>> /\ xla.savedTwice = MedianTwice(Ms(b)) - MedianTwice(Ms(s))
    BY <2>1
  <2>3. PhaseRows(b, "all") = b /\ PhaseRows(s, "all") = s
    BY <1>1, <1>14, SameSuccess
  <2>4. matrix.p50Saved["all"] = 50 * MedianTwice(Ms(b)) - 50 * MedianTwice(Ms(s))
    BY <1>2, <1>7, <2>2, <2>3, LinearMedian
  <2>5. MedianTwice(Ms(b)) \in Nat /\ MedianTwice(Ms(s)) \in Nat
    BY <1>2, <2>2, Median
  <2> QED BY <2>2, <2>4, <2>5
<1> HIDE DEF all, matrix, strength, runner, effect, phases, answered, paired
<1> QED BY <1>3, <1>4, <1>5, <1>6, <1>8, <1>10, <1>11, <1>12, <1>13, <1>17, <1>18, <1>19
        DEF ReportsAgree, b, s, all, matrix, strength, runner, effect, phases, answered, paired

\* Scripts that copy one another's code say the same of the same tables, for
\* tables of any length: each pairing of two tables, each phase and each median
\* is the other's, under the condition that ReportsAgree gives for it.
THEOREM ReportsDoAgree == Spec => []ReportsAgree
BY TablesAlways, AgreeWhenTyped, PTL

-----------------------------------------------------------------------------
(* Segments and positions.                                                     *)

LEMMA Division ==
  ASSUME NEW n \in Nat, NEW m \in Nat \ {0}
  PROVE  /\ n \div m \in Nat /\ n % m \in 0..(m - 1)
         /\ n = m * (n \div m) + (n % m)
<1> DEFINE p == m * (n \div m)
<1>1. n \div m \in Nat /\ n % m \in 0..(m - 1) /\ p \in Nat
  OBVIOUS
<1>2. n % m = n - p
  OBVIOUS
<1>3. n = p + (n % m)
  <2> HIDE DEF p
  <2> QED BY <1>1, <1>2
<1> QED BY <1>1, <1>3

LEMMA OneQuotient ==
  ASSUME NEW n \in Nat, NEW m \in Nat \ {0}, NEW q \in Nat, NEW r \in 0..(m - 1),
         n = m * q + r
  PROVE  n \div m = q /\ n % m = r
OBVIOUS

\* The segment and the position of an invocation.
SegmentOf(i) == ((i - 1) \div segmentLength) + 1
PositionOf(i) == ((i - 1) % segmentLength) + 1

\* A row has those of its invocation.
Placed ==
  \A i \in 1..Len(baseline) :
    baseline[i].segment = SegmentOf(i) /\ baseline[i].position = PositionOf(i)

LEMMA PlacedAlways == Spec => []Placed
<1>1. TablesInit => Placed
  BY DEF TablesInit, Placed
<1>2. TablesTypeOK /\ Placed /\ [TablesNext]_tables => Placed'
  <2> SUFFICES ASSUME TablesTypeOK, Placed, [TablesNext]_tables PROVE Placed'
    OBVIOUS
  <2>1. baseline \in Seq(Rows) /\ Len(baseline) \in Nat
    BY DEF TablesTypeOK, TableOK
  <2>2. ASSUME NEW answer, baseline' = Append(baseline, RowOf(answer, Len(baseline) + 1)),
               segmentLength' = segmentLength
        PROVE  Placed'
    <3> DEFINE row == RowOf(answer, Len(baseline) + 1)
    <3>1. row.segment = SegmentOf(Len(baseline) + 1) /\ row.position = PositionOf(Len(baseline) + 1)
      BY DEF RowOf, SegmentOf, PositionOf
    <3> HIDE DEF row
    <3>2. /\ Len(Append(baseline, row)) = Len(baseline) + 1
          /\ \A i \in 1..(Len(baseline) + 1) :
               Append(baseline, row)[i] = IF i = Len(baseline) + 1 THEN row ELSE baseline[i]
      BY <2>1
    <3>3. \A i : SegmentOf(i)' = SegmentOf(i) /\ PositionOf(i)' = PositionOf(i)
      BY <2>2 DEF SegmentOf, PositionOf
    <3>4. baseline' = Append(baseline, row)
      BY <2>2 DEF row
    <3> SUFFICES ASSUME NEW i \in 1..(Len(baseline) + 1)
                 PROVE  /\ Append(baseline, row)[i].segment = SegmentOf(i)
                        /\ Append(baseline, row)[i].position = PositionOf(i)
      BY <3>2, <3>3, <3>4 DEF Placed
    <3>5. CASE i = Len(baseline) + 1
      BY <3>1, <3>2, <3>5
    <3>6. CASE i # Len(baseline) + 1
      <4>1. i \in 1..Len(baseline)
        BY <2>1, <3>6
      <4> QED BY <3>2, <3>6, <4>1 DEF Placed
    <3> QED BY <3>5, <3>6
  <2>3. CASE InvokeAlone
    BY <2>2, <2>3 DEF InvokeAlone
  <2>4. CASE InvokeBoth
    BY <2>2, <2>4 DEF InvokeBoth
  <2>5. CASE UNCHANGED tables
    BY <2>5 DEF tables, Placed, SegmentOf, PositionOf
  <2> QED BY <2>3, <2>4, <2>5 DEF TablesNext
<1> QED BY <1>1, <1>2, TablesAlways, PTL DEF Spec

\* They determine it.
LEMMA Places ==
  ASSUME segmentLength \in Nat \ {0}
  PROVE  /\ \A i \in Nat \ {0} :
              /\ SegmentOf(i) \in Nat \ {0} /\ PositionOf(i) \in 1..segmentLength
              /\ i = segmentLength * (SegmentOf(i) - 1) + PositionOf(i)
         /\ \A s \in Nat \ {0}, p \in 1..segmentLength :
              /\ segmentLength * (s - 1) + p \in Nat \ {0}
              /\ SegmentOf(segmentLength * (s - 1) + p) = s
              /\ PositionOf(segmentLength * (s - 1) + p) = p
<1> DEFINE L == segmentLength
<1>1. L \in Nat \ {0}
  OBVIOUS
<1> HIDE DEF L
<1>2. ASSUME NEW i \in Nat \ {0}
      PROVE  /\ ((i - 1) \div L) + 1 \in Nat \ {0} /\ ((i - 1) % L) + 1 \in 1..L
             /\ i = L * ((((i - 1) \div L) + 1) - 1) + (((i - 1) % L) + 1)
  <2> DEFINE q == (i - 1) \div L
             r == (i - 1) % L
  <2>1. i - 1 \in Nat
    OBVIOUS
  <2>2. q \in Nat /\ r \in 0..(L - 1) /\ i - 1 = L * q + r
    BY <1>1, <2>1, Division
  <2> HIDE DEF q, r
  <2>3. (q + 1) - 1 = q /\ L * q \in Nat
    BY <1>1, <2>2
  <2>4. i = L * q + (r + 1)
    BY <1>1, <2>2, <2>3
  <2>5. q + 1 \in Nat \ {0} /\ r + 1 \in 1..L /\ i = L * ((q + 1) - 1) + (r + 1)
    BY <1>1, <2>2, <2>3, <2>4
  <2> QED BY <2>5 DEF q, r
<1>3. ASSUME NEW s \in Nat \ {0}, NEW p \in 1..L
      PROVE  /\ L * (s - 1) + p \in Nat \ {0}
             /\ (((L * (s - 1) + p) - 1) \div L) + 1 = s
             /\ (((L * (s - 1) + p) - 1) % L) + 1 = p
  <2> DEFINE i == L * (s - 1) + p
             n == i - 1
             q == s - 1
             r == p - 1
  <2>1. L * (s - 1) \in Nat
    BY <1>1
  <2>2. i \in Nat \ {0} /\ n \in Nat /\ q \in Nat /\ r \in 0..(L - 1) /\ n = L * q + r
    BY <1>1, <2>1
  <2>3. q + 1 = s /\ r + 1 = p
    BY <1>1
  <2> HIDE DEF n, q, r
  <2>4. n \div L = q /\ n % L = r
    BY <1>1, <2>2, OneQuotient
  <2>5. (n \div L) + 1 = s /\ (n % L) + 1 = p
    BY <2>3, <2>4
  <2> QED BY <2>2, <2>5 DEF n
<1> QED BY <1>2, <1>3 DEF SegmentOf, PositionOf, L

\* What is kept of a table stays in the order of its invocations.
LEMMA KeptInOrder ==
  ASSUME NEW rows, TableOK(rows), NEW places
  PROVE  LET list == Kept(rows, places)
         IN  /\ list \in Seq(Rows)
             /\ \A j \in 1..Len(list) : /\ list[j].invocation \in (1..Len(rows)) \intersect places
                                        /\ list[j] = rows[list[j].invocation]
             /\ \A j, k \in 1..Len(list) : j < k => list[j].invocation < list[k].invocation
             /\ \A i \in (1..Len(rows)) \intersect places : \E j \in 1..Len(list) : list[j] = rows[i]
<1> DEFINE list == Kept(rows, places)
           Ordered(l, n) ==
             /\ l \in Seq(Rows)
             /\ \A j \in 1..Len(l) : l[j].invocation \in 1..n
             /\ \A j, k \in 1..Len(l) : j < k => l[j].invocation < l[k].invocation
<1>1. rows \in Seq(Rows) /\ Len(rows) \in Nat /\ \A i \in 1..Len(rows) : rows[i].invocation = i
  BY DEF TableOK
<1>2. PICK f : Keeps(f, rows, places, Len(rows)) /\ list = f[Len(rows)]
  BY <1>1, KeptKeeps
<1> DEFINE S == {n \in Nat : n <= Len(rows) => Ordered(f[n], n)}
<1>3. 0 \in S
  <2>1. Ordered(<<>>, 0)
    OBVIOUS
  <2>2. f[0] = <<>>
    BY <1>2 DEF Keeps
  <2> HIDE DEF Ordered
  <2> QED BY <2>1, <2>2
<1>4. \A n \in Nat : n \in S => n + 1 \in S
  <2> HIDE DEF Ordered
  <2> SUFFICES ASSUME NEW n \in Nat, n + 1 <= Len(rows), Ordered(f[n], n)
               PROVE  Ordered(f[n + 1], n + 1)
    BY <1>1
  <2> DEFINE l == f[n]
             r == rows[n + 1]
  <2>1. n + 1 \in 1..Len(rows) /\ (n + 1) - 1 = n
    BY <1>1
  <2>2. r \in Rows /\ r.invocation = n + 1
    BY <1>1, <2>1
  <2>3. f[n + 1] = IF n + 1 \in places THEN Append(l, r) ELSE l
    BY <1>2, <2>1 DEF Keeps
  <2>4. /\ l \in Seq(Rows) /\ Len(l) \in Nat
        /\ \A j \in 1..Len(l) : l[j].invocation \in 1..n
        /\ \A j, k \in 1..Len(l) : j < k => l[j].invocation < l[k].invocation
    BY DEF Ordered
  <2> HIDE DEF l, r
  <2>5. Ordered(l, n + 1)
    BY <2>4 DEF Ordered
  <2>6. Ordered(Append(l, r), n + 1)
    <3>1. /\ Append(l, r) \in Seq(Rows) /\ Len(Append(l, r)) = Len(l) + 1
          /\ \A j \in 1..Len(l) : Append(l, r)[j] = l[j]
          /\ Append(l, r)[Len(l) + 1] = r
      BY <2>2, <2>4
    <3> DEFINE m == Append(l, r)
    <3> HIDE DEF m
    <3>2. \A j \in 1..(Len(l) + 1) : m[j].invocation \in 1..(n + 1)
      <4> TAKE j \in 1..(Len(l) + 1)
      <4>1. CASE j = Len(l) + 1
        BY <2>2, <3>1, <4>1 DEF m
      <4>2. CASE j # Len(l) + 1
        <5>1. j \in 1..Len(l)
          BY <2>4, <4>2
        <5>2. m[j].invocation \in 1..n
          BY <2>4, <3>1, <5>1 DEF m
        <5> QED BY <5>2
      <4> QED BY <4>1, <4>2
    <3>3. \A j, k \in 1..(Len(l) + 1) : j < k => m[j].invocation < m[k].invocation
      <4> SUFFICES ASSUME NEW j \in 1..(Len(l) + 1), NEW k \in 1..(Len(l) + 1), j < k
                   PROVE  m[j].invocation < m[k].invocation
        OBVIOUS
      <4>1. j \in 1..Len(l)
        BY <2>4
      <4>2. m[j] = l[j] /\ l[j].invocation \in 1..n
        BY <2>4, <3>1, <4>1 DEF m
      <4>3. CASE k = Len(l) + 1
        BY <2>2, <3>1, <4>2, <4>3 DEF m
      <4>4. CASE k # Len(l) + 1
        <5>1. k \in 1..Len(l)
          BY <2>4, <4>4
        <5> QED BY <2>4, <3>1, <4>1, <4>2, <5>1 DEF m
      <4> QED BY <4>3, <4>4
    <3> QED BY <3>1, <3>2, <3>3 DEF Ordered, m
  <2> QED BY <2>3, <2>5, <2>6 DEF l
<1>5. Ordered(list, Len(rows))
  <2>1. Len(rows) \in S
    <3> HIDE DEF S
    <3> QED BY <1>1, <1>3, <1>4, Induction
  <2> QED BY <1>2, <2>1
<1>6. Range1(list) = {rows[i] : i \in (1..Len(rows)) \intersect places}
  BY <1>1, KeptRows
<1> HIDE DEF list
<1>7. ASSUME NEW j \in 1..Len(list)
      PROVE  /\ list[j].invocation \in (1..Len(rows)) \intersect places
             /\ list[j] = rows[list[j].invocation]
  <2>1. list[j] \in Range1(list)
    BY DEF Range1
  <2> QED BY <2>1, KeptRow DEF list
<1>8. ASSUME NEW i \in (1..Len(rows)) \intersect places PROVE \E j \in 1..Len(list) : list[j] = rows[i]
  <2>1. rows[i] \in Range1(list)
    BY <1>6
  <2> QED BY <2>1 DEF Range1
<1> QED BY <1>5, <1>7, <1>8 DEF list

\* A median is no less than twice some of the values, and twice the value that
\* all of them have.
LEMMA MedianBetween ==
  ASSUME NEW values \in Seq(Nat), Len(values) # 0
  PROVE  /\ MedianTwice(values) \in Nat
         /\ \E i \in 1..Len(values) : 2 * values[i] <= MedianTwice(values)
         /\ \A v : (\A i \in 1..Len(values) : values[i] = v) => MedianTwice(values) = 2 * v
<1> DEFINE n == Len(values)
           sorted == Sorted(values)
           low == (n + 1) \div 2
           high == (n \div 2) + 1
<1>1. n \in Nat \ {0}
  OBVIOUS
<1>2. /\ \A k \in 1..n : Kth(values, k, sorted[k]) /\ sorted[k] \in Nat
      /\ \A k, l \in 1..n : k <= l => sorted[k] <= sorted[l]
  <2>1. /\ sorted \in Seq(Nat) /\ Len(sorted) = n
        /\ \A k \in 1..n : Kth(values, k, sorted[k])
        /\ \A k, l \in 1..n : k <= l => sorted[k] <= sorted[l]
    BY SortedKth
  <2> HIDE DEF sorted, n
  <2> QED BY <2>1
<1>3. low \in 1..n /\ high \in 1..n /\ low <= high
  BY <1>1, MedianIndexes
<1>4. MedianTwice(values) = sorted[low] + sorted[high]
  BY DEF MedianTwice
<1> HIDE DEF sorted, low, high
<1>5. /\ sorted[low] \in Nat /\ sorted[high] \in Nat /\ sorted[low] <= sorted[high]
      /\ Kth(values, low, sorted[low]) /\ Kth(values, high, sorted[high])
  BY <1>2, <1>3
<1>6. \A k, v : Kth(values, k, v) => \E i \in 1..n : values[i] = v
  BY DEF Kth
<1>7. PICK i \in 1..n, j \in 1..n : values[i] = sorted[low] /\ values[j] = sorted[high]
  BY <1>5, <1>6
<1>8. MedianTwice(values) \in Nat /\ 2 * values[i] <= MedianTwice(values)
  BY <1>4, <1>5, <1>7
<1>9. ASSUME NEW v, \A k \in 1..n : values[k] = v PROVE MedianTwice(values) = 2 * v
  <2>1. sorted[low] = v /\ sorted[high] = v /\ v \in Nat
    BY <1>5, <1>7, <1>9
  <2> QED BY <1>4, <2>1
<1> QED BY <1>8, <1>9

LEMMA MedianOfSame ==
  ASSUME NEW rows \in Seq(Rows), rows # <<>>, NEW v, \A row \in Range1(rows) : row.ms = v
  PROVE  MedianTwice(Ms(rows)) = 2 * v
<1>1. Ms(rows) \in Seq(Nat) /\ Len(Ms(rows)) = Len(rows) /\ Len(rows) # 0
  BY LatenciesOf
<1>2. \A i \in 1..Len(rows) : Ms(rows)[i] = v
  BY DEF Ms, Range1
<1> QED BY <1>1, <1>2, MedianBetween

\* The elements of 1..n in order.
LEMMA NthOfInterval ==
  ASSUME NEW n \in Nat, NEW i \in 1..n
  PROVE  Nth(1..n, i) = i
<1> DEFINE Is(k) == Cardinality({j \in 1..n : j < k}) = i - 1
<1>1. ASSUME NEW k \in 1..n PROVE Cardinality({j \in 1..n : j < k}) = k - 1
  <2>1. {j \in 1..n : j < k} = 1..(k - 1) /\ k - 1 \in Nat
    OBVIOUS
  <2>2. Cardinality(1..(k - 1)) = k - 1
    BY <2>1, FS_Interval
  <2> QED BY <2>1, <2>2
<1>2. \A k \in 1..n : Is(k) <=> k = i
  <2> TAKE k \in 1..n
  <2>1. Cardinality({j \in 1..n : j < k}) = k - 1
    BY <1>1
  <2> QED BY <2>1
<1>3. Nth(1..n, i) = CHOOSE k \in 1..n : Is(k)
  BY DEF Nth
<1> HIDE DEF Is
<1> QED BY <1>2, <1>3

LEMMA ValuesOfInterval ==
  ASSUME NEW n \in Nat, NEW medians, DOMAIN medians = 1..n
  PROVE  Values(medians) = [i \in 1..n |-> medians[i]]
<1>1. Cardinality(1..n) = n
  BY FS_Interval
<1>2. \A i \in 1..n : Nth(1..n, i) = i
  BY NthOfInterval
<1>3. Values(medians) = [i \in 1..n |-> medians[Nth(1..n, i)]]
  BY <1>1 DEF Values
<1> QED BY <1>2, <1>3

-----------------------------------------------------------------------------
(* The shape of a segment.                                                     *)

\* A segment's accepted rows: the places they are kept from.
AcceptedOf(s) == {i \in DOMAIN baseline : baseline[i].status >= 200 /\ baseline[i].status < 400
                                            /\ baseline[i].segment = s}

\* The rows of a segment are in the order of their positions, and they are the
\* accepted ones.
LEMMA SegmentInOrder ==
  ASSUME TablesTypeOK, Placed, NEW s \in Nat \ {0}
  PROVE  LET rows == SegmentRows(baseline, s)
             at(p) == segmentLength * (s - 1) + p
         IN  /\ rows \in Seq(Rows)
             /\ \A j \in 1..Len(rows) :
                  /\ rows[j].position \in 1..segmentLength
                  /\ rows[j].invocation = at(rows[j].position)
                  /\ at(rows[j].position) \in 1..Len(baseline)
                  /\ rows[j] = baseline[at(rows[j].position)]
             /\ \A j, k \in 1..Len(rows) :
                  j < k => /\ rows[j].position < rows[k].position
                           /\ rows[j].invocation < rows[k].invocation
             /\ \A p \in 1..segmentLength :
                  at(p) \in 1..Len(baseline) =>
                    /\ baseline[at(p)] \in Range1(baseline)
                    /\ baseline[at(p)].segment = s /\ baseline[at(p)].position = p
                    /\ \A row \in Range1(baseline) :
                         row.segment = s /\ row.position = p => row = baseline[at(p)]
                    /\ Usable(baseline[at(p)]) <=> \E j \in 1..Len(rows) : rows[j].position = p
<1> DEFINE rows == SegmentRows(baseline, s)
           at(p) == segmentLength * (s - 1) + p
           n == Len(baseline)
<1>1. /\ TableOK(baseline) /\ baseline \in Seq(Rows) /\ n \in Nat /\ DOMAIN baseline = 1..n
      /\ segmentLength \in Nat \ {0} /\ \A i \in 1..n : baseline[i].invocation = i
  BY TableAssumption DEF TablesTypeOK, TableOK
<1>2. rows = Kept(baseline, AcceptedOf(s))
  BY DEF SegmentRows, AcceptedOf
<1>3. /\ rows \in Seq(Rows)
      /\ \A j \in 1..Len(rows) : /\ rows[j].invocation \in (1..n) \intersect AcceptedOf(s)
                                 /\ rows[j] = baseline[rows[j].invocation]
      /\ \A j, k \in 1..Len(rows) : j < k => rows[j].invocation < rows[k].invocation
      /\ \A i \in (1..n) \intersect AcceptedOf(s) : \E j \in 1..Len(rows) : rows[j] = baseline[i]
  <2> DEFINE kept == Kept(baseline, AcceptedOf(s))
  <2>1. /\ kept \in Seq(Rows)
        /\ \A j \in 1..Len(kept) : /\ kept[j].invocation \in (1..n) \intersect AcceptedOf(s)
                                   /\ kept[j] = baseline[kept[j].invocation]
        /\ \A j, k \in 1..Len(kept) : j < k => kept[j].invocation < kept[k].invocation
        /\ \A i \in (1..n) \intersect AcceptedOf(s) : \E j \in 1..Len(kept) : kept[j] = baseline[i]
    BY <1>1, KeptInOrder
  <2> HIDE DEF rows, kept, n
  <2>2. rows = kept
    BY <1>2 DEF kept
  <2> QED BY <2>1, <2>2
<1> HIDE DEF rows, n
<1>4. ASSUME NEW i \in 1..n
      PROVE  /\ baseline[i].segment = SegmentOf(i) /\ baseline[i].position = PositionOf(i)
             /\ SegmentOf(i) \in Nat \ {0} /\ PositionOf(i) \in 1..segmentLength
             /\ i = segmentLength * (SegmentOf(i) - 1) + PositionOf(i)
  <2>1. i \in Nat \ {0}
    BY <1>1
  <2> QED BY <1>1, <2>1, Places DEF Placed, n
<1>5. ASSUME NEW j \in 1..Len(rows)
      PROVE  /\ rows[j].position \in 1..segmentLength
             /\ rows[j].invocation = at(rows[j].position)
             /\ at(rows[j].position) \in 1..n
             /\ rows[j] = baseline[at(rows[j].position)]
  <2> DEFINE i == rows[j].invocation
  <2>1. i \in 1..n /\ i \in AcceptedOf(s) /\ rows[j] = baseline[i]
    BY <1>3
  <2> HIDE DEF i
  <2>2. SegmentOf(i) = s /\ rows[j].position = PositionOf(i)
    BY <1>4, <2>1 DEF AcceptedOf
  <2>3. i = at(rows[j].position) /\ rows[j].position \in 1..segmentLength
    BY <1>4, <2>1, <2>2
  <2> QED BY <2>1, <2>3 DEF i
<1>6. ASSUME NEW j \in 1..Len(rows), NEW k \in 1..Len(rows), j < k
      PROVE  rows[j].position < rows[k].position
  <2> DEFINE offset == segmentLength * (s - 1)
             p == rows[j].position
             q == rows[k].position
  <2>1. offset \in Nat /\ p \in Nat /\ q \in Nat
    BY <1>1, <1>5
  <2>2. offset + p < offset + q
    BY <1>3, <1>5, <1>6
  <2> HIDE DEF offset, p, q
  <2>3. p < q
    BY <2>1, <2>2
  <2> QED BY <2>3 DEF p, q
<1>7. ASSUME NEW p \in 1..segmentLength, at(p) \in 1..n
      PROVE  /\ baseline[at(p)] \in Range1(baseline)
             /\ baseline[at(p)].segment = s /\ baseline[at(p)].position = p
             /\ \A row \in Range1(baseline) :
                  row.segment = s /\ row.position = p => row = baseline[at(p)]
             /\ Usable(baseline[at(p)]) <=> \E j \in 1..Len(rows) : rows[j].position = p
  <2> DEFINE i == at(p)
  <2>1. i \in 1..n /\ SegmentOf(i) = s /\ PositionOf(i) = p
    BY <1>1, <1>7, Places
  <2>2. baseline[i] \in Range1(baseline) /\ baseline[i].segment = s /\ baseline[i].position = p
    BY <1>4, <2>1 DEF Range1, n
  <2>3. ASSUME NEW row \in Range1(baseline), row.segment = s, row.position = p PROVE row = baseline[i]
    <3>1. PICK k \in 1..n : row = baseline[k]
      BY DEF Range1, n
    <3>2. SegmentOf(k) = s /\ PositionOf(k) = p
      BY <1>4, <2>3, <3>1
    <3>3. k = i
      BY <1>4, <3>2
    <3> QED BY <3>1, <3>3
  <2>4. Usable(baseline[i]) <=> i \in AcceptedOf(s)
    <3>1. Usable(baseline[i]) <=> Accepted(baseline[i])
      BY <1>1, <2>1, UsableIs DEF n
    <3> QED BY <1>1, <2>1, <2>2, <3>1 DEF AcceptedOf, Accepted
  <2> HIDE DEF i
  <2>5. ASSUME NEW j \in 1..Len(rows), rows[j].position = p PROVE i \in AcceptedOf(s)
    <3>1. rows[j].invocation = i
      BY <1>5, <2>5 DEF i
    <3> QED BY <1>3, <3>1
  <2>6. ASSUME i \in AcceptedOf(s) PROVE \E j \in 1..Len(rows) : rows[j].position = p
    <3>1. PICK j \in 1..Len(rows) : rows[j] = baseline[i]
      BY <1>3, <2>1, <2>6
    <3> QED BY <2>2, <3>1
  <2> QED BY <2>2, <2>3, <2>4, <2>5, <2>6 DEF i
<1> QED BY <1>3, <1>5, <1>6, <1>7 DEF rows, n

\* The steady state of a segment with rows: some row is no slower, and it is what
\* all rows of the tail have.
LEMMA Steady ==
  ASSUME NEW rows \in Seq(Rows), rows # <<>>
  PROVE  LET start == IF Len(rows) > TailWindow THEN Len(rows) - TailWindow + 1 ELSE 1
         IN  /\ start \in 1..Len(rows) /\ SteadyTwice(rows) \in Nat
             /\ \E i \in 1..Len(rows) : 2 * rows[i].ms <= SteadyTwice(rows)
             /\ \A v : (\A i \in start..Len(rows) : rows[i].ms = v) => SteadyTwice(rows) = 2 * v
<1> DEFINE n == Len(rows)
           start == IF n > TailWindow THEN n - TailWindow + 1 ELSE 1
           tail == SubSeq(rows, start, n)
           m == n - start + 1
<1>1. n \in Nat \ {0} /\ \A i \in 1..n : rows[i] \in Rows
  OBVIOUS
<1>2. start \in 1..n /\ m \in 1..n
  BY <1>1, ShapeAssumption
<1>3. SteadyTwice(rows) = MedianTwice(Ms(tail))
  BY DEF SteadyTwice
<1> HIDE DEF start
<1>4. /\ tail \in Seq(Rows) /\ Len(tail) = m
      /\ \A i \in 1..m : start + i - 1 \in start..n /\ start + i - 1 \in 1..n /\ tail[i] = rows[start + i - 1]
  BY <1>1, <1>2
<1> HIDE DEF n, m, tail
<1>5. /\ Ms(tail) \in Seq(Nat) /\ Len(Ms(tail)) = m /\ m # 0
      /\ \A i \in 1..m : Ms(tail)[i] = tail[i].ms
  BY <1>2, <1>4, LatenciesOf DEF Ms
<1>6. /\ MedianTwice(Ms(tail)) \in Nat
      /\ \E i \in 1..m : 2 * Ms(tail)[i] <= MedianTwice(Ms(tail))
      /\ \A v : (\A i \in 1..m : Ms(tail)[i] = v) => MedianTwice(Ms(tail)) = 2 * v
  BY <1>5, MedianBetween
<1>7. \E i \in 1..n : 2 * rows[i].ms <= SteadyTwice(rows)
  BY <1>3, <1>4, <1>5, <1>6
<1>8. ASSUME NEW v, \A i \in start..n : rows[i].ms = v PROVE SteadyTwice(rows) = 2 * v
  BY <1>3, <1>4, <1>5, <1>6, <1>8
<1> QED BY <1>2, <1>3, <1>6, <1>7, <1>8 DEF n, start

\* A set of positions or places has a least.
LEMMA LeastOf ==
  ASSUME NEW S, S \subseteq Nat, S # {}
  PROVE  Min(S) \in S /\ \A m \in S : Min(S) <= m
<1>1. \E n \in S : \A m \in S : n <= m
  BY Minimum
<1> QED BY <1>1 DEF Min

\* Up to the row at some place of a segment are as many accepted rows as its
\* place says: F are the positions without one.
Passed(position, N, b, F) ==
  /\ \A j \in 1..N : position[j] \in Nat \ {0}
  /\ \A j, k \in 1..N : j < k => position[j] < position[k]
  /\ F \subseteq 1..position[b]
  /\ \A p \in 1..position[b] : p \notin F <=> \E j \in 1..N : position[j] = p

LEMMA FailuresBefore ==
  ASSUME NEW N \in Nat, NEW b \in 1..N, NEW position, NEW F, Passed(position, N, b, F)
  PROVE  Cardinality(F) = position[b] - b
<1> DEFINE P == position[b]
<1> HIDE DEF P
<1>0. /\ \A j \in 1..N : position[j] \in Nat \ {0}
      /\ \A j, k \in 1..N : j < k => position[j] < position[k]
      /\ F \subseteq 1..P
      /\ \A p \in 1..P : p \notin F <=> \E j \in 1..N : position[j] = p
      /\ P = position[b]
  BY DEF Passed, P
<1> SUFFICES Cardinality(F) = P - b
  BY DEF P
<1> DEFINE U == (1..P) \ F
           f == [j \in 1..b |-> position[j]]
<1>1. P \in Nat \ {0} /\ b \in Nat /\ 1..b \subseteq 1..N
  BY <1>0
<1>2. \A j \in 1..b : f[j] \in U
  <2> SUFFICES ASSUME NEW j \in 1..b PROVE position[j] \in U
    OBVIOUS
  <2>1. position[j] <= P /\ position[j] \in 1..P /\ j \in 1..N
    <3>1. j \in 1..N /\ position[j] \in Nat \ {0}
      BY <1>0, <1>1
    <3>2. CASE j = b
      BY <1>0, <1>1, <3>1, <3>2
    <3>3. CASE j # b
      <4>1. j < b
        BY <3>3
      <4> QED BY <1>0, <1>1, <3>1, <4>1
    <3> QED BY <3>2, <3>3
  <2> QED BY <1>0, <2>1
<1>3. \A j, k \in 1..b : j # k => f[j] # f[k]
  <2> SUFFICES ASSUME NEW j \in 1..b, NEW k \in 1..b, j # k PROVE position[j] # position[k]
    OBVIOUS
  <2>1. j \in 1..N /\ k \in 1..N /\ (j < k \/ k < j)
    BY <1>1
  <2>2. position[j] \in Nat /\ position[k] \in Nat
    BY <1>0, <2>1
  <2> QED BY <1>0, <2>1, <2>2
<1>4. \A p \in U : \E j \in 1..b : f[j] = p
  <2> SUFFICES ASSUME NEW p \in U PROVE \E j \in 1..b : position[j] = p
    OBVIOUS
  <2>1. PICK j \in 1..N : position[j] = p
    BY <1>0
  <2>2. ~(b < j)
    BY <1>0, <1>1, <2>1
  <2>3. j \in 1..b
    BY <2>2
  <2> QED BY <2>1, <2>3
<1> HIDE DEF U
<1>5. f \in Bijection(1..b, U)
  <2>1. f \in [1..b -> U]
    BY <1>2
  <2> HIDE DEF f
  <2>2. f \in Injection(1..b, U)
    BY <1>3, <2>1 DEF Injection, IsInjective
  <2>3. f \in Surjection(1..b, U)
    BY <1>4, <2>1 DEF Surjection
  <2> QED BY <2>2, <2>3 DEF Bijection
<1>6. /\ IsFiniteSet(1..b) /\ Cardinality(1..b) = b
      /\ IsFiniteSet(1..P) /\ Cardinality(1..P) = P
  <2>1. ASSUME NEW k \in Nat \ {0} PROVE IsFiniteSet(1..k) /\ Cardinality(1..k) = k
    <3>1. 1 \in Int /\ k \in Int /\ ~(1 > k) /\ k - 1 + 1 = k
      OBVIOUS
    <3> QED BY <3>1, FS_Interval
  <2>2. b \in Nat \ {0}
    OBVIOUS
  <2> QED BY <1>1, <2>1, <2>2
<1>7. IsFiniteSet(U) /\ Cardinality(U) = b
  BY <1>5, <1>6, FS_Bijection DEF ExistsBijection
<1>8. F \subseteq 1..P /\ F \union U = 1..P /\ F \intersect U = {}
  BY <1>0 DEF U
<1>9. IsFiniteSet(F) /\ Cardinality(F) \in Nat
  BY <1>6, <1>8, FS_Subset, FS_CardinalityType
<1>10. Cardinality(F \union U) = Cardinality(F) + Cardinality(U) - Cardinality(F \intersect U)
  BY <1>7, <1>9, FS_Union
<1>11. Cardinality(F \intersect U) = 0 /\ Cardinality(F \union U) = P
  BY <1>6, <1>8, FS_EmptySet
<1> QED BY <1>1, <1>7, <1>9, <1>10, <1>11

\* The row at a position of a segment.
RowAt(s, p) == CHOOSE row \in Range1(baseline) : row.segment = s /\ row.position = p

\* The shape of a segment with rows.
LEMMA ShapeOfSegment ==
  ASSUME TablesTypeOK, Placed, NEW s \in Nat \ {0}, SegmentRows(baseline, s) # <<>>
  PROVE  LET of == SegmentMetrics(baseline, s)
             rows == SegmentRows(baseline, s)
         IN  /\ {of.halfLife, of.warmLife} \subseteq {row.position : row \in Range1(rows)}
             /\ HalfWay(rows, RowAt(s, of.halfLife)) /\ Warm(rows, RowAt(s, of.warmLife))
             /\ of.warmLife - 1 - of.tail =
                  Cardinality({p \in 1..of.warmLife : ~Usable(RowAt(s, p))})
             /\ of.churn <= (RowAt(s, of.halfLife)).invocation
<1> DEFINE of == SegmentMetrics(baseline, s)
           rows == SegmentRows(baseline, s)
           N == Len(rows)
           at(p) == segmentLength * (s - 1) + p
           half == {i \in 1..N : HalfWay(rows, rows[i])}
           warm == {i \in 1..N : Warm(rows, rows[i])}
<1>1. /\ rows \in Seq(Rows)
      /\ \A j \in 1..N :
           /\ rows[j].position \in 1..segmentLength
           /\ rows[j].invocation = at(rows[j].position)
           /\ at(rows[j].position) \in 1..Len(baseline)
           /\ rows[j] = baseline[at(rows[j].position)]
      /\ \A j, k \in 1..N : j < k => /\ rows[j].position < rows[k].position
                                     /\ rows[j].invocation < rows[k].invocation
      /\ \A p \in 1..segmentLength :
           at(p) \in 1..Len(baseline) =>
             /\ baseline[at(p)] \in Range1(baseline)
             /\ baseline[at(p)].segment = s /\ baseline[at(p)].position = p
             /\ \A row \in Range1(baseline) :
                  row.segment = s /\ row.position = p => row = baseline[at(p)]
             /\ Usable(baseline[at(p)]) <=> \E j \in 1..N : rows[j].position = p
  BY SegmentInOrder
<1>2. rows # <<>>
  OBVIOUS
<1>3. /\ of.halfLife = LifeOf(rows, {i \in DOMAIN rows : HalfWay(rows, rows[i])})
      /\ of.warmLife = LifeOf(rows, {i \in DOMAIN rows : Warm(rows, rows[i])})
      /\ of.tail = ConsecutiveTail(rows) /\ of.churn = rows[1].invocation
  BY DEF SegmentMetrics
<1> HIDE DEF of, rows
<1>4. N \in Nat \ {0} /\ DOMAIN rows = 1..N /\ \A i \in 1..N : rows[i] \in Rows
  BY <1>1, <1>2
<1>5. half # {} /\ warm # {}
  <2>1. PICK i \in 1..N : 2 * rows[i].ms <= SteadyTwice(rows)
    BY <1>1, <1>2, Steady
  <2>2. SteadyTwice(rows) \in Nat
    BY <1>1, <1>2, Steady
  <2>3. rows[i].ms \in Nat /\ rows[1].ms \in Nat
    BY <1>4 DEF Rows
  <2>4. HalfWay(rows, rows[i])
    <3> DEFINE ms == rows[i].ms
               first == rows[1].ms
               steady == SteadyTwice(rows)
    <3>1. ms \in Nat /\ first \in Nat /\ steady \in Nat /\ 2 * ms <= steady
      BY <2>1, <2>2, <2>3
    <3>2. HalfWay(rows, rows[i]) <=>
            4 * ms <= 2 * steady + (IF 2 * first - steady > 0 THEN 2 * first - steady ELSE 0)
      BY Zenon DEF HalfWay
    <3> HIDE DEF ms, first, steady
    <3>3. 4 * ms <= 2 * steady
      BY <3>1
    <3> QED BY <3>1, <3>2
  <2>5. Warm(rows, rows[i])
    BY <2>1, <2>2, <2>3, ShapeAssumption DEF Warm
  <2> QED BY <2>4, <2>5
<1> DEFINE a == Min(half)
           b == Min(warm)
<1>6. a \in half /\ b \in warm
  <2>1. half \subseteq Nat /\ warm \subseteq Nat
    BY <1>4
  <2> HIDE DEF half, warm
  <2> QED BY <1>5, <2>1, LeastOf
<1>7. of.halfLife = rows[a].position /\ of.warmLife = rows[b].position
  BY <1>3, <1>4, <1>5 DEF LifeOf
<1>8. of.tail = b - 1
  <2>1. ConsecutiveTail(rows) = IF (IF warm # {} THEN b ELSE 0) = 0 THEN N ELSE (IF warm # {} THEN b ELSE 0) - 1
    BY DEF ConsecutiveTail, SelectInSeq
  <2>2. b # 0
    BY <1>4, <1>6
  <2> QED BY <1>3, <1>5, <2>1, <2>2
<1>9. a \in 1..N /\ b \in 1..N /\ HalfWay(rows, rows[a]) /\ Warm(rows, rows[b])
  BY <1>6
<1> HIDE DEF half, warm, a, b
<1>10. ASSUME NEW p \in 1..segmentLength, at(p) \in 1..Len(baseline) PROVE RowAt(s, p) = baseline[at(p)]
  <2> DEFINE Is(row) == row.segment = s /\ row.position = p
  <2>1. /\ baseline[at(p)] \in Range1(baseline) /\ Is(baseline[at(p)])
        /\ \A row \in Range1(baseline) : Is(row) => row = baseline[at(p)]
    BY <1>1, <1>10
  <2>2. RowAt(s, p) = CHOOSE row \in Range1(baseline) : Is(row)
    BY DEF RowAt
  <2> HIDE DEF Is
  <2> QED BY <2>1, <2>2
<1>11. ASSUME NEW j \in 1..N PROVE RowAt(s, rows[j].position) = rows[j]
  BY <1>1, <1>10
<1>12. {of.halfLife, of.warmLife} \subseteq {row.position : row \in Range1(rows)}
  BY <1>7, <1>9 DEF Range1, N
<1>13. HalfWay(rows, RowAt(s, of.halfLife)) /\ Warm(rows, RowAt(s, of.warmLife))
  BY <1>7, <1>9, <1>11
<1>14. of.churn <= (RowAt(s, of.halfLife)).invocation
  <2>1. 1 \in 1..N /\ a \in 1..N /\ rows[a].invocation \in Nat
    BY <1>4, <1>9 DEF Rows
  <2>2. 1 = a \/ 1 < a
    BY <2>1
  <2>3. rows[1].invocation <= rows[a].invocation
    <3>1. CASE a = 1
      BY <2>1, <3>1
    <3>2. CASE 1 < a
      <4>1. rows[1].invocation < rows[a].invocation /\ rows[1].invocation \in Nat
        <5>1. \A j, k \in 1..N : j < k => rows[j].invocation < rows[k].invocation
          BY <1>1
        <5>2. rows[1].invocation \in Nat
          BY <1>4, <2>1 DEF Rows
        <5> QED BY <2>1, <3>2, <5>1, <5>2
      <4> QED BY <2>1, <4>1
    <3> QED BY <2>2, <3>1, <3>2
  <2> QED BY <1>3, <1>7, <1>9, <1>11, <2>3
<1> DEFINE P == of.warmLife
           F == {p \in 1..P : ~Usable(RowAt(s, p))}
           position == [j \in 1..N |-> rows[j].position]
<1>15. /\ \A j \in 1..N : position[j] \in Nat \ {0} /\ position[j] = rows[j].position
       /\ \A j, k \in 1..N : j < k => position[j] < position[k]
       /\ P = position[b]
  BY <1>1, <1>7, <1>9
<1> HIDE DEF position
<1>16. ASSUME NEW p \in 1..P
       PROVE  Usable(RowAt(s, p)) <=> \E j \in 1..N : position[j] = p
  <2>1. P \in 1..segmentLength /\ at(P) \in 1..Len(baseline) /\ segmentLength \in Nat \ {0}
    BY <1>1, <1>7, <1>9, TableAssumption DEF TablesTypeOK
  <2>2. p \in 1..segmentLength
    BY <2>1
  <2>3. at(p) \in 1..Len(baseline)
    <3> DEFINE offset == segmentLength * (s - 1)
               length == Len(baseline)
    <3>1. offset \in Nat /\ length \in Nat /\ offset + P \in 1..length
      BY <2>1 DEF TablesTypeOK, TableOK
    <3> HIDE DEF offset, length, P
    <3>2. P \in Nat
      BY <2>1
    <3>3. offset + p \in 1..length
      BY <3>1, <3>2
    <3> QED BY <3>3 DEF offset, length
  <2>4. Usable(baseline[at(p)]) <=> \E j \in 1..N : rows[j].position = p
    BY <1>1, <2>2, <2>3
  <2>5. RowAt(s, p) = baseline[at(p)]
    BY <1>10, <2>2, <2>3
  <2> QED BY <1>15, <2>4, <2>5
<1> HIDE DEF P
<1>17. Cardinality(F) = P - b
  <2>1. F \subseteq 1..P /\ \A p \in 1..P : p \notin F <=> \E j \in 1..N : position[j] = p
    BY <1>16
  <2> HIDE DEF F
  <2>2. N \in Nat /\ b \in 1..N
    BY <1>4, <1>9
  <2> HIDE DEF N
  <2>3. /\ \A j \in 1..N : position[j] \in Nat \ {0}
        /\ \A j, k \in 1..N : j < k => position[j] < position[k]
        /\ P = position[b]
    BY <1>15
  <2>4. Passed(position, N, b, F)
    BY <2>1, <2>3 DEF Passed
  <2> QED BY <2>2, <2>3, <2>4, FailuresBefore
<1>18. P - 1 - of.tail = Cardinality(F)
  <2>1. P \in Nat /\ b \in Nat
    BY <1>9, <1>15
  <2> QED BY <1>8, <1>17, <2>1
<1> QED BY <1>12, <1>13, <1>14, <1>18 DEF of, rows, P

-----------------------------------------------------------------------------
(* The steady state.                                                           *)

LEMMA TimesGrows ==
  ASSUME NEW L \in Nat, NEW a \in Nat, NEW b \in Nat, a <= b
  PROVE  L * a \in Nat /\ L * b \in Nat /\ L * a <= L * b
<1> DEFINE d == b - a
<1>1. d \in Nat /\ b = a + d
  OBVIOUS
<1> HIDE DEF d
<1>2. L * (a + d) = L * a + L * d /\ L * d \in Nat /\ L * a \in Nat
  BY <1>1
<1> QED BY <1>1, <1>2

\* A row of every table.
LEMMA RowPlace ==
  ASSUME TablesTypeOK, Placed, NEW i \in 1..Len(baseline)
  PROVE  /\ Len(baseline) \in Nat /\ segmentLength \in Nat \ {0} /\ DOMAIN baseline = 1..Len(baseline)
         /\ baseline \in Seq(Rows) /\ TableOK(baseline) /\ baseline[i] \in Rows /\ baseline[i] \in Range1(baseline)
         /\ baseline[i].segment \in Nat \ {0} /\ baseline[i].position \in 1..segmentLength
         /\ i = segmentLength * (baseline[i].segment - 1) + baseline[i].position
         /\ baseline[i].position <= i
<1>1. /\ Len(baseline) \in Nat /\ segmentLength \in Nat \ {0} /\ DOMAIN baseline = 1..Len(baseline)
      /\ baseline \in Seq(Rows) /\ TableOK(baseline)
  <2>1. TableOK(baseline) /\ segmentLength \in SegmentLengths
    BY DEF TablesTypeOK
  <2>2. baseline \in Seq(Rows)
    BY <2>1 DEF TableOK
  <2>3. Len(baseline) \in Nat /\ DOMAIN baseline = 1..Len(baseline)
    BY <2>2
  <2>4. segmentLength \in Nat \ {0}
    BY <2>1, TableAssumption
  <2> QED BY <2>1, <2>2, <2>3, <2>4
<1>2. baseline[i] \in Rows /\ baseline[i] \in Range1(baseline)
  <2>1. baseline[i] \in Rows
    BY <1>1
  <2>2. baseline[i] \in Range1(baseline)
    BY DEF Range1
  <2> QED BY <2>1, <2>2
<1>3. baseline[i].segment = SegmentOf(i) /\ baseline[i].position = PositionOf(i)
  BY DEF Placed
<1>4. /\ SegmentOf(i) \in Nat \ {0} /\ PositionOf(i) \in 1..segmentLength
      /\ i = segmentLength * (SegmentOf(i) - 1) + PositionOf(i)
  <2>1. i \in Nat \ {0}
    BY <1>1
  <2> QED BY <1>1, <2>1, Places
<1> DEFINE offset == segmentLength * (SegmentOf(i) - 1)
           p == PositionOf(i)
<1>5. offset \in Nat /\ p \in Nat /\ i = offset + p
  <2>1. SegmentOf(i) - 1 \in Nat /\ SegmentOf(i) - 1 <= SegmentOf(i) - 1 /\ p \in Nat
    BY <1>1, <1>4
  <2> QED BY <1>1, <1>4, <2>1, TimesGrows
<1>6. p <= i
  <2> HIDE DEF offset, p
  <2> QED BY <1>5
<1> QED BY <1>1, <1>2, <1>3, <1>4, <1>6

\* The row of a segment at a position.
LEMMA PlaceRow ==
  ASSUME TablesTypeOK, Placed, NEW s \in Nat \ {0}, NEW p \in 1..segmentLength,
         segmentLength * (s - 1) + p \in 1..Len(baseline)
  PROVE  LET i == segmentLength * (s - 1) + p
         IN  baseline[i].segment = s /\ baseline[i].position = p /\ baseline[i] \in Range1(baseline)
<1> DEFINE i == segmentLength * (s - 1) + p
<1>1. segmentLength \in Nat \ {0}
  BY TableAssumption DEF TablesTypeOK
<1>2. SegmentOf(i) = s /\ PositionOf(i) = p
  BY <1>1, Places
<1> HIDE DEF i
<1>3. i \in 1..Len(baseline)
  BY DEF i
<1>4. baseline[i].segment = SegmentOf(i) /\ baseline[i].position = PositionOf(i)
  BY <1>3 DEF Placed
<1>5. baseline[i] \in Range1(baseline)
  BY <1>3 DEF Range1
<1> QED BY <1>2, <1>4, <1>5 DEF i

\* The positions of a table are those from one on: of its first segment.
LEMMA PositionsOf ==
  ASSUME TablesTypeOK, Placed, baseline # <<>>
  PROVE  LET n == Cardinality(Positions(baseline))
         IN  /\ Positions(baseline) = 1..n /\ n \in 1..Len(baseline) /\ n <= segmentLength
             /\ \A i \in 1..n : baseline[i].position = i /\ baseline[i].segment = 1
<1> DEFINE n == IF Len(baseline) < segmentLength THEN Len(baseline) ELSE segmentLength
<1>1. /\ Len(baseline) \in Nat \ {0} /\ segmentLength \in Nat \ {0}
  BY TableAssumption DEF TablesTypeOK, TableOK
<1>2. n \in 1..Len(baseline) /\ n <= segmentLength /\ n \in Nat \ {0}
  BY <1>1
<1>3. ASSUME NEW i \in 1..n PROVE baseline[i].position = i /\ baseline[i].segment = 1 /\ i \in 1..Len(baseline)
  <2>1. segmentLength * (1 - 1) + i = i /\ i \in 1..segmentLength /\ i \in 1..Len(baseline) /\ 1 \in Nat \ {0}
    BY <1>1, <1>2
  <2> QED BY <2>1, PlaceRow
<1>4. Positions(baseline) \subseteq 1..n
  <2> SUFFICES ASSUME NEW i \in 1..Len(baseline) PROVE baseline[i].position \in 1..n
    BY DEF Positions, Range1
  <2>1. baseline[i].position \in 1..segmentLength /\ baseline[i].position <= i
    BY RowPlace
  <2> QED BY <1>1, <2>1
<1>5. 1..n \subseteq Positions(baseline)
  <2> SUFFICES ASSUME NEW i \in 1..n PROVE i \in Positions(baseline)
    OBVIOUS
  <2> QED BY <1>3 DEF Positions, Range1
<1> HIDE DEF n
<1>6. Positions(baseline) = 1..n
  BY <1>4, <1>5
<1>7. Cardinality(1..n) = n
  <2>1. 1 \in Int /\ n \in Int /\ ~(1 > n) /\ n - 1 + 1 = n
    BY <1>2
  <2> QED BY <2>1, FS_Interval
<1> QED BY <1>2, <1>3, <1>6, <1>7

\* From 0.8 of the iterations on, all take one time.
LateFrom == (8 * Cardinality(Positions(baseline))) \div 10
LateTake(v) ==
  \A i \in 1..Len(baseline) :
    baseline[i].position >= LateFrom => Usable(baseline[i]) /\ baseline[i].ms = v

LEMMA LateRange ==
  ASSUME NEW n \in Nat \ {0}
  PROVE  (8 * n) \div 10 \in 0..(n - 1)
OBVIOUS

\* So does the median at each.
LEMMA LateMedians ==
  ASSUME TablesTypeOK, Placed, baseline # <<>>, NEW v, LateTake(v), NEW p \in Positions(baseline)
  PROVE  /\ MediansByPosition(baseline)[p] \in Nat
         /\ p >= LateFrom => MediansByPosition(baseline)[p] = 2 * v
<1> DEFINE places == {i \in DOMAIN baseline : baseline[i].position = p}
           rows == AtPosition(baseline, p)
<1>1. rows = Kept(baseline, places) /\ MediansByPosition(baseline)[p] = MedianTwice(Ms(rows))
  BY DEF AtPosition, MediansByPosition
<1>2. baseline \in Seq(Rows) /\ Len(baseline) \in Nat /\ DOMAIN baseline = 1..Len(baseline)
  BY DEF TablesTypeOK, TableOK
<1>3. PICK k \in 1..Len(baseline) : baseline[k].position = p
  BY DEF Positions, Range1
<1>4. k \in (1..Len(baseline)) \intersect places
  BY <1>2, <1>3
<1> HIDE DEF places, rows
<1>5. rows \in Seq(Rows) /\ Range1(rows) = {baseline[i] : i \in (1..Len(baseline)) \intersect places}
  BY <1>1, <1>2, KeptRows
<1>6. rows # <<>>
  <2>1. Range1(rows) # {}
    BY <1>4, <1>5
  <2> QED BY <2>1 DEF Range1
<1>7. MedianTwice(Ms(rows)) \in Nat
  BY <1>5, <1>6, Median
<1>8. ASSUME p >= LateFrom PROVE MedianTwice(Ms(rows)) = 2 * v
  <2>1. \A row \in Range1(rows) : row.ms = v
    BY <1>5, <1>8 DEF LateTake, places
  <2> QED BY <1>5, <1>6, <2>1, MedianOfSame
<1> QED BY <1>1, <1>7, <1>8

\* It is the steady state of the Go and the JAX plots.
LEMMA SteadyOfMedians ==
  ASSUME TablesTypeOK, Placed, baseline # <<>>, NEW v \in Nat, LateTake(v)
  PROVE  SteadyValue(baseline) = 4 * v
<1> DEFINE n == Cardinality(Positions(baseline))
           medians == MediansByPosition(baseline)
           values == Values(medians)
           index == (8 * n) \div 10 - 1
           start == IF index > 0 THEN index + 1 ELSE 1
           m == n - start + 1
           late == SubSeq(values, start, n)
<1>1. Positions(baseline) = 1..n /\ n \in Nat \ {0}
  BY PositionsOf DEF TablesTypeOK, TableOK
<1>2. DOMAIN medians = 1..n
  BY <1>1 DEF MediansByPosition
<1>3. /\ LateFrom = (8 * n) \div 10
      /\ \A p \in 1..n : medians[p] \in Nat /\ (p >= LateFrom => medians[p] = 2 * v)
  BY <1>1, LateMedians DEF LateFrom
<1>4. values = [i \in 1..n |-> medians[i]]
  BY <1>1, <1>2, ValuesOfInterval
<1> HIDE DEF n, medians, values
<1>5. LateFrom \in 0..(n - 1)
  BY <1>1, <1>3, LateRange
<1>6. start \in 1..n /\ m \in 1..n /\ start >= LateFrom
  BY <1>1, <1>3, <1>5
<1>7. values \in Seq(Nat) /\ Len(values) = n /\ \A i \in 1..n : values[i] = medians[i]
  BY <1>1, <1>3, <1>4
<1>8. SteadyValue(baseline) = MedianTwice(late)
  <2>1. SteadyValue(baseline) = IF Len(values) = 0 THEN 0 ELSE MedianTwice(
          SubSeq(values, IF (8 * Len(values)) \div 10 - 1 > 0 THEN (8 * Len(values)) \div 10 - 1 + 1 ELSE 1,
                 Len(values)))
    BY DEF SteadyValue, values, medians
  <2> QED BY <1>1, <1>7, <2>1
<1> HIDE DEF start, m
<1>9. /\ late \in Seq(Nat) /\ Len(late) = m /\ m # 0
      /\ \A i \in 1..m : late[i] = 2 * v
  <2>1. late \in Seq(Nat) /\ Len(late) = m /\ \A i \in 1..m : late[i] = values[start + i - 1]
    BY <1>1, <1>6, <1>7 DEF m
  <2>2. ASSUME NEW i \in 1..m PROVE late[i] = 2 * v
    <3>1. start + i - 1 \in 1..n /\ start + i - 1 >= LateFrom
      BY <1>1, <1>5, <1>6 DEF m
    <3> QED BY <1>3, <1>7, <2>1, <3>1
  <2> QED BY <1>6, <2>1, <2>2
<1> HIDE DEF late
<1>10. MedianTwice(late) = 2 * (2 * v)
  BY <1>9, MedianBetween
<1> QED BY <1>8, <1>10

\* The segments with rows from a position on are those from one on.
LEMMA LateSegments ==
  ASSUME TablesTypeOK, Placed, NEW from \in Nat
  PROVE  \E m \in Nat :
           {baseline[i].segment : i \in {k \in 1..Len(baseline) : baseline[k].position >= from}} = 1..m
<1> DEFINE late == {k \in 1..Len(baseline) : baseline[k].position >= from}
           repeats == {baseline[i].segment : i \in late}
           segments == [i \in 1..Len(baseline) |-> baseline[i].segment]
<1>1. Len(baseline) \in Nat /\ segmentLength \in Nat \ {0}
  BY TableAssumption DEF TablesTypeOK, TableOK
<1>2. \A i \in 1..Len(baseline) : baseline[i].segment \in Nat \ {0}
  BY RowPlace
<1>3. PICK top \in Nat : \A i \in 1..Len(baseline) : baseline[i].segment <= top
  <2>1. segments \in Seq(Nat) /\ Len(segments) = Len(baseline)
    BY <1>1, <1>2
  <2>2. PICK top \in Nat : \A i \in 1..Len(segments) : segments[i] <= top
    BY <2>1, Bound
  <2> QED BY <2>1, <2>2
<1>4. \A r \in repeats : r \in Nat \ {0} /\ r <= top
  BY <1>2, <1>3
<1>5. ASSUME NEW r \in repeats, NEW s \in 1..r PROVE s \in repeats
  <2>1. PICK i \in late : baseline[i].segment = r
    OBVIOUS
  <2> DEFINE p == baseline[i].position
             at == segmentLength * (s - 1) + p
  <2>2. /\ i \in 1..Len(baseline) /\ p >= from /\ p \in 1..segmentLength
        /\ i = segmentLength * (r - 1) + p
    BY <2>1, RowPlace
  <2>3. /\ r - 1 \in Nat /\ s - 1 \in Nat /\ s - 1 <= r - 1 /\ s \in Nat \ {0}
    <3>1. r \in Nat \ {0}
      BY <1>4
    <3> HIDE DEF repeats
    <3> QED BY <3>1
  <2>4. /\ segmentLength * (s - 1) \in Nat /\ segmentLength * (r - 1) \in Nat
        /\ segmentLength * (s - 1) <= segmentLength * (r - 1)
    BY <1>1, <2>3, TimesGrows
  <2>5. at \in 1..Len(baseline)
    <3> DEFINE a == segmentLength * (s - 1)
               b == segmentLength * (r - 1)
               q == p
    <3>1. a \in Nat /\ b \in Nat /\ a <= b /\ q \in Nat \ {0} /\ b + q <= Len(baseline)
      BY <1>1, <2>2, <2>4
    <3> HIDE DEF a, b, q
    <3>2. a + q \in 1..Len(baseline)
      BY <1>1, <3>1
    <3> QED BY <3>2 DEF a, q
  <2>6. baseline[at].segment = s /\ baseline[at].position = p
    BY <2>2, <2>3, <2>5, PlaceRow
  <2> HIDE DEF at
  <2>7. at \in late
    BY <2>2, <2>5, <2>6
  <2> QED BY <2>6, <2>7
<1> HIDE DEF late, repeats
<1> DEFINE outside == {k \in Nat : k + 1 \notin repeats}
<1>6. top \in outside
  BY <1>4
<1>7. PICK m \in outside : \A k \in outside : m <= k
  BY <1>6, Minimum
<1>8. m \in Nat /\ m + 1 \notin repeats
  BY <1>7
<1>9. ASSUME NEW r \in 1..m PROVE r \in repeats
  <2>1. r - 1 \in Nat /\ r - 1 + 1 = r /\ ~(m <= r - 1)
    BY <1>8
  <2>2. r - 1 \notin outside
    BY <1>7, <2>1
  <2> QED BY <2>1, <2>2
<1>10. ASSUME NEW r \in repeats PROVE r \in 1..m
  <2>1. r \in Nat \ {0}
    BY <1>4
  <2>2. CASE r > m
    <3>1. m + 1 \in 1..r
      BY <1>8, <2>1, <2>2
    <3> QED BY <1>5, <1>8, <3>1
  <2>3. CASE r <= m
    BY <1>8, <2>1, <2>3
  <2> QED BY <1>8, <2>1, <2>2, <2>3
<1>11. repeats = 1..m
  BY <1>9, <1>10
<1> QED BY <1>8, <1>11 DEF repeats, late

\* And of the Node plot, that starts later.
LEMMA SteadyOfRepeats ==
  ASSUME TablesTypeOK, Placed, baseline # <<>>, NEW v \in Nat, LateTake(v)
  PROVE  RepeatSteady(baseline, Cardinality(Positions(baseline))) = 4 * v
<1> DEFINE n == Cardinality(Positions(baseline))
           start == IF (8 * n) \div 10 + 1 > 1 THEN (8 * n) \div 10 + 1 ELSE 1
           places == {i \in DOMAIN baseline : baseline[i].position >= start}
           late == Kept(baseline, places)
           repeats == {row.segment : row \in Range1(late)}
           Of(r) == Kept(late, {i \in DOMAIN late : late[i].segment = r})
           median == [r \in repeats |-> MedianTwice(Ms(Of(r)))]
           values == Values(median)
<1>1. n \in Nat \ {0} /\ n \in 1..Len(baseline) /\ baseline[n].position = n /\ LateFrom = (8 * n) \div 10
  BY PositionsOf DEF TablesTypeOK, TableOK, LateFrom
<1>2. baseline \in Seq(Rows) /\ Len(baseline) \in Nat /\ DOMAIN baseline = 1..Len(baseline)
  BY DEF TablesTypeOK, TableOK
<1>3. RepeatSteady(baseline, n) = MedianTwice(values)
  BY DEF RepeatSteady
<1> HIDE DEF n
<1>4. LateFrom \in 0..(n - 1)
  BY <1>1, LateRange
<1>5. start \in 1..n /\ start \in Nat /\ start >= LateFrom
  BY <1>1, <1>4
<1> HIDE DEF start
<1>6. /\ late \in Seq(Rows)
      /\ Range1(late) = {baseline[i] : i \in (1..Len(baseline)) \intersect places}
  <2> HIDE DEF places
  <2> QED BY <1>2, KeptRows
<1>7. (1..Len(baseline)) \intersect places = {k \in 1..Len(baseline) : baseline[k].position >= start}
  BY <1>2
<1>8. ASSUME NEW row \in Range1(late) PROVE row.ms = v
  <2>1. PICK i \in 1..Len(baseline) : row = baseline[i] /\ baseline[i].position >= start
    BY <1>6, <1>7
  <2>2. baseline[i].position \in Nat /\ start >= LateFrom /\ start \in Nat /\ LateFrom \in Nat
    BY <1>4, <1>5, RowPlace
  <2>3. baseline[i].position >= LateFrom
    BY <2>1, <2>2
  <2> QED BY <2>1, <2>3 DEF LateTake
<1>9. baseline[n] \in Range1(late)
  BY <1>1, <1>5, <1>6, <1>7
<1> HIDE DEF late, places
<1>10. PICK m \in Nat : repeats = 1..m
  <2>1. repeats = {baseline[i].segment : i \in {k \in 1..Len(baseline) : baseline[k].position >= start}}
    BY <1>6, <1>7
  <2> QED BY <1>5, <2>1, LateSegments
<1>11. m # 0
  <2>1. baseline[n].segment \in repeats
    BY <1>9
  <2>2. 1..0 = {}
    OBVIOUS
  <2> QED BY <1>10, <2>1, <2>2
<1>12. ASSUME NEW r \in repeats PROVE MedianTwice(Ms(Of(r))) = 2 * v
  <2> DEFINE its == {i \in DOMAIN late : late[i].segment = r}
             rows == Kept(late, its)
  <2>1. DOMAIN late = 1..Len(late)
    BY <1>6
  <2>2. PICK k \in 1..Len(late) : late[k].segment = r
    BY DEF Range1
  <2>3. k \in (1..Len(late)) \intersect its
    BY <2>1, <2>2
  <2> HIDE DEF its
  <2>4. rows \in Seq(Rows) /\ Range1(rows) = {late[i] : i \in (1..Len(late)) \intersect its}
    BY <1>6, KeptRows
  <2> HIDE DEF rows
  <2>5. rows # <<>>
    <3>1. Range1(rows) # {}
      BY <2>3, <2>4
    <3> QED BY <3>1 DEF Range1
  <2>6. \A row \in Range1(rows) : row.ms = v
    BY <1>8, <2>4 DEF Range1
  <2>7. MedianTwice(Ms(rows)) = 2 * v
    BY <2>4, <2>5, <2>6, MedianOfSame
  <2> QED BY <2>7 DEF rows, its
<1>13. values = [i \in 1..m |-> median[i]]
  <2>1. DOMAIN median = 1..m
    BY <1>10
  <2> HIDE DEF median
  <2> QED BY <2>1, ValuesOfInterval
<1>14. \A i \in 1..m : median[i] = 2 * v
  BY <1>10, <1>12
<1> HIDE DEF median, values
<1>15. values \in Seq(Nat) /\ Len(values) = m /\ \A i \in 1..m : values[i] = 2 * v
  BY <1>13, <1>14
<1>16. MedianTwice(values) = 2 * (2 * v)
  BY <1>11, <1>15, MedianBetween
<1> QED BY <1>3, <1>16 DEF n

\* And of the shape, where a process is never restarted: the tail is no longer
\* than the rows that take the time.
LEMMA SteadyOfShape ==
  ASSUME TablesTypeOK, Placed, baseline # <<>>, NEW v \in Nat, LateTake(v),
         Cardinality(Positions(baseline)) = Len(baseline),
         TailWindow <= Len(baseline) + 1 - LateFrom
  PROVE  SegmentRows(baseline, 1) # <<>> /\ SteadyTwice(SegmentRows(baseline, 1)) = 2 * v
<1> DEFINE n == Len(baseline)
           rows == SegmentRows(baseline, 1)
           N == Len(rows)
           start == IF N > TailWindow THEN N - TailWindow + 1 ELSE 1
           E == LateFrom
<1>1. /\ n \in Nat \ {0} /\ n <= segmentLength /\ segmentLength \in Nat \ {0}
      /\ \A i \in 1..n : baseline[i].position = i
  BY PositionsOf, TableAssumption DEF TablesTypeOK, TableOK
<1>2. E \in 0..(n - 1)
  BY <1>1, LateRange DEF LateFrom
<1>3. \A p \in 1..segmentLength : segmentLength * (1 - 1) + p = p
  BY <1>1
<1>4. /\ rows \in Seq(Rows)
      /\ \A j \in 1..N : /\ rows[j].position \in 1..n
                         /\ rows[j] = baseline[rows[j].position]
      /\ \A j, k \in 1..N : j < k => rows[j].position < rows[k].position
      /\ \A p \in 1..n : Usable(baseline[p]) <=> \E j \in 1..N : rows[j].position = p
  <2> DEFINE at(p) == segmentLength * (1 - 1) + p
  <2>1. /\ rows \in Seq(Rows)
        /\ \A j \in 1..N :
             /\ rows[j].position \in 1..segmentLength
             /\ at(rows[j].position) \in 1..n
             /\ rows[j] = baseline[at(rows[j].position)]
        /\ \A j, k \in 1..N : j < k => rows[j].position < rows[k].position
        /\ \A p \in 1..segmentLength :
             at(p) \in 1..n => (Usable(baseline[at(p)]) <=> \E j \in 1..N : rows[j].position = p)
    <3>1. 1 \in Nat \ {0}
      OBVIOUS
    <3> QED BY <3>1, SegmentInOrder
  <2>2. \A p \in 1..segmentLength : at(p) = p
    BY <1>3
  <2> HIDE DEF rows, at
  <2> QED BY <1>1, <2>1, <2>2
<1> HIDE DEF rows
<1>5. ASSUME NEW p \in 1..n, p >= E PROVE Usable(baseline[p]) /\ baseline[p].ms = v
  BY <1>1, <1>5 DEF LateTake
<1>6. rows # <<>> /\ N \in Nat \ {0}
  <2>1. n \in 1..n /\ n >= E
    BY <1>1, <1>2
  <2>2. PICK j \in 1..N : rows[j].position = n
    BY <1>4, <1>5, <2>1
  <2>3. N \in Nat /\ j \in 1..N
    BY <1>4
  <2> QED BY <2>3
<1>7. start \in 1..N /\ N - start + 1 <= TailWindow
  BY <1>6, ShapeAssumption
<1> HIDE DEF start, N
<1>8. ASSUME NEW i \in start..N PROVE rows[i].position >= E
  <2> SUFFICES ASSUME ~(rows[i].position >= E) PROVE FALSE
    OBVIOUS
  <2>1. i \in 1..N /\ rows[i].position \in 1..n /\ rows[i].position < E /\ E \in 1..n
    <3>1. i \in 1..N
      BY <1>6, <1>7
    <3>2. rows[i].position \in 1..n
      BY <1>4, <3>1
    <3> HIDE DEF E
    <3>3. rows[i].position < E /\ E \in 1..n
      BY <1>1, <1>2, <3>2
    <3> QED BY <3>1, <3>2, <3>3
  <2> DEFINE f == [p \in E..n |-> CHOOSE j \in 1..N : rows[j].position = p]
  <2>2. ASSUME NEW p \in E..n PROVE f[p] \in 1..N /\ rows[f[p]].position = p
    <3>1. p \in 1..n /\ p >= E
      BY <2>1
    <3>2. \E j \in 1..N : rows[j].position = p
      BY <1>4, <1>5, <3>1
    <3> QED BY <3>2
  <2>3. f = [p \in E..n |-> f[p]]
    OBVIOUS
  <2> HIDE DEF f, E
  <2>4. ASSUME NEW p \in E..n PROVE f[p] \in (i + 1)..N
    <3>1. f[p] \in 1..N /\ rows[f[p]].position = p /\ rows[i].position < p /\ p \in Nat
      BY <2>1, <2>2
    <3>2. ~(f[p] < i) /\ f[p] # i
      <4>1. f[p] < i => rows[f[p]].position < rows[i].position
        BY <1>4, <2>1, <3>1
      <4>2. rows[i].position \in Nat
        BY <2>1
      <4> QED BY <3>1, <4>1, <4>2
    <3> QED BY <1>6, <2>1, <3>1, <3>2
  <2>5. f \in Injection(E..n, (i + 1)..N)
    <3>1. f \in [E..n -> (i + 1)..N]
      BY <2>3, <2>4
    <3>2. \A p, q \in E..n : f[p] = f[q] => p = q
      BY <2>2
    <3> QED BY <3>1, <3>2 DEF Injection, IsInjective
  <2>6. IsFiniteSet((i + 1)..N) /\ Cardinality((i + 1)..N) = IF i + 1 > N THEN 0 ELSE N - (i + 1) + 1
    <3>1. i + 1 \in Int /\ N \in Int
      BY <1>6, <2>1
    <3> QED BY <3>1, FS_Interval
  <2>7. Cardinality(E..n) = n - E + 1
    <3>1. E \in Int /\ n \in Int /\ ~(E > n)
      BY <2>1
    <3> QED BY <3>1, FS_Interval
  <2>8. Cardinality(E..n) <= Cardinality((i + 1)..N)
    BY <2>5, <2>6, FS_Injection
  <2>9. Cardinality((i + 1)..N) <= N - i
    BY <1>6, <2>1, <2>6
  <2>10. N - i <= TailWindow - 1 /\ TailWindow \in Nat
    BY <1>6, <1>7, ShapeAssumption
  <2>11. TailWindow <= n + 1 - E
    BY DEF E
  <2>12. n - E + 1 <= N - i
    <3>1. Cardinality((i + 1)..N) \in Int
      BY <1>6, <2>1, <2>6
    <3> QED BY <1>1, <1>6, <2>1, <2>7, <2>8, <2>9, <3>1
  <2> QED BY <1>1, <1>6, <2>1, <2>10, <2>11, <2>12
<1>9. ASSUME NEW i \in start..N PROVE rows[i].ms = v
  <2>1. i \in 1..N
    BY <1>6, <1>7
  <2> QED BY <1>4, <1>5, <1>8, <2>1
<1>10. SteadyTwice(rows) = 2 * v
  BY <1>4, <1>6, <1>9, Steady DEF start, N
<1> QED BY <1>6, <1>10 DEF rows

LEMMA ShapeWhenTyped == TablesTypeOK /\ Placed => ShapeIsFound
<1> SUFFICES ASSUME TablesTypeOK, Placed PROVE ShapeIsFound
  OBVIOUS
<1> DEFINE shape == WarmupShape(baseline)
           n == Cardinality(Positions(baseline))
           last == {row \in Range1(baseline) : row.position >= (8 * n) \div 10}
           At(segment, p) == CHOOSE row \in Range1(baseline) :
                               row.segment = segment /\ row.position = p
           rows(segment) == SegmentRows(baseline, segment)
           Right(segment) ==
             /\ {shape[segment].halfLife, shape[segment].warmLife}
                  \subseteq {row.position : row \in Range1(rows(segment))}
             /\ HalfWay(rows(segment), At(segment, shape[segment].halfLife))
             /\ Warm(rows(segment), At(segment, shape[segment].warmLife))
             /\ shape[segment].warmLife - 1 - shape[segment].tail =
                  Cardinality({p \in 1..shape[segment].warmLife : ~Usable(At(segment, p))})
             /\ shape[segment].churn <= (At(segment, shape[segment].halfLife)).invocation
           Level(ms) ==
             /\ {GoSeries(baseline).steady, JaxSeries(baseline).steady,
                 NodeSeries(baseline, n).steady} = {4 * ms}
             /\ n = Len(baseline) /\ TailWindow <= n + 1 - ((8 * n) \div 10)
                  => shape[1].steadyTwice = 2 * ms
<1>1. /\ DOMAIN shape = {k \in {row.segment : row \in Range1(baseline)} : SegmentRows(baseline, k) # <<>>}
      /\ \A segment \in DOMAIN shape : shape[segment] = SegmentMetrics(baseline, segment)
  BY DEF WarmupShape
<1>2. \A row \in Range1(baseline) : row.segment \in Nat \ {0}
  BY RowPlace DEF Range1
<1>3. ASSUME NEW segment \in DOMAIN shape PROVE Right(segment)
  <2>1. segment \in Nat \ {0} /\ SegmentRows(baseline, segment) # <<>>
    BY <1>1, <1>2
  <2>2. \A p : At(segment, p) = RowAt(segment, p)
    BY DEF RowAt
  <2>3. shape[segment] = SegmentMetrics(baseline, segment)
    BY <1>1
  <2> DEFINE of == SegmentMetrics(baseline, segment)
  <2>4. /\ {of.halfLife, of.warmLife} \subseteq {row.position : row \in Range1(rows(segment))}
        /\ HalfWay(rows(segment), RowAt(segment, of.halfLife))
        /\ Warm(rows(segment), RowAt(segment, of.warmLife))
        /\ of.warmLife - 1 - of.tail =
             Cardinality({p \in 1..of.warmLife : ~Usable(RowAt(segment, p))})
        /\ of.churn <= (RowAt(segment, of.halfLife)).invocation
    BY <2>1, ShapeOfSegment
  <2> HIDE DEF shape, of, At, rows
  <2>5. shape[segment] = of
    BY <2>3 DEF of
  <2>6. {p \in 1..of.warmLife : ~Usable(At(segment, p))} = {p \in 1..of.warmLife : ~Usable(RowAt(segment, p))}
    BY <2>2
  <2> QED BY <2>2, <2>4, <2>5, <2>6
<1>4. ASSUME NEW ms \in Latencies, baseline # <<>>, \A row \in last : Usable(row) /\ row.ms = ms
      PROVE  Level(ms)
  <2>1. ms \in Nat
    BY TableAssumption
  <2>2. LateTake(ms)
    <3> SUFFICES ASSUME NEW i \in 1..Len(baseline), baseline[i].position >= (8 * n) \div 10
                 PROVE  Usable(baseline[i]) /\ baseline[i].ms = ms
      BY DEF LateTake, LateFrom
    <3>1. baseline[i] \in last
      BY DEF Range1
    <3> QED BY <1>4, <3>1
  <2>3. SteadyValue(baseline) = 4 * ms /\ RepeatSteady(baseline, n) = 4 * ms
    BY <1>4, <2>1, <2>2, SteadyOfMedians, SteadyOfRepeats
  <2>4. /\ GoSeries(baseline).steady = 4 * ms /\ JaxSeries(baseline).steady = 4 * ms
        /\ NodeSeries(baseline, n).steady = 4 * ms
    BY <2>3 DEF GoSeries, JaxSeries, NodeSeries
  <2>5. ASSUME n = Len(baseline), TailWindow <= n + 1 - ((8 * n) \div 10)
        PROVE  shape[1].steadyTwice = 2 * ms
    <3>1. SegmentRows(baseline, 1) # <<>> /\ SteadyTwice(SegmentRows(baseline, 1)) = 2 * ms
      BY <1>4, <2>1, <2>2, <2>5, SteadyOfShape DEF LateFrom
    <3>2. 1 \in DOMAIN shape
      <4>1. n \in 1..Len(baseline) /\ 1 \in 1..n
        BY <1>4, PositionsOf DEF TablesTypeOK, TableOK
      <4>2. baseline[1].segment = 1 /\ 1 \in 1..Len(baseline)
        BY <1>4, <2>5, <4>1, PositionsOf
      <4>3. 1 \in {row.segment : row \in Range1(baseline)}
        BY <4>2 DEF Range1
      <4> QED BY <1>1, <3>1, <4>3
    <3>3. shape[1] = SegmentMetrics(baseline, 1)
      BY <1>1, <3>2
    <3>4. SegmentMetrics(baseline, 1).steadyTwice = SteadyTwice(SegmentRows(baseline, 1))
      BY DEF SegmentMetrics
    <3> QED BY <3>1, <3>3, <3>4
  <2> HIDE DEF shape, n
  <2> QED BY <2>4, <2>5
<1> HIDE DEF Right, Level, last
<1>5. ShapeIsFound <=>
        /\ \A segment \in DOMAIN shape : Right(segment)
        /\ \A ms \in Latencies :
             baseline # <<>> /\ (\A row \in last : Usable(row) /\ row.ms = ms) => Level(ms)
  BY DEF ShapeIsFound, Right, Level, last
<1> QED BY <1>3, <1>4, <1>5

\* The half and the warm life of every segment are of rows that reached them, and
\* the four steady states agree (evaluate_warmup_shape, steady_value of the Go
\* and the JAX plots, repeat_steady of the Node plot).
THEOREM ShapesAreFound == Spec => []ShapeIsFound
BY TablesAlways, PlacedAlways, ShapeWhenTyped, PTL
=============================================================================
