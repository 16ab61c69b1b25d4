----------------------------- MODULE ResultTables -----------------------------
(* The tables of a comparison, and the statistics its reports compute.  A    *)
(* client invokes a function over and over and writes a row per invocation,  *)
(* whatever came back; a comparison has the rows of a baseline run and those *)
(* of a run of the same plan that restores a saved artifact.                 *)
EXTENDS Integers, Sequences, FiniteSets

CONSTANTS Checksums,      \* checksums of an answer; "none" is none
          PairLatencies,  \* latencies in ms, of the rows of a comparison
          PlainLatencies, \* those of an answer without a checksum among them
          Latencies,      \* latencies in ms, of a run that is not compared
          FastFailure,    \* how long a refused request takes
          SlowFailure,    \* how long one without an answer takes
          PairFailures,   \* statuses of the failures of a comparison
          Failures,       \* and of a run that is not compared
          PairLength,     \* invocations of a comparison
          SeriesLength,   \* invocations of a run that is not compared
          SegmentLengths  \* invocations between two pod restarts

ASSUME TableAssumption ==
  /\ PairLatencies \union PlainLatencies \union Latencies \subseteq Nat \ {0}
  /\ {FastFailure, SlowFailure} \subseteq Nat \ {0}
  /\ {PairLength, SeriesLength} \subseteq Nat
  /\ PairFailures \union Failures \subseteq {0, 500}
  /\ SegmentLengths \subseteq Nat \ {0}

VARIABLES baseline,      \* the rows of the baseline run
          saved,         \* the rows of the run with the saved artifact
          segmentLength  \* of both runs; never changes

tables == <<baseline, saved, segmentLength>>

-----------------------------------------------------------------------------
\* What one request may come to: an answer with or without a checksum, an HTTP
\* error, or no answer at all, which is status 0 and the exception's text.
RequestOnce(checksums, latencies, plain, failures) ==
  [status : {200}, error : {"none"}, checksum : checksums, ms : latencies]
    \union [status : {200}, error : {"none"}, checksum : {"none"}, ms : plain]
    \union {[status |-> status, error |-> "text", checksum |-> "none",
             ms |-> IF status = 0 THEN SlowFailure ELSE FastFailure] : status \in failures}

\* The row of invocation i.
RowOf(answer, i) ==
  [status |-> answer.status, error |-> answer.error, checksum |-> answer.checksum,
   ms |-> answer.ms, invocation |-> i, segment |-> ((i - 1) \div segmentLength) + 1,
   position |-> ((i - 1) % segmentLength) + 1]

TablesInit == baseline = <<>> /\ saved = <<>> /\ segmentLength \in SegmentLengths

\* run_http, of a run that is not compared with another.
InvokeAlone ==
  /\ saved = <<>> /\ Len(baseline) < SeriesLength
  /\ \E answer \in RequestOnce({}, {}, Latencies, Failures) :
       baseline' = Append(baseline, RowOf(answer, Len(baseline) + 1))
  /\ UNCHANGED <<saved, segmentLength>>

\* The same invocation of the two runs of a comparison.
InvokeBoth ==
  /\ Len(saved) = Len(baseline) /\ Len(baseline) < PairLength
  /\ \E answer, restored \in RequestOnce(Checksums, PairLatencies, PlainLatencies, PairFailures) :
       /\ baseline' = Append(baseline, RowOf(answer, Len(baseline) + 1))
       /\ saved' = Append(saved, RowOf(restored, Len(saved) + 1))
  /\ UNCHANGED segmentLength

TablesNext == InvokeAlone \/ InvokeBoth

Rows == [status : {0, 200, 500}, error : {"none", "text"}, checksum : Checksums \union {"none"}, ms : Nat,
         invocation : Nat \ {0}, segment : Nat \ {0}, position : Nat \ {0}]

\* Rows are in the order of their invocations, and an error text is of a
\* request that was not answered.
TableOK(rows) ==
  /\ rows \in Seq(Rows)
  /\ \A i \in 1..Len(rows) : rows[i].invocation = i /\ (rows[i].error = "none" <=> rows[i].status = 200)

\* Every request takes some time.
TookTime(rows) == \A i \in 1..Len(rows) : rows[i].ms # 0

TablesTypeOK ==
  /\ TableOK(baseline) /\ TableOK(saved) /\ TookTime(baseline) /\ TookTime(saved)
  /\ saved = <<>> \/ Len(saved) = Len(baseline)
  /\ segmentLength \in SegmentLengths

-----------------------------------------------------------------------------
\* A latency is in ms; what follows is exact where Python has floats: a median
\* is given twice, a percentile a hundredfold.
\* The k-th value in order has fewer than k below it, and k up to it.
Below(values, v) == Cardinality({i \in DOMAIN values : values[i] < v})
UpTo(values, v) == Cardinality({i \in DOMAIN values : values[i] <= v})

Sorted(values) ==
  [k \in 1..Len(values) |->
     CHOOSE v \in {values[i] : i \in DOMAIN values} : Below(values, v) < k /\ k <= UpTo(values, v)]
Least(values) == IF values = <<>> THEN 0 ELSE Sorted(values)[1]
Greatest(values) == IF values = <<>> THEN 0 ELSE Sorted(values)[Len(values)]

\* statistics.median
MedianTwice(values) ==
  LET n == Len(values)
  IN Sorted(values)[(n + 1) \div 2] + Sorted(values)[(n \div 2) + 1]

\* int((p / 100) * n), and no further than the last: an index from zero.
RankIndex(n, p) == IF (p * n) \div 100 < n - 1 THEN (p * n) \div 100 ELSE n - 1

\* int((n - 1) * p / 100), the next one, and how far between them.
LowerIndex(n, p) == ((n - 1) * p) \div 100
\* The mutant interpolates towards the greatest value.
UpperIndexLast(n, p) == n - 1

UpperIndex(n, p) == IF LowerIndex(n, p) < n - 1 THEN LowerIndex(n, p) + 1 ELSE n - 1
Weight(n, p) == ((n - 1) * p) % 100

RankPercentile(values, p) ==
  IF values = <<>> THEN 0 ELSE 100 * Sorted(values)[RankIndex(Len(values), p) + 1]

LinearPercentile(values, p) ==
  LET n == Len(values)
  IN IF n = 0 THEN 0
     ELSE Sorted(values)[LowerIndex(n, p) + 1] * (100 - Weight(n, p))
            + Sorted(values)[UpperIndex(n, p) + 1] * Weight(n, p)

StatsBy(values, percentile) ==
  [n |-> Len(values), min |-> Least(values), p50 |-> percentile[50],
   p95 |-> percentile[95], p99 |-> percentile[99], max |-> Greatest(values)]

Reported == {50, 95, 99}
RankStats(values) == StatsBy(values, [p \in Reported |-> RankPercentile(values, p)])
LinearStats(values) == StatsBy(values, [p \in Reported |-> LinearPercentile(values, p)])

-----------------------------------------------------------------------------
Range1(rows) == {rows[i] : i \in 1..Len(rows)}
Ms(rows) == [i \in 1..Len(rows) |-> rows[i].ms]

\* What a comprehension or a loop keeps of a table: the rows at some places, in
\* their order.
Kept(rows, places) ==
  LET kept[i \in 0..Len(rows)] ==
        IF i = 0 THEN <<>>
        ELSE IF i \in places THEN Append(kept[i - 1], rows[i])
        ELSE kept[i - 1]
  IN kept[Len(rows)]

\* The positions of a table, and the median at each.
Positions(rows) == {row.position : row \in Range1(rows)}
AtPosition(rows, p) == Kept(rows, {i \in DOMAIN rows : rows[i].position = p})
MediansByPosition(rows) == [p \in Positions(rows) |-> MedianTwice(Ms(AtPosition(rows, p)))]

\* A report that raised an exception.
Raised == [made |-> FALSE]
=============================================================================
