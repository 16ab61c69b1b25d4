----------------------------- MODULE SeriesReports -----------------------------
(* What the repository makes of the table of a single run: the shape of the   *)
(* warmup after each pod restart, and the steady state of runs that start a   *)
(* process over and over.  In the table of such a run a segment is a process  *)
(* and a position an iteration of it.                                         *)
EXTENDS ResultTables, SequencesExt

CONSTANTS TailWindow,  \* rows of a segment whose median is its steady state
          WarmMargin   \* ms above it that still count as warm

ASSUME ShapeAssumption == TailWindow \in Nat \ {0} /\ WarmMargin \in Nat

-----------------------------------------------------------------------------
\* evaluate_warmup_shape reads the status alone.
SegmentRows(rows, segment) ==
  Kept(rows, {i \in DOMAIN rows :
    rows[i].status >= 200 /\ rows[i].status < 400 /\ rows[i].segment = segment})

\* Twice the median of a segment's last rows.
SteadyTwice(rows) ==
  MedianTwice(Ms(SubSeq(rows, IF Len(rows) > TailWindow THEN Len(rows) - TailWindow + 1 ELSE 1,
                        Len(rows))))

\* The mutant's comparison is strict.
HalfWayStrictly(rows, row) == 2 * row.ms < SteadyTwice(rows)

\* At most halfway from the steady state up to the first row; within the margin.
HalfWay(rows, row) ==
  LET steady == SteadyTwice(rows)
      rise == 2 * rows[1].ms - steady
  IN 4 * row.ms <= 2 * steady + (IF rise > 0 THEN rise ELSE 0)
Warm(rows, row) == 2 * row.ms <= SteadyTwice(rows) + 2 * WarmMargin

\* The position of the first row that did, or else the number of rows.
LifeOf(rows, reached) ==
  IF reached = {} THEN Len(rows) ELSE rows[Min(reached)].position

ConsecutiveTail(rows) ==
  LET first == SelectInSeq(rows, LAMBDA row : Warm(rows, row))
  IN IF first = 0 THEN Len(rows) ELSE first - 1

SegmentMetrics(table, segment) ==
  LET rows == SegmentRows(table, segment)
  IN [churn |-> rows[1].invocation, requests |-> Len(rows), first |-> rows[1].ms,
      peak |-> Greatest(Ms(SubSeq(rows, 1, IF Len(rows) < 5 THEN Len(rows) ELSE 5))),
      steadyTwice |-> SteadyTwice(rows),
      halfLife |-> LifeOf(rows, {i \in DOMAIN rows : HalfWay(rows, rows[i])}),
      warmLife |-> LifeOf(rows, {i \in DOMAIN rows : Warm(rows, rows[i])}),
      tail |-> ConsecutiveTail(rows)]

\* A segment without an accepted row has no metrics.
WarmupShape(table) ==
  [segment \in {k \in {row.segment : row \in Range1(table)} : SegmentRows(table, k) # <<>>} |->
     SegmentMetrics(table, segment)]

-----------------------------------------------------------------------------
\* The medians in the order of what they are the medians of.
Nth(S, i) == CHOOSE k \in S : Cardinality({j \in S : j < k}) = i - 1
Values(medians) == [i \in 1..Cardinality(DOMAIN medians) |-> medians[Nth(DOMAIN medians, i)]]

\* steady_value of the Go and the JAX plots: twice the median of the medians of
\* the iterations from index max(0, int(0.8 n) - 1), counted from zero, on.
SteadyValue(rows) ==
  LET medians == Values(MediansByPosition(rows))
      n == Len(medians)
      index == (8 * n) \div 10 - 1
  IN IF n = 0 THEN 0 ELSE MedianTwice(SubSeq(medians, IF index > 0 THEN index + 1 ELSE 1, n))

GoSeries(rows) == [first |-> Head(Values(MediansByPosition(rows))), steady |-> SteadyValue(rows)]
JaxSeries(rows) == GoSeries(rows)

\* repeat_steady of the Node plot: each repeat's median from iteration
\* max(1, int(0.8 n) + 1) on, then the median of those.
RepeatSteady(rows, iterations) ==
  LET start == IF (8 * iterations) \div 10 + 1 > 1 THEN (8 * iterations) \div 10 + 1 ELSE 1
      late == Kept(rows, {i \in DOMAIN rows : rows[i].position >= start})
      repeats == {row.segment : row \in Range1(late)}
      median == [r \in repeats |->
                   MedianTwice(Ms(Kept(late, {i \in DOMAIN late : late[i].segment = r})))]
  IN MedianTwice(Values(median))

NodeSeries(rows, iterations) ==
  [medians |-> Values(MediansByPosition(rows)), steady |-> RepeatSteady(rows, iterations)]

-----------------------------------------------------------------------------
\* measure_cold_starts, progressive cold starts and export overhead: statistics
\* of every row they are given; the plots of the Python prototype and of the
\* runtime comparison as well.
ColdStartSummary(rows) == [trials |-> Len(rows), latency |-> RankStats(Ms(rows))]
ProgressiveStats(values) == RankStats(values)
ExportOverhead(values) ==
  [count |-> Len(values), p50 |-> RankPercentile(values, 50),
   p95 |-> RankPercentile(values, 95), max |-> Greatest(values)]
PythonPlotSummary(rows) ==
  LET walls == Sorted(Ms(rows))
  IN [n |-> Len(rows), p50 |-> RankPercentile(walls, 50), p95 |-> RankPercentile(walls, 95),
      min |-> walls[1], max |-> walls[Len(walls)]]
JavaSeries(rows) ==
  [times |-> Ms(rows), p50 |-> RankPercentile(Ms(rows), 50), max |-> Greatest(Ms(rows)),
   statuses |-> [status \in {row.status : row \in Range1(rows)} |->
                   Cardinality({i \in DOMAIN rows : rows[i].status = status})]]

\* plot_all_benchmarks of the Go demonstration
GoDemoSummary(values) == LinearStats(values)

\* summarize_results of the JAX prototype: medians of a run with and without the
\* persistent cache, for a signature that both have.
XlaSummary(b, s) ==
  IF b = <<>> \/ s = <<>> \/ MedianTwice(Ms(b)) = 0 THEN [compared |-> FALSE]
  ELSE [compared |-> TRUE, savedTwice |-> MedianTwice(Ms(b)) - MedianTwice(Ms(s))]
=============================================================================
