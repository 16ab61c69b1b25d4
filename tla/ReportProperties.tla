--------------------------- MODULE ReportProperties ---------------------------
(* What the reports have to do with the tables and with one another, for every *)
(* table a client may write and every pair of tables of a comparison.          *)
EXTENDS MeasurementReports, SeriesReports

Spec == TablesInit /\ [][TablesNext]_tables

-----------------------------------------------------------------------------
\* A failed row with another latency.
Blank(rows) == [i \in DOMAIN rows |->
                  IF Usable(rows[i]) THEN rows[i] ELSE [rows[i] EXCEPT !.ms = 0]]

FilteredReports(b, s) ==
  <<ChurnSummary(b), StatusChurnSummary(s), OpenwhiskAll(b, s), OpenwhiskTrend(b, s),
    Ms(PythonLinegraphs(b, s).saved), PlotLargeScale(b, s), RunnerSummary(b, s),
    PositionMedians(s), InvocationTrace(s), StrengthMetrics(b), SpecializationProof(b, s),
    NodeMatrix(b, s), WarmupShape(b)>>

\* How long a request took that failed, be it the timeout of one without an
\* answer, is in no figure of the reports that leave failed rows out: not in a
\* median, not in a wait, and not through the pairing of the two tables
\* (the filters of the churn clients' summaries, of the OpenWhisk and
\* large-scale plots, and of the warmup shape).
FailuresLeaveNoTrace ==
  <<Blank(baseline), Blank(saved)>> # <<baseline, saved>> =>
    FilteredReports(Blank(baseline), Blank(saved)) = FilteredReports(baseline, saved)

\* A latency counted for the saved artifact is of an invocation that the
\* baseline answered too and with the same checksum, in each plot that
\* filters for it (filter_pair, filter_rows and load_rows); one that failed,
\* or that has no partner, is in none of them.
SavedSamplesArePaired ==
  \A kept \in {FilterPair(baseline, saved), FilterRows(baseline, saved), LoadRows(baseline, saved)} :
    \A row \in Range1(kept.saved) :
      /\ Usable(row) /\ row \in Range1(saved)
      /\ Usable(baseline[row.invocation])
      /\ row.checksum # "none" /\ row.checksum = baseline[row.invocation].checksum

-----------------------------------------------------------------------------
\* Scripts that copy one another's code say the same of the same tables: the
\* two OpenWhisk plots always; the line graphs when no saved answer lacks its
\* checksum; the large-scale runner and its plot when the runner found no
\* mismatch and no saved row is unpaired; the churn clients, whichever failures
\* they look for; the matrix summary and the client's, the strength comparison
\* and the matrix in their medians; the three plots by invocation; and the
\* churn points of a plot are among the client's.
ReportsAgree ==
  LET all == OpenwhiskAll(baseline, saved)
      matrix == NodeMatrix(baseline, saved)
      strength == StrengthMetrics(baseline)
      runner == RunnerSummary(baseline, saved)
      paired == \A row \in Range1(UsableRows(saved)) :
                  row.checksum # "none" /\ Usable(baseline[row.invocation])
                                    /\ baseline[row.invocation].checksum # "none"
      answered == \A row \in Range1(baseline) \union Range1(saved) : Usable(row)
  IN /\ all = OpenwhiskTrend(baseline, saved)
     /\ Series(PythonLinegraphs(baseline, saved).baseline) = all.baseline
     /\ (\A row \in Range1(UsableRows(saved)) : row.checksum # "none")
          => Series(PythonLinegraphs(baseline, saved).saved) = all.saved
     /\ paired /\ runner.mismatches = 0
          => runner.comparison = PlotLargeScale(baseline, saved)
     /\ matrix.baseline["all"] = ChurnSummary(baseline).latency
     /\ {ChurnSummary(saved), JaxChurnSummary(saved), GoChurnSummary(saved),
         OpenwhiskChurnSummary(saved), JvmChurnSummary(saved), JuliaChurnSummary(saved),
         DotnetChurnPlot(saved)} = {StatusChurnSummary(saved)}
     /\ JuliaChurnPlot(saved).ok = JvmChurnPlot(saved).ok
     /\ \A field \in DOMAIN JuliaChurnPlot(saved) :
          JuliaChurnPlot(saved)[field] = StatusChurnSummary(saved)[field]
     /\ JvmChurnPlot(saved).max = StatusChurnSummary(saved).latency.max
     /\ all.baseline.churn \subseteq ChurnSummary(baseline).churn
     /\ strength.made => /\ 50 * strength.cold = matrix.baseline["cold"].p50
                         /\ 50 * strength.hot = matrix.baseline["hot"].p50
     /\ answered => /\ LifecyclePoints(baseline) = MediansByPosition(UsableRows(baseline))
                    /\ PaperPhases(baseline, saved, 2).made = ProfileEffect(baseline, saved).made
     /\ ProfileEffect(baseline, saved).made
          => /\ PaperPhases(baseline, saved, 2).hot = ProfileEffect(baseline, saved).after
             /\ PaperPhases(baseline, saved, 2).wins = ProfileEffect(baseline, saved).wins
             /\ \A i \in 1..2 :
                  LET split == ColdWarmSplit(<<baseline, saved>>[i])
                  IN /\ split.first = ProfileEffect(baseline, saved).first[i]
                     /\ split.warmTwice = ProfileEffect(baseline, saved).after[i]
     /\ answered /\ XlaSummary(baseline, saved).compared
          => 50 * XlaSummary(baseline, saved).savedTwice = matrix.p50Saved["all"]

\* Every statistic a report may give of the same latencies.
StatisticsInOrder ==
  LET values == Ms(baseline)
      rank == HttpInvokeSummary(baseline).latency
      linear == LinearStats(values)
  IN baseline # <<>> =>
       /\ \A stats \in {rank, linear} :
            /\ 100 * stats.min <= stats.p50 /\ stats.p50 <= stats.p95
            /\ stats.p95 <= stats.p99 /\ stats.p99 <= 100 * stats.max
       /\ linear.p50 = 50 * MedianTwice(values) /\ linear = GoDemoSummary(values)
       /\ linear.p50 <= rank.p50 /\ linear.p95 <= rank.p95 /\ linear.p99 <= rank.p99
       /\ rank = ColdStartSummary(baseline).latency
       /\ rank = OpenfaasSummary(baseline, saved).baseline
       /\ rank = ProgressiveStats(values)
       /\ \A summary \in {ExportOverhead(values), PythonPlotSummary(baseline), JavaSeries(baseline)} :
            summary.p50 = rank.p50 /\ summary.max = rank.max

\* The half and the warm life of a segment are positions of rows that were
\* accepted and did reach the threshold: the fallback to the number of rows is
\* never taken.  Before the warm life are the rows of the tail and those that
\* failed.  And where the iterations from 0.8 n on take one time, that is the
\* steady state for the Go, the JAX and the Node plot, which do not start at the
\* same one, and for the shape of a single process, if the shape's window is no
\* longer than those iterations.
ShapeIsFound ==
  LET shape == WarmupShape(baseline)
      n == Cardinality(Positions(baseline))
      last == {row \in Range1(baseline) : row.position >= (8 * n) \div 10}
  IN /\ \A segment \in DOMAIN shape :
          LET of == shape[segment]
              RowAt(p) == CHOOSE row \in Range1(baseline) :
                            row.segment = segment /\ row.position = p
              rows == SegmentRows(baseline, segment)
          IN /\ {of.halfLife, of.warmLife} \subseteq {row.position : row \in Range1(rows)}
             /\ HalfWay(rows, RowAt(of.halfLife)) /\ Warm(rows, RowAt(of.warmLife))
             /\ of.warmLife - 1 - of.tail =
                  Cardinality({p \in 1..of.warmLife : ~Usable(RowAt(p))})
             /\ of.churn <= (RowAt(of.halfLife)).invocation
     /\ \A ms \in Latencies :
          baseline # <<>> /\ (\A row \in last : Usable(row) /\ row.ms = ms)
            => /\ {GoSeries(baseline).steady, JaxSeries(baseline).steady,
                   NodeSeries(baseline, n).steady} = {4 * ms}
               /\ n = Len(baseline) /\ TailWindow <= n + 1 - ((8 * n) \div 10)
                    => shape[1].steadyTwice = 2 * ms
=============================================================================
