-------------------------- MODULE MeasurementReports --------------------------
(* What the repository's summaries and plots make of the tables: which rows   *)
(* each counts, how it pairs a saved row with its baseline row, and the       *)
(* statistics it gives.  One definition per script.                           *)
EXTENDS ResultTables, SequencesExt

CONSTANT WarmupRequests  \* --warmup-requests

ASSUME PhaseAssumption == WarmupRequests \in Nat \ {0}

\* 200 <= status < 400 and no error text.
Usable(row) == row.status >= 200 /\ row.status < 400 /\ row.error = "none"
Accepted(row) == row.status >= 200 /\ row.status < 400
Succeeded(row) == row.status = 200 /\ row.error = "none"

UsableRows(rows) == Kept(rows, {i \in DOMAIN rows : Usable(rows[i])})
AcceptedRows(rows) == Kept(rows, {i \in DOMAIN rows : Accepted(rows[i])})
SucceededRows(rows) == Kept(rows, {i \in DOMAIN rows : Succeeded(rows[i])})

ChurnPoints(rows) == {row.invocation : row \in {r \in Range1(rows) : r.position = 1}}

\* The checksums of a table by invocation; an empty one is none.
ChecksumsOf(rows) ==
  {<<row.invocation, row.checksum>> : row \in {r \in Range1(rows) : r.checksum # "none"}}
Matches(row, checksums) == <<row.invocation, row.checksum>> \in checksums

-----------------------------------------------------------------------------
\* http_invoke_latency.summarize: every row, also of a request that failed.
HttpInvokeSummary(rows) == [requests |-> Len(rows), latency |-> RankStats(Ms(rows))]

\* summarize_openfaas_results: no filter either.
OpenfaasSummary(b, s) ==
  LET base == RankStats(Ms(b))
      cached == RankStats(Ms(s))
  IN [baseline |-> base, cached |-> cached, p50Saved |-> base.p50 - cached.p50,
      p95Saved |-> base.p95 - cached.p95]

\* The summary of a churn client: Node's, and .NET's, which reads the status alone.
ChurnSummary(rows) ==
  LET ok == UsableRows(rows)
  IN [ok |-> Len(ok), churn |-> ChurnPoints(rows), latency |-> LinearStats(Ms(ok))]

StatusChurnSummary(rows) ==
  LET ok == AcceptedRows(rows)
  IN [ok |-> Len(ok), churn |-> ChurnPoints(rows), latency |-> LinearStats(Ms(ok))]

\* Every other client has a copy of one of the two.
JaxChurnSummary(rows) == ChurnSummary(rows)
GoChurnSummary(rows) == ChurnSummary(rows)
OpenwhiskChurnSummary(rows) == ChurnSummary(rows)
JvmChurnSummary(rows) == StatusChurnSummary(rows)
JuliaChurnSummary(rows) == StatusChurnSummary(rows)

\* write_summary of the .NET, the Julia and the JVM churn plot, from the file
\* the client wrote; Julia's gives no statistics of no rows, the JVM's no
\* percentiles.
DotnetChurnPlot(rows) == StatusChurnSummary(rows)
JuliaChurnPlot(rows) ==
  IF AcceptedRows(rows) = <<>> THEN [ok |-> 0] ELSE StatusChurnSummary(rows)
JvmChurnPlot(rows) ==
  LET values == Ms(AcceptedRows(rows))
  IN [ok |-> Len(values), churn |-> ChurnPoints(rows), min |-> Least(values),
      max |-> Greatest(values)]

-----------------------------------------------------------------------------
Series(rows) == [ok |-> Len(rows), churn |-> ChurnPoints(rows), latency |-> LinearStats(Ms(rows))]

\* The usable rows that have a checksum of a set of pairs.
Matching(rows, checksums) ==
  Kept(rows, {i \in DOMAIN rows : Usable(rows[i]) /\ Matches(rows[i], checksums)})

\* The mutant takes the baseline rows by the same pairing.
FilterPairBothWays(b, s) ==
  [baseline |-> Matching(b, ChecksumsOf(s)), saved |-> Matching(s, ChecksumsOf(b))]

\* plot_openwhisk_all: a baseline row without its partner stays in.
FilterPair(b, s) ==
  LET base == UsableRows(b)
  IN [baseline |-> base, saved |-> Matching(s, ChecksumsOf(base))]

OpenwhiskAll(b, s) ==
  LET kept == FilterPair(b, s)
  IN [baseline |-> Series(kept.baseline), saved |-> Series(kept.saved)]

\* The mutant compares checksums with those of all baseline rows, and takes
\* none on both sides for the same.
FilterRowsByStatus(b, s) ==
  [baseline |-> AcceptedRows(b),
   saved |-> Kept(s, {i \in DOMAIN s : /\ Accepted(s[i])
                                       /\ s[i].checksum = b[s[i].invocation].checksum})]

\* plot_openwhisk_trend.filter_rows, for the tables labelled so.
FilterRows(b, s) ==
  LET checksums == ChecksumsOf(Kept(b, {i \in DOMAIN b : Usable(b[i]) /\ b[i].checksum # "none"}))
      Current(rows, label) ==
        Kept(rows, {i \in DOMAIN rows :
          /\ Accepted(rows[i]) /\ rows[i].error = "none"
          /\ (label = "baseline" \/ Matches(rows[i], checksums))})
  IN [baseline |-> Current(b, "baseline"), saved |-> Current(s, "saved")]

OpenwhiskTrend(b, s) ==
  LET kept == FilterRows(b, s)
  IN [baseline |-> Series(kept.baseline), saved |-> Series(kept.saved)]

\* plot_profile_cache_linegraphs: a saved row without a checksum stays in.
PythonLinegraphs(b, s) ==
  LET base == UsableRows(b)
      checksums == ChecksumsOf(base)
  IN [baseline |-> base,
      saved |-> Kept(s, {i \in DOMAIN s :
                  Usable(s[i]) /\ (s[i].checksum = "none" \/ Matches(s[i], checksums))})]

-----------------------------------------------------------------------------
\* Two tables by position: where both have one, and where the second is faster.
Compare(b, s) ==
  LET base == MediansByPosition(b)
      after == MediansByPosition(s)
      both == DOMAIN base \intersect DOMAIN after
  IN [positions |-> both, baseline |-> [p \in both |-> base[p]],
      saved |-> [p \in both |-> after[p]],
      wins |-> {p \in both : after[p] < base[p]},
      hot |-> {p \in both : p > WarmupRequests}]

\* plot_large_scale: load_rows drops the saved rows without their match.
LoadRows(b, s) ==
  LET base == SucceededRows(b)
      checksums == ChecksumsOf(base)
  IN [baseline |-> base,
      saved |-> Kept(s, {i \in DOMAIN s : Succeeded(s[i]) /\ Matches(s[i], checksums)})]

PlotLargeScale(b, s) == LET kept == LoadRows(b, s) IN Compare(kept.baseline, kept.saved)

\* large_scale_runner.summarize keeps them and counts the mismatches, of pairs
\* that both have a checksum.
RunnerSummary(b, s) ==
  LET base == SucceededRows(b)
      after == SucceededRows(s)
      pairs == {pair \in ChecksumsOf(base) \X ChecksumsOf(after) :
                  pair[1][1] = pair[2][1]}
  IN [comparison |-> Compare(base, after), pairs |-> Cardinality(pairs),
      mismatches |-> Cardinality({pair \in pairs : pair[1] # pair[2]})]

-----------------------------------------------------------------------------
\* The mutant reads every row.
PositionMediansOfAll(rows) ==
  [cold |-> IF rows = <<>> THEN 0 ELSE MediansByPosition(rows)[1], warmup |-> 0, hot |-> 0]

\* plot_pod_churn_position_medians: the median of the medians of a phase, and
\* zero for a phase without any.
PositionMedians(rows) ==
  LET medians == MediansByPosition(UsableRows(rows))
      Phase(ps) == IF ps = {} THEN 0
                   ELSE MedianTwice([i \in 1..Cardinality(ps) |-> medians[SetToSeq(ps)[i]]])
  IN [cold |-> Phase({p \in DOMAIN medians : p = 1}),
      warmup |-> Phase({p \in DOMAIN medians : p \in 2..3}),
      hot |-> Phase({p \in DOMAIN medians : p >= 4})]

\* plot_pod_churn_invocation_traces.read_rows
InvocationTrace(rows) ==
  LET ok == UsableRows(rows)
  IN [i \in DOMAIN ok |-> <<ok[i].invocation, ok[i].position, ok[i].ms>>]

\* plot_real_non_dotnet_strength_comparison: a median of nothing raises.
StrengthMetrics(rows) ==
  LET ok == UsableRows(rows)
      cold == Ms(AtPosition(ok, 1))
      hot == Ms(Kept(ok, {i \in DOMAIN ok : ok[i].position >= 4}))
  IN IF cold = <<>> \/ hot = <<>> THEN Raised
     ELSE [made |-> TRUE, cold |-> MedianTwice(cold), hot |-> MedianTwice(hot),
           all |-> MedianTwice(Ms(ok)), max |-> Greatest(Ms(ok)), points |-> Len(ok)]

\* build_python_specialization_proof: a phase without rows raises.
Phase(position) ==
  IF position = 1 THEN "cold" ELSE IF position <= WarmupRequests THEN "warmup" ELSE "hot"

PhaseMedians(rows) ==
  [phase \in {Phase(row.position) : row \in Range1(rows)} |->
     MedianTwice(Ms(Kept(rows, {i \in DOMAIN rows : Phase(rows[i].position) = phase})))]

Answered(rows) == Kept(rows, {i \in DOMAIN rows : rows[i].status = 200})

SpecializationProof(b, s) ==
  LET generic == Answered(b)
      specialized == Answered(s)
      phases == {"cold", "warmup", "hot"}
  IN IF DOMAIN PhaseMedians(generic) \intersect DOMAIN PhaseMedians(specialized) = phases
     THEN [made |-> TRUE, generic |-> PhaseMedians(generic),
           specialized |-> PhaseMedians(specialized),
           comparison |-> Compare(generic, specialized)]
     ELSE Raised

\* plot_lifecycle, whose rows are all answers of a worker that lived.
LifecyclePoints(rows) == MediansByPosition(rows)

-----------------------------------------------------------------------------
\* summarize_matrix: the rows of a phase, and their statistics.
PhaseRows(rows, phase) ==
  Kept(rows, {i \in DOMAIN rows :
    /\ Usable(rows[i])
    /\ phase = "cold" => rows[i].position = 1
    /\ phase = "hot" => rows[i].position >= 4})

\* Where both rows succeeded and the checksums differ, be one of them missing.
ChecksumMismatches(b, s) ==
  {row.invocation : row \in {r \in Range1(UsableRows(s)) :
     \E base \in Range1(UsableRows(b)) :
       base.invocation = r.invocation /\ base.checksum # r.checksum}}

NodeMatrix(b, s) ==
  LET PhaseStats(rows) ==
        [phase \in {"all", "cold", "hot"} |-> LinearStats(Ms(PhaseRows(rows, phase)))]
      before == PhaseStats(b)
      after == PhaseStats(s)
  IN [baseline |-> before, cached |-> after,
      p50Saved |-> [phase \in DOMAIN before |-> before[phase].p50 - after[phase].p50],
      mismatches |-> ChecksumMismatches(b, s)]

\* plot_cold_warm_split of the JAX prototype: the first row and the others.
ColdWarmSplit(rows) ==
  LET warm == Kept(rows, {i \in DOMAIN rows : rows[i].invocation >= 2})
  IN [first |-> rows[1].ms,
      warmTwice |-> IF warm = <<>> THEN 2 * rows[1].ms ELSE MedianTwice(Ms(warm))]

-----------------------------------------------------------------------------
\* plot_paper_warmup_phases and plot_profile_optimization_effect: latencies by
\* invocation, from the one where the steady state is said to start; all of
\* them when there are none.  The first drops the latencies of zero.
From(rows, start) ==
  LET late == Kept(rows, {i \in DOMAIN rows : rows[i].invocation >= start})
  IN IF late = <<>> THEN rows ELSE late

PairedWins(b, s, start) ==
  LET common == {pair \in Range1(b) \X Range1(s) :
                   /\ pair[1].invocation = pair[2].invocation
                   /\ pair[1].invocation >= start}
  IN [wins |-> Cardinality({pair \in common : pair[2].ms < pair[1].ms}),
      of |-> Cardinality(common)]

PaperPhases(b, s, hotStart) ==
  LET Parsed(rows) == Kept(rows, {i \in DOMAIN rows : rows[i].ms > 0})
      base == Parsed(b)
      best == Parsed(s)
  IN IF base = <<>> \/ best = <<>> THEN Raised
     ELSE [made |-> TRUE, first |-> <<base[1].ms, best[1].ms>>,
           hot |-> <<MedianTwice(Ms(From(base, hotStart))),
                     MedianTwice(Ms(From(best, hotStart)))>>,
           wins |-> PairedWins(base, best, hotStart)]

ProfileEffect(b, s) ==
  IF b = <<>> \/ s = <<>> THEN Raised
  ELSE [made |-> TRUE, first |-> <<b[1].ms, s[1].ms>>,
        after |-> <<MedianTwice(Ms(From(b, 2))), MedianTwice(Ms(From(s, 2)))>>,
        wins |-> PairedWins(b, s, 2)]
=============================================================================
