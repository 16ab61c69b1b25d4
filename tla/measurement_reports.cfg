SPECIFICATION Spec
CONSTANTS
  c1 = c1
  c2 = c2
  Checksums <- AnswerChecksums
  PairLatencies = {1, 40}
  PlainLatencies = {1}
  Latencies = {1, 12, 40}
  FastFailure = 5
  SlowFailure = 200
  PairFailures = {0}
  Failures = {0, 500}
  PairLength = 3
  SeriesLength = 6
  SegmentLengths = {2, 6}
  WarmupRequests = 2
  TailWindow = 2
  WarmMargin = 10
SYMMETRY Symmetry
CHECK_DEADLOCK FALSE
INVARIANT FailuresLeaveNoTrace
INVARIANT SavedSamplesArePaired
INVARIANT ReportsAgree
INVARIANT StatisticsInOrder
INVARIANT ShapeIsFound
