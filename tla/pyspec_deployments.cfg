CONSTANTS
  pop = pop  sav = sav  lus = lus  h2 = h2  t1 = t1  t2 = t2
  Pods = {pop, sav}
  Threads = {t1, t2}
  Benchmarks = {lus, h2}
  Empty = Empty  Torn = Torn  Nil = Nil  Raise = Raise
  DefaultBenchmark = lus
  SavedPods = {sav}
  Require = FALSE
  Preload = FALSE
  WorkOf <- WorkSaved
  PopulateOf <- PopulateDefaultEverywhere
  Overlap = FALSE
  MaxInvocations = 2
  MaxFaults = 2
  Overlapping = {FALSE, TRUE}
SPECIFICATION FairDeploymentsSpec
INVARIANT ServedAsRequested
PROPERTY StrictComesUp
CHECK_DEADLOCK FALSE
