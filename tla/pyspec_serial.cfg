CONSTANTS
  pop = pop  sav = sav  lus = lus  h2 = h2  t1 = t1  t2 = t2
  Pods = {pop, sav}
  Threads = {t1, t2}
  Benchmarks = {lus, h2}
  Empty = Empty  Torn = Torn  Nil = Nil  Raise = Raise
  DefaultBenchmark = lus
  SavedPods = {sav}
  Require = TRUE
  Preload = TRUE
  WorkOf <- WorkOfDeployment
  PopulateOf <- PopulateEverywhere
  Overlap = FALSE
  MaxInvocations = 2
  MaxFaults = 1
  Overlapping = {FALSE}
SYMMETRY ThreadSymmetry
SPECIFICATION DeploymentsSpec
INVARIANTS WholeArtifactsOnly FirstWorkOnce PopulateResponseAgrees SavedPodRunsItsImport
PROPERTY ImplementsArtifactCache
CHECK_DEADLOCK FALSE
