CONSTANTS
  pop = pop  red = red  base = base  t1 = t1  t2 = t2
  Nil = Nil
  Pods = {pop, red}
  Threads = {t1, t2}
  Mode <- ModeOf
  Require <- NoneRequired
  Schedules <- ZeroAndOne
  CompileVariants = 1
  MaxIterations = 2
  MaxInvocations = 2
  MaxFaults = 3
SPECIFICATION DeploymentsSpec
INVARIANTS PopulateExportsItsVariants WarmTraceNeverCompiles ImportedIsPresent
PROPERTIES CacheOnlyGrows RacersAnswered
CHECK_DEADLOCK FALSE
