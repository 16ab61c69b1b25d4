CONSTANTS
  pop = pop  red = red  base = base  t1 = t1  t2 = t2
  Nil = Nil
  Pods = {pop, base}
  Threads = {t1}
  Mode <- ModeOf
  Require <- NoneRequired
  Schedules <- TwoSegments
  CompileVariants = 1
  MaxIterations = 1
  MaxInvocations = 2
  MaxFaults = 0
SPECIFICATION Spec
INVARIANTS PopulateEnablesCache
CHECK_DEADLOCK FALSE
