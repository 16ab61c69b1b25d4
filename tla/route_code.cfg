CONSTANTS
  Benchmarks <- BenchmarkNames
  States <- Tickets
  ProfileSeeds <- Seeds
  N = 4
  Percent = 100
  GenericTable <- HandlerRoutes
  SpecTable <- CodegenRouteSpecs
  Mix <- MixAll
  Block <- BlockApart
  MaxProfiles = 2
  Requests = 2
  W = 6
  MixShift = 3
  MixFirst = 13
  MixSecond = 19
  TokenDown = 3
  TokenUp = 2
  WindowBits = 3
  WindowFactor = 17
  ExpandKey = 21
  BoostBits = 3
  BoostFactor = 3
  Salts = {61, 53, 27, 43}
  Rounds = 2
  MaxIndex = 7
SPECIFICATION CodeSpec
INVARIANTS SameChecksum NeverUnreachable BlocksAgree
CHECK_DEADLOCK FALSE
