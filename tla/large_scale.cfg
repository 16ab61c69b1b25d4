SPECIFICATION FairSpec
CONSTANTS
  Benchmarks <- OneBenchmark
  Shards <- TwoShards
  Waves = 2
  Positions = 2
  PrefixLength = 2
  NameLimit = 5
  MaxFaults = 1
INVARIANTS PositionNeverFlattered TreatmentHolds PositionsComplete
PROPERTY Ends
