SPECIFICATION Spec
CONSTANTS
  Pods <- FivePods
  Invocations = 2
  SegmentLength = 0
  ChurnAt <- ChurnAtNone
  NoInitialChurn = FALSE
  ExportAt = 2
  Columns <- JuliaColumns
  MaxFaults = 0
INVARIANT ExportFollows
