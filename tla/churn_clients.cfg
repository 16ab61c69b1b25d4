SPECIFICATION ClientsSpec
CONSTANTS
  Pods <- FourPods
  Invocations = 3
  SegmentLength = 3
  ChurnAt <- ChurnAtNone
  NoInitialChurn = TRUE
  ExportAt = 2
  Columns <- JuliaColumns
  MaxFaults = 1
INVARIANTS ColdSegments RowNamesItsPod FailedChurnShows ExportIsPrefix ConfirmedKept ChainUnbroken
PROPERTY Ends
