\* Two viewers come, stall, go and come back while the parser lags.
SPECIFICATION FairStreamSpec
CONSTANTS
  v1 = v1
  v2 = v2
  Viewer <- TwoViewers
  ChunkLen <- Lengths
  WriteLen <- Lengths
  HighWater = 4
  LowWater = 1
  MaxRead = 11
  capacity = 3
  MaxWritten = 11
INVARIANTS
  SnapshotExact
  BacklogBounded
  ReplayIsRecent
PROPERTIES
  KeepsPromise
CHECK_DEADLOCK FALSE
