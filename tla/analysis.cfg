SPECIFICATION FairSpec
CONSTANTS
  r1 = r1  r2 = r2  c1 = c1
  Readings <- MCReadings
  CellOf <- MCCellOf
  DecibelOf <- MCDecibelOf
  Batches <- MCBatches
  Streams = {s1}
  Zones = {z1}
  Followers = {f1}
  Pools = {TRUE, FALSE}
  ZoneLimit = 2
  MaxTime = 2
  TopN = 2
  ChunkSize = 1
  NoView = NoView
  Unseen = Unseen
INVARIANTS SavedIsAnswered BatchIsWhole ViewIsWithinRows
PROPERTIES ViewsMoveForward AnsweredIsSaved ViewsCatchUp
