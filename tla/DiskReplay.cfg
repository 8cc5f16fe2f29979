SPECIFICATION Spec
CONSTANTS
  Terms = {1, 2}
  MaxIndex = 3
  MaxBatch = 2
  MaxVotes = 1
  MaxRecords = 5
  MaxCrashes = 2
  SegmentSize = 2
INVARIANTS
  ReplayReconstructs
CHECK_DEADLOCK FALSE
