SPECIFICATION Spec
CONSTANTS
  Workers = {w1, w2}
  NoWorker = NoWorker
  MaxFiles = 2
  MaxRuns = 2
  MaxMasterRecords = 5
  MaxWorkerRecords = 1
  MaxTime = 2
  MaxThrows = 0
  MaxRefused = 0
SYMMETRY Symmetry
CONSTRAINT Explored
INVARIANTS
  RangesAreComplete
  TailIsComplete
  BulkRangesCover
CHECK_DEADLOCK FALSE
