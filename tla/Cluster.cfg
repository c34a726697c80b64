SPECIFICATION Spec
CONSTANTS
  Workers = {w1, w2}
  NoWorker = NoWorker
  MaxFiles = 3
  MaxRuns = 1
  MaxMasterRecords = 2
  MaxWorkerRecords = 1
  MaxTime = 0
  MaxThrows = 1
  MaxRefused = 1
SYMMETRY Symmetry
INVARIANTS
  TypeOK
  NoWriterBehind
  ScanAgrees
  PingsListTheLiving
  WorkersAreBracketed
  EachProcessIsContiguous
CHECK_DEADLOCK FALSE
