SPECIFICATION SourceSpec
CONSTANTS
  Workers = {w1}
  NoWorker = NoWorker
  MaxFiles = 2
  MaxRuns = 1
  MaxMasterRecords = 0
  MaxWorkerRecords = 0
  MaxTime = 0
  MaxThrows = 0
  MaxRefused = 0
  Modes <- Eager
  MaxSessions = 2
  MaxDeletes = 0
INVARIANTS
  EagerFilesAreOpen
CHECK_DEADLOCK FALSE
