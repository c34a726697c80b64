SPECIFICATION SourceSpec
CONSTANTS
  Workers = {w1}
  NoWorker = NoWorker
  MaxFiles = 3
  MaxRuns = 2
  MaxMasterRecords = 0
  MaxWorkerRecords = 1
  MaxTime = 0
  MaxThrows = 0
  MaxRefused = 0
  Modes <- AllModes
  MaxSessions = 1
  MaxDeletes = 1
CONSTRAINT Explored
INVARIANTS
  SourceTypeOK
  ServedIsPrefix
  PassedFilesAreComplete
  HandlesAreHeld
CHECK_DEADLOCK FALSE
