SPECIFICATION FairSourceSpec
CONSTANTS
  Workers = {w1}
  NoWorker = NoWorker
  MaxFiles = 2
  MaxRuns = 2
  MaxMasterRecords = 0
  MaxWorkerRecords = 0
  MaxTime = 0
  MaxThrows = 0
  MaxRefused = 0
  Modes <- Polling
  MaxSessions = 1
  MaxDeletes = 0
CONSTRAINT Watched
PROPERTIES
  EveryFileIsServed
CHECK_DEADLOCK FALSE
