SPECIFICATION LoggersSpec
CONSTANTS
  Values <- WorkerLogs
  maxSize = 7
  InitialCapacity = 2
  Hole = Hole
  Requests = {"r1"}
  TheWorker = "worker"
  MaxDebug <- Debugs
INVARIANTS
  LoggersTypeOK
  CapacityIsBounded
  DebugLogsHaveOneHome
PROPERTIES
  FifoSpec
CHECK_DEADLOCK FALSE
