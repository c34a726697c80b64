SPECIFICATION Spec
CONSTANTS
  logSizeLimit = 2
  logAgeLimit = 2
  granularity = 2
  pollInterval = 1
  MaxTime = 3
  MaxSize = 1
  MaxStarts = 2
  MaxErrors = 1
INVARIANTS
  TypeOK
  NoHoles
  PollsOnUntilClosed
PROPERTIES
  NothingDeletedEarly
CHECK_DEADLOCK FALSE
