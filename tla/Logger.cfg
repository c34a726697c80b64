SPECIFICATION FairSpec
CONSTANTS
  NumFiles = 2
  Sizes = {1, 2}
  HighWaterMark = 3
  OutputDelay = 1
  Outcomes = {"full", "short", "throws"}
  MaxRecords = 4
  MaxThrows = 2
INVARIANTS
  TypeOK
  BufferIsSound
  NothingLostOrReordered
  StartIsMarked
PROPERTIES
  WrittenUnlessFailed
  AppenderSpec
CHECK_DEADLOCK FALSE
