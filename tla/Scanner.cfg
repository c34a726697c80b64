SPECIFICATION Spec
CONSTANTS
  PieceSizes = {1, 3, 5, 9}
  PageSize = 2
  SearchPage = 1
  Blocks <- PlainAndEscaped
  MaxBytes = 8
  MayTearEscape = FALSE
  MayStartEmpty = FALSE
INVARIANTS
  TypeOK
  ScansReachTheEnds
  OffsetsCoverTheScan
  BlocksParse
  BulkStreamsParse
  SearchEndsNextToTheBound
PROPERTIES
  CursorSpec
CHECK_DEADLOCK FALSE
