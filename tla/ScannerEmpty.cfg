SPECIFICATION Spec
CONSTANTS
  PieceSizes = {1, 3, 5, 9}
  PageSize = 2
  SearchPage = 1
  Blocks <- PlainAndEscaped
  MaxBytes = 4
  MayTearEscape = FALSE
  MayStartEmpty = TRUE
INVARIANTS
  ScansReachTheEnds
CHECK_DEADLOCK FALSE
