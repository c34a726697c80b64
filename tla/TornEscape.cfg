SPECIFICATION Spec
CONSTANTS
  PieceSizes = {1, 3, 5, 9}
  PageSize = 2
  SearchPage = 1
  Blocks <- PlainAndEscaped
  MaxBytes = 6
  MayTearEscape = TRUE
  MayStartEmpty = FALSE
INVARIANTS
  BlocksParse
CHECK_DEADLOCK FALSE
