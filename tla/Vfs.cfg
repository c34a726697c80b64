SPECIFICATION Spec
CONSTANTS
  Callers = {c1, c2}
  PageSize = 2
  maxCacheSize = 5
  MaxBytes = 8
  MaxLength = 4
INVARIANTS
  TypeOK
  CallsAreExclusive
  CacheIsCoherent
  QueueIsOrderOfUse
  ReadReturnsTheSource
