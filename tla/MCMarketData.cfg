SPECIFICATION Spec
CONSTANTS
  Symbols <- MCSymbols
  BufferSize <- MCBufferSize
  Subjects <- MCSubjects
  MaxMessages = 3
  MaxPasses = 2
INVARIANTS
  TypeOK
  LatestPricesKept
  SavedAtMostOnce
CHECK_DEADLOCK FALSE
