SPECIFICATION Spec
CONSTANTS
  Day = 2
  Intervals = {0, 2, 3}
  MaxTime = 4
  MaxRows <- MCMaxRows
  MaxStops = 1
INVARIANTS
  TypeOK
  TodayComplete
  NothingFallsBetween
CHECK_DEADLOCK FALSE
