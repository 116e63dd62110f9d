CONSTANTS
  Cores = {c1, c2}
  NoCore = nocore
  Workers = 2
  Tests <- ABThenB
  repeat = 2
  commands = 1
  trials = 2
  MaxOdd = 2
  Sessions = 2
SPECIFICATION EitherSpec
INVARIANTS
  CoresAccounted
  EveryRunGathered
  CellsAreTheRowsOwn
  NoTableOfAFailedMeasurement
PROPERTY
  EveryTestStarts
CHECK_DEADLOCK FALSE
