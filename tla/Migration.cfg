CONSTANTS
  Scripts <- AllScripts
  trial = 2
  BurstJobs <- LowHigh
  SlowtierJobs <- OnlyLow
SPECIFICATION Spec
INVARIANTS
  RestoredGuestIsTheRightOne
  SnapshotIsItsOwn
PROPERTIES
  ScriptReturns
CHECK_DEADLOCK FALSE
