SPECIFICATION Spec
CONSTANTS
  Main = m
  NoThread = none
  Thread = {m, t1, t2}
  MaxWork = 0
  DynamicThreads = TRUE
  RepeatSigint = TRUE
  SpuriousWakeups = TRUE
  HasSockets = TRUE
  GuestMutex = TRUE
CHECK_DEADLOCK FALSE
INVARIANTS TypeOK CountersAgree NobodyStuck OneSerializer
PROPERTY NoReturnDuringDump
