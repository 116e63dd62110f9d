SPECIFICATION Spec
CONSTANTS
  Main = m
  NoThread = none
  Thread = {m, t1}
  MaxWork = 0
  DynamicThreads = FALSE
  RepeatSigint = FALSE
  SpuriousWakeups = TRUE
  HasSockets = FALSE
  GuestMutex = FALSE
CHECK_DEADLOCK FALSE
INVARIANT Quiescence
