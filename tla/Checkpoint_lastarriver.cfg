SPECIFICATION FairSpec
CONSTANTS
  Main = m
  NoThread = none
  Thread = {m, t1}
  MaxWork = 0
  DynamicThreads = FALSE
  RepeatSigint = FALSE
  SpuriousWakeups = FALSE
  HasSockets = FALSE
  GuestMutex = TRUE
CHECK_DEADLOCK FALSE
PROPERTIES JobFinished
