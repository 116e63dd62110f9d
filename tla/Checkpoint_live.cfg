SPECIFICATION FairSpec
CONSTANTS
  Main = m
  NoThread = none
  Thread = {m, t1, t2}
  MaxWork = 0
  DynamicThreads = FALSE
  RepeatSigint = FALSE
  SpuriousWakeups = FALSE
  HasSockets = FALSE
  GuestMutex = FALSE
CHECK_DEADLOCK FALSE
PROPERTIES CheckpointTaken
