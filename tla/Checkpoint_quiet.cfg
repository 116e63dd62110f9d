SPECIFICATION Spec
CONSTANTS
  Main = m
  NoThread = none
  Thread = {m, t1, t2}
  MaxWork = 1
  DynamicThreads = FALSE
  RepeatSigint = FALSE
  SpuriousWakeups = FALSE
  HasSockets = TRUE
  GuestMutex = TRUE
CHECK_DEADLOCK FALSE
INVARIANTS Quiescence SuspendOnlyAtRest GatewayKnows
PROPERTY TakesAtomicSnapshot
