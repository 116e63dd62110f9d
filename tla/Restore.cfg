CONSTANTS
  Env = {main, e1, e2, e3}
  Main = main
  NoEnv = noenv
  Ended = ended
  Builds <- BothBuilds
SPECIFICATION FairSpec
INVARIANTS
  TypeOK
  HandedOver
  NobodyRunsAhead
  NoStrayPermit
  NoTurnMissed
  NothingRunsWithoutCreators
PROPERTY
  EveryoneIsSpawned
CHECK_DEADLOCK FALSE
