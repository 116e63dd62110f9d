CONSTANTS
  Env = {main}
  Main = main
  NoEnv = noenv
  Ended = ended
  Builds <- LibPthreadOnly
SPECIFICATION FairSpec
PROPERTY
  AotResumes
CHECK_DEADLOCK FALSE
