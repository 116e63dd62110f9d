CONSTANTS
  BUFFER_SIZE = 3
  Logged = 2
  MaxSize = 10
SPECIFICATION FairSpec
INVARIANTS
  TypeOK
  Intact
  EndsAtTheEnd
  BufferRegistered
  MultipleIsNotNoticed
PROPERTY
  ReaderEnds
CHECK_DEADLOCK FALSE
