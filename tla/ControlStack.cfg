CONSTANTS
  Codes <- AllBodies
  Unwritten = unwritten
SPECIFICATION Spec
INVARIANTS
  TypeOK
  BlocksRestored
  HeightsRestored
  NoElseReplayed
  FaultsOnlyWhereUnsupported
