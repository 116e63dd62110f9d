CONSTANT Modules <- AllModules
SPECIFICATION Spec
INVARIANTS
  TreeKeepsTheCode
  SimpleTerminates
  ModifiedLocalsExact
  EveryCycleHasAPoint
