SPECIFICATION FairSpec
CONSTANTS
  DataCommands = 1
  UserCommands = 2
  Burst = 1
  MaxUrcs = 1
CHECK_DEADLOCK FALSE
INVARIANTS
  OwnAnswer
  InStep
  FaultNeedsTimeout
PROPERTIES
  CommandReturns
  UrcsHandled
