SPECIFICATION FairSpec
CONSTANT Max = 2048
CHECK_DEADLOCK FALSE
INVARIANTS
  FindsLast
PROPERTIES
  Terminates
