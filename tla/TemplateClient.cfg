SPECIFICATION FairSpec
CONSTANTS
  MaxRequests = 2
  MaxEvents = 1
  MaxTokens = 4
  MaxControls = 1
CHECK_DEADLOCK FALSE
INVARIANTS
  TypeOK
  NoDanglingAck
PROPERTIES
  LeavesForCause
  RequestsEnd
  MessagesHandled
