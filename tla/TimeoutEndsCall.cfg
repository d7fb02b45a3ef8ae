SPECIFICATION FairSpec
CONSTANTS
  MaxRequests = 2
  MaxEvents = 1
  MaxTokens = 2
  MaxControls = 0
CHECK_DEADLOCK FALSE
PROPERTIES
  TimeoutEndsCall
