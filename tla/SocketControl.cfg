SPECIFICATION FairSpec
CONSTANTS
  MaxCountDown = 1
  MaxMsgs = 1
  MaxClicks = 1
  MaxFaults = 1
  NoValue = NoValue
INVARIANTS
  TypeOK
  LockedMeansOpen
  CountDownArmed
PROPERTIES
  KeepsPromise
  TripIsPosted
  OverloadIsCut
  CountDownEnds
  CloudConverges
