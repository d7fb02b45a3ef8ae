SPECIFICATION Spec
CONSTANTS
  MaxCountDown = 1
  MaxMsgs = 2
  MaxClicks = 0
  MaxFaults = 0
  NoValue = NoValue
INVARIANTS
  ControlsAcknowledged
