SPECIFICATION MeterSpec
CONSTANTS
  FrameLen = 2
  PfSize = 4
  WhPulses = 2
  BadWhPulses = {1}
  States = {"55"}
  MaxPulses = 5
  MaxWh = 2
  MaxCount = 8
CHECK_DEADLOCK FALSE
INVARIANTS
  NoEnergyInvented
