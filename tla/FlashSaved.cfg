SPECIFICATION Spec
CONSTANTS
  Dwords = 3
  PageDwords = 1
  MaxBoots = 1
  Blank = Blank
  Pasts = {Blank}
  FrameLen = 2
  PfSize = 4
  WhPulses = 1
  BadWhPulses = {}
  States = {"55"}
  MaxPulses = 3
  MaxWh = 2
  MaxCount = 4
CHECK_DEADLOCK FALSE
INVARIANTS
  SavedIsReadBack
