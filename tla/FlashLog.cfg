SPECIFICATION Spec
CONSTANTS
  Dwords = 3
  PageDwords = 1
  MaxBoots = 2
  Blank = Blank
  Pasts = {Blank, 1}
  FrameLen = 3
  PfSize = 3
  WhPulses = 1
  BadWhPulses = {2}
  States = {"55", "F2", "AA"}
  MaxPulses = 3
  MaxWh = 2
  MaxCount = 3
CHECK_DEADLOCK FALSE
INVARIANTS
  TypeOK
  NeverReadsOld
  WholeFrameTaken
  PulsesKept
PROPERTIES
  SavedOnlyGrows
