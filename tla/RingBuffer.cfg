CONSTANTS
  Size = 4
  MaxBytes = 8
SPECIFICATION FairSpec
INVARIANTS OutIsNext Contents
PROPERTIES DropsOnlyWhenFull BytesLeave
CHECK_DEADLOCK FALSE
