SPECIFICATION FairSpec
CONSTANT MaxPresses = 4
INVARIANTS
  ClicksFollowPresses
PROPERTIES
  ReleaseIsSeen
  PressIsSeen
