SPECIFICATION MCSpec
CONSTANTS
  W = 3
  H = 2
  Regions <- MCRegions
  LabRegions <- MCLabRegions
  MaxRects = 2
  Flips = 4
  States = 5
  PerState = 3
  None = None
  KeyHold = 3
  ActionHold = 2
  MaxQueue = 3
INVARIANT HeldActionIsHeld
CHECK_DEADLOCK FALSE
