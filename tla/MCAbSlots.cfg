SPECIFICATION Spec
CONSTANTS
  Disk = {1, 2}
  BootDisk = 2
  Pairs <- MCPairs
  Torn = Torn
  MaxCalls = 2
INVARIANTS
  OkayIsDurable
  NoHalfSwitchedPair
  OneCopySurvives
