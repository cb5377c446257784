SPECIFICATION Spec
CONSTANTS
  PartBlocks = 4
  MaxTotal = 5
  MaxChunks = 3
  Names = {"chosen", "memory", "reserved-memory", "rest"}
  MaxTokens = 8
  Ring = 3
  Limit = 3
  HighWater = 1
  UsbDepth = 1
  Sizes = {1, 2}
  MaxRecords = 5
  MaxLosses = 2
  Layouts = {"none", "disk", "disk+p"}
  NoDisks = "none"
  Quiet = 3
  MaxWait = 7
  MaxChanges = 3
  MaxSections = 2
  MaxMarks = 3
INVARIANTS
  SparseExact
  PassesExact
  NoSilentLoss
  SettledIsQuiet
  KernelIsExtracted
CHECK_DEADLOCK FALSE
