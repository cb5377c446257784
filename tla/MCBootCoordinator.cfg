SPECIFICATION FairSpec
CONSTANTS
  p1 = p1
  p2 = p2
  Partition = {p1, p2}
  EntriesOf <- MCEntriesOf
  Bootable <- MCBootable
  FastbootImage = {10, 11}
  MaxTaps = 2
  MaxLoads = 2
INVARIANTS
  DefaultIsBestOfScan
  NothingStaleIsExecuted
  AckedImageIsExecuted
  EventChannelStaysOpen
  StaleSelectionMovesUp
PROPERTIES
  ContinueEndsTheWait
  MenuConverges
  BootingResolves
