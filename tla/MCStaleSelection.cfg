SPECIFICATION Spec
CONSTANTS
  p1 = p1
  p2 = p2
  Partition = {p1, p2}
  EntriesOf <- MCEntriesOf
  Bootable <- MCBootable
  FastbootImage = {10}
  MaxTaps = 1
  MaxLoads = 0
INVARIANT SelectedEntryIsBooted
