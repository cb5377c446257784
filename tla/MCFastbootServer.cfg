SPECIFICATION FairSpec
CONSTANTS
  None = None
  p1 = p1
  b1 = b1
  b2 = b2
  b3 = b3
  Part = {p1}
  Backing = {b1, b2, b3}
  MaxLuns = 2
  PartSize = 2
  MaxChunks = 3
  MaxCommands = 3
  MaxFaults = 2
INVARIANTS
  StagedIsLatest
  OneReply
  OkayIsOnMedium
  UmsInStep
PROPERTY CommandEnds
