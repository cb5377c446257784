SPECIFICATION Spec
CONSTANTS
  s1 = s1
  s2 = s2
  None = None
  Stream = {s1, s2}
  Services <- MCTwo
  MaxChunks = 1
  MaxWrites = 1
  MaxConnects = 2
  Timeouts = TRUE
INVARIANTS
  OneCredit
  OneClose
  OpenBeforeWrite
  NoStaleOutput
