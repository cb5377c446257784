SPECIFICATION FairSpec
CONSTANTS
  s1 = s1
  s2 = s2
  None = None
  Stream = {s1}
  Services <- MCOne
  MaxChunks = 2
  MaxWrites = 1
  MaxConnects = 2
  Timeouts = FALSE
PROPERTIES
  StopEndsTheServer
  EndReachesHost
