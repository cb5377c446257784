SPECIFICATION HandoffSpec
CONSTANTS
  None = None
  PageBytes = 1
  Top = 15
  SZ_2M = 2
  SZ_1G = 4
  SZ_32G = 8
  Listings <- MCListings
  FirstTrees <- MCFirstTrees
  Dtbs <- MCDtbs
  Kernels <- MCKernels
  InitrdSizes = {0, 3}
  DtbSizes = {1, 3}
  Cmdlines = {"quiet"}
  MaxBoots = 2
  Secondary = {c1, c2}
  MaxEpoch = 3
INVARIANTS
  PlacementSafe
  NoFalseFailure
  LiveCodeNeverOverwritten
  RelocationIsSafe
  NoStaleKernelRuns
  KernelCpusAreCoherent
PROPERTIES
  ContractHandedOn
  HandoffCompletes
