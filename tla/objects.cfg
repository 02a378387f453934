SPECIFICATION Spec
CONSTANTS
  h1 = h1
  h2 = h2
  Handles = {h1, h2}
  KindOf <- TwoBdds
  VarMax = 2
  NodeMax = 3
  InitCount = 3
  TermMax = 1
  GcLimit = 3
  DepthMax = 0
  TempMax = 0
  CacheMax = 0
INVARIANTS
  NoDuplicates
  Canonical
PROPERTIES
  MeaningKept
CHECK_DEADLOCK FALSE
