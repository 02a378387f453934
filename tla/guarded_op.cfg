SPECIFICATION Spec
CONSTANTS
  h1 = h1
  h2 = h2
  Handles = {h1}
  KindOf <- OneBdd
  VarMax = 2
  NodeMax = 2
  InitCount = 1
  TermMax = 1
  GcLimit = 1
  DepthMax = 1
  TempMax = 2
  CacheMax = 1
INVARIANTS
  TypeOK
  NoDangling
PROPERTIES
  LiveNodesKept
CHECK_DEADLOCK FALSE
