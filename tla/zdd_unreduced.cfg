SPECIFICATION Spec
CONSTANTS
  h1 = h1
  h2 = h2
  Handles = {h1, h2}
  KindOf <- ZddAndUnreduced
  VarMax = 2
  NodeMax = 2
  InitCount = 2
  TermMax = 1
  GcLimit = 1
  DepthMax = 1
  TempMax = 1
  CacheMax = 0
INVARIANTS
  TableExact
  WellKinded
  KindsPure

CHECK_DEADLOCK FALSE
