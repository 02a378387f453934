SPECIFICATION Spec
CONSTANTS
  h1 = h1
  h2 = h2
  Handles = {h1}
  KindOf <- OneQdd
  VarMax = 3
  NodeMax = 2
  InitCount = 1
  TermMax = 1
  GcLimit = 1
  DepthMax = 2
  TempMax = 2
  CacheMax = 0
INVARIANTS
  LevelsInverse
  Ordered
  NoDangling
PROPERTIES
  QddsStayComplete
  RelativeOrderKept
CHECK_DEADLOCK FALSE
