SPECIFICATION MCSpec
CONSTANTS
  h1 = h1
  h2 = h2
  Handles = {h1, h2}
  StartKinds = {"zdd"}
  CallMax = 2
  VarMax = 3
  NodeMax = 7
  InitCount = 7
  TermMax = 1
  GcLimit = 6
  CacheMax = 1
  RecurLimit = 3
  Modes = {"auto"}
PROPERTIES
  AutoNeverTooDeep
