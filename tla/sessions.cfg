SPECIFICATION Spec
CONSTANTS
  var2level <- MCOrder
  WeightMax = 8
  Slots <- MCSlots
  Objects = {o1, o2}
  Functors = {"min", "max"}
  TerminalValues = {2, 3}
  Thresholds = {2}
  Weight <- MCWeight
  CostBounds = {1}
  MaxGeneration = 2
  MaxCalls <- MCCalls
  MaxEpochs = 1
  Programs = {"counts", "cost bounds", "values"}
  Tolerated = {}
INVARIANTS
  FamiliesKept
  ValuesKept
  CodesApart
  CountsCurrent
SYMMETRY MCSymmetry
CHECK_DEADLOCK FALSE
