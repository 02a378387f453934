SPECIFICATION Spec
CONSTANTS
  var2level <- MCOrder
  WeightMax = 8
  Slots <- MCSlots
  Objects = {o1, o2}
  Functors = {"min", "max"}
  TerminalValues = {2, 3}
  Thresholds = {2}
  Weight <- MCWeight
  CostBounds = {1}
  MaxGeneration = 2
  MaxCalls <- MCCalls
  MaxEpochs = 1
  Programs = {"values"}
  Tolerated = {"threshold that is retried"}
INVARIANTS
  FamiliesKept
SYMMETRY MCSymmetry
CHECK_DEADLOCK FALSE
