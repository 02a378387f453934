SPECIFICATION Spec
CONSTANTS
  var2level <- MCOrder
  Called = {"seq_remainder"}
  Firsts <- MCFirsts
  Seconds <- MCSeconds
  Operands <- MCOperands
  Few <- MCFew
  Sizes = {0, 1, 2}
  PermLevels <- MCPermLevels
  PermSize = 3
  Tables <- MCTables
  Divisors <- MCDivisors
  PairWeights <- MCPairWeights
  SeqFirsts <- MCSeqFirsts
  SeqSeconds <- MCSeqSeconds
  Renamings <- MCRenamings
  BddTrees <- MCBddTrees
  ZddTrees <- MCZddTrees
  CardMax = 5
  WeightMax = 8
  WeightVectors <- MCWeightVectors
  Maps <- MCMaps
  FewMaps <- MCFewMaps
  Bounds <- MCBounds
  Lists <- MCLists
  Chains <- MCChains
  Values = {0, 1, 2}
INVARIANTS
  RemainderIdentity
