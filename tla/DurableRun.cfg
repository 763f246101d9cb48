SPECIFICATION DurableSpec
SYMMETRY Symmetry
CONSTANTS
  Workers = {w1, w2}
  MaxIterations = 3
  MaxCost = 6
  Costs = {2}
  Grain = 3
  CallLists <- MCCallLists
  Keep = 1
  Resumable <- Returned
  MaxResumes = 2
  MaxLosses = 1
INVARIANTS BegunOncePerLoss TurnsAccounted ToolsWithinBudget
PROPERTIES StoreAdvances
