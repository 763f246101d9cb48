SPECIFICATION Spec
CONSTANTS
  Workers = {w1}
  MaxIterations = 3
  MaxCost = 1
  Costs = {0, 1}
  Grain = 2
  CallLists <- MCCallLists
  Keep = 0
  Resumable <- AllButCompleted
  MaxResumes = 3
INVARIANTS InterruptMatchesStatus RunsOnlyCleared ObservationsInCallOrder OneDecisionPerIteration InvocationsRecorded TurnsBounded
PROPERTIES RunsOnce CallsReturn
