SPECIFICATION Spec
CONSTANTS
  p1 = p1
  s1 = s1
  x = x
  y = y
  Empty = Empty
  Missing = Missing
  Questions <- MCQuestions
  Parallel <- MCParallel
  Truths <- MCTruths
  Decisions <- MCDecisions
  Concurrency = 1
INVARIANTS GradesSound ClearCasesAreExact
