SPECIFICATION Spec
CONSTANTS
  Providers <- MCProviders
  MaxTurns = 5
  MaxCalls = 2
  Sizes = {1}
  MaxTokens = 2
  Keeps = {0, 1, 2}
INVARIANTS AnswersMatchCalls TurnsAreDecisions LatestAreSeen
