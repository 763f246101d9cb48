SPECIFICATION Spec
CONSTANTS
  Callers = {c1, c2, c3}
  Unit = 2
  Burst = 3
  FailureThreshold = 2
  SuccessThreshold = 2
  Reset = 2
  MaxFailures = 2
INVARIANTS LateCallsAreOld StreaksAct RateConforms
PROPERTIES ChangesAsDocumented CallsEnd
