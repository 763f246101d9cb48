SPECIFICATION Spec
CONSTANTS
  slow = slow
  flaky = flaky
  quick = quick
  never = never
  Calls <- MCCalls
  Sync <- MCSync
  MaxAttempts <- MCMaxAttempts
  RetryableOn <- MCRetryableOn
  Unloggable <- MCUnloggable
  MaxConcurrency = 1
  PoolSize = 1
INVARIANTS PermitsConserved OrphansAnnounced RetriesJustified SuccessIsOfItsAttempt CompletionIsFinal
PROPERTIES ImplementsContract
