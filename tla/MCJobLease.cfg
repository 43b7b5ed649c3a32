\* 2 workers, 2 retryable jobs and 1 import job, a lease of 2 ticks.
CONSTANTS
  j1 = j1
  j2 = j2
  j3 = j3
  Workers = {w1, w2}
  Jobs = {j1, j2, j3}
  NoJob = NoJob
  NoWorker = NoWorker
  Priority <- MCPriority
  MaxAttempts <- MCMaxAttempts
  LeaseTicks = 2
  Backoff = TRUE
SPECIFICATION FairLeaseSpec
INVARIANTS LeaseTypeOK LeaseExclusive RetryBudget
PROPERTIES LeaseLostForGood ImplementsContract JobsSettle
