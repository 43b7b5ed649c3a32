\* 2 proposals, 3 identities, 2 workers, 2 attempts.
CONSTANTS
  j1 = j1
  Workers = {w1, w2}
  Jobs = {j1}
  NoJob = NoJob
  NoWorker = NoWorker
  Priority <- MCPriority
  MaxAttempts <- MCMaxAttempts
  LeaseTicks = 1
  Backoff = FALSE
  Identities = {remote, local, private}
  FirstIdentity = remote
  NoIdentity = NoIdentity
  Remote = {remote, private}
  Private = {private}
  Proposals = 2
SPECIFICATION Spec
INVARIANTS DoneMeansLinked
PROPERTIES ExecutionIsStable
