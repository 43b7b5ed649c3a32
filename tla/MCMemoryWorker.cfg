CONSTANTS
  j1 = j1
  m1 = m1
  remote = remote
  local = local
  off = off
  Workers = {w1, w2}
  Jobs = {j1}
  NoJob = NoJob
  NoWorker = NoWorker
  Priority <- MCPriority
  MaxAttempts <- MCMaxAttempts
  LeaseTicks = 2
  Backoff = TRUE
  Messages = {m1}
  MessageOf <- MCMessageOf
  Sources = {remote, local, off}
  FirstSource <- MCFirstSource
  NoSource = NoSource
  Remote = {remote}
  Disabled = {off}
  Untrusted = {local}
SPECIFICATION FairSpec
INVARIANTS TypeOK PaidAtMostOnce AuditMatchesAnnotations SucceededMeansAvailable
PROPERTIES JobsSettle CanonicalWritesAreFenced ImplementsLease
