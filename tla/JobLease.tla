------------------------------ MODULE JobLease ------------------------------
(***************************************************************************)
(* The leased rows of the jobs table of type memory_extraction, and the    *)
(* statements that MemoryJobWorkerService runs against them                *)
(* (memcore/memory_worker/service.py): the claim with its recovery sweep,  *)
(* the lease renewal of JobLeaseFence, the compare-and-set writes of       *)
(* success and failure, the sweep at service start.                        *)
(*                                                                         *)
(* Time is kept relative: ttl[j] counts the ticks until lease_expires_at   *)
(* is in the past (0: expired, or NULL), and due[j] says that run_after is *)
(* not in the future.  A claim draws a fresh lease_token together with the *)
(* next lease_generation, so the generation stands for the pair.           *)
(***************************************************************************)
EXTENDS Naturals

CONSTANTS
  Workers,      \* worker processes, one worker thread each
  Jobs,         \* rows of the jobs table
  NoJob,        \* a worker's job when it has none
  NoWorker,     \* the holder of a job nobody holds
  Priority,     \* jobs.priority
  MaxAttempts,  \* jobs.max_attempts (3 for a captured message, 1 for an import)
  LeaseTicks,   \* memory_worker_lease_seconds, in ticks
  Backoff       \* TRUE: a retry waits (PostgreSQL); FALSE: it is due at once

ASSUME JobAssumption ==
  /\ NoJob \notin Jobs
  /\ NoWorker \notin Workers
  /\ Priority \in [Jobs -> Nat]
  /\ MaxAttempts \in [Jobs -> Nat \ {0}]
  /\ LeaseTicks \in Nat \ {0}
  /\ Backoff \in BOOLEAN

VARIABLES
  status,       \* status[j]: "pending", "running", "succeeded" or "dead"
  attempts,     \* attempts[j]: claims so far
  gen,          \* gen[j]: lease_generation
  ttl,          \* ttl[j]: ticks until the lease expires
  due,          \* due[j]: run_after has passed
  up,           \* up[w]: the worker's process runs
  hold,         \* hold[w]: the job the worker thread is processing
  hgen          \* hgen[w]: the generation that the worker claimed it under

jobVars == <<status, attempts, gen, ttl, due>>
leaseVars == <<status, attempts, gen, ttl, due, up, hold, hgen>>

LeaseTypeOK ==
  /\ status \in [Jobs -> {"pending", "running", "succeeded", "dead"}]
  /\ attempts \in [Jobs -> Nat]
  /\ gen \in [Jobs -> Nat]
  /\ ttl \in [Jobs -> 0..LeaseTicks]
  /\ due \in [Jobs -> BOOLEAN]
  /\ up \in [Workers -> BOOLEAN]
  /\ hold \in [Workers -> Jobs \cup {NoJob}]
  /\ hgen \in [Workers -> Nat]

LeaseInit ==
  /\ status = [j \in Jobs |-> "pending"]
  /\ attempts = [j \in Jobs |-> 0]
  /\ gen = [j \in Jobs |-> 0]
  /\ ttl = [j \in Jobs |-> 0]
  /\ due = [j \in Jobs |-> TRUE]
  /\ up = [w \in Workers |-> FALSE]
  /\ hold = [w \in Workers |-> NoJob]
  /\ hgen = [w \in Workers |-> 0]
-----------------------------------------------------------------------------
\* Seeded fault: the WHERE clause forgets lease_token and lease_generation.
OwnsAnyGeneration(w) ==
  /\ hold[w] # NoJob
  /\ status[hold[w]] = "running"
  /\ ttl[hold[w]] > 0

\* The WHERE clause that guards every leased write: the row is running under
\* the worker's own token and generation, and the lease has not expired.
Owns(w) ==
  /\ hold[w] # NoJob
  /\ status[hold[w]] = "running"
  /\ gen[hold[w]] = hgen[w]
  /\ ttl[hold[w]] > 0

\* A running row whose lease has expired (or was never given).
Stale(j) == status[j] = "running" /\ ttl[j] = 0

\* Seeded fault: an off-by-one in the sweep's comparison with max_attempts.
RecoveredOnceMore(j) ==
  IF Stale(j) THEN (IF attempts[j] > MaxAttempts[j] THEN "dead" ELSE "pending")
  ELSE status[j]

\* The recovery sweep: every stale row goes back to the queue, or dies when
\* its attempts are used up.
Recovered(j) ==
  IF Stale(j) THEN (IF attempts[j] >= MaxAttempts[j] THEN "dead" ELSE "pending")
  ELSE status[j]

\* A swept row keeps its run_after, which had passed when it was claimed.
Claimable(j) == Recovered(j) = "pending" /\ due[j]

\* Service start: the sweep runs before the worker thread is created.
StartWorker(w) ==
  /\ ~up[w]
  /\ up' = [up EXCEPT ![w] = TRUE]
  /\ status' = [j \in Jobs |-> Recovered(j)]
  /\ UNCHANGED <<attempts, gen, ttl, due, hold, hgen>>

\* One poll that finds a job: sweep and claim are one transaction.  Among the
\* due rows the highest priority wins; ties fall to run_after and created_at,
\* which are not modelled, so any of them may be taken.
Claim(w, j) ==
  /\ up[w]
  /\ hold[w] = NoJob
  /\ Claimable(j)
  /\ \A k \in Jobs : Claimable(k) => Priority[k] <= Priority[j]
  /\ status' = [k \in Jobs |-> IF k = j THEN "running" ELSE Recovered(k)]
  /\ attempts' = [attempts EXCEPT ![j] = @ + 1]
  /\ gen' = [gen EXCEPT ![j] = @ + 1]
  /\ ttl' = [ttl EXCEPT ![j] = LeaseTicks]
  /\ hold' = [hold EXCEPT ![w] = j]
  /\ hgen' = [hgen EXCEPT ![w] = gen[j] + 1]
  /\ UNCHANGED <<due, up>>

\* Seeded fault: the sweep is rolled back when there is nothing to claim.
PollEmptyNoSweep(w) ==
  /\ up[w]
  /\ hold[w] = NoJob
  /\ \A j \in Jobs : ~Claimable(j)
  /\ UNCHANGED leaseVars

\* One poll that finds nothing to claim still commits its sweep.
PollEmpty(w) ==
  /\ up[w]
  /\ hold[w] = NoJob
  /\ \A j \in Jobs : ~Claimable(j)
  /\ status' = [j \in Jobs |-> Recovered(j)]
  /\ UNCHANGED <<attempts, gen, ttl, due, up, hold, hgen>>

\* Seeded fault: the renewal forgets lease_expires_at >= now.
RenewExpired(w) ==
  /\ hold[w] # NoJob
  /\ status[hold[w]] = "running"
  /\ gen[hold[w]] = hgen[w]
  /\ ttl' = [ttl EXCEPT ![hold[w]] = LeaseTicks]
  /\ UNCHANGED <<status, attempts, gen, due, up, hold, hgen>>

\* The fence with before_provider=True extends the lease it has checked.
Renew(w) ==
  /\ Owns(w)
  /\ ttl' = [ttl EXCEPT ![hold[w]] = LeaseTicks]
  /\ UNCHANGED <<status, attempts, gen, due, up, hold, hgen>>

\* The worker thread returns from process_once.
Release(w) ==
  /\ hold' = [hold EXCEPT ![w] = NoJob]
  /\ hgen' = [hgen EXCEPT ![w] = 0]
  /\ UNCHANGED up

\* Seeded fault: the success write checks only that the job is running.
SucceedUnowned(w) ==
  /\ hold[w] # NoJob
  /\ status[hold[w]] = "running"
  /\ status' = [status EXCEPT ![hold[w]] = "succeeded"]
  /\ ttl' = [ttl EXCEPT ![hold[w]] = 0]
  /\ UNCHANGED <<attempts, gen, due>>
  /\ Release(w)

\* _record_success: the compare-and-set hits.
Succeed(w) ==
  /\ Owns(w)
  /\ status' = [status EXCEPT ![hold[w]] = "succeeded"]
  /\ ttl' = [ttl EXCEPT ![hold[w]] = 0]
  /\ UNCHANGED <<attempts, gen, due>>
  /\ Release(w)

\* Seeded fault: the status that the table's other job types use.
FailureStatusFailed(j, terminal) ==
  IF terminal \/ attempts[j] >= MaxAttempts[j] THEN "failed" ELSE "pending"

\* _record_failure: the compare-and-set hits.  A terminal error, or the last
\* attempt, kills the job; otherwise it is queued again after the backoff.
FailureStatus(j, terminal) ==
  IF terminal \/ attempts[j] >= MaxAttempts[j] THEN "dead" ELSE "pending"

Fail(w, terminal) ==
  /\ Owns(w)
  /\ LET j == hold[w] IN
       /\ status' = [status EXCEPT ![j] = FailureStatus(j, terminal)]
       /\ ttl' = [ttl EXCEPT ![j] = 0]
       /\ due' = [due EXCEPT ![j] = ~Backoff]
  /\ UNCHANGED <<attempts, gen>>
  /\ Release(w)

\* A worker that lost its lease: the success write is fenced, the failure
\* write misses, and the worker goes back to polling.
Abandon(w) ==
  /\ hold[w] # NoJob
  /\ ~Owns(w)
  /\ UNCHANGED jobVars
  /\ Release(w)

\* The process dies while it processes a job.  (A process that dies between
\* polls leaves no trace, so that case is no step of the model.  A failure
\* write that raises leaves the row in the same state.)
Crash(w) ==
  /\ up[w]
  /\ hold[w] # NoJob
  /\ up' = [up EXCEPT ![w] = FALSE]
  /\ hold' = [hold EXCEPT ![w] = NoJob]
  /\ hgen' = [hgen EXCEPT ![w] = 0]
  /\ UNCHANGED jobVars

\* Time passes: leases run down, backoffs end.
Tick ==
  /\ \E j \in Jobs : ttl[j] > 0 \/ ~due[j]
  /\ ttl' = [j \in Jobs |-> IF ttl[j] > 0 THEN ttl[j] - 1 ELSE 0]
  /\ due' = [j \in Jobs |-> TRUE]
  /\ UNCHANGED <<status, attempts, gen, up, hold, hgen>>

LeaseStep(w) ==
  \/ StartWorker(w)
  \/ \E j \in Jobs : Claim(w, j)
  \/ PollEmpty(w)
  \/ Renew(w)
  \/ Succeed(w)
  \/ \E terminal \in BOOLEAN : Fail(w, terminal)
  \/ Abandon(w)
  \/ Crash(w)

LeaseNext == Tick \/ \E w \in Workers : LeaseStep(w)

LeaseSpec == LeaseInit /\ [][LeaseNext]_leaseVars

(* The service polls as long as its process runs, a job that is being       *)
(* processed ends in one of the three ways above, a dead process is started *)
(* again, and time passes.  Nothing forces a renewal or a crash.            *)
LeaseFairness ==
  /\ WF_leaseVars(Tick)
  /\ \A w \in Workers :
       /\ WF_leaseVars(StartWorker(w))
       /\ WF_leaseVars(PollEmpty(w) \/ \E j \in Jobs : Claim(w, j))
       /\ WF_leaseVars(Succeed(w) \/ Abandon(w)
                         \/ \E terminal \in BOOLEAN : Fail(w, terminal))

FairLeaseSpec == LeaseSpec /\ LeaseFairness
-----------------------------------------------------------------------------
\* At most one worker passes the fence of a job, however late the others are
\* (the lease_token and lease_generation conditions of JobLeaseFence).
LeaseExclusive ==
  \A v, w \in Workers : Owns(v) /\ Owns(w) /\ hold[v] = hold[w] => v = w

\* No job is claimed more than max_attempts times, and one that waits in the
\* queue always has an attempt left: neither the sweep nor a failure write
\* requeues a job whose budget is spent.
RetryBudget ==
  \A j \in Jobs : /\ attempts[j] <= MaxAttempts[j]
                  /\ status[j] = "pending" => attempts[j] < MaxAttempts[j]

\* A worker that has lost its lease never owns the job again under the same
\* claim: neither a renewal nor another worker's claim revives it.
LeaseLostForGood ==
  [][\A w \in Workers :
       hold[w] # NoJob /\ ~Owns(w) /\ hold'[w] = hold[w] /\ hgen'[w] = hgen[w]
         => ~Owns(w)']_leaseVars

\* Every job ends succeeded or dead, crashes and expiries notwithstanding.
JobsSettle == \A j \in Jobs : <>(status[j] \in {"succeeded", "dead"})
-----------------------------------------------------------------------------
(* How the rows read as the contract's state: a stale row already counts as *)
(* pending (or dead) although the sweep that says so may come much later.   *)
Holds(w, j) == hold[w] = j /\ Owns(w)

Holder(j) ==
  IF \E w \in Workers : Holds(w, j)
  THEN CHOOSE w \in Workers : Holds(w, j)
  ELSE NoWorker

Contract == INSTANCE JobContract WITH
  phase  <- [j \in Jobs |-> Recovered(j)],
  holder <- [j \in Jobs |-> Holder(j)],
  starts <- attempts

\* The lease protocol implements the contract of the queue: the sweep, the
\* compare-and-set writes and the expiry times are invisible to callers.
ImplementsContract == Contract!ContractSpec
=============================================================================
