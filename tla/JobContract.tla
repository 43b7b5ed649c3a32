---------------------------- MODULE JobContract ----------------------------
(***************************************************************************)
(* What the durable job queue of the memory worker promises its callers,   *)
(* with the lease bookkeeping (tokens, generations, expiry times, recovery *)
(* sweeps) abstracted away.  A job waits, is held by at most one worker,   *)
(* and ends done or dead; it is started at most MaxAttempts[j] times; a    *)
(* worker that vanished keeps the job held, with no holder, until the      *)
(* lease lapses.  Module JobLease implements this specification.           *)
(***************************************************************************)
EXTENDS Naturals

CONSTANTS
  Workers,      \* worker processes
  Jobs,         \* rows of the jobs table
  NoWorker,     \* the holder of a job nobody holds
  MaxAttempts   \* jobs.max_attempts, for each job

VARIABLES
  phase,        \* phase[j]: "pending", "running", "succeeded" or "dead"
  holder,       \* holder[j]: the worker whose writes for j are accepted
  starts        \* starts[j]: how often j was handed to a worker

contractVars == <<phase, holder, starts>>

ContractInit ==
  /\ phase = [j \in Jobs |-> "pending"]
  /\ holder = [j \in Jobs |-> NoWorker]
  /\ starts = [j \in Jobs |-> 0]

\* A waiting job with budget left is handed to a worker.
Start(w, j) ==
  /\ phase[j] = "pending"
  /\ starts[j] < MaxAttempts[j]
  /\ phase' = [phase EXCEPT ![j] = "running"]
  /\ holder' = [holder EXCEPT ![j] = w]
  /\ starts' = [starts EXCEPT ![j] = @ + 1]

\* The holder completes its job, hands it back for a retry, or gives it up.
End(w, j, p) ==
  /\ holder[j] = w
  /\ p = "pending" => starts[j] < MaxAttempts[j]
  /\ phase' = [phase EXCEPT ![j] = p]
  /\ holder' = [holder EXCEPT ![j] = NoWorker]
  /\ UNCHANGED starts

\* The worker vanishes; its job stays held by nobody until the lease lapses.
Vanish(w) ==
  /\ holder' = [j \in Jobs |-> IF holder[j] = w THEN NoWorker ELSE holder[j]]
  /\ UNCHANGED <<phase, starts>>

\* The leases of the jobs in S lapse together: each goes back to the queue, or
\* dies if its budget is spent.
Lapse(S) ==
  /\ \A j \in S : phase[j] = "running"
  /\ phase' = [j \in Jobs |->
       IF j \notin S THEN phase[j]
       ELSE IF starts[j] < MaxAttempts[j] THEN "pending" ELSE "dead"]
  /\ holder' = [j \in Jobs |-> IF j \in S THEN NoWorker ELSE holder[j]]
  /\ UNCHANGED starts

ContractNext ==
  \/ \E w \in Workers, j \in Jobs :
       \/ Start(w, j)
       \/ \E p \in {"pending", "succeeded", "dead"} : End(w, j, p)
  \/ \E w \in Workers : Vanish(w)
  \/ \E S \in SUBSET Jobs : Lapse(S)

ContractSpec == ContractInit /\ [][ContractNext]_contractVars
============================================================================
