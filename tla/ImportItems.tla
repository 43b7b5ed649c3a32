----------------------------- MODULE ImportItems -----------------------------
(***************************************************************************)
(* The rows of import_message_processing_status and the threads of         *)
(* ImportReconstructionWorkerService that process them                     *)
(* (memcore/imports/processing.py, imports/worker.py).  The jobs rows that *)
(* the code keeps beside them are left out: it writes their status and     *)
(* never reads it.  Their one reader is the memory worker, which takes     *)
(* pending jobs from the same table and is free to run here.               *)
(*                                                                         *)
(* A worker thread handles one claim at a time, and each claim draws a     *)
(* fresh processing_attempt_uuid, so the owner stands for the pair of      *)
(* owner and attempt: Gone is the owner of a claim whose process has died, *)
(* NoOne is NULL.  fresh[i] says that lease_expires_at has not passed;     *)
(* _Heartbeat keeps the lease of a working thread fresh, unless it stalls. *)
(* A profile configuration stands for the execution target with its        *)
(* fingerprint.  run_after is left out: a scheduled retry is due at once   *)
(* or later.                                                               *)
(***************************************************************************)
EXTENDS Naturals, FiniteSets

CONSTANTS
  Runs,         \* import runs
  Messages,     \* messages of the source archives
  Items,        \* the pairs <<run, message>> with the message in the archive; every archive
                \* holds a message
  Workers,      \* worker threads, and threads serving the process endpoint
  Configs,      \* configurations that the execution profile may have
  NoOne,        \* NULL as an owner
  Gone,         \* the owner of a claim whose process has died
  NoItem,       \* no row
  MaxAttempts,  \* max_attempts of a row
  MaxEvents     \* bound on crashes, stalls, errors, changes of the profile
                \* and control requests, all together

ASSUME ImportAssumption ==
  /\ NoItem \notin Items
  /\ Items \subseteq Runs \X Messages
  /\ \A r \in Runs : \E i \in Items : i[1] = r
  /\ NoOne \notin Workers /\ Gone \notin Workers /\ NoOne # Gone
  /\ Configs # {}
  /\ MaxAttempts \in Nat \ {0}
  /\ MaxEvents \in Nat

VARIABLES
  phase,      \* phase[r]: import_runs.status
  paused,     \* paused[r]: import_progress.paused
  cancelled,  \* cancelled[r]: import_progress.cancelled
  item,       \* item[i]: status of the row, "none" when it does not exist
  owner,      \* owner[i]: lease_owner with processing_attempt_uuid
  fresh,      \* fresh[i]: lease_expires_at is set and has not passed
  tries,      \* tries[i]: retry_count
  conf,       \* conf[i]: the configuration the row was scheduled with
  ran,        \* ran[m]: configurations with a succeeded processing run
  config,     \* the profile's configuration now
  pc,         \* pc[w]: where a worker thread is
  claim,      \* claim[w]: the row it claimed
  pinned,     \* pinned[w]: expected_target is set, so each fence compares it
  verdict,    \* verdict[w]: the status finalize_if_terminal is about to write
  faults,     \* crashes, stalls, errors and profile changes so far
  controls    \* control requests so far

runVars == <<phase, paused, cancelled>>
rowVars == <<item, owner, fresh, tries, conf>>
threadVars == <<pc, claim, pinned, verdict>>
boundVars == <<faults, controls>>
itemVars == <<runVars, rowVars, ran, config, threadVars, boundVars>>

Terminal == {"succeeded", "skipped", "already_processed", "failed", "cancelled"}
Statuses == Terminal \cup {"none", "queued", "running"}
Phases == {"inspected", "reconstructed", "dry_run", "committing", "processing", "committed", "paused",
           "cancelled", "fully_reconstructed", "completed_with_failures"}
Owners == Workers \cup {NoOne, Gone}

ItemTypeOK ==
  /\ phase \in [Runs -> Phases]
  /\ paused \in [Runs -> BOOLEAN] /\ cancelled \in [Runs -> BOOLEAN]
  /\ item \in [Items -> Statuses]
  /\ owner \in [Items -> Owners]
  /\ fresh \in [Items -> BOOLEAN]
  /\ tries \in [Items -> Nat]
  /\ conf \in [Items -> Configs]
  /\ ran \in [Messages -> SUBSET Configs]
  /\ config \in Configs
  /\ pc \in [Workers -> {"poll", "recheck", "begin", "prepare", "process", "result", "fail",
                         "final", "write"}]
  /\ claim \in [Workers -> Items \cup {NoItem}]
  /\ pinned \in [Workers -> BOOLEAN]
  /\ verdict \in [Workers -> Phases \cup {"none"}]
  /\ faults \in 0..MaxEvents
  /\ controls \in 0..MaxEvents
-----------------------------------------------------------------------------
(* The rows.                                                               *)

\* Seeded fault: only rows whose owner is unknown count as abandoned.
ExpiredUnowned(i) == item[i] = "running" /\ owner[i] = NoOne /\ ~fresh[i]

\* recover_expired_leases: rows that run under an expired lease.  A row that
\* runs without a lease is not among them.
Expired(i) == item[i] = "running" /\ owner[i] # NoOne /\ ~fresh[i]

\* What the recovery leaves of the table: expired rows are queued again.
Swept(i) == IF Expired(i) THEN "queued" ELSE item[i]

SweptOwner(i) == IF Expired(i) THEN NoOne ELSE owner[i]

\* What claim_next asks of a row, after the recovery.
Claimable(i) ==
  /\ Swept(i) = "queued"
  /\ phase[i[1]] = "processing"
  /\ ~paused[i[1]]
  /\ ~cancelled[i[1]]

\* lease_fence_intact: the claim is still the worker's, unexpired, and its
\* run is being processed.  A pause shows here through the run's status.
FenceIntact(w) ==
  /\ item[claim[w]] = "running"
  /\ owner[claim[w]] = w
  /\ fresh[claim[w]]
  /\ phase[claim[w][1]] = "processing"
  /\ ~cancelled[claim[w][1]]

\* _hydrate_execution_model_target and _require_same_execution_target: the
\* profile is still configured the way the row was scheduled with.
SameTarget(w) == config = conf[claim[w]]

\* require_fence raises nothing: the lease, and once pinned the target.
Passes(w) == FenceIntact(w) /\ (pinned[w] => SameTarget(w))

\* Seeded fault: a run counts as terminal once its rows have left the queue.
OutcomeOfQueue(r) ==
  LET rows == {i \in Items : i[1] = r}
  IN  IF cancelled[r] THEN "cancelled"
      ELSE IF paused[r] THEN "paused"
      ELSE IF \E i \in rows : item[i] = "queued" THEN "none"
      ELSE "fully_reconstructed"

\* statuses: the rows of a run.
Rows(r) == {i \in Items : i[1] = r /\ item[i] # "none"}

\* processing_report, the two counts that decide: every row is done, one of
\* them has failed.  A run without a row is done.
Report(r) == [terminal |-> \A i \in Rows(r) : item[i] \in Terminal,
              failed   |-> \E i \in Rows(r) : item[i] = "failed"]

\* finalize_if_terminal, what it reads: the flags decide before the rows.
\* The run's own status is not among it.
Outcome(r) ==
  IF cancelled[r] THEN "cancelled"
  ELSE IF paused[r] THEN "paused"
  ELSE IF ~Report(r).terminal THEN "none"
  ELSE IF Report(r).failed THEN "completed_with_failures"
  ELSE "fully_reconstructed"
-----------------------------------------------------------------------------
(* A worker thread.  Poll and claim are a transaction each; the recovery   *)
(* and the claim that follows it are taken together.                       *)

Goto(w, where) == pc' = [pc EXCEPT ![w] = where]

\* The recovery alone, as each poll and the start of the service run it.
Sweep ==
  /\ item' = [i \in Items |-> Swept(i)]
  /\ owner' = [i \in Items |-> SweptOwner(i)]

\* process_one_claimed_item up to the claim.
Claim(w, i) ==
  /\ pc[w] = "poll"
  /\ Claimable(i)
  /\ item' = [k \in Items |-> IF k = i THEN "running" ELSE Swept(k)]
  /\ owner' = [k \in Items |-> IF k = i THEN w ELSE SweptOwner(k)]
  /\ fresh' = [fresh EXCEPT ![i] = TRUE]
  /\ claim' = [claim EXCEPT ![w] = i]
  /\ Goto(w, "recheck")
  /\ UNCHANGED <<runVars, tries, conf, ran, config, pinned, verdict, boundVars>>

\* finalize_ready_runs: runs in processing without an open row.
Ready == {r \in Runs : /\ phase[r] = "processing"
                       /\ \A i \in Items : i[1] = r => Swept(i) \in Terminal \cup {"none"}}

\* A poll that finds nothing finalizes the runs that are ready, one here.
PollEmpty(w) ==
  /\ pc[w] = "poll"
  /\ ~\E i \in Items : Claimable(i)
  /\ Sweep
  /\ IF Ready = {} THEN UNCHANGED <<pc, claim>>
     ELSE /\ \E r \in Ready : claim' = [claim EXCEPT ![w] = CHOOSE i \in Items : i[1] = r]
          /\ Goto(w, "final")
  /\ UNCHANGED <<runVars, fresh, tries, conf, ran, config, pinned, verdict, boundVars>>

\* POST /imports/{run}/process.  The items it takes go the way of the worker
\* threads; once none is left it finalizes the run it names, in whatever
\* state that is.
ProcessRequest(w, r) ==
  /\ pc[w] = "poll"
  /\ phase[r] \notin {"inspected", "reconstructed"}
  /\ ~\E i \in Items : i[1] = r /\ Claimable(i)
  /\ faults + controls < MaxEvents /\ controls' = controls + 1
  /\ Sweep
  /\ claim' = [claim EXCEPT ![w] = CHOOSE i \in Items : i[1] = r]
  /\ Goto(w, "final")
  /\ UNCHANGED <<runVars, fresh, tries, conf, ran, config, pinned, verdict, faults>>

\* release_claim: only a row that is still the worker's goes back.
Release(w) ==
  LET i == claim[w]
      mine == item[i] = "running" /\ owner[i] = w
  IN  /\ item' = IF mine THEN [item EXCEPT ![i] = "queued"] ELSE item
      /\ owner' = IF mine THEN [owner EXCEPT ![i] = NoOne] ELSE owner
      /\ UNCHANGED <<fresh, tries, conf>>

\* The check of run and progress after the claim; a stopped run gets its row
\* back, and the thread polls again without finalizing.
Recheck(w) ==
  /\ pc[w] = "recheck"
  /\ LET r == claim[w][1]
     IN  IF phase[r] = "processing" /\ ~paused[r] /\ ~cancelled[r]
           THEN /\ Goto(w, "begin")
                /\ UNCHANGED <<rowVars, claim>>
           ELSE /\ Release(w)
                /\ Goto(w, "poll")
                /\ claim' = [claim EXCEPT ![w] = NoItem]
  /\ UNCHANGED <<runVars, ran, config, pinned, verdict, boundVars>>

\* except ImportLeaseLost: release what is still owned, then finalize.
Lost(w) == Release(w) /\ Goto(w, "final")

\* The first fence, and once more in the statement that marks the job
\* running.
Begin(w) ==
  /\ pc[w] = "begin"
  /\ \/ /\ FenceIntact(w)
        /\ Goto(w, "prepare")
        /\ UNCHANGED rowVars
     \/ /\ ~FenceIntact(w)
        /\ Lost(w)
  /\ UNCHANGED <<runVars, ran, config, claim, pinned, verdict, boundVars>>

\* Resolving the target and prepare_message, which may call the provider.
\* A changed profile or a failed call leaves the target unpinned.
Prepare(w) ==
  /\ pc[w] = "prepare"
  /\ \/ /\ SameTarget(w)
        /\ pinned' = [pinned EXCEPT ![w] = TRUE]
        /\ Goto(w, "process")
     \/ /\ Goto(w, "fail")
        /\ UNCHANGED pinned
  /\ UNCHANGED <<runVars, rowVars, ran, config, claim, verdict, boundVars>>

\* The fence with the target, then process_message: its own writes are all
\* behind the same fence.  It succeeds, finds the fence broken, or raises.
Process(w) ==
  /\ pc[w] = "process"
  /\ \/ /\ Passes(w)
        /\ ran' = [ran EXCEPT ![claim[w][2]] = @ \cup {conf[claim[w]]}]
        /\ Goto(w, "result")
        /\ UNCHANGED rowVars
     \/ /\ ~FenceIntact(w)
        /\ Lost(w)
        /\ UNCHANGED ran
     \/ /\ FenceIntact(w)
        /\ Goto(w, "fail")
        /\ UNCHANGED <<rowVars, ran>>
  /\ UNCHANGED <<runVars, config, claim, pinned, verdict, boundVars>>

\* The result transaction: the fence and the row together.
Result(w) ==
  /\ pc[w] = "result"
  /\ \/ /\ Passes(w)
        /\ item' = [item EXCEPT ![claim[w]] = "succeeded"]
        /\ owner' = [owner EXCEPT ![claim[w]] = NoOne]
        /\ Goto(w, "final")
        /\ UNCHANGED <<fresh, tries, conf>>
     \/ /\ ~FenceIntact(w)
        /\ Lost(w)
     \/ /\ FenceIntact(w) /\ ~Passes(w)
        /\ Goto(w, "fail")
        /\ UNCHANGED rowVars
  /\ UNCHANGED <<runVars, ran, config, claim, pinned, verdict, boundVars>>

\* _failure_transition: a retryable error is queued again while the budget
\* lasts; everything else is final until a user retries it.
FailureStatus(i, retryable) ==
  IF retryable /\ tries[i] + 1 < MaxAttempts THEN "queued" ELSE "failed"

\* The failure transaction.  It asks for the same fence: a lost claim is
\* left alone, and a pinned target that changed raises out of the handler,
\* so that the row keeps running until its lease expires.
Fail(w) ==
  /\ pc[w] = "fail"
  /\ \/ /\ Passes(w)
        /\ \E retryable \in BOOLEAN :
             LET next == FailureStatus(claim[w], retryable)
             IN  /\ item' = [item EXCEPT ![claim[w]] = next]
                 /\ tries' = IF next = "queued" THEN [tries EXCEPT ![claim[w]] = @ + 1] ELSE tries
        /\ owner' = [owner EXCEPT ![claim[w]] = NoOne]
        /\ UNCHANGED <<fresh, conf>>
     \/ /\ ~Passes(w)
        /\ UNCHANGED rowVars
  /\ Goto(w, "final")
  /\ UNCHANGED <<runVars, ran, config, claim, pinned, verdict, boundVars>>

\* finalize_if_terminal, which every iteration with a claim ends with: it
\* reads rows and flags, and writes the run in a transaction of its own.
FinalRead(w) ==
  /\ pc[w] = "final"
  /\ verdict' = [verdict EXCEPT ![w] = Outcome(claim[w][1])]
  /\ pinned' = [pinned EXCEPT ![w] = FALSE]
  /\ Goto(w, "write")
  /\ UNCHANGED <<runVars, rowVars, ran, config, claim, boundVars>>

FinalWrite(w) ==
  /\ pc[w] = "write"
  /\ phase' = IF verdict[w] = "none" THEN phase
              ELSE [phase EXCEPT ![claim[w][1]] = verdict[w]]
  /\ verdict' = [verdict EXCEPT ![w] = "none"]
  /\ claim' = [claim EXCEPT ![w] = NoItem]
  /\ Goto(w, "poll")
  /\ UNCHANGED <<paused, cancelled, rowVars, ran, config, pinned, boundVars>>

-----------------------------------------------------------------------------
(* The surroundings.                                                       *)

\* The process dies and comes back: its claims have no live owner.
Crash(w) ==
  /\ faults + controls < MaxEvents
  /\ pc[w] # "poll"
  /\ owner' = [i \in Items |-> IF owner[i] = w THEN Gone ELSE owner[i]]
  /\ claim' = [claim EXCEPT ![w] = NoItem]
  /\ pinned' = [pinned EXCEPT ![w] = FALSE]
  /\ verdict' = [verdict EXCEPT ![w] = "none"]
  /\ faults' = faults + 1
  /\ Goto(w, "poll")
  /\ UNCHANGED <<runVars, item, fresh, tries, conf, ran, config, controls>>

\* The lease of row i runs out.  A thread that still works on the row keeps
\* it fresh (_Heartbeat._run, renew_lease), so that takes a stall.
Expire(i) ==
  /\ item[i] = "running" /\ owner[i] # NoOne /\ fresh[i]
  /\ fresh' = [fresh EXCEPT ![i] = FALSE]
  /\ IF owner[i] \in Workers /\ claim[owner[i]] = i /\ pc[owner[i]] \notin {"final", "write"}
       THEN faults + controls < MaxEvents /\ faults' = faults + 1
       ELSE UNCHANGED faults
  /\ UNCHANGED <<runVars, item, owner, tries, conf, ran, config, threadVars,
                 controls>>

ChangeProfile ==
  /\ faults + controls < MaxEvents
  /\ \E c \in Configs \ {config} : config' = c
  /\ faults' = faults + 1
  /\ UNCHANGED <<runVars, rowVars, ran, threadVars, controls>>

\* The memory worker takes any pending memory_extraction job, an import's
\* too, and asks nothing of the import run.  The processing run it leaves
\* has the identity of the import if the roles resolve alike.
MemoryWorkerRuns(i) ==
  /\ item[i] \notin {"none", "skipped", "cancelled"}
  /\ ran' = [ran EXCEPT ![i[2]] = @ \cup {config}]
  /\ UNCHANGED <<runVars, rowVars, config, threadVars, boundVars>>

ItemInit ==
  /\ phase = [r \in Runs |-> "inspected"]
  /\ paused = [r \in Runs |-> FALSE]
  /\ cancelled = [r \in Runs |-> FALSE]
  /\ item = [i \in Items |-> "none"]
  /\ owner = [i \in Items |-> NoOne]
  /\ fresh = [i \in Items |-> FALSE]
  /\ tries = [i \in Items |-> 0]
  /\ config = CHOOSE c \in Configs : TRUE
  /\ conf = [i \in Items |-> config]
  /\ ran = [m \in Messages |-> {}]
  /\ pc = [w \in Workers |-> "poll"]
  /\ claim = [w \in Workers |-> NoItem]
  /\ pinned = [w \in Workers |-> FALSE]
  /\ verdict = [w \in Workers |-> "none"]
  /\ faults = 0
  /\ controls = 0

WorkerStep(w) ==
  \/ \E i \in Items : Claim(w, i)
  \/ PollEmpty(w) \/ Recheck(w) \/ Begin(w) \/ Prepare(w) \/ Process(w)
  \/ Result(w) \/ Fail(w) \/ FinalRead(w) \/ FinalWrite(w)

ItemNext ==
  \/ \E w \in Workers : \/ WorkerStep(w) \/ Crash(w)
                        \/ \E r \in Runs : ProcessRequest(w, r)
  \/ \E i \in Items : Expire(i) \/ MemoryWorkerRuns(i)
  \/ ChangeProfile
=============================================================================
