---------------------------- MODULE MemoryWorker ----------------------------
(***************************************************************************)
(* One memory-extraction job from claim to completion: process_once of     *)
(* MemoryJobWorkerService, prepare_message and process_message of          *)
(* MemoryWorkerPipeline, run_contract_execution with its provider-attempt  *)
(* audit, run by several worker processes on one database.  The job rows   *)
(* and their lease come from JobLease; semantic planning is one step here, *)
(* and has a module of its own (SemanticPlanning).                         *)
(*                                                                         *)
(* An execution identity (a member of Sources) stands for everything that  *)
(* execution_snapshot hashes: text, effective profile, role and contract.  *)
(* An output is known only by its origin: "provider" (a valid or           *)
(* canonicalised provider answer), "fallback" (the deterministic answer    *)
(* that replaces a failed provider) or "local" (a profile without remote   *)
(* provider).                                                              *)
(***************************************************************************)
EXTENDS JobLease

CONSTANTS
  Messages,     \* canonical messages
  MessageOf,    \* the message a job's payload names
  Sources,      \* execution identities
  FirstSource,  \* the identity a message has when its job is queued
  NoSource,     \* no identity read yet
  Remote,       \* identities whose profile calls an OpenAI-compatible provider
  Disabled,     \* identities whose profile is disabled
  Untrusted     \* identities whose deterministic output breaks the contract

ASSUME SourceAssumption ==
  /\ MessageOf \in [Jobs -> Messages]
  /\ FirstSource \in [Messages -> Sources]
  /\ NoSource \notin Sources
  /\ Remote \subseteq Sources
  /\ Disabled \subseteq Sources \ Remote
  /\ Untrusted \subseteq Sources

VARIABLES
  source,       \* source[m]: the identity a snapshot of m yields now
  pc,           \* pc[w]: where the worker thread is
  seen,         \* seen[w]: expected_snapshot, which the fence compares
  input,        \* input[w]: the identity prepare_message froze
  index,        \* index[w]: 1 for the initial call, 2 for the repair
  out,          \* out[w]: the last response, then the origin of the output
  attempt,      \* processing_provider_attempts, by idempotency identity
  calls,        \* calls[k]: calls that reached the provider under identity k
  run,          \* memory_processing_runs.status, by message and identity
  annotated,    \* origin of the newest Jakobson annotations of a run
  stageRow,     \* origin that the processing_stage_runs row of a run states
  decided,      \* runs whose candidates have their consolidation decisions
  available     \* messages whose processing_status is "available"

workVars == <<pc, seen, input, index, out>>
auditVars == <<attempt, calls>>
canonVars == <<run, annotated, stageRow, decided, available>>
vars == <<leaseVars, source, workVars, auditVars, canonVars>>

Responses == {"valid", "invalid", "error"}
Origins == {"provider", "fallback", "local"}
Runs == Messages \X Sources
AttemptKeys == Messages \X Sources \X (1..2)

Steps == {"idle", "snapshot", "lease", "prepare", "openRun", "check", "reserve",
          "call", "finalize", "recheck", "prepared", "start", "skip", "annotate",
          "gate", "plan", "stages", "consolidate", "project", "finish",
          "complete", "fail", "failTerminal"}

TypeOK ==
  /\ LeaseTypeOK
  /\ source \in [Messages -> Sources]
  /\ pc \in [Workers -> Steps]
  /\ seen \in [Workers -> Sources \cup {NoSource}]
  /\ input \in [Workers -> Sources \cup {NoSource}]
  /\ index \in [Workers -> 1..2]
  /\ out \in [Workers -> Responses \cup Origins \cup {"none", "conflict"}]
  /\ attempt \in [AttemptKeys -> {"none", "reserved", "completed"}]
  /\ calls \in [AttemptKeys -> Nat]
  /\ run \in [Runs -> {"none", "pending", "running", "succeeded"}]
  /\ annotated \in [Runs -> Origins \cup {"none"}]
  /\ stageRow \in [Runs -> Origins \cup {"none"}]
  /\ decided \subseteq Runs
  /\ available \subseteq Messages

Init ==
  /\ LeaseInit
  /\ source = FirstSource
  /\ pc = [w \in Workers |-> "idle"]
  /\ seen = [w \in Workers |-> NoSource]
  /\ input = [w \in Workers |-> NoSource]
  /\ index = [w \in Workers |-> 1]
  /\ out = [w \in Workers |-> "none"]
  /\ attempt = [k \in AttemptKeys |-> "none"]
  /\ calls = [k \in AttemptKeys |-> 0]
  /\ run = [r \in Runs |-> "none"]
  /\ annotated = [r \in Runs |-> "none"]
  /\ stageRow = [r \in Runs |-> "none"]
  /\ decided = {}
  /\ available = {}
-----------------------------------------------------------------------------
MessageAt(w) == MessageOf[hold[w]]
RunAt(w) == <<MessageAt(w), input[w]>>
KeyAt(w) == <<MessageAt(w), input[w], index[w]>>

\* Seeded fault: the fence forgets the live snapshot.
FencedByLease(w) == Owns(w)

\* JobLeaseFence: the lease is owned and the live snapshot is the expected one.
Fenced(w) == Owns(w) /\ source[MessageAt(w)] = seen[w]

\* _revalidate: the fence, and the identity that prepare_message froze.
Valid(w) == Fenced(w) /\ source[MessageAt(w)] = input[w]

Goto(w, p) == pc' = [pc EXCEPT ![w] = p]

\* An exception unwinds to the handler of process_once.
Raise(w, p) ==
  /\ Goto(w, p)
  /\ UNCHANGED <<leaseVars, source, seen, input, index, out, auditVars, canonVars>>

\* A short transaction that first locks and checks the lease (fenced_write):
\* check and write are one step.  The write is the action's next conjunct.
FencedWrite(w, next) ==
  /\ Fenced(w)
  /\ Goto(w, next)
  /\ UNCHANGED <<leaseVars, source, seen, input, index, out, auditVars>>

\* The worker thread's locals when it is back in its polling loop.
Forget(w) ==
  /\ Goto(w, "idle")
  /\ seen' = [seen EXCEPT ![w] = NoSource]
  /\ input' = [input EXCEPT ![w] = NoSource]
  /\ index' = [index EXCEPT ![w] = 1]
  /\ out' = [out EXCEPT ![w] = "none"]

\* The deterministic output replaces the provider's, unless it breaks the
\* contract itself: then the job fails for good.
FallBack(w) ==
  IF input[w] \in Untrusted
  THEN Goto(w, "failTerminal") /\ UNCHANGED out
  ELSE Goto(w, "prepared") /\ out' = [out EXCEPT ![w] = "fallback"]
-----------------------------------------------------------------------------
(* Polling, starting, crashing.                                             *)

Boot(w) ==
  /\ StartWorker(w)
  /\ UNCHANGED <<source, workVars, auditVars, canonVars>>

TakeJob(w, j) ==
  /\ Claim(w, j)
  /\ Goto(w, "snapshot")
  /\ UNCHANGED <<source, seen, input, index, out, auditVars, canonVars>>

Poll(w) ==
  /\ PollEmpty(w)
  /\ UNCHANGED <<source, workVars, auditVars, canonVars>>

Die(w) ==
  /\ Crash(w)
  /\ Forget(w)
  /\ UNCHANGED <<source, auditVars, canonVars>>

\* process_once takes the snapshot that the fence compares from now on.  It
\* raises if the payload, the message or its profile cannot be read.
Snapshot(w) ==
  /\ pc[w] = "snapshot"
  /\ \/ /\ seen' = [seen EXCEPT ![w] = source[MessageAt(w)]]
        /\ Goto(w, "lease")
        /\ UNCHANGED <<leaseVars, source, input, index, out, auditVars, canonVars>>
     \/ Raise(w, "fail")

\* lease_fence(before_provider=True), before anything else is done.
BeginLease(w) ==
  /\ pc[w] = "lease"
  /\ \/ /\ Fenced(w)
        /\ Renew(w)
        /\ Goto(w, "prepare")
        /\ UNCHANGED <<source, seen, input, index, out, auditVars, canonVars>>
     \/ ~Fenced(w) /\ Raise(w, "fail")
-----------------------------------------------------------------------------
(* prepare_message and run_contract_execution.                              *)

\* run_contract_execution without provider: the deterministic output is the
\* intended one, unless it breaks the contract.
RunLocally(w, s) ==
  \/ /\ s \notin Untrusted
     /\ Goto(w, "prepared")
     /\ out' = [out EXCEPT ![w] = "local"]
  \/ /\ s \in Untrusted
     /\ Goto(w, "failTerminal")
     /\ UNCHANGED out

\* execute_jakobson_contract: a profile without a remote provider is executed
\* at once, with no provider call and no revalidation.
Execute(w, s) ==
  \/ s \in Remote /\ Goto(w, "openRun") /\ UNCHANGED out
  \/ s \notin Remote /\ RunLocally(w, s)

\* The identity is read again and frozen.
Prepare(w) ==
  /\ pc[w] = "prepare"
  /\ LET s == source[MessageAt(w)] IN
       /\ input' = [input EXCEPT ![w] = s]
       /\ Execute(w, s)
  /\ UNCHANGED <<leaseVars, source, seen, index, auditVars, canonVars>>

\* get_or_create_run under the fence: the run names the attempt identities.
OpenRun(w) ==
  /\ pc[w] = "openRun"
  /\ \/ /\ FencedWrite(w, "check")
        /\ run' = [run EXCEPT ![RunAt(w)] = IF @ = "none" THEN "pending" ELSE @]
        /\ UNCHANGED <<annotated, stageRow, decided, available>>
     \/ ~Fenced(w) /\ Raise(w, "fail")

\* The revalidation before a call, initial or repair.  It renews the lease.
Revalidate(w) ==
  /\ pc[w] = "check"
  /\ \/ /\ Valid(w)
        /\ Renew(w)
        /\ Goto(w, "reserve")
        /\ UNCHANGED <<source, seen, input, index, out, auditVars, canonVars>>
     \/ ~Valid(w) /\ Raise(w, "fail")

\* Seeded fault: a reservation without a recorded completion is taken over.
ReserveUnfinished(w) ==
  /\ pc[w] = "reserve"
  /\ \/ /\ attempt[KeyAt(w)] # "completed"
        /\ attempt' = [attempt EXCEPT ![KeyAt(w)] = "reserved"]
        /\ Goto(w, "call")
        /\ UNCHANGED out
     \/ /\ attempt[KeyAt(w)] = "completed"
        /\ out' = [out EXCEPT ![w] = "conflict"]
        /\ Goto(w, "recheck")
        /\ UNCHANGED attempt
  /\ UNCHANGED <<leaseVars, source, seen, input, index, calls, canonVars>>

\* The insert that reserves the call: only the first one ever succeeds.
Reserve(w) ==
  /\ pc[w] = "reserve"
  /\ \/ /\ attempt[KeyAt(w)] = "none"
        /\ attempt' = [attempt EXCEPT ![KeyAt(w)] = "reserved"]
        /\ Goto(w, "call")
        /\ UNCHANGED out
     \/ /\ attempt[KeyAt(w)] # "none"
        /\ out' = [out EXCEPT ![w] = "conflict"]
        /\ Goto(w, "recheck")
        /\ UNCHANGED attempt
  /\ UNCHANGED <<leaseVars, source, seen, input, index, calls, canonVars>>

\* The provider is called; it answers, answers nonsense, or fails.
CallProvider(w) ==
  /\ pc[w] = "call"
  /\ calls' = [calls EXCEPT ![KeyAt(w)] = @ + 1]
  /\ \E r \in Responses : out' = [out EXCEPT ![w] = r]
  /\ Goto(w, "finalize")
  /\ UNCHANGED <<leaseVars, source, seen, input, index, attempt, canonVars>>

\* The attempt's completion is recorded, whoever owns the lease by now.
Finalize(w) ==
  /\ pc[w] = "finalize"
  /\ attempt' = [attempt EXCEPT ![KeyAt(w)] = "completed"]
  /\ Goto(w, "recheck")
  /\ UNCHANGED <<leaseVars, source, seen, input, index, out, calls, canonVars>>

\* Seeded fault: the repair is not limited to one.
RecheckUnbounded(w) ==
  /\ pc[w] = "recheck"
  /\ Valid(w)
  /\ Renew(w)
  /\ \/ /\ out[w] = "valid"
        /\ Goto(w, "prepared")
        /\ out' = [out EXCEPT ![w] = "provider"]
        /\ UNCHANGED index
     \/ /\ out[w] # "valid"
        /\ Goto(w, "check")
        /\ index' = [index EXCEPT ![w] = @ + 1]
        /\ out' = [out EXCEPT ![w] = "none"]
  /\ UNCHANGED <<source, seen, input, auditVars, canonVars>>

\* _valid_provider_outcome: the answer, or its canonical form, is the output.
Accept(w) ==
  /\ out[w] = "valid"
  /\ Goto(w, "prepared")
  /\ out' = [out EXCEPT ![w] = "provider"]

\* The initial answer is accepted, or one repair is asked for.
AfterCall(w) ==
  /\ index[w] = 1
  /\ \/ Accept(w) /\ UNCHANGED index
     \/ /\ out[w] = "invalid"
        /\ Goto(w, "check")
        /\ index' = [index EXCEPT ![w] = 2]
        /\ out' = [out EXCEPT ![w] = "none"]

\* The repaired answer is accepted; there is no second repair.
AfterRepair(w) ==
  /\ index[w] = 2
  /\ Accept(w) \/ (out[w] = "invalid" /\ FallBack(w))
  /\ UNCHANGED index

\* The revalidation after a response, and what the response leads to.
Recheck(w) ==
  /\ pc[w] = "recheck"
  /\ \/ /\ Valid(w)
        /\ Renew(w)
        /\ \/ AfterCall(w)
           \/ AfterRepair(w)
           \/ /\ out[w] \in {"error", "conflict"}
              /\ FallBack(w)
              /\ UNCHANGED index
        /\ UNCHANGED <<source, seen, input, auditVars, canonVars>>
     \/ ~Valid(w) /\ Raise(w, "fail")
-----------------------------------------------------------------------------
(* process_message.                                                         *)

\* process_once compares the prepared identity with the fence's snapshot, and
\* process_message with the identity it reads itself.
Prepared(w) ==
  /\ pc[w] = "prepared"
  /\ \/ /\ input[w] = seen[w] /\ source[MessageAt(w)] = input[w]
        /\ Goto(w, "start")
        /\ UNCHANGED <<leaseVars, source, seen, input, index, out, auditVars, canonVars>>
     \/ ~(input[w] = seen[w] /\ source[MessageAt(w)] = input[w]) /\ Raise(w, "fail")

\* _completed_result: a finished run is reported again, nothing is written.
ReplayRun(w) ==
  /\ run[RunAt(w)] = "succeeded"
  /\ FencedWrite(w, "complete")
  /\ UNCHANGED canonVars

\* The run is opened or found.  A finished run is not repeated; any other is
\* (re)started, and the message leaves "available".
StartRun(w) ==
  /\ pc[w] = "start"
  /\ \/ ReplayRun(w)
     \/ /\ run[RunAt(w)] # "succeeded"
        /\ FencedWrite(w, IF input[w] \in Disabled THEN "skip" ELSE "annotate")
        /\ run' = [run EXCEPT ![RunAt(w)] = "running"]
        /\ available' = available \ {MessageAt(w)}
        /\ UNCHANGED <<annotated, stageRow, decided>>
     \/ ~Fenced(w) /\ Raise(w, "fail")

\* A disabled profile: the message is available, the run stays unfinished.
SkipDisabled(w) ==
  /\ pc[w] = "skip"
  /\ \/ /\ FencedWrite(w, "complete")
        /\ available' = available \cup {MessageAt(w)}
        /\ UNCHANGED <<run, annotated, stageRow, decided>>
     \/ ~Fenced(w) /\ Raise(w, "fail")

\* run_for_message: a new analysis run with its annotations and routes.
Annotate(w) ==
  /\ pc[w] = "annotate"
  /\ \/ /\ FencedWrite(w, "gate")
        /\ annotated' = [annotated EXCEPT ![RunAt(w)] = out[w]]
        /\ UNCHANGED <<run, stageRow, decided, available>>
     \/ ~Fenced(w) /\ Raise(w, "fail")

\* Seeded fault: the stage row credits the provider also when the pipeline
\* fell back to its deterministic output.
StageRowOfRequest(w) ==
  [stageRow EXCEPT ![RunAt(w)] = IF out[w] = "fallback" THEN "provider" ELSE out[w]]

\* _record_extraction_stage: the row states where the run's output came from.
StageRow(w) == [stageRow EXCEPT ![RunAt(w)] = out[w]]

\* The stage row is upserted; units are gated and analysed.
RecordStage(w) ==
  /\ pc[w] = "gate"
  /\ \/ /\ FencedWrite(w, "plan")
        /\ stageRow' = StageRow(w)
        /\ available' = available \ {MessageAt(w)}
        /\ UNCHANGED <<run, annotated, decided>>
     \/ ~Fenced(w) /\ Raise(w, "fail")

\* Semantic planning and candidate creation: fenced, and it may raise.
PlanCandidates(w) ==
  /\ pc[w] = "plan"
  /\ \/ /\ FencedWrite(w, "stages")
        /\ UNCHANGED canonVars
     \/ Raise(w, "fail")

\* Privacy and high-confidence stages: each model call renews the lease.
RunStages(w) ==
  /\ pc[w] = "stages"
  /\ \/ /\ Fenced(w)
        /\ Renew(w)
        /\ Goto(w, "consolidate")
        /\ UNCHANGED <<source, seen, input, index, out, auditVars, canonVars>>
     \/ Raise(w, "fail")

\* Every candidate of the run gets its decision, in one transaction.
Consolidate(w) ==
  /\ pc[w] = "consolidate"
  /\ \/ /\ FencedWrite(w, "project")
        /\ decided' = decided \cup {RunAt(w)}
        /\ available' = available \ {MessageAt(w)}
        /\ UNCHANGED <<run, annotated, stageRow>>
     \/ ~Fenced(w) /\ Raise(w, "fail")

\* Embeddings and graph projection: each external call renews the lease.
Project(w) ==
  /\ pc[w] = "project"
  /\ \/ /\ Fenced(w)
        /\ Renew(w)
        /\ Goto(w, "finish")
        /\ available' = available \ {MessageAt(w)}
        /\ UNCHANGED <<source, seen, input, index, out, auditVars, run, annotated,
                       stageRow, decided>>
     \/ Raise(w, "fail")

\* Seeded fault: the message is made available by a later transaction.
FinishRunOnly(w) ==
  /\ pc[w] = "finish"
  /\ \/ /\ FencedWrite(w, "complete")
        /\ run' = [run EXCEPT ![RunAt(w)] = "succeeded"]
        /\ UNCHANGED <<annotated, stageRow, decided, available>>
     \/ ~Fenced(w) /\ Raise(w, "fail")

\* The run succeeds and its message becomes available, in one transaction.
FinishRun(w) ==
  /\ pc[w] = "finish"
  /\ \/ /\ FencedWrite(w, "complete")
        /\ run' = [run EXCEPT ![RunAt(w)] = "succeeded"]
        /\ available' = available \cup {MessageAt(w)}
        /\ UNCHANGED <<annotated, stageRow, decided>>
     \/ ~Fenced(w) /\ Raise(w, "fail")
-----------------------------------------------------------------------------
(* The end of process_once.                                                 *)

\* Seeded fault: the success write is not a compare-and-set.
RecordSuccessLate(w) ==
  /\ pc[w] = "complete"
  /\ status' = [status EXCEPT ![hold[w]] = "succeeded"]
  /\ ttl' = [ttl EXCEPT ![hold[w]] = 0]
  /\ UNCHANGED <<attempts, gen, due>>
  /\ Release(w)
  /\ Forget(w)
  /\ UNCHANGED <<source, auditVars, canonVars>>

\* Seeded fault: the handler waits for its failure write to hit.
RecordFailureOwned(w) ==
  /\ pc[w] \in {"fail", "failTerminal"}
  /\ Fail(w, pc[w] = "failTerminal")
  /\ Forget(w)
  /\ UNCHANGED <<source, auditVars, canonVars>>

\* _record_success: it hits, or it finds the lease gone and raises.
RecordSuccess(w) ==
  /\ pc[w] = "complete"
  /\ \/ Succeed(w) /\ Forget(w)
     \/ ~Owns(w) /\ Goto(w, "fail") /\ UNCHANGED <<leaseVars, seen, input, index, out>>
  /\ UNCHANGED <<source, auditVars, canonVars>>

\* _record_failure: it hits, or it misses and changes nothing.
RecordFailure(w) ==
  /\ pc[w] \in {"fail", "failTerminal"}
  /\ Fail(w, pc[w] = "failTerminal") \/ Abandon(w)
  /\ Forget(w)
  /\ UNCHANGED <<source, auditVars, canonVars>>

\* Time passes.
Pass == Tick /\ UNCHANGED <<source, workVars, auditVars, canonVars>>

\* An administrator assigns another profile, or the text is erased.
ChangeSource(m, s) ==
  /\ source[m] # s
  /\ source' = [source EXCEPT ![m] = s]
  /\ UNCHANGED <<leaseVars, workVars, auditVars, canonVars>>

\* What the worker thread does next with the job it holds.
Process(w) ==
  \/ Snapshot(w) \/ BeginLease(w) \/ Prepare(w) \/ OpenRun(w) \/ Revalidate(w)
  \/ Reserve(w) \/ CallProvider(w) \/ Finalize(w) \/ Recheck(w) \/ Prepared(w)
  \/ StartRun(w) \/ SkipDisabled(w) \/ Annotate(w) \/ RecordStage(w)
  \/ PlanCandidates(w) \/ RunStages(w) \/ Consolidate(w) \/ Project(w)
  \/ FinishRun(w) \/ RecordSuccess(w) \/ RecordFailure(w)

Next ==
  \/ \E w \in Workers :
       \/ Boot(w) \/ Poll(w) \/ Die(w) \/ Process(w)
       \/ \E j \in Jobs : TakeJob(w, j)
  \/ Pass
  \/ \E m \in Messages, s \in Sources : ChangeSource(m, s)

Spec == Init /\ [][Next]_vars

(* The worker thread goes on with a job it holds, its process is restarted  *)
(* when it died, it polls when it is idle, and time passes.  Nothing forces *)
(* a crash or a change of the source.                                       *)
Fairness ==
  /\ WF_vars(Pass)
  /\ \A w \in Workers :
       /\ WF_vars(Boot(w))
       /\ WF_vars(Poll(w) \/ \E j \in Jobs : TakeJob(w, j))
       /\ WF_vars(Process(w))

FairSpec == Spec /\ Fairness
-----------------------------------------------------------------------------
\* A provider call is paid for at most once per idempotency identity, whatever
\* crashes, expired leases, retries and second jobs for the message follow
\* (ProviderAttemptAuditRepository.reserve).
PaidAtMostOnce == \A k \in AttemptKeys : calls[k] <= 1

\* The jobs table's idempotency key names the message, so a message has one
\* extraction job.
OneJob(m) == \A j, k \in Jobs : MessageOf[j] = m /\ MessageOf[k] = m => j = k

\* Once a run of a message with one job has finished, its audit row states where
\* its newest annotations came from: a retry that fell back replaced both or
\* neither.  (Two jobs could annotate and record the same run in turn: the
\* annotations and the stage row are two transactions.)
AuditMatchesAnnotations ==
  \A r \in Runs : OneJob(r[1]) /\ run[r] = "succeeded" => stageRow[r] = annotated[r]

\* A message that was only ever processed under one identity is available once
\* its only job has succeeded, also when the success was recorded by a retry of
\* a worker that died between finishing the run and completing the job.
Started(m, s) == run[<<m, s>>] \in {"running", "succeeded"}
OneIdentity(m) == \A s, t \in Sources : Started(m, s) /\ Started(m, t) => s = t

SucceededMeansAvailable ==
  \A j \in Jobs :
    status[j] = "succeeded" /\ OneJob(MessageOf[j]) /\ OneIdentity(MessageOf[j])
      => MessageOf[j] \in available

\* The canonical records of a run change only by a worker that owns a lease on
\* the run's message while the message still has the run's identity.  (An empty
\* pending run may be opened for an identity that came and went between the
\* fence's snapshot and prepare_message's.)
RecordsKept(r) ==
  /\ UNCHANGED <<annotated[r], stageRow[r], r \in decided>>
  /\ run'[r] = run[r] \/ (run[r] = "none" /\ run'[r] = "pending")

OwnerAt(r) ==
  /\ source[r[1]] = r[2]
  /\ \E w \in Workers : Owns(w) /\ MessageAt(w) = r[1] /\ seen[w] = r[2]

CanonicalWritesAreFenced == [][\A r \in Runs : RecordsKept(r) \/ OwnerAt(r)]_vars

\* Seen from the job rows alone, the pipeline is the lease protocol: no step of
\* it touches a row outside the claim, renewal, success and failure statements.
ImplementsLease == LeaseSpec

=============================================================================
