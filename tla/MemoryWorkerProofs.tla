------------------------- MODULE MemoryWorkerProofs -------------------------
(***************************************************************************)
(* Proofs about the extraction pipeline, for any number of workers, jobs,  *)
(* messages and execution identities.                                      *)
(***************************************************************************)
EXTENDS MemoryWorker, JobLeaseProofs

\* Seen from the job rows, every step of the pipeline is a lease statement or
\* leaves the rows alone.
LEMMA PipelineStepIsLeaseStep == [Next]_vars => [LeaseNext]_leaseVars
<1> SUFFICES ASSUME [Next]_vars PROVE [LeaseNext]_leaseVars
  OBVIOUS
<1>1. CASE UNCHANGED vars
  BY <1>1 DEF vars, leaseVars
<1>2. CASE Pass
  BY <1>2 DEF Pass, LeaseNext
<1>3. CASE \E m \in Messages, s \in Sources : ChangeSource(m, s)
  BY <1>3 DEF ChangeSource
<1>4. ASSUME NEW w \in Workers,
             Boot(w) \/ Poll(w) \/ Die(w) \/ Process(w) \/ \E j \in Jobs : TakeJob(w, j)
      PROVE  LeaseStep(w) \/ UNCHANGED leaseVars
  <2>1. CASE Boot(w) \/ Poll(w) \/ Die(w)
    BY <2>1 DEF Boot, Poll, Die, LeaseStep
  <2>2. CASE \E j \in Jobs : TakeJob(w, j)
    BY <2>2 DEF TakeJob, LeaseStep
  <2>3. CASE BeginLease(w) \/ Revalidate(w) \/ Recheck(w) \/ RunStages(w) \/ Project(w)
    BY <2>3 DEF BeginLease, Revalidate, Recheck, AfterCall, AfterRepair, Accept, RunStages,
                Project, Raise, LeaseStep
  <2>4. CASE RecordSuccess(w)
    BY <2>4 DEF RecordSuccess, LeaseStep
  <2>5. CASE RecordFailure(w)
    <3>1. (pc[w] = "failTerminal") \in BOOLEAN
      OBVIOUS
    <3> QED
      BY <2>5, <3>1 DEF RecordFailure, LeaseStep
  <2>6. CASE Snapshot(w) \/ Prepare(w) \/ Reserve(w) \/ CallProvider(w) \/ Finalize(w)
             \/ Prepared(w)
    BY <2>6 DEF Snapshot, Prepare, Execute, RunLocally, Reserve, CallProvider, Finalize,
                Prepared, Raise
  <2>7. CASE OpenRun(w) \/ StartRun(w) \/ SkipDisabled(w) \/ Annotate(w) \/ RecordStage(w)
             \/ PlanCandidates(w) \/ Consolidate(w) \/ FinishRun(w)
    BY <2>7 DEF OpenRun, StartRun, ReplayRun, SkipDisabled, Annotate, RecordStage, StageRow,
                PlanCandidates,
                Consolidate, FinishRun, FencedWrite, Raise
  <2> QED
    BY <1>4, <2>1, <2>2, <2>3, <2>4, <2>5, <2>6, <2>7 DEF Process
<1> QED
  BY <1>1, <1>2, <1>3, <1>4 DEF Next, LeaseNext

\* The pipeline, seen from the job rows alone, is the lease protocol.
THEOREM PipelineImplementsLease == Spec => ImplementsLease
<1>1. Init => LeaseInit
  BY DEF Init
<1> QED
  BY <1>1, PipelineStepIsLeaseStep, PTL DEF Spec, ImplementsLease, LeaseSpec

\* What the lease protocol guarantees holds of the whole pipeline: at most one
\* worker passes the fence of a job, no job is claimed more often than its
\* max_attempts allows, and callers see the queue's contract.
THEOREM PipelineKeepsLeaseGuarantees ==
  Spec => [](LeaseExclusive /\ RetryBudget) /\ LeaseLostForGood /\ ImplementsContract
<1>1. LeaseSpec => []LeaseExclusive /\ []RetryBudget /\ LeaseLostForGood /\ ImplementsContract
  BY LeaseIsExclusive, RetriesAreBounded, LostLeaseStaysLost, LeaseImplementsContract
<1> QED
  BY <1>1, PipelineImplementsLease, PTL DEF ImplementsLease
-----------------------------------------------------------------------------
(* Types, and where a worker's locals are defined: a thread is in its polling *)
(* loop exactly when it holds no job, and past prepare_message it has frozen  *)
(* an identity.                                                               *)

EarlySteps == {"idle", "snapshot", "lease", "prepare", "fail", "failTerminal"}

Placed ==
  \A w \in Workers : /\ hold[w] = NoJob <=> pc[w] = "idle"
                     /\ pc[w] \notin EarlySteps => input[w] \in Sources
                     /\ pc[w] \in {"annotate", "gate", "prepared", "start"}
                          => out[w] \in Origins \cup {"none"}

PlacedInv == TypeOK /\ Placed

\* Every step of the pipeline keeps the types and the worker's place.
LEMMA PlacedStep == PlacedInv /\ [Next]_vars => PlacedInv'
<1> SUFFICES ASSUME TypeOK, Placed, [Next]_vars PROVE TypeOK' /\ Placed'
  BY DEF PlacedInv
<1>0. LeaseTypeOK /\ LeaseTypeOK'
  BY PipelineStepIsLeaseStep, LeaseTypeStep DEF TypeOK
<1> USE <1>0, JobAssumption, SourceAssumption DEF TypeOK, Placed, EarlySteps, Steps
<1>1. CASE UNCHANGED vars
  BY <1>1 DEF vars, leaseVars, workVars, auditVars, canonVars
<1>2. CASE Pass
  BY <1>2 DEF Pass, Tick, workVars, auditVars, canonVars
<1>3. CASE \E m \in Messages, s \in Sources : ChangeSource(m, s)
  BY <1>3 DEF ChangeSource, leaseVars, workVars, auditVars, canonVars
<1>4. ASSUME NEW w \in Workers, Boot(w) \/ Poll(w) PROVE TypeOK' /\ Placed'
  BY <1>4 DEF Boot, Poll, StartWorker, PollEmpty, workVars, auditVars, canonVars
<1>5. ASSUME NEW w \in Workers, Die(w) PROVE TypeOK' /\ Placed'
  BY <1>5 DEF Die, Crash, Forget, Goto, auditVars, canonVars, LeaseTypeOK
<1>6. ASSUME NEW w \in Workers, NEW j \in Jobs, TakeJob(w, j) PROVE TypeOK' /\ Placed'
  BY <1>6 DEF TakeJob, Claim, Goto, auditVars, canonVars, LeaseTypeOK
<1>7. ASSUME NEW w \in Workers, Process(w) PROVE TypeOK' /\ Placed'
  <2> USE DEF Goto, Raise, leaseVars, auditVars, canonVars
  <2>0. pc[w] # "idle" => hold[w] \in Jobs /\ MessageAt(w) \in Messages
    BY DEF LeaseTypeOK, MessageAt
  <2>00. pc[w] \notin EarlySteps => RunAt(w) \in Runs /\ KeyAt(w) \in AttemptKeys
    BY <2>0 DEF RunAt, KeyAt, Runs, AttemptKeys
  <2>1. CASE Snapshot(w)
    BY <2>0, <2>1 DEF Snapshot
  <2>2. CASE BeginLease(w)
    BY <2>2 DEF BeginLease, Renew
  <2>3. CASE Revalidate(w)
    BY <2>3 DEF Revalidate, Renew
  <2>4. CASE Prepare(w)
    BY <2>0, <2>4 DEF Prepare, Execute, RunLocally, Origins
  <2>5. CASE OpenRun(w)
    BY <2>5 DEF OpenRun, FencedWrite
  <2>6. CASE Reserve(w)
    BY <2>6 DEF Reserve
  <2>7. CASE CallProvider(w)
    BY <2>00, <2>7 DEF CallProvider, Responses
  <2>8. CASE Finalize(w)
    BY <2>8 DEF Finalize
  <2>9. CASE Recheck(w)
    BY <2>9 DEF Recheck, AfterCall, AfterRepair, Accept, Renew, FallBack, Origins
  <2>10. CASE Prepared(w)
    BY <2>10 DEF Prepared
  <2>11. CASE StartRun(w)
    BY <2>0, <2>00, <2>11 DEF StartRun, ReplayRun, FencedWrite
  <2>12. CASE SkipDisabled(w)
    BY <2>0, <2>00, <2>12 DEF SkipDisabled, FencedWrite
  <2>13. CASE Annotate(w)
    BY <2>13 DEF Annotate, FencedWrite
  <2>14. CASE RecordStage(w)
    BY <2>0, <2>00, <2>14 DEF RecordStage, StageRow, FencedWrite
  <2>15. CASE PlanCandidates(w)
    BY <2>15 DEF PlanCandidates, FencedWrite
  <2>16. CASE RunStages(w)
    BY <2>16 DEF RunStages, Renew
  <2>17. CASE Consolidate(w)
    BY <2>0, <2>00, <2>17 DEF Consolidate, FencedWrite
  <2>18. CASE Project(w)
    BY <2>0, <2>00, <2>18 DEF Project, Renew
  <2>19. CASE FinishRun(w)
    BY <2>0, <2>00, <2>19 DEF FinishRun, FencedWrite
  <2>20. CASE RecordSuccess(w)
    <3>1. CASE Succeed(w) /\ Forget(w)
      BY <2>20, <3>1 DEF RecordSuccess, Succeed, Release, Forget, LeaseTypeOK
    <3>2. CASE ~(Succeed(w) /\ Forget(w))
      BY <2>20, <3>2 DEF RecordSuccess
    <3> QED
      BY <3>1, <3>2
  <2>21. CASE RecordFailure(w)
    BY <2>21 DEF RecordFailure, Fail, Owns, Abandon, Release, Forget, LeaseTypeOK
  <2> QED
    BY <1>7, <2>1, <2>2, <2>3, <2>4, <2>5, <2>6, <2>7, <2>8, <2>9, <2>10, <2>11,
       <2>12, <2>13, <2>14, <2>15, <2>16, <2>17, <2>18, <2>19, <2>20, <2>21 DEF Process
<1> QED
  BY <1>1, <1>2, <1>3, <1>4, <1>5, <1>6, <1>7 DEF Next

\* The worker's place is known in every reachable state.
LEMMA PlacedAlways == Spec => []PlacedInv
<1>1. Init => PlacedInv
  BY JobAssumption, SourceAssumption
     DEF Init, LeaseInit, PlacedInv, TypeOK, LeaseTypeOK, Placed, EarlySteps, Steps
<1> QED
  BY <1>1, PlacedStep, PTL DEF Spec

\* Types hold throughout, in particular the repair index never passes 2.
THEOREM PipelineTypeCorrect == Spec => []TypeOK
<1>1. PlacedInv => TypeOK
  BY DEF PlacedInv
<1> QED
  BY <1>1, PlacedAlways, PTL
-----------------------------------------------------------------------------
(* The provider is paid at most once.  PaidAtMostOnce alone is not inductive: *)
(* a worker about to call must be the only one that reserved its identity,    *)
(* and nothing may have been paid under it yet.                               *)

ReservedBeforeCall ==
  /\ \A k \in AttemptKeys : attempt[k] = "none" => calls[k] = 0
  /\ \A w \in Workers : pc[w] = "call" => attempt[KeyAt(w)] # "none" /\ calls[KeyAt(w)] = 0
  /\ \A v, w \in Workers : pc[v] = "call" /\ pc[w] = "call" /\ KeyAt(v) = KeyAt(w) => v = w

PaidInv == PaidAtMostOnce /\ ReservedBeforeCall

\* A step that reserves nothing and calls nobody: those that are about to call
\* were so before, under the same identity.
NoCallStep ==
  /\ UNCHANGED <<attempt, calls>>
  /\ \A v \in Workers : pc'[v] = "call" => pc[v] = "call" /\ KeyAt(v)' = KeyAt(v)

\* Such a step keeps the invariant.
LEMMA NoCallKeepsPaidInv == PaidInv /\ NoCallStep => PaidInv'
  BY DEF PaidInv, PaidAtMostOnce, ReservedBeforeCall, NoCallStep

\* Every step except the reservation, the call and the completion of an attempt
\* is one.
LEMMA OtherStepsCallNobody ==
  ASSUME PlacedInv, [Next]_vars,
         \A w \in Workers : ~Reserve(w) /\ ~CallProvider(w) /\ ~Finalize(w)
  PROVE  NoCallStep
<1> USE DEF NoCallStep, KeyAt, MessageAt, PlacedInv, TypeOK, LeaseTypeOK, Goto
<1>1. CASE UNCHANGED vars
  BY <1>1 DEF vars, leaseVars, workVars, auditVars
<1>2. CASE Pass
  BY <1>2 DEF Pass, Tick, workVars, auditVars
<1>3. CASE \E m \in Messages, s \in Sources : ChangeSource(m, s)
  BY <1>3 DEF ChangeSource, leaseVars, workVars, auditVars
<1>4. ASSUME NEW w \in Workers, Boot(w) \/ Poll(w) PROVE NoCallStep
  BY <1>4 DEF Boot, Poll, StartWorker, PollEmpty, workVars, auditVars
<1>5. ASSUME NEW w \in Workers, Die(w) PROVE NoCallStep
  BY <1>5 DEF Die, Crash, Forget, auditVars
<1>6. ASSUME NEW w \in Workers, NEW j \in Jobs, TakeJob(w, j) PROVE NoCallStep
  BY <1>6 DEF TakeJob, Claim, auditVars
<1>7. ASSUME NEW w \in Workers, Process(w) PROVE NoCallStep
  <2> USE DEF Raise, leaseVars, auditVars
  <2>1. CASE Snapshot(w) \/ Prepare(w) \/ Prepared(w)
    BY <2>1 DEF Snapshot, Prepare, Execute, RunLocally, Prepared
  <2>2. CASE BeginLease(w) \/ Revalidate(w)
    BY <2>2 DEF BeginLease, Revalidate, Renew
  <2>3. CASE Recheck(w)
    BY <2>3 DEF Recheck, AfterCall, AfterRepair, Accept, Renew, FallBack
  <2>4. CASE OpenRun(w) \/ StartRun(w) \/ SkipDisabled(w) \/ FinishRun(w)
    BY <2>4 DEF OpenRun, StartRun, ReplayRun, SkipDisabled, FinishRun, FencedWrite
  <2>5. CASE Annotate(w) \/ RecordStage(w) \/ PlanCandidates(w) \/ Consolidate(w)
    BY <2>5 DEF Annotate, RecordStage, StageRow, PlanCandidates, Consolidate, FencedWrite
  <2>6. CASE RunStages(w) \/ Project(w)
    BY <2>6 DEF RunStages, Project, Renew
  <2>7. CASE RecordSuccess(w)
    BY <2>7 DEF RecordSuccess, Succeed, Release, Forget
  <2>8. CASE RecordFailure(w)
    BY <2>8 DEF RecordFailure, Fail, Abandon, Release, Forget
  <2> QED
    BY <1>7, <2>1, <2>2, <2>3, <2>4, <2>5, <2>6, <2>7, <2>8 DEF Process
<1> QED
  BY <1>1, <1>2, <1>3, <1>4, <1>5, <1>6, <1>7 DEF Next

\* A provider call is made at most once per idempotency identity, for any
\* number of workers, retries, crashes and jobs.
THEOREM ProviderPaidAtMostOnce == Spec => []PaidAtMostOnce
<1>1. Init => PaidInv
  BY DEF Init, PaidInv, PaidAtMostOnce, ReservedBeforeCall
<1>2. PlacedInv /\ PaidInv /\ [Next]_vars => PaidInv'
  <2> SUFFICES ASSUME PlacedInv, PaidInv, [Next]_vars PROVE PaidInv'
    OBVIOUS
  <2>0. \A w \in Workers : pc[w] \in {"reserve", "call", "finalize"} => KeyAt(w) \in AttemptKeys
    <3> SUFFICES ASSUME NEW w \in Workers, pc[w] \in {"reserve", "call", "finalize"}
                 PROVE  KeyAt(w) \in AttemptKeys
      OBVIOUS
    <3>1. hold[w] \in Jobs /\ input[w] \in Sources
      BY DEF PlacedInv, Placed, TypeOK, LeaseTypeOK, EarlySteps
    <3>2. MessageAt(w) \in Messages /\ index[w] \in 1..2
      BY <3>1, SourceAssumption DEF MessageAt, PlacedInv, TypeOK
    <3> QED
      BY <3>1, <3>2 DEF KeyAt, AttemptKeys
  <2>1. ASSUME NEW w \in Workers, Reserve(w) PROVE PaidInv'
    <3>1. \A v \in Workers : KeyAt(v)' = KeyAt(v)
      BY <2>1 DEF Reserve, KeyAt, MessageAt, leaseVars
    <3> QED
      BY <2>0, <2>1, <3>1
         DEF Reserve, Goto, PaidInv, PaidAtMostOnce, ReservedBeforeCall, PlacedInv, TypeOK
  <2>2. ASSUME NEW w \in Workers, CallProvider(w) PROVE PaidInv'
    <3>1. \A v \in Workers : KeyAt(v)' = KeyAt(v)
      BY <2>2 DEF CallProvider, KeyAt, MessageAt, leaseVars
    <3> QED
      BY <2>0, <2>2, <3>1
         DEF CallProvider, Goto, PaidInv, PaidAtMostOnce, ReservedBeforeCall, PlacedInv, TypeOK
  <2>3. ASSUME NEW w \in Workers, Finalize(w) PROVE PaidInv'
    <3>1. \A v \in Workers : KeyAt(v)' = KeyAt(v)
      BY <2>3 DEF Finalize, KeyAt, MessageAt, leaseVars
    <3> QED
      BY <2>0, <2>3, <3>1
         DEF Finalize, Goto, PaidInv, PaidAtMostOnce, ReservedBeforeCall, PlacedInv, TypeOK
  <2>4. CASE \A w \in Workers : ~Reserve(w) /\ ~CallProvider(w) /\ ~Finalize(w)
    BY <2>4, OtherStepsCallNobody, NoCallKeepsPaidInv
  <2> QED
    BY <2>1, <2>2, <2>3, <2>4
<1>3. PaidInv => PaidAtMostOnce
  BY DEF PaidInv
<1> QED
  BY <1>1, <1>2, <1>3, PlacedAlways, PTL DEF Spec
-----------------------------------------------------------------------------
(* Canonical writes.  From the comparison in process_once on, the identity    *)
(* that names a worker's run is the one that its fence compares.              *)

RunSteps == {"start", "skip", "annotate", "gate", "plan", "stages", "consolidate",
             "project", "finish", "complete"}

Agreed == \A w \in Workers : pc[w] \in RunSteps => input[w] = seen[w]

\* No step of process_message changes either identity.
LEMMA AgreedStep == PlacedInv /\ Agreed /\ [Next]_vars => Agreed'
<1> SUFFICES ASSUME PlacedInv, Agreed, [Next]_vars PROVE Agreed'
  OBVIOUS
<1> USE DEF Agreed, RunSteps, PlacedInv, TypeOK, Goto
<1>1. CASE UNCHANGED vars
  BY <1>1 DEF vars, workVars
<1>2. CASE Pass \/ \E m \in Messages, s \in Sources : ChangeSource(m, s)
  BY <1>2 DEF Pass, ChangeSource, workVars
<1>3. ASSUME NEW w \in Workers, Boot(w) \/ Poll(w) PROVE Agreed'
  BY <1>3 DEF Boot, Poll, workVars
<1>4. ASSUME NEW w \in Workers, Die(w) PROVE Agreed'
  BY <1>4 DEF Die, Forget
<1>5. ASSUME NEW w \in Workers, NEW j \in Jobs, TakeJob(w, j) PROVE Agreed'
  BY <1>5 DEF TakeJob
<1>6. ASSUME NEW w \in Workers, Process(w) PROVE Agreed'
  <2> USE DEF Raise
  <2>1. CASE Snapshot(w) \/ Prepare(w) \/ Reserve(w) \/ CallProvider(w) \/ Finalize(w)
    BY <2>1 DEF Snapshot, Prepare, Execute, RunLocally, Reserve, CallProvider, Finalize
  <2>2. CASE BeginLease(w) \/ Revalidate(w) \/ Recheck(w)
    BY <2>2 DEF BeginLease, Revalidate, Recheck, AfterCall, AfterRepair, Accept, FallBack
  <2>3. CASE Prepared(w)
    BY <2>3 DEF Prepared
  <2>4. CASE OpenRun(w) \/ StartRun(w) \/ SkipDisabled(w) \/ FinishRun(w)
    BY <2>4 DEF OpenRun, StartRun, ReplayRun, SkipDisabled, FinishRun, FencedWrite
  <2>5. CASE Annotate(w) \/ RecordStage(w) \/ PlanCandidates(w) \/ Consolidate(w)
    BY <2>5 DEF Annotate, RecordStage, StageRow, PlanCandidates, Consolidate, FencedWrite
  <2>6. CASE RunStages(w) \/ Project(w)
    BY <2>6 DEF RunStages, Project
  <2>7. CASE RecordSuccess(w) \/ RecordFailure(w)
    BY <2>7 DEF RecordSuccess, RecordFailure, Forget
  <2> QED
    BY <1>6, <2>1, <2>2, <2>3, <2>4, <2>5, <2>6, <2>7 DEF Process
<1> QED
  BY <1>1, <1>2, <1>3, <1>4, <1>5, <1>6 DEF Next

\* The records of a run change only by a worker that owns a lease on the run's
\* message while the message still has the run's identity.
THEOREM RunRecordsAreFenced == Spec => CanonicalWritesAreFenced
<1>1. Init => Agreed
  BY DEF Init, Agreed, RunSteps
<1>2. PlacedInv /\ Agreed /\ [Next]_vars => [\A r \in Runs : RecordsKept(r) \/ OwnerAt(r)]_vars
  <2> SUFFICES ASSUME PlacedInv, Agreed, Next, NEW r \in Runs PROVE RecordsKept(r) \/ OwnerAt(r)
    OBVIOUS
  <2>1. CASE UNCHANGED <<run, annotated, stageRow, decided>>
    BY <2>1 DEF RecordsKept
  <2>2. ASSUME NEW w \in Workers, OpenRun(w) PROVE RecordsKept(r)
    BY <2>2 DEF OpenRun, RecordsKept, FencedWrite, Raise, canonVars, PlacedInv, TypeOK
  <2>3. ASSUME NEW w \in Workers, Fenced(w), pc[w] \in RunSteps PROVE r = RunAt(w) => OwnerAt(r)
    BY <2>3 DEF Agreed, Fenced, RunAt, OwnerAt
  <2>4. ASSUME NEW w \in Workers, StartRun(w) \/ FinishRun(w) PROVE RecordsKept(r) \/ OwnerAt(r)
    <3>1. CASE Fenced(w) /\ r = RunAt(w)
      BY <2>3, <2>4, <3>1 DEF StartRun, ReplayRun, FinishRun, RunSteps
    <3>2. CASE ~(Fenced(w) /\ r = RunAt(w))
      BY <2>4, <3>2
         DEF StartRun, ReplayRun, FinishRun, RecordsKept, FencedWrite, Raise, canonVars,
             PlacedInv, TypeOK
    <3> QED
      BY <3>1, <3>2
  <2>5. ASSUME NEW w \in Workers, Annotate(w) \/ RecordStage(w) \/ Consolidate(w)
        PROVE  RecordsKept(r) \/ OwnerAt(r)
    <3>1. CASE Fenced(w) /\ r = RunAt(w)
      BY <2>3, <2>5, <3>1 DEF Annotate, RecordStage, StageRow, Consolidate, RunSteps
    <3>2. CASE ~(Fenced(w) /\ r = RunAt(w))
      BY <2>5, <3>2
         DEF Annotate, RecordStage, StageRow, Consolidate, RecordsKept, FencedWrite, Raise,
             canonVars,
             PlacedInv, TypeOK
    <3> QED
      BY <3>1, <3>2
  <2>6. ASSUME \A w \in Workers : ~(OpenRun(w) \/ StartRun(w) \/ FinishRun(w) \/ Annotate(w)
                                      \/ RecordStage(w) \/ Consolidate(w))
        PROVE  UNCHANGED <<run, annotated, stageRow, decided>>
    <3>1. CASE Pass \/ \E m \in Messages, s \in Sources : ChangeSource(m, s)
      BY <3>1 DEF Pass, ChangeSource, canonVars
    <3>2. ASSUME NEW w \in Workers, \/ Boot(w) \/ Poll(w) \/ Die(w)
                                    \/ \E j \in Jobs : TakeJob(w, j)
          PROVE  UNCHANGED <<run, annotated, stageRow, decided>>
      BY <3>2 DEF Boot, Poll, Die, TakeJob, canonVars
    <3>3. ASSUME NEW w \in Workers, Process(w)
          PROVE  UNCHANGED <<run, annotated, stageRow, decided>>
      BY <2>6, <3>3 DEF Process, Snapshot, BeginLease, Prepare, Execute, RunLocally, Revalidate,
                        Reserve, CallProvider,
                        Finalize, Recheck, AfterCall, AfterRepair, Accept, Prepared,
                        SkipDisabled, PlanCandidates, RunStages,
                        Project, RecordSuccess, RecordFailure, Raise, canonVars
    <3> QED
      BY <3>1, <3>2, <3>3 DEF Next
  <2> QED
    BY <2>1, <2>2, <2>4, <2>5, <2>6
<1> QED
  BY <1>1, <1>2, AgreedStep, PlacedAlways, PTL DEF Spec, CanonicalWritesAreFenced
-----------------------------------------------------------------------------
(* What a finished run leaves behind.  An owner of a message's only job knows *)
(* the state of its run: nobody else writes it while the lease is owned, and  *)
(* a lost lease is never owned again.                                         *)

AuditedSteps == {"plan", "stages", "consolidate", "project", "finish"}
StartedSteps == {"skip", "annotate", "gate"} \cup AuditedSteps
OutcomeSteps == StartedSteps \cup {"complete"}

OwnerView(w) ==
  Owns(w) /\ OneJob(MessageAt(w)) =>
    /\ pc[w] \in StartedSteps => run[RunAt(w)] = "running"
    /\ pc[w] = "gate" => annotated[RunAt(w)] = out[w]
    /\ pc[w] \in AuditedSteps => stageRow[RunAt(w)] = annotated[RunAt(w)]
    /\ pc[w] = "complete" /\ OneIdentity(MessageAt(w)) => MessageAt(w) \in available

RunView(r) ==
  OneJob(r[1]) /\ run[r] = "succeeded" =>
    /\ stageRow[r] = annotated[r]
    /\ OneIdentity(r[1]) => r[1] \in available

JobView(j) ==
  status[j] = "succeeded" /\ OneJob(MessageOf[j]) /\ OneIdentity(MessageOf[j])
    => MessageOf[j] \in available

OutcomeInv ==
  /\ \A w \in Workers : OwnerView(w)
  /\ \A r \in Runs : RunView(r)
  /\ \A j \in Jobs : JobView(j)

\* The worker's claim, its run and its output are as before.
SameClaim(v) ==
  hold'[v] = hold[v] /\ hgen'[v] = hgen[v] /\ input'[v] = input[v] /\ out'[v] = out[v]

\* A step that writes no canonical record: a worker stays, or goes on among the
\* audited steps with its claim, or leaves them all.  A job is completed only by
\* the owner that is done with it.
QuietStep ==
  /\ UNCHANGED canonVars
  /\ \A v \in Workers :
       \/ pc'[v] \notin OutcomeSteps
       \/ SameClaim(v) /\ pc'[v] = pc[v]
       \/ SameClaim(v) /\ pc[v] \in AuditedSteps /\ pc'[v] \in AuditedSteps
  /\ \A j \in Jobs : status'[j] = "succeeded" =>
       \/ status[j] = "succeeded"
       \/ \E w \in Workers : Owns(w) /\ pc[w] = "complete" /\ hold[w] = j

\* Such a step keeps what every owner knows.
LEMMA QuietKeepsOutcomeInv ==
  ASSUME PlacedInv, OutcomeInv, StaysLost, QuietStep
  PROVE  OutcomeInv'
<1>0. \A m : OneIdentity(m)' <=> OneIdentity(m)
  BY DEF QuietStep, canonVars, OneIdentity, Started
<1>1. ASSUME NEW w \in Workers PROVE OwnerView(w)'
  <2> SUFFICES ASSUME Owns(w)', OneJob(MessageAt(w)'), pc'[w] \in OutcomeSteps
               PROVE  OwnerView(w)'
    BY DEF OwnerView, OneJob, OutcomeSteps, StartedSteps, AuditedSteps
  <2>1. SameClaim(w) /\ (pc'[w] = pc[w] \/ (pc[w] \in AuditedSteps /\ pc'[w] \in AuditedSteps))
    BY DEF QuietStep
  <2>2. Owns(w)
    BY <2>1 DEF SameClaim, StaysLost, Owns
  <2>3. MessageAt(w)' = MessageAt(w) /\ RunAt(w)' = RunAt(w) /\ out'[w] = out[w]
    BY <2>1 DEF SameClaim, MessageAt, RunAt
  <2>4. OwnerView(w) /\ OneJob(MessageAt(w))
    BY <2>3 DEF OutcomeInv
  <2>5. UNCHANGED <<run, annotated, stageRow, available>>
    BY DEF QuietStep, canonVars
  <2>6. OneIdentity(MessageAt(w))' <=> OneIdentity(MessageAt(w))
    BY <2>3, <2>5 DEF OneIdentity, Started
  <2> QED
    BY <2>1, <2>2, <2>3, <2>4, <2>5, <2>6 DEF OwnerView, StartedSteps, AuditedSteps
<1>2. ASSUME NEW r \in Runs PROVE RunView(r)'
  BY <1>0 DEF OutcomeInv, RunView, QuietStep, canonVars, OneJob
<1>3. ASSUME NEW j \in Jobs PROVE JobView(j)'
  <2>1. CASE status[j] = "succeeded"
    BY <1>0, <2>1 DEF OutcomeInv, JobView, QuietStep, canonVars, OneJob
  <2>2. ASSUME NEW w \in Workers, Owns(w), pc[w] = "complete", hold[w] = j
        PROVE  JobView(j)'
    BY <1>0, <2>2 DEF OutcomeInv, OwnerView, MessageAt, JobView, QuietStep, canonVars, OneJob
  <2> QED
    BY <2>1, <2>2 DEF QuietStep, JobView
<1> QED
  BY <1>1, <1>2, <1>3 DEF OutcomeInv

\* A write by an owner: it touches its own run and its own message only, and
\* no run ceases to be started.
OwnedStep(w) ==
  /\ Owns(w)
  /\ UNCHANGED <<status, hold, hgen>>
  /\ \A v \in Workers \ {w} : pc'[v] = pc[v] /\ SameClaim(v)
  /\ \A r \in Runs : r # RunAt(w) => UNCHANGED <<run[r], annotated[r], stageRow[r]>>
  /\ \A r \in Runs : run[r] \in {"running", "succeeded"} => run'[r] \in {"running", "succeeded"}
  /\ \A m \in Messages \ {MessageAt(w)} : m \in available' <=> m \in available

\* Past the start of a run, a worker's job, message and run are defined.
LEMMA RunAtDefined ==
  ASSUME PlacedInv, NEW w \in Workers, pc[w] \in OutcomeSteps \cup {"openRun", "start"}
  PROVE  hold[w] \in Jobs /\ MessageAt(w) \in Messages /\ input[w] \in Sources /\ RunAt(w) \in Runs
<1>1. hold[w] \in Jobs /\ input[w] \in Sources
  BY DEF PlacedInv, Placed, TypeOK, LeaseTypeOK, EarlySteps, OutcomeSteps, StartedSteps,
         AuditedSteps
<1>2. MessageAt(w) \in Messages
  BY <1>1, SourceAssumption DEF MessageAt
<1> QED
  BY <1>1, <1>2 DEF RunAt, Runs

\* The owner's write leaves what all the others know: another owner's message
\* is another one, and the job written about is running.
LEMMA OwnedStepKeepsOthers ==
  ASSUME PlacedInv, LeaseInv, OutcomeInv, StaysLost, NEW w \in Workers, OwnedStep(w),
         hold[w] \in Jobs, OwnerView(w)',
         \A r \in Runs : r[1] = MessageAt(w) => RunView(r)'
  PROVE  OutcomeInv'
<1>0. ASSUME NEW m \in Messages, m # MessageAt(w)
      PROVE  /\ OneIdentity(m)' <=> OneIdentity(m)
             /\ m \in available' <=> m \in available
  <2>1. \A s \in Sources : <<m, s>> \in Runs /\ <<m, s>> # RunAt(w)
    BY <1>0 DEF Runs, RunAt
  <2>2. \A s \in Sources : run'[<<m, s>>] = run[<<m, s>>]
    BY <2>1 DEF OwnedStep
  <2>3. OneIdentity(m)' <=> OneIdentity(m)
    BY <2>2 DEF OneIdentity, Started
  <2> QED
    BY <1>0, <2>3 DEF OwnedStep
<1>1. ASSUME NEW v \in Workers, v # w PROVE OwnerView(v)'
  <2> SUFFICES ASSUME Owns(v)', OneJob(MessageAt(v)'), pc'[v] \in OutcomeSteps
               PROVE  OwnerView(v)'
    BY DEF OwnerView, OneJob, OutcomeSteps, StartedSteps, AuditedSteps
  <2>1. SameClaim(v) /\ pc'[v] = pc[v]
    BY <1>1 DEF OwnedStep
  <2>2. Owns(v)
    BY <2>1 DEF SameClaim, StaysLost, Owns
  <2>3. MessageAt(v)' = MessageAt(v) /\ RunAt(v)' = RunAt(v) /\ out'[v] = out[v]
    BY <2>1 DEF SameClaim, MessageAt, RunAt
  <2>4. hold[v] \in Jobs /\ MessageAt(v) \in Messages /\ RunAt(v) \in Runs
    BY <2>1, RunAtDefined
  <2>5. OwnerView(v) /\ OneJob(MessageAt(v))
    BY <2>3 DEF OutcomeInv
  <2>6. MessageAt(v) # MessageAt(w)
    <3> SUFFICES ASSUME MessageAt(v) = MessageAt(w) PROVE FALSE
      OBVIOUS
    <3>1. hold[v] = hold[w]
      BY <2>4, <2>5 DEF OneJob, MessageAt
    <3> QED
      BY <1>1, <2>2, <3>1 DEF LeaseInv, GenerationsDistinct, Owns, OwnedStep
  <2>7. RunAt(v) # RunAt(w)
    BY <2>6 DEF RunAt
  <2>8. /\ run'[RunAt(v)] = run[RunAt(v)] /\ annotated'[RunAt(v)] = annotated[RunAt(v)]
        /\ stageRow'[RunAt(v)] = stageRow[RunAt(v)]
    BY <2>4, <2>7 DEF OwnedStep
  <2>9. OneIdentity(MessageAt(v))' <=> OneIdentity(MessageAt(v))
    <3>1. \A s \in Sources : <<MessageAt(v), s>> \in Runs /\ <<MessageAt(v), s>> # RunAt(w)
      BY <2>4, <2>6 DEF Runs, RunAt
    <3>2. \A s \in Sources : run'[<<MessageAt(v), s>>] = run[<<MessageAt(v), s>>]
      BY <3>1 DEF OwnedStep
    <3> QED
      BY <2>3, <3>2 DEF OneIdentity, Started
  <2>10. MessageAt(v) \in available' <=> MessageAt(v) \in available
    BY <1>0, <2>4, <2>6
  <2> QED
    BY <2>1, <2>2, <2>3, <2>5, <2>8, <2>9, <2>10 DEF OwnerView
<1>2. ASSUME NEW r \in Runs, r[1] # MessageAt(w) PROVE RunView(r)'
  <2>1. r[1] \in Messages /\ r # RunAt(w)
    BY <1>2 DEF Runs, RunAt
  <2>2. run'[r] = run[r] /\ annotated'[r] = annotated[r] /\ stageRow'[r] = stageRow[r]
    BY <2>1 DEF OwnedStep
  <2> QED
    BY <1>0, <1>2, <2>1, <2>2 DEF OutcomeInv, RunView, OneJob
<1>3. ASSUME NEW j \in Jobs PROVE JobView(j)'
  <2>0. MessageOf[j] \in Messages
    BY SourceAssumption
  <2>1. CASE MessageOf[j] = MessageAt(w)
    <3>1. OneJob(MessageOf[j]) => j = hold[w]
      BY <2>1 DEF OneJob, MessageAt
    <3> QED
      BY <3>1 DEF JobView, OwnedStep, Owns, OneJob
  <2>2. CASE MessageOf[j] # MessageAt(w)
    BY <1>0, <2>0, <2>2 DEF OutcomeInv, JobView, OwnedStep, OneJob
  <2> QED
    BY <2>1, <2>2
<1> QED
  BY <1>1, <1>2, <1>3 DEF OutcomeInv

\* While the owner's run is running, no other run of its message may rely on
\* being the only one started.
LEMMA RunningOwnerKeepsRuns ==
  ASSUME OutcomeInv, NEW w \in Workers, OwnedStep(w), RunAt(w) \in Runs,
         run'[RunAt(w)] = "running", NEW r \in Runs, r[1] = MessageAt(w)
  PROVE  RunView(r)'
<1>1. CASE r = RunAt(w)
  BY <1>1 DEF RunView
<1>2. CASE r # RunAt(w)
  <2>1. run'[r] = run[r] /\ annotated'[r] = annotated[r] /\ stageRow'[r] = stageRow[r]
    BY <1>2 DEF OwnedStep
  <2>2. /\ r = <<r[1], r[2]>> /\ r[2] \in Sources
        /\ input[w] \in Sources /\ RunAt(w) = <<r[1], input[w]>>
    BY DEF Runs, RunAt
  <2>3. run[r] = "succeeded" => ~OneIdentity(r[1])'
    BY <1>2, <2>1, <2>2 DEF OneIdentity, Started
  <2> QED
    BY <2>1, <2>3 DEF OutcomeInv, RunView, OneJob
<1> QED
  BY <1>1, <1>2

\* A raised error is a quiet step.
LEMMA RaiseIsQuiet ==
  ASSUME PlacedInv, NEW w \in Workers, NEW p \in {"fail", "failTerminal"}, Raise(w, p)
  PROVE  QuietStep
  BY DEF QuietStep, Raise, Goto, PlacedInv, TypeOK, canonVars, leaseVars, SameClaim,
         OutcomeSteps, StartedSteps, AuditedSteps

\* Every step is quiet except the canonical writes under the fence.
LEMMA OtherStepsAreQuiet ==
  ASSUME PlacedInv, [Next]_vars,
         \A w \in Workers : ~OpenRun(w) /\ ~StartRun(w) /\ ~SkipDisabled(w) /\ ~Annotate(w)
           /\ ~RecordStage(w) /\ ~Consolidate(w) /\ ~Project(w) /\ ~FinishRun(w)
  PROVE  QuietStep
<1> USE DEF QuietStep, SameClaim, OutcomeSteps, StartedSteps, AuditedSteps, PlacedInv, TypeOK,
            LeaseTypeOK, Goto
<1>1. CASE UNCHANGED vars
  BY <1>1 DEF vars, leaseVars, workVars, canonVars
<1>2. CASE Pass \/ \E m \in Messages, s \in Sources : ChangeSource(m, s)
  BY <1>2 DEF Pass, Tick, ChangeSource, leaseVars, workVars, canonVars
<1>3. ASSUME NEW w \in Workers, Boot(w) \/ Poll(w) PROVE QuietStep
  BY <1>3 DEF Boot, Poll, StartWorker, PollEmpty, Recovered, workVars
<1>4. ASSUME NEW w \in Workers, Die(w) PROVE QuietStep
  BY <1>4 DEF Die, Crash, Forget, jobVars
<1>5. ASSUME NEW w \in Workers, NEW j \in Jobs, TakeJob(w, j) PROVE QuietStep
  BY <1>5 DEF TakeJob, Claim, Recovered
<1>6. ASSUME NEW w \in Workers, Process(w) PROVE QuietStep
  <2> USE DEF leaseVars
  <2>0. CASE \E p \in {"fail", "failTerminal"} : Raise(w, p)
    BY <2>0, RaiseIsQuiet
  <2>1. CASE Snapshot(w) \/ BeginLease(w) \/ Prepare(w) \/ Revalidate(w)
    BY <2>0, <2>1 DEF Snapshot, BeginLease, Prepare, Execute, RunLocally, Revalidate, Renew
  <2>2. CASE Reserve(w) \/ CallProvider(w) \/ Finalize(w)
    BY <2>2 DEF Reserve, CallProvider, Finalize
  <2>3. CASE Recheck(w) \/ Prepared(w)
    BY <2>0, <2>3 DEF Recheck, AfterCall, AfterRepair, Accept, Renew, FallBack, Prepared
  <2>4. CASE PlanCandidates(w) \/ RunStages(w)
    BY <2>0, <2>4 DEF PlanCandidates, RunStages, FencedWrite, Renew
  <2>5. CASE RecordSuccess(w)
    BY <2>5 DEF RecordSuccess, Succeed, Release, Forget
  <2>6. CASE RecordFailure(w)
    BY <2>6 DEF RecordFailure, Fail, FailureStatus, Abandon, Release, Forget, jobVars
  <2> QED
    BY <1>6, <2>1, <2>2, <2>3, <2>4, <2>5, <2>6 DEF Process
<1> QED
  BY <1>1, <1>2, <1>3, <1>4, <1>5, <1>6 DEF Next

\* What the canonical writes have in common: the owner keeps its claim, and its
\* message and run are defined.
OwnerWrites(w) ==
  /\ Owns(w) /\ UNCHANGED <<status, hold, hgen, input, out>>
  /\ pc[w] \in OutcomeSteps \cup {"openRun", "start"}
  /\ \E p \in Steps : Goto(w, p)

\* The canonical writes keep what every owner knows, one case per write.
LEMMA WritesKeepOutcomeInv ==
  ASSUME PlacedInv, LeaseInv, OutcomeInv, StaysLost, NEW w \in Workers, OwnerWrites(w),
         \/ OpenRun(w) \/ StartRun(w) \/ SkipDisabled(w) \/ Annotate(w)
         \/ RecordStage(w) \/ Consolidate(w) \/ Project(w) \/ FinishRun(w),
         ~Raise(w, "fail")
  PROVE  OutcomeInv'
<1> DEFINE q == RunAt(w)
           m == MessageAt(w)
           Others == \A r \in Runs : r # q => /\ run'[r] = run[r] /\ annotated'[r] = annotated[r]
                                              /\ stageRow'[r] = stageRow[r]
<1>1. hold[w] \in Jobs /\ m \in Messages /\ input[w] \in Sources /\ q \in Runs
  BY RunAtDefined DEF OwnerWrites
<1>2. MessageAt(w)' = m /\ RunAt(w)' = q /\ out'[w] = out[w]
  BY DEF OwnerWrites, MessageAt, RunAt
<1>3. ASSUME Others,
             run[q] \in {"running", "succeeded"} => run'[q] \in {"running", "succeeded"},
             \A n \in Messages \ {m} : n \in available' <=> n \in available
      PROVE  OwnedStep(w)
  BY <1>3 DEF OwnerWrites, OwnedStep, SameClaim, Goto, PlacedInv, TypeOK
<1>4. OwnerView(w) /\ RunView(q)
  BY <1>1 DEF OutcomeInv
<1> USE DEF FencedWrite, Goto, PlacedInv, TypeOK, canonVars
<1>5. CASE OpenRun(w)
  <2>1. OwnedStep(w) /\ UNCHANGED <<annotated, stageRow, available>> /\ pc'[w] = "check"
    BY <1>1, <1>3, <1>5 DEF OpenRun
  <2>2. OwnerView(w)'
    BY <2>1 DEF OwnerView, StartedSteps, AuditedSteps
  <2>3. \A r \in Runs : run'[r] = "succeeded" => run[r] = "succeeded"
    BY <1>1, <1>5 DEF OpenRun
  <2>4. ASSUME NEW r \in Runs PROVE OneIdentity(r[1])' => OneIdentity(r[1])
    <3>1. \A s \in Sources : <<r[1], s>> \in Runs
      BY DEF Runs
    <3> QED
      BY <2>1, <3>1 DEF OneIdentity, Started, OwnedStep
  <2>5. \A r \in Runs : RunView(r)'
    BY <2>1, <2>3, <2>4 DEF OutcomeInv, RunView, OneJob
  <2> QED
    BY <1>1, <2>1, <2>2, <2>5, OwnedStepKeepsOthers
<1>6. CASE StartRun(w) /\ run[q] = "succeeded"
  <2>1. OwnedStep(w) /\ UNCHANGED canonVars /\ pc'[w] = "complete"
    BY <1>1, <1>3, <1>6 DEF StartRun, ReplayRun
  <2>2. UNCHANGED <<run, annotated, stageRow, available>>
    BY <2>1 DEF canonVars
  <2>3. OneIdentity(m)' <=> OneIdentity(m)
    BY <1>2, <2>2 DEF OneIdentity, Started
  <2>4. OwnerView(w)'
    BY <1>2, <1>4, <1>6, <2>1, <2>2, <2>3
       DEF OwnerView, RunView, RunAt, StartedSteps, AuditedSteps, OneJob
  <2>5. \A r \in Runs : RunView(r)'
    BY <2>2 DEF OutcomeInv, RunView, OneIdentity, Started, OneJob
  <2> QED
    BY <1>1, <2>1, <2>4, <2>5, OwnedStepKeepsOthers
<1>7. ASSUME \/ StartRun(w) /\ run[q] # "succeeded"
             \/ Annotate(w) \/ RecordStage(w) \/ Consolidate(w) \/ Project(w),
             OneJob(m)
      PROVE  OutcomeInv'
  <2>1. CASE StartRun(w) /\ run[q] # "succeeded"
    <3>1. OwnedStep(w) /\ run'[q] = "running" /\ pc'[w] \in {"skip", "annotate"}
      BY <1>1, <1>3, <2>1 DEF StartRun, ReplayRun
    <3>2. OwnerView(w)'
      BY <1>2, <3>1 DEF OwnerView, StartedSteps, AuditedSteps
    <3> QED
      BY <1>1, <3>1, <3>2, OwnedStepKeepsOthers, RunningOwnerKeepsRuns
  <2>2. CASE Annotate(w) \/ RecordStage(w) \/ Consolidate(w) \/ Project(w)
    <3>1. /\ run[q] = "running" /\ run' = run
          /\ pc[w] = "gate" => annotated[q] = out[w]
          /\ pc[w] \in AuditedSteps => stageRow[q] = annotated[q]
      BY <1>4, <1>7, <2>2
         DEF OwnerWrites, OwnerView, Annotate, RecordStage, Consolidate, Project, StartedSteps,
             AuditedSteps
    <3>2. OwnedStep(w)
      BY <1>1, <1>3, <2>2, <3>1 DEF Annotate, RecordStage, StageRow, Consolidate, Project
    <3>3. /\ pc'[w] \in {"gate", "plan", "project", "finish"}
          /\ pc'[w] = "gate" => annotated'[q] = out[w]
          /\ pc'[w] \in AuditedSteps => stageRow'[q] = annotated'[q]
      BY <1>1, <2>2, <3>1
         DEF Annotate, RecordStage, StageRow, Consolidate, Project, AuditedSteps
    <3>4. OwnerView(w)'
      BY <1>2, <3>1, <3>3 DEF OwnerView, StartedSteps, AuditedSteps
    <3> QED
      BY <1>1, <3>1, <3>2, <3>4, OwnedStepKeepsOthers, RunningOwnerKeepsRuns
  <2> QED
    BY <1>7, <2>1, <2>2
<1>8. ASSUME OwnedStep(w), ~OneJob(m) PROVE OutcomeInv'
  BY <1>1, <1>2, <1>8, OwnedStepKeepsOthers DEF OwnerView, RunView, OneJob
<1>9. CASE StartRun(w) \/ Annotate(w) \/ RecordStage(w) \/ Consolidate(w) \/ Project(w)
  <2>1. CASE OneJob(m)
    BY <1>6, <1>7, <1>9, <2>1
  <2>2. CASE ~OneJob(m)
    <3>1. OwnedStep(w)
      BY <1>1, <1>3, <1>9
         DEF StartRun, ReplayRun, Annotate, RecordStage, StageRow, Consolidate, Project
    <3> QED
      BY <1>8, <2>2, <3>1
  <2> QED
    BY <2>1, <2>2
<1>10. CASE SkipDisabled(w) \/ FinishRun(w)
  <2>1. /\ OwnedStep(w) /\ m \in available' /\ pc'[w] = "complete"
        /\ UNCHANGED <<annotated, stageRow>>
    BY <1>1, <1>3, <1>10 DEF SkipDisabled, FinishRun
  <2>2. OwnerView(w)'
    BY <1>2, <2>1 DEF OwnerView, StartedSteps, AuditedSteps
  <2>3. ASSUME NEW r \in Runs, r[1] = m PROVE RunView(r)'
    <3>1. CASE r = q /\ FinishRun(w)
      BY <1>4, <2>1, <2>3, <3>1 DEF OwnerWrites, OwnerView, RunView, FinishRun, AuditedSteps, OneJob
    <3>2. CASE r # q \/ SkipDisabled(w)
      <4>1. run'[r] = run[r]
        BY <1>10, <2>1, <3>2 DEF OwnedStep, SkipDisabled, FinishRun
      <4> QED
        BY <2>1, <2>3, <4>1 DEF OutcomeInv, RunView, OneJob
    <3> QED
      BY <1>10, <3>1, <3>2
  <2> QED
    BY <1>1, <2>1, <2>2, <2>3, OwnedStepKeepsOthers
<1> QED
  BY <1>5, <1>9, <1>10

\* The invariant holds in every reachable state.
LEMMA OutcomeInvAlways == Spec => []OutcomeInv
<1>1. Init => OutcomeInv
  <2> SUFFICES ASSUME Init PROVE OutcomeInv
    OBVIOUS
  <2>1. \A w \in Workers : OwnerView(w)
    BY DEF Init, LeaseInit, OwnerView, Owns
  <2>2. \A r \in Runs : RunView(r)
    BY DEF Init, RunView
  <2>3. \A j \in Jobs : JobView(j)
    BY DEF Init, LeaseInit, JobView
  <2> QED
    BY <2>1, <2>2, <2>3 DEF OutcomeInv
<1>2. PlacedInv /\ LeaseInv /\ OutcomeInv /\ [Next]_vars => OutcomeInv'
  <2> SUFFICES ASSUME PlacedInv, LeaseInv, OutcomeInv, [Next]_vars PROVE OutcomeInv'
    OBVIOUS
  <2>0. StaysLost
    BY PipelineStepIsLeaseStep, LostLeaseStep
  <2>1. ASSUME NEW w \in Workers,
               \/ OpenRun(w) \/ StartRun(w) \/ SkipDisabled(w) \/ Annotate(w)
               \/ RecordStage(w) \/ Consolidate(w) \/ Project(w) \/ FinishRun(w)
        PROVE  OutcomeInv'
    <3>1. CASE Raise(w, "fail")
      BY <2>0, <3>1, RaiseIsQuiet, QuietKeepsOutcomeInv
    <3>2. CASE ~Raise(w, "fail")
      <4>1. OwnerWrites(w)
        BY <2>1, <3>2
           DEF OwnerWrites, OpenRun, StartRun, ReplayRun, SkipDisabled, Annotate, RecordStage,
               Consolidate, Project, Renew, FinishRun, FencedWrite, Fenced, leaseVars,
               OutcomeSteps, StartedSteps, AuditedSteps, Steps
      <4> QED
        BY <2>0, <2>1, <3>2, <4>1, WritesKeepOutcomeInv
    <3> QED
      BY <3>1, <3>2
  <2>2. CASE \A w \in Workers : ~OpenRun(w) /\ ~StartRun(w) /\ ~SkipDisabled(w) /\ ~Annotate(w)
               /\ ~RecordStage(w) /\ ~Consolidate(w) /\ ~Project(w) /\ ~FinishRun(w)
    BY <2>0, <2>2, OtherStepsAreQuiet, QuietKeepsOutcomeInv
  <2> QED
    BY <2>1, <2>2
<1> QED
  BY <1>1, <1>2, PlacedAlways, LeaseInvAlways, PipelineImplementsLease, PTL
     DEF Spec, ImplementsLease

\* A finished run's audit row states where its newest annotations came from,
\* although the two are written by two transactions.
THEOREM FinishedRunsAreAudited == Spec => []AuditMatchesAnnotations
<1>1. OutcomeInv => AuditMatchesAnnotations
  BY DEF OutcomeInv, RunView, AuditMatchesAnnotations
<1> QED
  BY <1>1, OutcomeInvAlways, PTL

\* A succeeded job's message is available, unless another identity's run has
\* taken it back.
THEOREM SucceededJobsAreAvailable == Spec => []SucceededMeansAvailable
<1>1. OutcomeInv => SucceededMeansAvailable
  BY DEF OutcomeInv, JobView, SucceededMeansAvailable
<1> QED
  BY <1>1, OutcomeInvAlways, PTL
=============================================================================
