----------------------- MODULE SemanticPlanningProofs -----------------------
(***************************************************************************)
(* Proofs about semantic candidate planning, for any number of workers,    *)
(* jobs, identities and proposals.                                         *)
(***************************************************************************)
EXTENDS SemanticPlanning, JobLeaseProofs

Stages == {"idle", "load", "execute", "check", "reserve", "call", "recheck",
           "recordFence", "record", "persistFence", "persist",
           "linkFence", "link", "done", "fail"}

RecordTypes ==
  /\ profile \in Identities
  /\ pc \in [Workers -> Stages]
  /\ seen \in [Workers -> Identities \cup {NoIdentity}]
  /\ out \in [Workers -> Outputs \cup {"none"}]
  /\ next \in [Workers -> 1..(Proposals + 1)]
  /\ attempt \in [Identities -> BOOLEAN]
  /\ semantic \in [Identities -> {"none", "provider", "abstention"}]
  /\ plans \in [Identities -> Seq(Outputs)]
  /\ linked \in [Identities -> SUBSET (1..Proposals)]

\* What a worker carries at each place: no output before the analysis, one of
\* the two semantic outputs up to the record, and a proposal to link only
\* under the provider's output.
Placed(w) ==
  /\ hold[w] = NoJob => pc[w] = "idle"
  /\ pc[w] # "idle" => seen[w] \in Identities
  /\ pc[w] \in {"idle", "load", "execute", "check", "reserve", "call"} => out[w] = "none"
  /\ pc[w] \in {"recheck", "recordFence", "record"} => out[w] \in {"provider", "abstention"}
  /\ pc[w] \in {"persistFence", "persist", "linkFence", "link"} => out[w] \in Outputs
  /\ pc[w] \in Stages \ {"linkFence", "link", "done", "fail"} => next[w] = 1
  /\ pc[w] = "link" => out[w] = "provider" /\ next[w] <= Proposals

Stored(s, origin) == \E i \in DOMAIN plans[s] : plans[s][i] = origin

\* A linking worker's plan is stored, and the proposals it has passed are
\* linked; a worker that is done has such a plan or found one.
Linking(w) ==
  /\ pc[w] \in {"linkFence", "link"} =>
       /\ Stored(seen[w], out[w])
       /\ \A p \in 1..Proposals : p < next[w] => p \in linked[seen[w]]
  /\ pc[w] = "done" =>
       \E s \in Identities : \E i \in DOMAIN plans[s] :
         /\ out[w] # "none" => s = seen[w] /\ plans[s][i] = out[w]
         /\ Complete(s, plans[s][i])

WorkersPlaced == \A w \in Workers : Placed(w)
WorkersLink == \A w \in Workers : Linking(w)

PlanningInv == LeaseTypeOK /\ RecordTypes /\ WorkersPlaced /\ WorkersLink

\* Plans are only appended to and links only added.
RecordsGrow ==
  \A s \in Identities :
    /\ \A i \in DOMAIN plans[s] : i \in DOMAIN plans'[s] /\ plans'[s][i] = plans[s][i]
    /\ linked[s] \subseteq linked'[s]
-----------------------------------------------------------------------------
\* Seen from the job rows, every step of the stage is a lease statement or
\* leaves the rows alone.
LEMMA PlanningStepIsLeaseStep == [Next]_vars => [LeaseNext]_leaseVars
<1> SUFFICES ASSUME [Next]_vars PROVE [LeaseNext]_leaseVars
  OBVIOUS
<1>1. CASE UNCHANGED vars
  BY <1>1 DEF vars, leaseVars
<1>2. CASE Pass
  BY <1>2 DEF Pass, LeaseNext
<1>3. CASE \E s \in Identities : ChangeProfile(s)
  BY <1>3 DEF ChangeProfile
<1>4. ASSUME NEW w \in Workers,
             Boot(w) \/ Poll(w) \/ Die(w) \/ Plan(w) \/ \E j \in Jobs : Enter(w, j)
      PROVE  LeaseStep(w) \/ UNCHANGED leaseVars
  <2>1. CASE Boot(w) \/ Poll(w) \/ Die(w)
    BY <2>1 DEF Boot, Poll, Die, LeaseStep
  <2>2. CASE \E j \in Jobs : Enter(w, j)
    BY <2>2 DEF Enter, LeaseStep
  <2>3. CASE CompleteJob(w)
    BY <2>3 DEF CompleteJob, Raise, LeaseStep
  <2>4. CASE RecordFailure(w)
    <3>1. FALSE \in BOOLEAN
      OBVIOUS
    <3> QED
      BY <2>4, <3>1 DEF RecordFailure, LeaseStep
  <2>5. CASE Plan(w) /\ ~CompleteJob(w) /\ ~RecordFailure(w)
    BY <2>5 DEF Plan, LoadPlanning, LoadExecution, Revalidate, Reserve, CallProvider, Recheck,
                RecordFence, RecordExecution, PersistFence, PersistPlan, LinkFence,
                LinkCandidate, Check, Raise
  <2> QED
    BY <1>4, <2>1, <2>2, <2>3, <2>4, <2>5
<1> QED
  BY <1>1, <1>2, <1>3, <1>4 DEF Next, LeaseNext

\* A worker that does not move keeps what it relies on: the other workers'
\* writes only add to the records.
LEMMA UnmovedKeepsItsPlace ==
  ASSUME RecordTypes, RecordTypes', RecordsGrow, NEW v \in Workers, Placed(v), Linking(v),
         hold'[v] = NoJob => hold[v] = NoJob, pc'[v] = pc[v], seen'[v] = seen[v],
         out'[v] = out[v], next'[v] = next[v]
  PROVE  Placed(v)' /\ Linking(v)'
<1>1. Placed(v)'
  BY DEF Placed
<1>2. ASSUME pc[v] \in {"linkFence", "link"}
      PROVE  /\ Stored(seen[v], out[v])'
             /\ \A p \in 1..Proposals : p < next'[v] => p \in linked'[seen'[v]]
  <2>1. seen[v] \in Identities
    BY <1>2 DEF Placed
  <2> QED
    BY <1>2, <2>1 DEF Linking, Stored, RecordsGrow
<1>3. ASSUME pc[v] = "done"
      PROVE  \E s \in Identities : \E i \in DOMAIN plans'[s] :
               /\ out'[v] # "none" => s = seen'[v] /\ plans'[s][i] = out'[v]
               /\ Complete(s, plans[s][i])'
  <2>1. PICK s \in Identities : \E i \in DOMAIN plans[s] :
               /\ out[v] # "none" => s = seen[v] /\ plans[s][i] = out[v]
               /\ Complete(s, plans[s][i])
    BY <1>3 DEF Linking
  <2>2. PICK i \in DOMAIN plans[s] :
               /\ out[v] # "none" => s = seen[v] /\ plans[s][i] = out[v]
               /\ Complete(s, plans[s][i])
    BY <2>1
  <2>3. i \in DOMAIN plans'[s] /\ plans'[s][i] = plans[s][i] /\ linked[s] \subseteq linked'[s]
    BY <2>2 DEF RecordsGrow
  <2>4. linked'[s] \subseteq 1..Proposals
    BY DEF RecordTypes
  <2>5. Complete(s, plans[s][i])'
    BY <2>2, <2>3, <2>4 DEF Complete
  <2> QED
    BY <2>2, <2>3, <2>5
<1> QED
  BY <1>1, <1>2, <1>3 DEF Linking

\* One worker's step leaves the places of all others.
OnlyMoves(w) ==
  \A v \in Workers \ {w} :
    /\ hold'[v] = hold[v] /\ pc'[v] = pc[v] /\ seen'[v] = seen[v]
    /\ out'[v] = out[v] /\ next'[v] = next[v]

\* A step is in order when the records keep their types and only grow, and the
\* one worker that moves is well placed afterwards.
LEMMA MoveKeepsPlanningInv ==
  ASSUME PlanningInv, LeaseTypeOK', RecordTypes', RecordsGrow, NEW w \in Workers,
         OnlyMoves(w), Placed(w)', Linking(w)'
  PROVE  PlanningInv'
<1>1. ASSUME NEW v \in Workers PROVE Placed(v)' /\ Linking(v)'
  <2>1. CASE v = w
    BY <2>1
  <2>2. CASE v # w
    BY <2>2, UnmovedKeepsItsPlace DEF OnlyMoves, PlanningInv, WorkersPlaced, WorkersLink
  <2> QED
    BY <2>1, <2>2
<1> QED
  BY <1>1 DEF PlanningInv, WorkersPlaced, WorkersLink

\* A step that moves no worker and writes no record is in order.
LEMMA StillKeepsPlanningInv ==
  ASSUME PlanningInv, LeaseTypeOK', RecordTypes', UNCHANGED <<hold, stageVars, plans, linked>>
  PROVE  PlanningInv'
<1>1. RecordsGrow
  BY DEF RecordsGrow
<1>2. ASSUME NEW v \in Workers PROVE Placed(v)' /\ Linking(v)'
  BY <1>1, UnmovedKeepsItsPlace DEF PlanningInv, WorkersPlaced, WorkersLink, stageVars
<1> QED
  BY <1>2 DEF PlanningInv, WorkersPlaced, WorkersLink

\* A worker that goes to a place p with nothing changed but its pc.
LEMMA GotoKeepsPlanningInv ==
  ASSUME PlanningInv, NEW w \in Workers, NEW p \in Stages, Goto(w, p), Placed(w)', Linking(w)',
         UNCHANGED <<leaseVars, profile, seen, out, next, recordVars>>
  PROVE  PlanningInv'
<1>1. LeaseTypeOK' /\ RecordTypes'
  BY DEF PlanningInv, LeaseTypeOK, leaseVars, RecordTypes, recordVars, Goto
<1>2. RecordsGrow
  BY DEF RecordsGrow, recordVars
<1>3. OnlyMoves(w)
  BY DEF OnlyMoves, leaseVars, Goto, PlanningInv, RecordTypes
<1> QED
  BY <1>1, <1>2, <1>3, MoveKeepsPlanningInv

\* A raised error is in order anywhere: a failing worker relies on nothing.
LEMMA RaiseKeepsPlanningInv ==
  ASSUME PlanningInv, NEW w \in Workers, pc[w] # "idle", Raise(w)
  PROVE  PlanningInv'
<1>1. pc'[w] = "fail"
  BY DEF Raise, Goto, PlanningInv, RecordTypes
<1>2. Placed(w)'
  BY <1>1 DEF Raise, leaseVars, PlanningInv, WorkersPlaced, Placed
<1>3. Linking(w)'
  BY <1>1 DEF Linking
<1> QED
  BY <1>2, <1>3, GotoKeepsPlanningInv DEF Raise, Stages

\* A plain check sends the worker on to a place where it carries the same, or
\* raises.
LEMMA CheckKeepsPlanningInv ==
  ASSUME PlanningInv, NEW w \in Workers, pc[w] # "idle", NEW p \in Stages, Check(w, p),
         \/ pc[w] = "check" /\ p = "reserve"
         \/ pc[w] = "recheck" /\ p = "recordFence"
         \/ pc[w] = "recordFence" /\ p = "record"
         \/ pc[w] = "persistFence" /\ p = "persist"
         \/ pc[w] = "linkFence" /\ p = "link" /\ out[w] = "provider" /\ next[w] <= Proposals
  PROVE  PlanningInv'
<1>1. CASE Raise(w)
  BY <1>1, RaiseKeepsPlanningInv
<1>2. CASE /\ Goto(w, p)
           /\ UNCHANGED <<leaseVars, versioned, profile, seen, out, next, recordVars>>
  <2>1. pc'[w] = p
    BY <1>2 DEF Goto, PlanningInv, RecordTypes
  <2>2. Placed(w)'
    BY <1>2, <2>1 DEF leaseVars, PlanningInv, WorkersPlaced, Placed, Stages
  <2>3. Linking(w)'
    BY <1>2, <2>1 DEF recordVars, PlanningInv, WorkersLink, Linking, Stored
  <2> QED
    BY <1>2, <2>2, <2>3, GotoKeepsPlanningInv
<1> QED
  BY <1>1, <1>2 DEF Check

\* A worker that leaves the stage for good or for a new attempt is idle again.
LEMMA ResetKeepsPlanningInv ==
  ASSUME PlanningInv, LeaseTypeOK', NEW w \in Workers, Reset(w),
         UNCHANGED <<profile, recordVars>>, hold' = [hold EXCEPT ![w] = NoJob]
  PROVE  PlanningInv'
<1> USE DEF PlanningInv
<1>1. RecordTypes'
  BY PlanningAssumption DEF Reset, Goto, RecordTypes, recordVars, Stages
<1>2. RecordsGrow
  BY DEF RecordsGrow, recordVars
<1>3. OnlyMoves(w)
  BY DEF OnlyMoves, Reset, Goto, RecordTypes, LeaseTypeOK
<1>4. Placed(w)'
  BY DEF Reset, Goto, RecordTypes, Placed
<1>5. Linking(w)'
  BY DEF Reset, Goto, RecordTypes, Linking
<1> QED
  BY <1>1, <1>2, <1>3, <1>4, <1>5, MoveKeepsPlanningInv
-----------------------------------------------------------------------------
\* Every step of the stage keeps the invariant, one case per action.
LEMMA PlanStepKeepsPlanningInv ==
  ASSUME PlanningInv, LeaseTypeOK', NEW w \in Workers, Plan(w)
  PROVE  PlanningInv'
<1> USE PlanningAssumption DEF PlanningInv
<1>0. Placed(w) /\ Linking(w) /\ pc[w] \in Stages
  BY DEF WorkersPlaced, WorkersLink, RecordTypes
<1>1. CASE LoadPlanning(w)
  <2>0. UNCHANGED <<leaseVars, profile, seen, out, next, recordVars>> /\ pc[w] = "load"
    BY <1>1 DEF LoadPlanning
  <2>1. CASE Goto(w, "execute") \/ Goto(w, "fail")
    <3>1. PICK p \in {"execute", "fail"} : Goto(w, p)
      BY <2>1
    <3>2. pc'[w] = p
      BY <3>1 DEF Goto, RecordTypes
    <3>3. Placed(w)' /\ Linking(w)'
      BY <1>0, <2>0, <3>2 DEF Placed, Linking, leaseVars, Stages
    <3> QED
      BY <2>0, <3>1, <3>3, GotoKeepsPlanningInv DEF Stages
  <2>2. ASSUME NEW s \in Planned, Complete(s, Newest(s)), Goto(w, "done") PROVE PlanningInv'
    <3>1. pc'[w] = "done"
      BY <2>2 DEF Goto, RecordTypes
    <3>2. Placed(w)'
      BY <1>0, <2>0, <3>1 DEF Placed, leaseVars, Stages
    <3>3. s \in Identities /\ Len(plans[s]) \in DOMAIN plans[s]
      BY <2>2 DEF Planned, RecordTypes
    <3>4. Complete(s, plans[s][Len(plans[s])])'
      BY <2>0, <2>2 DEF Complete, Newest, recordVars
    <3>5. out'[w] = "none"
      BY <1>0, <2>0 DEF Placed
    <3>6. Linking(w)'
      BY <2>0, <3>1, <3>3, <3>4, <3>5 DEF Linking, recordVars
    <3> QED
      BY <2>0, <2>2, <3>2, <3>6, GotoKeepsPlanningInv DEF Stages
  <2> QED
    BY <1>1, <2>1, <2>2 DEF LoadPlanning
<1>2. CASE LoadExecution(w)
  <2>1. /\ pc[w] = "execute" /\ seen[w] \in Identities
        /\ UNCHANGED <<leaseVars, profile, seen, next, recordVars>>
    BY <1>0, <1>2 DEF LoadExecution, Placed
  <2>2. PICK o \in Outputs \cup {"none"}, p \in {"persistFence", "recordFence", "check"} :
          /\ out' = [out EXCEPT ![w] = o] /\ Goto(w, p)
          /\ p = "check" => o = "none"
          /\ p = "recordFence" => o = "abstention"
          /\ p = "persistFence" => o \in Outputs
    <3>1. semantic[seen[w]] \in {"none", "provider", "abstention"}
      BY <2>1 DEF RecordTypes
    <3>2. UNCHANGED out => out' = [out EXCEPT ![w] = "none"]
      BY <1>0, <2>1 DEF Placed, RecordTypes
    <3> QED
      BY <1>2, <3>1, <3>2 DEF LoadExecution, Outputs
  <2>3. RecordTypes' /\ pc'[w] = p /\ out'[w] = o
    BY <2>1, <2>2 DEF RecordTypes, recordVars, Goto, Stages
  <2>4. RecordsGrow /\ OnlyMoves(w)
    BY <2>1, <2>2 DEF RecordsGrow, OnlyMoves, recordVars, leaseVars, Goto, RecordTypes
  <2>5. Placed(w)' /\ Linking(w)'
    BY <1>0, <2>1, <2>2, <2>3 DEF Placed, Linking, leaseVars, Stages
  <2> QED
    BY <2>3, <2>4, <2>5, MoveKeepsPlanningInv
<1>3. CASE Revalidate(w) \/ Recheck(w) \/ RecordFence(w) \/ PersistFence(w)
  BY <1>3, CheckKeepsPlanningInv DEF Revalidate, Recheck, RecordFence, PersistFence, Stages
<1>4. CASE Reserve(w) \/ CallProvider(w)
  <2>1. /\ pc[w] \in {"reserve", "call"} /\ seen[w] \in Identities
        /\ UNCHANGED <<leaseVars, profile, seen, next, semantic, plans, linked>>
    BY <1>0, <1>4 DEF Reserve, CallProvider, recordVars, Placed
  <2>2. PICK o \in {"none", "provider", "abstention"}, p \in {"call", "recheck"} :
          /\ out' = [out EXCEPT ![w] = o] /\ Goto(w, p)
          /\ p = "call" => o = "none"
          /\ p = "recheck" => o \in {"provider", "abstention"}
    <3>1. UNCHANGED out => out' = [out EXCEPT ![w] = "none"]
      BY <1>0, <2>1 DEF Placed, RecordTypes
    <3> QED
      BY <1>4, <3>1 DEF Reserve, CallProvider
  <2>3. RecordTypes' /\ pc'[w] = p /\ out'[w] = o
    BY <1>4, <2>1, <2>2 DEF RecordTypes, recordVars, Goto, Stages, Outputs, Reserve, CallProvider
  <2>4. RecordsGrow /\ OnlyMoves(w)
    BY <2>1, <2>2 DEF RecordsGrow, OnlyMoves, leaseVars, Goto, RecordTypes
  <2>5. Placed(w)' /\ Linking(w)'
    BY <1>0, <2>1, <2>2, <2>3 DEF Placed, Linking, leaseVars, Stages
  <2> QED
    BY <2>3, <2>4, <2>5, MoveKeepsPlanningInv
<1>5. CASE RecordExecution(w)
  <2>1. seen[w] \in Identities /\ out[w] \in {"provider", "abstention"}
    BY <1>0, <1>5 DEF RecordExecution, Placed
  <2>2. RecordTypes' /\ pc'[w] = "persistFence"
    BY <1>5, <2>1 DEF RecordExecution, RecordTypes, Goto, Stages
  <2>3. RecordsGrow /\ OnlyMoves(w)
    BY <1>5 DEF RecordExecution, RecordsGrow, OnlyMoves, leaseVars, Goto, RecordTypes
  <2>4. Placed(w)' /\ Linking(w)'
    BY <1>0, <1>5, <2>1, <2>2 DEF RecordExecution, Placed, Linking, leaseVars, Stages, Outputs
  <2> QED
    BY <2>2, <2>3, <2>4, MoveKeepsPlanningInv
<1>6. CASE PersistPlan(w)
  <2>1. CASE Raise(w)
    BY <1>6, <2>1, RaiseKeepsPlanningInv DEF PersistPlan
  <2>2. CASE /\ pc[w] = "persist" /\ Goto(w, "linkFence")
             /\ LET s == seen[w] IN
                  plans' = [plans EXCEPT ![s] =
                     IF \E i \in DOMAIN @ : @[i] = out[w] THEN @ ELSE Append(@, out[w])]
             /\ UNCHANGED <<leaseVars, versioned, profile, seen, out, next, attempt, semantic,
                            linked>>
    <3> DEFINE s == seen[w]
    <3>1. s \in Identities /\ out[w] \in Outputs /\ next[w] = 1
      BY <1>0, <2>2 DEF Placed, Stages
    <3>2. plans[s] \in Seq(Outputs)
      BY <3>1 DEF RecordTypes
    <3>3. /\ plans'[s] \in Seq(Outputs)
          /\ \A i \in DOMAIN plans[s] : i \in DOMAIN plans'[s] /\ plans'[s][i] = plans[s][i]
          /\ \E i \in DOMAIN plans'[s] : plans'[s][i] = out[w]
      <4>1. CASE \E i \in DOMAIN plans[s] : plans[s][i] = out[w]
        BY <2>2, <3>1, <3>2, <4>1 DEF RecordTypes
      <4>2. CASE ~\E i \in DOMAIN plans[s] : plans[s][i] = out[w]
        <5>1. plans'[s] = Append(plans[s], out[w])
          BY <2>2, <3>1, <4>2 DEF RecordTypes
        <5>2. Len(plans[s]) + 1 \in DOMAIN plans'[s] /\ plans'[s][Len(plans[s]) + 1] = out[w]
          BY <3>1, <3>2, <5>1
        <5> QED
          BY <3>1, <3>2, <5>1, <5>2
      <4> QED
        BY <4>1, <4>2
    <3>4. /\ \A t \in Identities \ {s} : plans'[t] = plans[t]
          /\ DOMAIN plans' = Identities
      BY <2>2 DEF RecordTypes
    <3>5. plans' \in [Identities -> Seq(Outputs)]
      <4>1. plans' = [t \in Identities |-> plans'[t]]
        BY <2>2 DEF RecordTypes
      <4>2. \A t \in Identities : plans'[t] \in Seq(Outputs)
        BY <3>3, <3>4 DEF RecordTypes
      <4> QED
        BY <4>1, <4>2
    <3>6. RecordTypes' /\ pc'[w] = "linkFence"
      BY <2>2, <3>5 DEF RecordTypes, Goto, Stages
    <3>7. RecordsGrow
      BY <2>2, <3>3, <3>4 DEF RecordsGrow
    <3>8. OnlyMoves(w)
      BY <2>2 DEF OnlyMoves, leaseVars, Goto, RecordTypes
    <3>9. Placed(w)'
      BY <1>0, <2>2, <3>1, <3>6 DEF Placed, leaseVars, Stages
    <3>10. Linking(w)'
      BY <2>2, <3>1, <3>3, <3>6 DEF Linking, Stored
    <3> QED
      BY <3>6, <3>7, <3>8, <3>9, <3>10, MoveKeepsPlanningInv
  <2> QED
    BY <1>6, <2>1, <2>2 DEF PersistPlan
<1>7. CASE LinkFence(w)
  <2>1. CASE Check(w, "link") /\ out[w] = "provider" /\ next[w] <= Proposals
    BY <1>7, <2>1, CheckKeepsPlanningInv DEF LinkFence, Stages
  <2>2. CASE /\ ~(out[w] = "provider" /\ next[w] <= Proposals) /\ Goto(w, "done")
             /\ UNCHANGED <<leaseVars, versioned, profile, seen, out, next, recordVars>>
    <3>1. pc'[w] = "done" /\ pc[w] = "linkFence"
      BY <1>7, <2>2 DEF LinkFence, Goto, RecordTypes
    <3>2. Placed(w)'
      BY <1>0, <2>2, <3>1 DEF Placed, leaseVars, Stages
    <3>3. PICK i \in DOMAIN plans[seen[w]] : plans[seen[w]][i] = out[w]
      BY <1>0, <3>1 DEF Linking, Stored
    <3>4. Complete(seen[w], out[w])
      <4> SUFFICES ASSUME out[w] = "provider" PROVE linked[seen[w]] = 1..Proposals
        BY DEF Complete
      <4>1. \A p \in 1..Proposals : p < next[w]
        BY <2>2 DEF RecordTypes
      <4>2. linked[seen[w]] \subseteq 1..Proposals
        BY <1>0, <3>1 DEF Placed, RecordTypes
      <4> QED
        BY <1>0, <3>1, <4>1, <4>2 DEF Linking
    <3>5. seen[w] \in Identities /\ Complete(seen[w], plans[seen[w]][i])'
      BY <1>0, <2>2, <3>1, <3>3, <3>4 DEF Complete, recordVars, Placed
    <3>6. Linking(w)'
      BY <2>2, <3>1, <3>3, <3>5 DEF Linking, recordVars
    <3> QED
      BY <2>2, <3>2, <3>6, GotoKeepsPlanningInv DEF Stages
  <2> QED
    BY <1>7, <2>1, <2>2 DEF LinkFence
<1>8. CASE LinkCandidate(w)
  <2>1. seen[w] \in Identities /\ next[w] \in 1..Proposals /\ out[w] = "provider"
    BY <1>0, <1>8 DEF LinkCandidate, Placed, RecordTypes
  <2>2. RecordTypes' /\ pc'[w] = "linkFence" /\ next'[w] = next[w] + 1
    BY <1>8, <2>1 DEF LinkCandidate, RecordTypes, Goto, Stages
  <2>3. RecordsGrow /\ OnlyMoves(w)
    BY <1>8 DEF LinkCandidate, RecordsGrow, OnlyMoves, leaseVars, Goto, RecordTypes
  <2>4. Placed(w)'
    BY <1>0, <1>8, <2>1, <2>2 DEF LinkCandidate, Placed, leaseVars, Stages, Outputs
  <2>5. Linking(w)'
    <3>1. Stored(seen[w], out[w])'
      BY <1>0, <1>8 DEF LinkCandidate, Linking, Stored
    <3>2. \A p \in 1..Proposals : p < next'[w] => p \in linked'[seen'[w]]
      BY <1>0, <1>8, <2>1, <2>2 DEF LinkCandidate, Linking, RecordTypes
    <3> QED
      BY <2>2, <3>1, <3>2 DEF Linking
  <2> QED
    BY <2>2, <2>3, <2>4, <2>5, MoveKeepsPlanningInv
<1>9. CASE CompleteJob(w)
  BY <1>9, RaiseKeepsPlanningInv, ResetKeepsPlanningInv DEF CompleteJob, Succeed, Release
<1>10. CASE RecordFailure(w)
  BY <1>10, ResetKeepsPlanningInv DEF RecordFailure, Fail, Abandon, Release
<1> QED
  BY <1>1, <1>2, <1>3, <1>4, <1>5, <1>6, <1>7, <1>8, <1>9, <1>10 DEF Plan

\* The invariant holds in every reachable state.
LEMMA PlanningInvAlways == Spec => []PlanningInv
<1>1. Init => PlanningInv
  <2> SUFFICES ASSUME Init PROVE PlanningInv
    OBVIOUS
  <2>1. LeaseTypeOK
    BY JobAssumption DEF Init, LeaseInit, LeaseTypeOK
  <2>2. RecordTypes
    BY PlanningAssumption DEF Init, RecordTypes, Stages
  <2>3. WorkersPlaced /\ WorkersLink
    BY DEF Init, WorkersPlaced, Placed, WorkersLink, Linking
  <2> QED
    BY <2>1, <2>2, <2>3 DEF PlanningInv
<1>2. PlanningInv /\ [Next]_vars => PlanningInv'
  <2> SUFFICES ASSUME PlanningInv, [Next]_vars PROVE PlanningInv'
    OBVIOUS
  <2>0. LeaseTypeOK'
    BY PlanningStepIsLeaseStep, LeaseTypeStep DEF PlanningInv
  <2>1. CASE UNCHANGED vars
    <3>1. RecordTypes'
      BY <2>1 DEF vars, stageVars, recordVars, PlanningInv, RecordTypes
    <3> QED
      BY <2>0, <2>1, <3>1, StillKeepsPlanningInv DEF vars, leaseVars, recordVars
  <2>2. CASE Pass
    <3>1. RecordTypes'
      BY <2>2 DEF Pass, stageVars, recordVars, PlanningInv, RecordTypes
    <3> QED
      BY <2>0, <2>2, <3>1, StillKeepsPlanningInv DEF Pass, Tick, recordVars
  <2>3. ASSUME NEW s \in Identities, ChangeProfile(s) PROVE PlanningInv'
    <3>1. RecordTypes'
      BY <2>3 DEF ChangeProfile, stageVars, recordVars, PlanningInv, RecordTypes
    <3> QED
      BY <2>0, <2>3, <3>1, StillKeepsPlanningInv DEF ChangeProfile, leaseVars, recordVars
  <2>4. ASSUME NEW w \in Workers,
               Boot(w) \/ Poll(w) \/ Die(w) \/ Plan(w) \/ \E j \in Jobs : Enter(w, j)
        PROVE  PlanningInv'
    <3>1. CASE Boot(w) \/ Poll(w)
      <4>1. RecordTypes'
        BY <3>1 DEF Boot, Poll, stageVars, recordVars, PlanningInv, RecordTypes
      <4> QED
        BY <2>0, <3>1, <4>1, StillKeepsPlanningInv DEF Boot, Poll, StartWorker, PollEmpty, recordVars
    <3>2. CASE Die(w)
      BY <2>0, <3>2, ResetKeepsPlanningInv DEF Die, Crash
    <3>3. ASSUME NEW j \in Jobs, Enter(w, j) PROVE PlanningInv'
      <4>0. pc[w] = "idle" /\ Placed(w)
        BY <3>3 DEF Enter, Claim, PlanningInv, WorkersPlaced, Placed
      <4>1. RecordTypes' /\ pc'[w] = "load" /\ seen'[w] = profile
        BY <3>3 DEF Enter, Goto, recordVars, PlanningInv, RecordTypes, Stages
      <4>2. RecordsGrow /\ OnlyMoves(w)
        BY <3>3 DEF Enter, Claim, Goto, recordVars, RecordsGrow, OnlyMoves, PlanningInv,
                    RecordTypes, LeaseTypeOK
      <4>3. Placed(w)' /\ Linking(w)'
        BY <3>3, <4>0, <4>1, JobAssumption
           DEF Enter, Claim, Placed, Linking, Stages, PlanningInv, LeaseTypeOK, RecordTypes
      <4> QED
        BY <2>0, <4>1, <4>2, <4>3, MoveKeepsPlanningInv
    <3>4. CASE Plan(w)
      BY <2>0, <3>4, PlanStepKeepsPlanningInv
    <3> QED
      BY <2>4, <3>1, <3>2, <3>3, <3>4
  <2> QED
    BY <2>1, <2>2, <2>3, <2>4 DEF Next
<1> QED
  BY <1>1, <1>2, PTL DEF Spec

\* The stage, seen from the job rows, keeps what the lease protocol promises:
\* its steps are lease statements, so one worker owns the job at a time.
THEOREM PlanningKeepsTheLease == Spec => LeaseSpec
<1>1. Init => LeaseInit
  BY DEF Init
<1> QED
  BY <1>1, PlanningStepIsLeaseStep, PTL DEF Spec, LeaseSpec

\* A worker leaves the stage only with a stored plan whose proposals are all
\* linked, however many workers wrote into the same run behind stale checks.
THEOREM DonePlansAreLinked == Spec => []DoneMeansLinked
<1>1. PlanningInv => DoneMeansLinked
  BY DEF PlanningInv, WorkersLink, Linking, DoneMeansLinked
<1> QED
  BY <1>1, PlanningInvAlways, PTL

\* record_semantic_execution never replaces what it finds.
THEOREM ExecutionsAreStable == Spec => ExecutionIsStable
<1> DEFINE Kept == \A s \in Identities : semantic[s] # "none" => semantic'[s] = semantic[s]
<1>1. PlanningInv /\ [Next]_vars => [Kept]_vars
  <2> SUFFICES ASSUME PlanningInv, Next PROVE Kept
    OBVIOUS
  <2>1. CASE UNCHANGED semantic
    BY <2>1
  <2>2. ASSUME NEW w \in Workers, RecordExecution(w) PROVE Kept
    BY <2>2 DEF RecordExecution, PlanningInv, RecordTypes
  <2>3. ASSUME NEW w \in Workers, Plan(w), ~RecordExecution(w) PROVE UNCHANGED semantic
    BY <2>3 DEF Plan, LoadPlanning, LoadExecution, Revalidate, Reserve, CallProvider, Recheck,
                RecordFence, PersistFence, PersistPlan, LinkFence, LinkCandidate, CompleteJob,
                RecordFailure, Check, Raise, recordVars
  <2>4. ASSUME NEW w \in Workers, Boot(w) \/ Poll(w) \/ Die(w) \/ \E j \in Jobs : Enter(w, j)
        PROVE  UNCHANGED semantic
    BY <2>4 DEF Boot, Poll, Die, Enter, recordVars
  <2>5. CASE Pass \/ \E s \in Identities : ChangeProfile(s)
    BY <2>5 DEF Pass, ChangeProfile, recordVars
  <2> QED
    BY <2>1, <2>2, <2>3, <2>4, <2>5 DEF Next
<1> QED
  BY <1>1, PlanningInvAlways, PTL DEF Spec, ExecutionIsStable
=============================================================================
