-------------------------- MODULE SemanticPlanning --------------------------
(***************************************************************************)
(* SemanticCandidatePlanningService.execute, the stage of the pipeline     *)
(* that turns one message into a coverage plan with linked candidates, run *)
(* by workers that hold (or once held) the lease of the message's job.     *)
(* Its fence is a plain read in front of each write, not a locked          *)
(* check-and-write as everywhere else in the pipeline, so check and write  *)
(* are two steps here.                                                     *)
(*                                                                         *)
(* One message is modelled; its text does not change.  An identity is what *)
(* else distinguishes processing runs: the effective profile.  An output   *)
(* is known by its origin: "provider" or "abstention" (the deterministic   *)
(* output), "private" when the privacy ceiling skips the analysis.         *)
(***************************************************************************)
EXTENDS JobLease, Sequences

CONSTANTS
  Identities,     \* identities of the message's processing runs
  FirstIdentity,  \* the identity when the job is queued
  NoIdentity,     \* no identity read yet
  Remote,         \* identities with a remote provider
  Private,        \* remote identities that may not see the message
  Proposals       \* durable candidates that the provider's output yields

ASSUME PlanningAssumption ==
  /\ FirstIdentity \in Identities
  /\ NoIdentity \notin Identities
  /\ Remote \subseteq Identities
  /\ Private \subseteq Remote
  /\ Proposals \in Nat

VARIABLES
  versioned,    \* the message has a version row (it keeps or lacks it for ever)
  profile,      \* the identity that a snapshot yields now
  pc,           \* pc[w]: where the worker is
  seen,         \* seen[w]: the identity the worker runs under
  out,          \* out[w]: the origin of the output it plans from
  next,         \* next[w]: the proposal it links next
  attempt,      \* attempt[s]: the provider attempt of run s is reserved
  semantic,     \* semantic[s]: the recorded semantic execution of run s
  plans,        \* plans[s]: origins of the plans of run s, oldest first
  linked        \* linked[s]: proposals of run s linked to a candidate

stageVars == <<pc, seen, out, next>>
recordVars == <<attempt, semantic, plans, linked>>
vars == <<leaseVars, versioned, profile, stageVars, recordVars>>

Outputs == {"provider", "abstention", "private"}

TypeOK ==
  /\ LeaseTypeOK
  /\ versioned \in BOOLEAN
  /\ profile \in Identities
  /\ pc \in [Workers -> {"idle", "load", "execute", "check", "reserve", "call", "recheck",
                         "recordFence", "record", "persistFence", "persist",
                         "linkFence", "link", "done", "fail"}]
  /\ seen \in [Workers -> Identities \cup {NoIdentity}]
  /\ out \in [Workers -> Outputs \cup {"none"}]
  /\ next \in [Workers -> 1..(Proposals + 1)]
  /\ attempt \in [Identities -> BOOLEAN]
  /\ semantic \in [Identities -> {"none", "provider", "abstention"}]
  /\ \A s \in Identities : \A i \in DOMAIN plans[s] : plans[s][i] \in Outputs
  /\ linked \in [Identities -> SUBSET (1..Proposals)]

Init ==
  /\ LeaseInit
  /\ versioned \in BOOLEAN
  /\ profile = FirstIdentity
  /\ pc = [w \in Workers |-> "idle"]
  /\ seen = [w \in Workers |-> NoIdentity]
  /\ out = [w \in Workers |-> "none"]
  /\ next = [w \in Workers |-> 1]
  /\ attempt = [s \in Identities |-> FALSE]
  /\ semantic = [s \in Identities |-> "none"]
  /\ plans = [s \in Identities |-> <<>>]
  /\ linked = [s \in Identities |-> {}]
-----------------------------------------------------------------------------
Fenced(w) == Owns(w) /\ profile = seen[w]

Goto(w, p) == pc' = [pc EXCEPT ![w] = p]

Raise(w) ==
  /\ Goto(w, "fail")
  /\ UNCHANGED <<leaseVars, versioned, profile, seen, out, next, recordVars>>

\* A plain read of the lease and the snapshot; nothing is locked or renewed.
Check(w, p) ==
  \/ /\ Fenced(w)
     /\ Goto(w, p)
     /\ UNCHANGED <<leaseVars, versioned, profile, seen, out, next, recordVars>>
  \/ ~Fenced(w) /\ Raise(w)

\* Only the provider's output has proposals; a plan is complete when each of
\* them is linked to its candidate.
Complete(s, origin) == origin = "provider" => linked[s] = 1..Proposals

Planned == {s \in Identities : plans[s] # <<>>}
Newest(s) == plans[s][Len(plans[s])]
-----------------------------------------------------------------------------
Boot(w) == StartWorker(w) /\ UNCHANGED <<versioned, profile, stageVars, recordVars>>
Poll(w) == PollEmpty(w) /\ UNCHANGED <<versioned, profile, stageVars, recordVars>>
Pass == Tick /\ UNCHANGED <<versioned, profile, stageVars, recordVars>>

\* The job is claimed and processed up to this stage: the run of the current
\* identity is started, its annotations and gates are persisted.
Enter(w, j) ==
  /\ Claim(w, j)
  /\ Goto(w, "load")
  /\ seen' = [seen EXCEPT ![w] = profile]
  /\ UNCHANGED <<versioned, profile, out, next, recordVars>>

Reset(w) ==
  /\ Goto(w, "idle")
  /\ seen' = [seen EXCEPT ![w] = NoIdentity]
  /\ out' = [out EXCEPT ![w] = "none"]
  /\ next' = [next EXCEPT ![w] = 1]

Die(w) == Crash(w) /\ Reset(w) /\ UNCHANGED <<versioned, profile, recordVars>>

\* Seeded fault: a stored plan counts as finished before it is linked.
LoadAnyPlanning(w) ==
  /\ pc[w] = "load"
  /\ \/ Planned # {} /\ Goto(w, "done")
     \/ Planned = {} /\ Goto(w, "execute")
  /\ UNCHANGED <<leaseVars, versioned, profile, seen, out, next, recordVars>>

\* load_completed_semantic_planning: the newest plan of the worker's own run,
\* else, for a versioned message, a plan of another run of the same text.  A
\* complete plan is replayed; an incomplete one is redone if it is the run's
\* own and an error otherwise.
LoadPlanning(w) ==
  /\ pc[w] = "load"
  /\ LET own == seen[w] \in Planned
         others == Planned \ {seen[w]}
     IN \/ /\ own \/ (versioned /\ others # {})
           /\ \E s \in IF own THEN {seen[w]} ELSE others :
                \/ Complete(s, Newest(s)) /\ Goto(w, "done")
                \/ ~Complete(s, Newest(s)) /\ Goto(w, IF own THEN "execute" ELSE "fail")
        \/ ~own /\ ~versioned /\ others # {} /\ Goto(w, "fail")
        \/ ~own /\ others = {} /\ Goto(w, "execute")
  /\ UNCHANGED <<leaseVars, versioned, profile, seen, out, next, recordVars>>

\* _execute_or_replay_semantic: a recorded execution is replayed, a private
\* message is not analysed, a profile without remote provider abstains.
LoadExecution(w) ==
  /\ pc[w] = "execute"
  /\ LET s == seen[w] IN
       \/ /\ s \in Private
          /\ out' = [out EXCEPT ![w] = "private"]
          /\ Goto(w, "persistFence")
       \/ /\ s \notin Private /\ semantic[s] # "none"
          /\ out' = [out EXCEPT ![w] = semantic[s]]
          /\ Goto(w, "persistFence")
       \/ /\ semantic[s] = "none" /\ s \notin Remote
          /\ out' = [out EXCEPT ![w] = "abstention"]
          /\ Goto(w, "recordFence")
       \/ /\ semantic[s] = "none" /\ s \in Remote \ Private
          /\ UNCHANGED out
          /\ Goto(w, "check")
  /\ UNCHANGED <<leaseVars, versioned, profile, seen, next, recordVars>>

\* run_contract_execution (see MemoryWorker), initial call and repair as one.
Revalidate(w) == pc[w] = "check" /\ Check(w, "reserve")

Reserve(w) ==
  /\ pc[w] = "reserve"
  /\ \/ /\ ~attempt[seen[w]]
        /\ attempt' = [attempt EXCEPT ![seen[w]] = TRUE]
        /\ Goto(w, "call")
        /\ UNCHANGED out
     \/ /\ attempt[seen[w]]
        /\ out' = [out EXCEPT ![w] = "abstention"]
        /\ Goto(w, "recheck")
        /\ UNCHANGED attempt
  /\ UNCHANGED <<leaseVars, versioned, profile, seen, next, semantic, plans, linked>>

CallProvider(w) ==
  /\ pc[w] = "call"
  /\ \E o \in {"provider", "abstention"} : out' = [out EXCEPT ![w] = o]
  /\ Goto(w, "recheck")
  /\ UNCHANGED <<leaseVars, versioned, profile, seen, next, recordVars>>

Recheck(w) == pc[w] = "recheck" /\ Check(w, "recordFence")

\* record_semantic_execution: an execution that is already there stays, and
\* the worker goes on with the output in its hands.
RecordFence(w) == pc[w] = "recordFence" /\ Check(w, "record")

\* Seeded fault: the newest execution replaces the recorded one.
RecordExecutionAgain(w) ==
  /\ pc[w] = "record"
  /\ semantic' = [semantic EXCEPT ![seen[w]] = out[w]]
  /\ Goto(w, "persistFence")
  /\ UNCHANGED <<leaseVars, versioned, profile, seen, out, next, attempt, plans, linked>>

RecordExecution(w) ==
  /\ pc[w] = "record"
  /\ semantic' = [semantic EXCEPT ![seen[w]] = IF @ = "none" THEN out[w] ELSE @]
  /\ Goto(w, "persistFence")
  /\ UNCHANGED <<leaseVars, versioned, profile, seen, out, next, attempt, plans, linked>>

\* persist_coverage_plan: a plan's row is named by the hash of its content,
\* which names the routes of the attempt's own annotations.  A stored plan is
\* found again only if there are none; otherwise the new plan must not share
\* an item with a stored one (CoverageRun has the details).
PersistFence(w) == pc[w] = "persistFence" /\ Check(w, "persist")

PersistPlan(w) ==
  /\ pc[w] = "persist"
  /\ \/ /\ LET s == seen[w] IN
            plans' = [plans EXCEPT ![s] =
                        IF \E i \in DOMAIN @ : @[i] = out[w] THEN @ ELSE Append(@, out[w])]
        /\ Goto(w, "linkFence")
        /\ UNCHANGED <<leaseVars, versioned, profile, seen, out, next, attempt, semantic, linked>>
     \/ Planned # {} /\ Raise(w)

\* Proposals are linked one by one, each behind its own check.
LinkFence(w) ==
  /\ pc[w] = "linkFence"
  /\ \/ /\ out[w] = "provider" /\ next[w] <= Proposals
        /\ Check(w, "link")
     \/ /\ ~(out[w] = "provider" /\ next[w] <= Proposals)
        /\ Goto(w, "done")
        /\ UNCHANGED <<leaseVars, versioned, profile, seen, out, next, recordVars>>

LinkCandidate(w) ==
  /\ pc[w] = "link"
  /\ linked' = [linked EXCEPT ![seen[w]] = @ \cup {next[w]}]
  /\ next' = [next EXCEPT ![w] = @ + 1]
  /\ Goto(w, "linkFence")
  /\ UNCHANGED <<leaseVars, versioned, profile, seen, out, attempt, semantic, plans>>

\* The rest of the pipeline is fenced and ends in the success write.
CompleteJob(w) ==
  /\ pc[w] = "done"
  /\ \/ /\ profile = seen[w]
        /\ Succeed(w)
        /\ Reset(w)
        /\ UNCHANGED <<versioned, profile, recordVars>>
     \/ ~Fenced(w) /\ Raise(w)

RecordFailure(w) ==
  /\ pc[w] = "fail"
  /\ Fail(w, FALSE) \/ Abandon(w)
  /\ Reset(w)
  /\ UNCHANGED <<versioned, profile, recordVars>>

ChangeProfile(s) ==
  /\ profile # s
  /\ profile' = s
  /\ UNCHANGED <<leaseVars, versioned, stageVars, recordVars>>

Plan(w) ==
  \/ LoadPlanning(w) \/ LoadExecution(w) \/ Revalidate(w) \/ Reserve(w)
  \/ CallProvider(w) \/ Recheck(w) \/ RecordFence(w) \/ RecordExecution(w)
  \/ PersistFence(w) \/ PersistPlan(w) \/ LinkFence(w) \/ LinkCandidate(w)
  \/ CompleteJob(w) \/ RecordFailure(w)

Next ==
  \/ \E w \in Workers :
       \/ Boot(w) \/ Poll(w) \/ Die(w) \/ Plan(w)
       \/ \E j \in Jobs : Enter(w, j)
  \/ Pass
  \/ \E s \in Identities : ChangeProfile(s)

Spec == Init /\ [][Next]_vars
-----------------------------------------------------------------------------
\* A worker leaves this stage only with a stored plan all of whose proposals
\* are linked: its own, or a replayed one, whatever half-linked plans earlier
\* attempts and late workers left behind.
DoneMeansLinked ==
  \A w \in Workers : pc[w] = "done" =>
    \E s \in Identities : \E i \in DOMAIN plans[s] :
      /\ out[w] # "none" => s = seen[w] /\ plans[s][i] = out[w]
      /\ Complete(s, plans[s][i])

\* A recorded semantic execution is never replaced, so every later attempt of
\* the run replays the same one.
ExecutionIsStable ==
  [][\A s \in Identities : semantic[s] # "none" => semantic'[s] = semantic[s]]_vars
=============================================================================
