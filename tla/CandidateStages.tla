-------------------------- MODULE CandidateStages ---------------------------
(***************************************************************************)
(* The stages a planned candidate passes after extraction: privacy         *)
(* classification, the high-confidence pass, the memory store and the      *)
(* embedding of the stored version, in the lite (SQLite) and the full      *)
(* (PostgreSQL) edition.                                                   *)
(*                                                                         *)
(* Every stage resolves its role, replays a stored answer or calls the     *)
(* provider with no transaction open, and writes under the lease fence.    *)
(* The lease is the one of JobLease, abstracted to its holder: a fenced    *)
(* step of a worker that lost it raises and ends the attempt.  A worker    *)
(* that crashes takes no further step and its lease runs out.              *)
(*                                                                         *)
(* The job's model target is pinned, so that every attempt belongs to the  *)
(* same processing run; the extraction before the stages is modelled for   *)
(* the full edition, where one transaction records it (MemoryWorker models *)
(* the extraction of lite).  Of the prompt executions and usage events,    *)
(* logs that only grow, the newest of each invocation is kept.             *)
(***************************************************************************)
EXTENDS ModelControl

CONSTANTS
    Workers,
    Answers,      \* the valid answers of a provider, per structured stage
    Rules,        \* the deterministic answer to the candidate, per stage
    Planned,      \* the candidates planning may produce
    MaxClaims     \* bound: attempts of the job

VARIABLES
    edition,      \* "lite" or "full"
    candidate,    \* the row of the candidate: status, needs the second pass
    memory,       \* its memory and version exist
    outbox,       \* the row of embedding_outbox: status, attempts
    vectors,      \* memory_version_embeddings of the version
    rows,         \* processing_stage_runs
    facts,        \* full: what the extraction recorded for the run
    run, job,     \* the processing run and the memory job
    lease,        \* the worker that holds the job's lease
    claims,       \* attempts so far
    w             \* the workers

stageVars == <<edition, candidate, memory, outbox, vectors, rows, facts, run, job, lease, claims, w>>
NoFacts == [units |-> FALSE, gates |-> FALSE, execution |-> None, stage |-> None,
            usage |-> None, annotations |-> None, analyses |-> None]
vars == <<modelVars, stageVars>>

Structured == {"privacy_sensitivity", "high_confidence_extraction"}
Extractions == {"provider", "rules"}
Statuses == {"ready", "needs_review", "rejected"}
NoCall == [conf |-> None, approved |-> TRUE, edited |-> FALSE]
Idle == [at |-> "idle", stage |-> None, known |-> None, res |-> None, seen |-> 0,
         exists |-> FALSE, attempt |-> 0, call |-> NoCall, status |-> None,
         out |-> None, by |-> None, edits |-> 0]

ASSUME CandidateStagesAssumption ==
    /\ DOMAIN Answers = Structured /\ Rules \in [Structured -> STRING]
    /\ None \notin Workers
    /\ Planned \subseteq [status : Statuses, high : BOOLEAN] /\ MaxClaims \in Nat \ {0}

TypeOK ==
    /\ ModelTypeOK
    /\ candidate.status \in Statuses /\ memory \in BOOLEAN
    /\ outbox.status \in {"none", "pending", "running", "succeeded", "skipped"}
    /\ outbox.attempts \in 0 .. MaxClaims
    /\ {facts.stage, facts.annotations, facts.analyses} \subseteq Extractions \cup {None}
    /\ run \in {"none", "running", "failed", "succeeded"} /\ job \in {"open", "done"}
    /\ lease \in Workers \cup {None} /\ claims \in 0 .. MaxClaims

Init ==
    /\ ModelInit
    /\ edition \in {"lite", "full"}
    /\ candidate \in Planned
    /\ memory = FALSE /\ outbox = [status |-> "none", attempts |-> 0] /\ vectors = {}
    /\ facts = NoFacts /\ rows = {} /\ run = "none" /\ job = "open" /\ lease = None /\ claims = 0
    /\ w = [x \in Workers |-> Idle]

(***************************************************************************)
(* The job: claims, lost leases, crashes and failures.                     *)
(***************************************************************************)
Fenced(x) == lease = x

Claim(x) ==
    /\ w[x] = Idle /\ lease = None /\ job = "open" /\ claims < MaxClaims
    /\ lease' = x /\ claims' = claims + 1
    /\ w' = [w EXCEPT ![x].at = "begin"]
    /\ UNCHANGED <<modelVars, edition, candidate, memory, outbox, vectors, rows, facts, run, job>>

(* Bound: the lease of the last attempt is not lost.                       *)
LoseLease ==
    /\ lease # None /\ claims < MaxClaims /\ lease' = None
    /\ UNCHANGED <<modelVars, edition, candidate, memory, outbox, vectors, rows, facts, run, job,
                   claims, w>>

(* An error of a step marks the run failed and gives the job back.         *)
Fail(x) ==
    /\ w[x].at \notin {"idle", "begin", "answer", "complete"} /\ Fenced(x)
    /\ run' = "failed" /\ lease' = None
    /\ w' = [w EXCEPT ![x] = Idle]
    /\ UNCHANGED <<modelVars, edition, candidate, memory, outbox, vectors, rows, facts, job, claims>>

(* The steps that open a fenced transaction or check the fence.            *)
Rejected(x) ==
    /\ w[x].at \in {"begin", "send", "persist", "apply", "store", "outbox", "project",
                    "finish", "complete"}
    /\ ~Fenced(x)
    /\ w' = [w EXCEPT ![x] = Idle]
    /\ UNCHANGED <<modelVars, edition, candidate, memory, outbox, vectors, rows, facts, run, job,
                   lease, claims>>

(* The extraction of the full edition, recorded in one transaction.  Units *)
(* and gate decisions are found again; the stage row is replaced and the   *)
(* annotations belong to a new analysis; the linguistic analyses of the    *)
(* run stay as the first attempt wrote them.                               *)
Unitized(f) == [f EXCEPT !.units = TRUE]
Executed(f, out) == [f EXCEPT !.execution = out]
WithExtractionStage(f, out) == [f EXCEPT !.stage = out]
Used(f, status) == [f EXCEPT !.usage = status]
Annotated(f, out) == [f EXCEPT !.annotations = out]
Gated(f) == [f EXCEPT !.gates = TRUE]
Analysed(f, out) == [f EXCEPT !.analyses = IF @ = None THEN out ELSE @]

(* The output prepared before the transaction: that of the pinned target's *)
(* provider, or the deterministic one when it failed.                      *)
Prepared(out) == [output |-> out, status |-> IF out = "rules" THEN "failed_open" ELSE "ok"]
PreparedOutputs == {Prepared(out) : out \in Extractions}

Extracted(f, prepared) ==
    LET out == prepared.output
        staged == WithExtractionStage(Executed(Unitized(f), out), out)
    IN  Analysed(Gated(Annotated(Used(staged, prepared.status), out)), out)

(* The candidate's row as planning left it.                                *)
ReadCandidate == candidate.status

(* A run that succeeded is not run again; otherwise the worker starts from *)
(* the candidate as it is now.                                             *)
Begin(x) ==
    /\ w[x].at = "begin" /\ Fenced(x)
    /\ IF run = "succeeded"
       THEN /\ w' = [w EXCEPT ![x].at = "complete"]
            /\ UNCHANGED <<run, facts>>
       ELSE /\ w' = [w EXCEPT ![x].at = "resolve", ![x].stage = "privacy_sensitivity",
                              ![x].known = ReadCandidate]
            /\ run' = "running"
            /\ IF edition = "lite" THEN UNCHANGED facts
               ELSE \E prepared \in PreparedOutputs : facts' = Extracted(facts, prepared)
    /\ UNCHANGED <<modelVars, edition, candidate, memory, outbox, vectors, rows, job, lease,
                   claims>>

(***************************************************************************)
(* One invocation of a stage (StageInvoker).                               *)
(***************************************************************************)
(* The rows an identity finds: the stage, the resolved profile and model,  *)
(* and the input, of which only the embedding attempt varies.              *)
StageRow(stage, res, attempt) ==
    {r \in rows : <<r.stage, r.res, r.attempt>> = <<stage, [res EXCEPT !.scope = None], attempt>>}

Existing(x, res) == StageRow(w[x].stage, res, w[x].attempt)

(* A stored answer is replayed; an embedding only when its vector exists.  *)
MayReplay(x) == w[x].stage \in Structured \/ w[x].exists

Replayed(x, res, row) ==
    [w[x] EXCEPT !.at = "apply", !.res = res, !.status = row.status,
                 !.out = IF w[x].stage \in Structured THEN row.out ELSE None]

Answered(x, res, status, out) ==
    [w[x] EXCEPT !.at = "persist", !.res = res, !.status = status, !.out = out]

ResolveStage(x) ==
    LET stage == w[x].stage
        res == Resolve(stage)
    IN
    /\ w[x].at = "resolve"
    /\ \/ /\ MayReplay(x) /\ Existing(x, res) # {}
          /\ \E row \in Existing(x, res) : w' = [w EXCEPT ![x] = Replayed(x, res, row)]
       \/ /\ ~(MayReplay(x) /\ Existing(x, res) # {})
          /\ \/ res.kind = "disabled" /\ w' = [w EXCEPT ![x] = Answered(x, res, "abstained", None)]
             \/ /\ res.kind = "deterministic" /\ stage \in Structured
                /\ w' = [w EXCEPT ![x] = Answered(x, res, "ok", Rules[stage])]
             \/ /\ res.kind = "provider" \/ (res.kind = "deterministic" /\ stage = "embedding")
                /\ w' = [w EXCEPT ![x].at = "send", ![x].res = res, ![x].seen = changes]
    /\ UNCHANGED <<modelVars, edition, candidate, memory, outbox, vectors, rows, facts, run, job, lease,
                   claims>>

(* What an administrator approved of the profile as it is now: privacy     *)
(* acknowledged, and the last probe passed by this very configuration, or  *)
(* recorded under it because it was put in place while the probe ran.      *)
Approved(p) ==
    /\ profiles[p].conf \in Remote \/ profiles[p].requires => profiles[p].ack
    /\ \/ Kind[profiles[p].conf] = "deterministic" /\ profiles[p].role # "memory_extraction"
       \/ health[p].ok /\ profiles[p].conf \in {health[p].probed, health[p].fp[2]}

(* The fence is checked, then the row of the profile is read again and     *)
(* called as it is now; a disabled profile only raises.                    *)
Send(x) ==
    LET p == w[x].res.profile IN
    /\ w[x].at = "send" /\ Fenced(x)
    /\ w' = [w EXCEPT ![x].at = "answer", ![x].call =
                IF ProviderFor(profiles[p]) # "disabled"
                THEN [conf |-> profiles[p].conf, approved |-> Approved(p),
                      edited |-> changes # w[x].seen]
                ELSE NoCall]
    /\ UNCHANGED <<modelVars, edition, candidate, memory, outbox, vectors, rows, facts, run, job, lease,
                   claims>>

RequireNothing(x) == TRUE
RequireSameResolution(x) == SameResolution(Resolve(w[x].stage), w[x].res)

(* What a provider may answer when it does not raise.                      *)
Completions(stage) == Answers[stage]
Embeddings == {"vector"}
Outputs(stage) == IF stage \in Structured THEN Completions(stage) ELSE Embeddings

(* The administrator steps since the resolution, as far as they matter:    *)
(* none when the resolved model answered, and never more than two.         *)
Edits(x) ==
    IF ModelName[w[x].call.conf] = w[x].res.model THEN 0
    ELSE IF changes - w[x].seen >= 2 THEN 2 ELSE changes - w[x].seen

Result(x, status, out, by, edits) ==
    [w[x] EXCEPT !.at = "persist", !.status = status, !.out = out, !.by = by, !.edits = edits,
                 !.call = NoCall, !.seen = 0]

(* A valid answer counts only if the role still resolves the same way;     *)
(* otherwise the attempt ends.  A failure falls open: the deterministic    *)
(* answer, or no vector.                                                   *)
Receive(x) ==
    /\ w[x].at = "answer"
    /\ \/ /\ w[x].call # NoCall
          /\ \E out \in Outputs(w[x].stage) :
                w' = [w EXCEPT ![x] = IF RequireSameResolution(x)
                        THEN Result(x, "ok", out, w[x].call.conf, Edits(x))
                        ELSE Idle]
       \/ w' = [w EXCEPT ![x] = Result(x, "failed_open",
                   IF w[x].stage \in Structured THEN Rules[w[x].stage] ELSE None, None, 0)]
    /\ UNCHANGED <<modelVars, edition, candidate, memory, outbox, vectors, rows, facts, run, job, lease,
                   claims>>

(* The prompt execution and the usage event that go with a row; an         *)
(* embedding has no prompt.                                                *)
Execution(x) == IF w[x].stage \in Structured THEN w[x].out ELSE None
Usage(x) == w[x].status

StageResult(x) ==
    [stage |-> w[x].stage, res |-> [w[x].res EXCEPT !.scope = None], attempt |-> w[x].attempt,
     status |-> w[x].status, out |-> w[x].out, by |-> w[x].by, edits |-> w[x].edits,
     execution |-> Execution(x), usage |-> Usage(x)]

(* The answer stored first wins, except over an embedding that had to be   *)
(* made again.                                                             *)
PersistResult(x) ==
    LET existing == Existing(x, w[x].res) IN
    /\ w[x].at = "persist" /\ Fenced(x)
    /\ IF existing = {}
       THEN /\ rows' = rows \cup {StageResult(x)}
            /\ w' = [w EXCEPT ![x].at = "apply"]
       ELSE /\ UNCHANGED rows
            /\ \E row \in existing :
                  w' = [w EXCEPT ![x].at = "apply",
                           ![x].status = IF MayReplay(x) THEN row.status ELSE @,
                           ![x].out = IF w[x].stage \in Structured THEN row.out ELSE @]
    /\ UNCHANGED <<modelVars, edition, candidate, memory, outbox, vectors, facts, run, job, lease,
                   claims>>

(***************************************************************************)
(* The stages.                                                             *)
(***************************************************************************)
(* A classification starts from the status the worker read at the start.   *)
AfterPrivacy(status, class) ==
    CASE class = "secret" -> "rejected"
      [] class \in {"sensitive", "requires_review", None} ->
            IF status = "rejected" THEN status ELSE "needs_review"
      [] OTHER -> status

AfterHighConfidenceAlone(status, decision) ==
    CASE decision = "approved" -> status
      [] decision = "rejected" -> "rejected"
      [] OTHER -> "needs_review"

AfterHighConfidence(status, decision) ==
    CASE decision = "rejected" -> "rejected"
      [] decision \in {"needs_review", None} ->
            IF status = "rejected" THEN status ELSE "needs_review"
      [] OTHER -> status

ApplyPrivacy(x) ==
    LET status == AfterPrivacy(w[x].known, w[x].out) IN
    /\ w[x].at = "apply" /\ w[x].stage = "privacy_sensitivity" /\ Fenced(x)
    /\ candidate' = [candidate EXCEPT !.status = status]
    /\ w' = [w EXCEPT ![x] = [Idle EXCEPT
                !.known = status,
                !.at = IF candidate.high THEN "resolve" ELSE "store",
                !.stage = IF candidate.high THEN "high_confidence_extraction" ELSE None]]
    /\ UNCHANGED <<modelVars, edition, memory, outbox, vectors, rows, facts, run, job, lease, claims>>

(* Lite reads the candidate again; full goes on from its own copy.         *)
ApplyHighConfidence(x) ==
    LET status == AfterHighConfidence(
                     IF edition = "lite" THEN candidate.status ELSE w[x].known, w[x].out) IN
    /\ w[x].at = "apply" /\ w[x].stage = "high_confidence_extraction" /\ Fenced(x)
    /\ candidate' = [candidate EXCEPT !.status = status]
    /\ w' = [w EXCEPT ![x] = [Idle EXCEPT !.at = "store", !.known = status]]
    /\ UNCHANGED <<modelVars, edition, memory, outbox, vectors, rows, facts, run, job, lease, claims>>

Accepted(x) == (IF edition = "lite" THEN candidate.status ELSE w[x].known) = "ready"

(* Consolidation (lite) or _record_memories (full): a memory once made for *)
(* the candidate is found again.                                           *)
Store(x) ==
    /\ w[x].at = "store" /\ Fenced(x)
    /\ memory' = (memory \/ Accepted(x))
    /\ w' = [w EXCEPT ![x].at = IF memory' THEN "outbox" ELSE "finish"]
    /\ UNCHANGED <<modelVars, edition, candidate, outbox, vectors, rows, facts, run, job, lease, claims>>

(* The row is inserted once; later inserts conflict and do nothing.        *)
Enqueued == IF outbox.status = "none" THEN [outbox EXCEPT !.status = "pending"] ELSE outbox

OpenOutbox(x) ==
    /\ w[x].at = "outbox" /\ Fenced(x)
    /\ outbox' = Enqueued
    /\ w' = [w EXCEPT ![x].at = "project"]
    /\ UNCHANGED <<modelVars, edition, candidate, memory, vectors, rows, facts, run, job, lease, claims>>

HasVector(model) == \E v \in vectors : v.model = model

EmbeddingTarget == Resolve("embedding").model
Attempted == [status |-> "running", attempts |-> outbox.attempts + 1]

(* The role is resolved once here, for the vector to look for, and again   *)
(* by the invocation.  Without the vector a new attempt is counted.  Full  *)
(* resolves it before the outbox row is opened: an edit in that window     *)
(* acts like one between this step and the invocation.                     *)
StartProjection(x) ==
    LET found == HasVector(EmbeddingTarget) IN
    /\ w[x].at = "project" /\ (found \/ Fenced(x))
    /\ outbox' = IF found THEN outbox ELSE Attempted
    /\ w' = [w EXCEPT ![x].at = "resolve", ![x].stage = "embedding", ![x].exists = found,
                      ![x].attempt = outbox'.attempts]
    /\ UNCHANGED <<modelVars, edition, candidate, memory, vectors, rows, facts, run, job, lease, claims>>

Recorded(p) == [records EXCEPT ![p] = Current(@)]

SettledSkipping(x) ==
    IF w[x].exists \/ w[x].status = "abstained" THEN "succeeded" ELSE "pending"

(* What the outbox row says after an invocation without a new vector.      *)
Settled(x) ==
    IF w[x].exists THEN "succeeded"
    ELSE IF w[x].status = "abstained" THEN "skipped" ELSE "pending"

ApplyEmbedding(x) ==
    LET res == w[x].res IN
    /\ w[x].at = "apply" /\ w[x].stage = "embedding" /\ Fenced(x)
    /\ IF w[x].out # None /\ res.profile # None
       THEN /\ vectors' = {v \in vectors : v.model # res.model}
                             \cup {[model |-> res.model, by |-> w[x].by,
                                    edits |-> w[x].edits]}
            /\ records' = Recorded(res.profile)
            /\ outbox' = [outbox EXCEPT !.status = "succeeded"]
       ELSE /\ outbox' = [outbox EXCEPT !.status = Settled(x)]
            /\ UNCHANGED <<vectors, records>>
    /\ w' = [w EXCEPT ![x] = [Idle EXCEPT !.at = "finish"]]
    /\ UNCHANGED <<profiles, health, defaults, tester, assigner, changes, edition, candidate,
                   memory, rows, facts, run, job, lease, claims>>

Finish(x) ==
    /\ w[x].at = "finish" /\ Fenced(x)
    /\ run' = "succeeded"
    /\ w' = [w EXCEPT ![x] = [Idle EXCEPT !.at = "complete"]]
    /\ UNCHANGED <<modelVars, edition, candidate, memory, outbox, vectors, rows, facts, job, lease, claims>>

Complete(x) ==
    /\ w[x].at = "complete" /\ Fenced(x)
    /\ job' = "done" /\ lease' = None
    /\ w' = [w EXCEPT ![x] = Idle]
    /\ UNCHANGED <<modelVars, edition, candidate, memory, outbox, vectors, rows, facts, run, claims>>

Work(x) ==
    \/ Claim(x) \/ Fail(x) \/ Rejected(x) \/ Begin(x)
    \/ ResolveStage(x) \/ Send(x) \/ Receive(x) \/ PersistResult(x)
    \/ ApplyPrivacy(x) \/ ApplyHighConfidence(x) \/ Store(x)
    \/ OpenOutbox(x) \/ StartProjection(x) \/ ApplyEmbedding(x) \/ Finish(x) \/ Complete(x)

Next ==
    \/ Administer /\ UNCHANGED stageVars
    \/ \E x \in Workers : Work(x)
    \/ LoseLease

Spec == Init /\ [][Next]_vars

(***************************************************************************)
(* Properties.                                                             *)
(***************************************************************************)
(* The records of one candidate agree after every crash and retry: the     *)
(* stage row and the newest execution of the extraction tell of the        *)
(* annotations that are stored (_record_extraction_stage replaces what an  *)
(* earlier attempt wrote), an invocation has one row (_persist_result),    *)
(* and an outbox row says succeeded only if a vector is stored             *)
(* (allow_replay).                                                         *)
RecordsAgree ==
    /\ TypeOK
    /\ facts.stage = facts.annotations /\ facts.execution = facts.annotations
    /\ \A r1, r2 \in rows :
          <<r1.stage, r1.res, r1.attempt>> = <<r2.stage, r2.res, r2.attempt>> => r1 = r2
    /\ outbox.status = "succeeded" => vectors # {}

(* A stage never loosens a verdict, whichever attempt, profile or replayed *)
(* answer it comes from: a rejected candidate stays rejected, one held for *)
(* review is never released by a stage, and a memory is made only of a     *)
(* candidate whose row is accepted at that moment                          *)
(* (_apply_privacy_result, _apply_high_confidence_result, _record_memories *)
(* work from copies read in earlier transactions).                         *)
VerdictsOnlyTighten ==
    [][/\ candidate.status = "rejected" => candidate'.status = "rejected"
       /\ candidate.status = "needs_review" => candidate'.status # "ready"
       /\ memory' /\ ~memory => candidate.status = "ready"]_vars

(* A provider is called only in a configuration the administrator          *)
(* acknowledged and whose own probe passed, or that certifies itself,      *)
(* whatever was edited, tested or assigned before the resolution.  Two     *)
(* windows are left out: the profile was edited between the resolution and *)
(* the call (_provider_profile reads the row again), or this configuration *)
(* was put in place while the probe of another ran (record_health_event    *)
(* fingerprints the row after the probe).                                  *)
CallsWhatWasApproved ==
    \A x \in Workers : w[x].at = "answer" => w[x].call.approved \/ w[x].call.edited

(* The configuration that answered, or one with the name of the model the  *)
(* answer is filed under, certifies itself.                                *)
SelfCertified(model, by) ==
    \/ Kind[by] = "deterministic"
    \/ \E c \in Confs : ModelName[c] = model /\ Kind[c] = "deterministic"

(* A stored answer or vector was produced by the model it is filed under,  *)
(* unless two administrator steps fell into the call: one edit makes the   *)
(* certification stale, so _require_same_resolution drops the answer.  A   *)
(* configuration that certifies itself is not caught by that check, and    *)
(* neither is the way back from one to a configuration that was tested     *)
(* before.                                                                 *)
OneEditNeverMislabels ==
    LET Faithful(model, by, edits) ==
            by = None \/ ModelName[by] = model \/ SelfCertified(model, by) \/ edits >= 2
    IN  /\ \A r \in rows : Faithful(r.res.model, r.by, r.edits)
        /\ \A v \in vectors : Faithful(v.model, v.by, v.edits)
=============================================================================
