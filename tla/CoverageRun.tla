---------------------------- MODULE CoverageRun -----------------------------
(***************************************************************************)
(* The attempts of one job to plan one message: annotation, the replay     *)
(* check, semantic analysis and its record, the text units for spans that  *)
(* no sentence holds, the coverage plan and the links to its candidates.   *)
(* An attempt may crash anywhere.  It loses its lease when the next one    *)
(* starts, which may be before it has ended; then its next fence raises,   *)
(* but a write whose fence it has passed still happens: every action here  *)
(* is such a write with the reads after it, up to the next fence.          *)
(*                                                                         *)
(* The profile stays the same, so there is one processing run (changes of  *)
(* the profile are the subject of SemanticPlanning).                       *)
(***************************************************************************)
EXTENDS CoveragePlan

CONSTANTS
  Messages,     \* the messages to choose from, with the turns before them
  Outputs,      \* what a provider may answer, valid or not
  Attempts,     \* attempts of the job
  Overlapping,  \* an attempt may start while an earlier one still runs
  MaxChanges    \* bound on changes of earlier turns

ASSUME CoverageAssumption ==
  /\ Attempts \in Nat \ {0}
  /\ Overlapping \in BOOLEAN
  /\ MaxChanges \in Nat

VARIABLES
  msg, prior,   \* the message; the text units of earlier turns, oldest first
  changes,      \* changes of earlier turns so far
  mode,         \* "lite" (SQLite) or "full" (PostgreSQL)
  provider,     \* "remote", "local" or "none" (the deterministic one)
  units,        \* stored text units of the message
  analyses,     \* analysis runs of the message: whether each has annotations
  reserved,     \* contexts whose provider call was reserved
  recorded,     \* the recorded semantic execution, {} or one [ctx, out]
  plans,        \* stored coverage plans, oldest first
  links,        \* links: items with their payload and the context of their plan,
                \* "reserved" or "linked"
  pc,           \* pc[a]: where attempt a is
  view          \* view[a]: what it has read and computed

store == <<units, analyses, reserved, recorded, plans, links>>
world == <<msg, changes, mode, provider>>
vars == <<world, prior, store, pc, view>>

Nothing == [auths |-> {}, ctx |-> <<>>, out |-> Abstention, executed |-> FALSE,
            index |-> 0, pending |-> {}, todo |-> {},
            plan |-> [items |-> {}, status |-> "abstain", audit |-> {}, executed |-> FALSE]]

Sentences(m) == {[first |-> s.first, last |-> s.last, kind |-> "sentence", gated |-> FALSE,
                  index |-> Cardinality({t \in m.sentences : t.first < s.first})] :
                   s \in m.sentences}

Init ==
  /\ msg \in Messages
  /\ prior = msg.prior
  /\ changes = 0
  /\ mode \in {"lite", "full"}
  /\ provider \in {"remote", "local", "none"}
  /\ units = {}
  /\ analyses = <<>>
  /\ reserved = {}
  /\ recorded = {}
  /\ plans = <<>>
  /\ links = {}
  /\ pc = [a \in 1..Attempts |-> "new"]
  /\ view = [a \in 1..Attempts |-> Nothing]
-----------------------------------------------------------------------------
Over == {"done", "raised", "failed", "crashed"}
HoldsLease(a) == \A b \in 1..Attempts : b > a => pc[b] = "new"

\* _fence_and_revalidate in front of the write at p.
Fence(a, p) == pc' = [pc EXCEPT ![a] = IF HoldsLease(a) THEN p ELSE "raised"]
Raise(a) == pc' = [pc EXCEPT ![a] = "raised"]
See(a, v) == view' = [view EXCEPT ![a] = v]
V(a) == view[a]

\* load_persisted_authorities: annotations count of the latest analysis only.
LatestAnnotated(runs) == runs # <<>> /\ Last(runs)
Authorities(us, runs) == {Authority(msg, t, LatestAnnotated(runs)) : t \in us}

\* The gates and routes that a plan names for an item.  A gate decision is
\* kept for the run, a route is new with every analysis of the message.
Audit(auths, i, runs) ==
  LET held == Containing(auths, i) IN
  {[first |-> t.first, last |-> t.last, gate |-> t.gate,
    route |-> IF t.route = "none" THEN 0 ELSE Len(runs)] :
      t \in IF Cardinality(held) = 1 THEN held ELSE {}}

Fragments == {t \in units : t.kind = "fragment"}

\* create_decision: the gate decision of a unit is kept for the run.
Decided(t) == [t EXCEPT !.gated = TRUE]

\* _gate_units: a decision for each unit.
Gated(us) == {Decided(t) : t \in us}

\* create_units: made once and then reused.
CreatedUnits(new) == IF units = {} THEN new ELSE units

Unitized == CreatedUnits(Sentences(msg))

\* An analysis run with its annotations and their routes, beside earlier ones.
NewAnalysis(annotated) == Append(analyses, annotated)

\* validate_prompt_output_against_input: an analysis with items must have one
\* per stored unit, and the provider knows sentences only.
Annotatable(annotated) == annotated => Fragments = {}

\* The attempt is claimed and annotates the message, all under the lease.
\* In Lite a stored fragment is an error before the analysis; in Full the
\* stored units are taken as they are.  Full accepts an analysis without items.
Annotate(a) ==
  /\ pc[a] = "new"
  /\ \A b \in 1..(a - 1) : pc[b] # "new" /\ (Overlapping \/ pc[b] \in Over)
  /\ \/ /\ Fragments # {}
        /\ Raise(a)
        /\ UNCHANGED <<units, analyses>>
     \/ \E annotated \in {TRUE, mode = "lite"} :
          /\ Annotatable(annotated)
          /\ units' = Gated(Unitized)
          /\ analyses' = NewAnalysis(annotated)
          /\ pc' = [pc EXCEPT ![a] = "load"]
  /\ UNCHANGED <<world, prior, reserved, recorded, plans, links, view>>

\* An error in the analysis, in Lite: the units stay, and a failed run without
\* annotations is recorded, which is then the latest one.
AnalysisFails(a) ==
  /\ pc[a] = "new" /\ mode = "lite" /\ Fragments = {}
  /\ \A b \in 1..(a - 1) : pc[b] # "new" /\ (Overlapping \/ pc[b] \in Over)
  /\ units' = Unitized
  /\ analyses' = NewAnalysis(FALSE)
  /\ pc' = [pc EXCEPT ![a] = "failed"]
  /\ UNCHANGED <<world, prior, reserved, recorded, plans, links, view>>

LinkedItems == {l.item : l \in {k \in links : k.state = "linked"}}

\* _validate_completed_replay: the first durable item, in text order, that has
\* no single authority or no linked candidate decides.
Replay(plan, auths) ==
  LET lost == {i \in ProposalsOf(plan) : Cardinality(Containing(auths, i)) # 1}
      open == {i \in ProposalsOf(plan) : i \notin LinkedItems}
      first == CHOOSE i \in lost \cup open : \A j \in lost \cup open : i.first <= j.first
  IN IF lost \cup open = {} THEN "complete" ELSE IF first \in lost THEN "changed" ELSE "open"

\* _remote_semantic_transfer_forbidden.
TransferForbidden(auths) ==
  /\ provider = "remote"
  /\ \/ \E t \in auths : t.ceiling # "normal"
     \/ Sensitivity(WordsOf(msg, AllWords(msg))) # "normal"

\* load_completed_semantic_planning, for one run: the newest plan decides.
Found(auths) == IF plans = <<>> THEN "none" ELSE Replay(Last(plans), auths)

\* load_current_context_scope: the message, its session and its latest version.
CurrentScope == msg

\* list_prior_context_records: the units of the earlier turns as stored now.
PriorRecords == prior

ContextNow == ResolveContext(CurrentScope, PriorRecords)

\* load_semantic_execution: the identity of an execution has its input's hash.
RecordedFor(ctx) == {r \in recorded : r.ctx = ctx}

\* The validated output of a recorded execution.
RecordedOutput(ctx) == (CHOOSE r \in RecordedFor(ctx) : TRUE).out

\* execute, from the scope to the semantic output: replay of a finished plan,
\* the bounded context, the privacy boundary, a recorded execution.
Load(a) ==
  /\ pc[a] = "load"
  /\ LET auths == Authorities(units, analyses)
         read == [Nothing EXCEPT !.auths = auths, !.ctx = ContextNow]
         same == RecordedFor(ContextNow) # {}
         found == Found(auths)
     IN \/ /\ found \in {"complete", "changed"}
           /\ pc' = [pc EXCEPT ![a] = IF found = "complete" THEN "done" ELSE "raised"]
           /\ UNCHANGED view
        \/ /\ found \in {"none", "open"} /\ TransferForbidden(auths)
           /\ See(a, read)
           /\ Fence(a, "ensure")
        \/ /\ found \in {"none", "open"} /\ ~TransferForbidden(auths) /\ same
           /\ See(a, [read EXCEPT !.out = RecordedOutput(ContextNow), !.executed = TRUE])
           /\ Fence(a, "ensure")
        \/ /\ found \in {"none", "open"} /\ ~TransferForbidden(auths) /\ ~same
           /\ See(a, [read EXCEPT !.executed = TRUE])
           /\ Fence(a, IF provider = "none" THEN "record" ELSE "reserve")
  /\ UNCHANGED <<world, prior, store>>

\* The identity of an execution in the run: its input.
ExecutionIdentity(a) == V(a).ctx

\* The provider attempt is reserved before the call; an attempt that finds
\* it reserved does not know its result and abstains.
Reserve(a) ==
  /\ pc[a] = "reserve"
  /\ \/ /\ ExecutionIdentity(a) \notin reserved
        /\ reserved' = reserved \cup {ExecutionIdentity(a)}
        /\ pc' = [pc EXCEPT ![a] = "call"]
     \/ /\ ExecutionIdentity(a) \in reserved
        /\ Fence(a, "record")
        /\ UNCHANGED reserved
  /\ UNCHANGED <<world, prior, units, analyses, recorded, plans, links, view>>

\* The provider answers; an invalid answer becomes an abstention.
Call(a) ==
  /\ pc[a] = "call"
  /\ \E o \in Outputs \cup {Abstention} :
       See(a, [V(a) EXCEPT !.out = IF ValidOutput(msg, V(a).ctx, o) THEN o ELSE Abstention])
  /\ Fence(a, "record")
  /\ UNCHANGED <<world, prior, store>>

\* persist_message_semantics: the input with the units of the output.
Execution(a) == [ctx |-> V(a).ctx, out |-> V(a).out]

\* Seeded fault: an execution with other input is kept, without an error.
RecordAnyInput(a) ==
  /\ pc[a] = "record"
  /\ recorded' = IF recorded = {} THEN {Execution(a)} ELSE recorded
  /\ Fence(a, "ensure")
  /\ UNCHANGED <<world, prior, units, analyses, reserved, plans, links, view>>

StoreExecution(a) == recorded = {} /\ recorded' = {Execution(a)}

\* The idempotency key of a stage row names the run and the message only.
KeyTaken(ctx) == \E r \in recorded : r.ctx # ctx

\* record_semantic_execution: a record of the same input stays, one of other
\* input is an error.
Record(a) ==
  /\ pc[a] = "record"
  /\ \/ /\ StoreExecution(a)
        /\ Fence(a, "ensure")
     \/ /\ RecordedFor(V(a).ctx) # {}
        /\ Fence(a, "ensure")
        /\ UNCHANGED recorded
     \/ /\ KeyTaken(V(a).ctx)
        /\ Raise(a)
        /\ UNCHANGED recorded
  /\ UNCHANGED <<world, prior, units, analyses, reserved, plans, links, view>>

Missing(a) == {i \in DOMAIN V(a).out.units : Containing(V(a).auths, V(a).out.units[i]) = {}}

PlanOf(a, auths, runs) ==
  LET plan == PlanCoverage(msg, V(a).ctx, V(a).out, auths, V(a).executed)
  IN [items |-> plan.items, status |-> plan.status, executed |-> V(a).executed,
      audit |-> UNION {Audit(auths, i, runs) : i \in plan.items}]

\* ensure_semantic_span_authorities, its read of the highest unit index.  With
\* nothing to add the authorities are read again and the plan is computed.
EnsureRead(a) ==
  /\ pc[a] = "ensure"
  /\ \/ /\ Missing(a) = {}
        /\ LET auths == Authorities(units, analyses)
           IN See(a, [V(a) EXCEPT !.auths = auths, !.plan = PlanOf(a, auths, analyses)])
        /\ Fence(a, "persist")
     \/ /\ Missing(a) # {}
        /\ See(a, [V(a) EXCEPT !.index = Cardinality(units)])
        /\ pc' = [pc EXCEPT ![a] = "insert"]
  /\ UNCHANGED <<world, prior, store>>

\* Full inserts in a transaction that ends with the plan, and waits for one
\* that is inserting the same fragment or number.
Blocked(a, new) ==
  \E b \in 1..Attempts \ {a} : \E t \in new :
    /\ mode = "full" /\ pc[b] = "persist"
    /\ \E f \in V(b).pending :
         f.index = t.index \/ (f.first = t.first /\ f.last = t.last)

\* Fragments numbered from the index read before.
NewFragments(a) ==
  {[first |-> V(a).out.units[i].first, last |-> V(a).out.units[i].last,
    kind |-> "fragment", gated |-> FALSE,
    index |-> V(a).index + Cardinality({j \in Missing(a) : j < i})] : i \in Missing(a)}

\* _insert_missing_semantic_text_units and the new reading of the authorities,
\* from which the plan is computed.  A number that is taken drops the fragment.  A fragment of the same
\* span under another number is ignored by Lite and an error in Full.
EnsureInsert(a) ==
  /\ pc[a] = "insert"
  /\ LET new == NewFragments(a)
         free == {t \in new : \A f \in Fragments : f.index # t.index}
         clash == {t \in free : \E f \in Fragments : f.first = t.first /\ f.last = t.last}
         all == units \cup (free \ clash)
         auths == Authorities(all, analyses)
     IN /\ ~Blocked(a, new)
        /\ \/ /\ mode = "lite" \/ clash = {}
              /\ units' = IF mode = "lite" THEN all ELSE units
              /\ See(a, [V(a) EXCEPT !.auths = auths, !.plan = PlanOf(a, auths, analyses),
                                     !.pending = all \ units'])
              /\ Fence(a, "persist")
           \/ /\ mode = "full" /\ clash # {}
              /\ Raise(a)
              /\ UNCHANGED <<units, view>>
  /\ UNCHANGED <<world, prior, analyses, reserved, recorded, plans, links>>

\* The next proposal to link, behind a fence; none is left, the stage is over.
LinkNext(a, todo) ==
  /\ See(a, [V(a) EXCEPT !.todo = todo, !.pending = {}])
  /\ IF todo = {} THEN pc' = [pc EXCEPT ![a] = "done"] ELSE Fence(a, "link")

\* _assert_plan_replay: a plan is the same if all of it is, routes included.
Stored(plan) == plan \in Range(plans)

\* The items' key: a new plan may not have an item of a stored one.
SharesItem(plan) == \E i \in DOMAIN plans : plans[i].items \cap plan.items # {}

KeepPlan(plan) == plans' = IF Stored(plan) THEN plans ELSE Append(plans, plan)

\* persist_plan.  The fragments of Full become visible with the plan.
Persist(a) ==
  /\ pc[a] = "persist"
  /\ units' = units \cup V(a).pending
  /\ LET plan == V(a).plan
     IN \/ /\ Stored(plan) \/ ~SharesItem(plan)
           /\ KeepPlan(plan)
           /\ LinkNext(a, ProposalsOf(plan))
        \/ /\ ~Stored(plan) /\ SharesItem(plan)
           /\ Raise(a)
           /\ UNCHANGED <<plans, view>>
  /\ UNCHANGED <<world, prior, analyses, reserved, recorded, links>>

NextItem(a) == CHOOSE i \in V(a).todo : \A j \in V(a).todo : i.first <= j.first

\* The gate and route that authorise the candidate.
Binding(a, i) == {x \in V(a).plan.audit : Within(i, x)}

\* build_candidate_from_proposal.
Candidate(i) == {CandidateType(p.route) : p \in i.proposal}

\* candidate_payload_hash: the candidate and what it rests on.
Payload(a, i) == [type |-> Candidate(i), audit |-> Binding(a, i)]

LinkOf(i) == {l \in links : l.item = i}
SamePayload(l, payload) == l.payload = payload

\* reserve_candidate: a reservation with the same payload is found again.
ReserveLink(a) ==
  /\ pc[a] = "link"
  /\ LET i == NextItem(a)
         row == LinkOf(i)
         payload == Payload(a, i)
     IN \/ /\ row = {}
           /\ links' = links \cup {[item |-> i, payload |-> payload, ctx |-> V(a).ctx,
                                  state |-> "reserved"]}
           /\ pc' = [pc EXCEPT ![a] = "create"]
        \/ /\ row # {}
           /\ pc' = [pc EXCEPT ![a] = IF \E l \in row : SamePayload(l, payload)
                                      THEN "create" ELSE "raised"]
           /\ UNCHANGED links
  /\ UNCHANGED <<world, prior, units, analyses, reserved, recorded, plans, view>>

\* The gate decision of the run and the route of the annotation are stored.
GateAndRouteExist(x) == x.route \in 0..Len(analyses)

\* _assert_candidate_authority: the gate and route that the plan names exist.
AuthorityStands(a, i) == \A x \in Binding(a, i) : GateAndRouteExist(x)

\* The columns and evidence of a stored candidate, compared one by one.
SameRows(l, payload) == l.payload = payload

\* A candidate that is already there must be this one.
SameCandidate(a, i) == \A l \in LinkOf(i) : l.state = "linked" => SameRows(l, Payload(a, i))

\* create_and_link_candidate, a transaction of its own.
CreateCandidate(a) ==
  /\ pc[a] = "create"
  /\ LET i == NextItem(a)
     IN IF AuthorityStands(a, i) /\ SameCandidate(a, i)
        THEN /\ links' = (links \ LinkOf(i))
                          \cup {[l EXCEPT !.state = "linked"] : l \in LinkOf(i)}
             /\ LinkNext(a, V(a).todo \ {i})
        ELSE Raise(a) /\ UNCHANGED <<links, view>>
  /\ UNCHANGED <<world, prior, units, analyses, reserved, recorded, plans>>

Crash(a) ==
  /\ pc[a] \notin Over \cup {"new"}
  /\ pc' = [pc EXCEPT ![a] = "crashed"]
  /\ UNCHANGED <<world, prior, store, view>>

\* An earlier turn is deleted or redacted.
HidePrior(i) ==
  /\ changes < MaxChanges
  /\ prior[i].shown
  /\ prior' = [prior EXCEPT ![i].shown = FALSE]
  /\ changes' = changes + 1
  /\ UNCHANGED <<msg, mode, provider, store, pc, view>>

Next ==
  \/ \E a \in 1..Attempts :
       \/ Annotate(a) \/ AnalysisFails(a) \/ Load(a) \/ Reserve(a) \/ Call(a) \/ Record(a)
       \/ EnsureRead(a) \/ EnsureInsert(a) \/ Persist(a)
       \/ ReserveLink(a) \/ CreateCandidate(a) \/ Crash(a)
  \/ \E i \in DOMAIN prior : HidePrior(i)

Spec == Init /\ [][Next]_vars
-----------------------------------------------------------------------------
CoverageTypeOK ==
  /\ changes \in 0..MaxChanges
  /\ \A t \in units : Within(t, AllWords(msg))
  /\ Cardinality(recorded) <= 1
  /\ \A l \in links : l.state \in {"reserved", "linked"}
  /\ pc \in [1..Attempts -> Over \cup {"new", "load", "reserve", "call", "record", "ensure",
                                       "insert", "persist", "link", "create"}]

\* Every stored plan accounts for every word of the message exactly once,
\* whatever units the provider chose and whatever text units other attempts
\* had stored: the coverage the planner promises.
EveryWordHasOneDisposition ==
  \A p \in Range(plans) : \A w \in DOMAIN msg.words :
    Cardinality({i \in p.items : i.first <= w /\ w <= i.last}) = 1

Candidates == {l.item : l \in {k \in links : k.state = "linked"}}
UnitOf(i) == (CHOOSE x \in i.unit : TRUE).unit

\* No candidate rests on, or says, a sensitive word, also when its text unit
\* was made up for it, and no remote provider was called for a message or a
\* context that has one.
SensitiveWordsStayPut ==
  /\ \A i \in Candidates : Sensitivity(WordsOf(msg, i) \cup UnitOf(i).says) = "normal"
  /\ provider = "remote" =>
       \A ctx \in reserved :
         Sensitivity(WordsOf(msg, AllWords(msg)) \cup UNION {c.words : c \in Range(ctx)}) = "normal"

\* No two candidates rest on the same word, although overlapping attempts may
\* analyse different contexts and get different answers.
OneCandidatePerWord ==
  \A i, j \in Candidates : i # j => ~Overlap(i, j)

\* A candidate that has two or more words from what the assistant said before
\* and not from its evidence refers to that turn and ratifies or corrects it,
\* in a message of the user.
AssistantWordsAreRatified ==
  \A l \in links : \A item \in AssistantItems(l.ctx) :
    l.state = "linked" /\ Cardinality(Imported(msg, UnitOf(l.item), item)) >= 2 =>
      /\ msg.role = "user"
      /\ \E x \in l.item.unit :
           /\ \E ref \in x.refs : ref.status = "resolved" /\ ref.chosen = item.id
           /\ \E rel \in x.rels : rel.type \in {"ratifies", "corrects"} /\ rel.target = item.id

\* What the reference says of crashes: rows of a recoverable crash before the
\* link are verified and linked, so an attempt that follows a crash goes on.
CrashedPlansAreLinked ==
  \A a \in 1..Attempts : pc[a] = "raised" => \A b \in 1..(a - 1) : pc[b] # "crashed"
=============================================================================
