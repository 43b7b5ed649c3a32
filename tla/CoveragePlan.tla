---------------------------- MODULE CoveragePlan ----------------------------
(***************************************************************************)
(* The pure part of semantic candidate planning: routing and gating of a   *)
(* sentence, the bounded context, validation of the provider's output, and *)
(* plan_candidate_coverage, which gives every word of the message one      *)
(* disposition and every durable unit one proposal.                        *)
(*                                                                         *)
(* A text is a sequence of words [tok, mark]: tok is what the word says,   *)
(* mark what the lexical tests see in it.  A span has a first and a last   *)
(* word.  A message has a role, its words, its sentences (spans with their *)
(* Jakobson annotation and resolved factors) and the words that hint at a  *)
(* dependency on earlier turns.                                            *)
(***************************************************************************)
EXTENDS Integers, Sequences, FiniteSets, SequencesExt

Within(x, y) == y.first <= x.first /\ x.last <= y.last
Overlap(x, y) == x.first <= y.last /\ y.first <= x.last
WordsOf(m, s) == {m.words[i] : i \in s.first..s.last}
AllWords(m) == [first |-> 1, last |-> Len(m.words)]
Toks(words) == {w.tok : w \in words}
Marked(words, marks) == \E w \in words : w.mark \in marks

\* classify_sensitivity: the class of the most sensitive word.
Sensitivity(words) ==
  IF Marked(words, {"secret"}) THEN "secret"
  ELSE IF Marked(words, {"sensitive"}) THEN "sensitive" ELSE "normal"

Rank == [normal |-> 0, sensitive |-> 1, secret |-> 2]
-----------------------------------------------------------------------------
\* DeterministicGate.evaluate, with _strong_reason_codes and
\* _result_from_reasons.  "firm" words are constraints and decisions.
EvaluateGate(words, role) ==
  LET strong == Marked(words, {"strong", "firm"})
      low == \A w \in words : w.mark = "low"
      sensitive == Marked(words, {"sensitive", "secret"})
  IN IF Marked(words, {"forget"}) THEN "manual_review"
     ELSE IF low THEN "discard"
     ELSE IF ~strong /\ ~sensitive /\ role # "tool" THEN "retain_raw_only"
     ELSE IF sensitive THEN "manual_review"
     ELSE IF Marked(words, {"firm"}) THEN "analyze_high_confidence"
     ELSE "analyze"

Route(type, priority) == [type |-> type, priority |-> priority]

ConativeRoutes(words, receiver) ==
  IF receiver = "team" THEN {Route("workflow_policy", 90), Route("team_obligation", 85)}
  ELSE IF receiver = "ai" /\ Marked(words, {"prompt"}) THEN {Route("prompt_instruction", 90)}
  ELSE {Route("task_constraint", 75)}

ReferentialRoutes(context) ==
  CASE context = "jira"     -> {Route("jira_configuration", 80)}
    [] context = "process"  -> {Route("process_fact", 70)}
    [] context = "resource" -> {Route("resource_reference", 60)}
    [] OTHER                -> {}

MetalingualRoute(words, context) ==
  IF context = "metalingual" /\ Marked(words, {"prompt"})
  THEN Route("prompt_instruction", 75) ELSE Route("terminology_rule", 75)

EmotiveRoute(context) ==
  IF context = "emotive" THEN Route("user_preference", 65) ELSE Route("emotional_stance", 65)

\* decide_semantic_routes, in its order of precedence.
DecideRoutes(m, s) ==
  LET words == WordsOf(m, s)
      functions == {s.dominant} \cup s.secondary
  IN IF functions = {"phatic"} THEN {Route("ignore", 0)}
     ELSE IF Marked(words, {"forget"}) THEN {Route("privacy_review", 100)}
     ELSE IF s.context = "privacy" \/ Sensitivity(words) # "normal"
          THEN {Route("privacy_review", 95)}
     ELSE IF s.dominant = "conative" THEN ConativeRoutes(words, s.receiver)
     ELSE IF s.dominant = "referential" /\ ReferentialRoutes(s.context) # {}
          THEN ReferentialRoutes(s.context)
     ELSE IF "metalingual" \in functions THEN {MetalingualRoute(words, s.context)}
     ELSE IF s.dominant = "emotive" THEN {EmotiveRoute(s.context)}
     ELSE IF s.dominant = "poetic" \/ s.context = "poetic" THEN {Route("style_policy", 55)}
     ELSE IF s.dominant = "phatic" THEN {Route("ignore", 0)}
     ELSE {Route("manual_review", 20)}

\* _route_order: the ready route of the highest priority.
SelectedRoute(routes) ==
  (CHOOSE r \in routes : \A o \in routes : o.priority <= r.priority).type

\* Seeded fault: only sentences are classified, a fragment counts as normal.
SentenceCeiling(m, t) == IF t.kind = "sentence" THEN Sensitivity(WordsOf(m, t)) ELSE "normal"

\* _authorities_from_rows: the class of the unit's own text.
Ceiling(m, t) == Sensitivity(WordsOf(m, t))

\* map_output_to_annotations: the annotation of the sentence with this span.
Annotation(m, t) ==
  {s \in m.sentences : t.kind = "sentence" /\ s.first = t.first /\ s.last = t.last}

\* The authority of a text unit: its gate, its selected route if the latest
\* analysis annotated it, and the privacy ceiling of its own text.
Authority(m, t, annotated) ==
  LET annotation == IF annotated THEN Annotation(m, t) ELSE {}
  IN [first |-> t.first, last |-> t.last, kind |-> t.kind,
      gate |-> IF t.gated THEN EvaluateGate(WordsOf(m, t), m.role) ELSE "none",
      route |-> IF annotation = {} THEN "none"
                ELSE SelectedRoute(DecideRoutes(m, CHOOSE s \in annotation : TRUE)),
      ceiling |-> Ceiling(m, t)]

\* _AuthorityIndex.containing: authorities may overlap, so several may hold
\* one span.
Containing(auths, s) == {a \in auths : Within(s, a)}
-----------------------------------------------------------------------------
\* BoundedContextResolver._ineligible_reason, for records of one session: the
\* role, the message's visibility and redaction, its version, and the class.
Eligible(r) ==
  /\ r.role \in {"user", "assistant"}
  /\ r.shown /\ r.versioned
  /\ Sensitivity(r.words) = "normal"

\* list_prior_context_records reads from the newest unit backwards; the last
\* ones that are eligible stay, oldest first.
NewestEligible(prior, limit) ==
  LET eligible == SelectSeq(prior, Eligible)
      from == IF Len(eligible) > limit THEN Len(eligible) - limit + 1 ELSE 1
  IN SubSeq(eligible, from, Len(eligible))

\* The newest two eligible units, or six if a word hints at earlier turns;
\* none at all unless the session's actor is known.
ResolveContext(m, prior) ==
  IF m.actor THEN NewestEligible(prior, IF m.hints = {} THEN 2 ELSE 6) ELSE <<>>

AssistantItems(ctx) == {i \in Range(ctx) : i.role = "assistant"}
-----------------------------------------------------------------------------
\* A provider's output: units in a sequence, each a span with an id and what
\* is claimed of it; references and relations name a unit and a referent, the
\* id of another unit or of a context item.
Abstention == [units |-> <<>>, refs |-> {}, rels |-> {}]

Units(out) == Range(out.units)
RefsOf(out, u) == {r \in out.refs : r.unit = u.id}
RelsOf(out, u) == {r \in out.rels : r.unit = u.id}

ValidUnits(m, out) ==
  /\ \A i \in DOMAIN out.units :
       LET u == out.units[i] IN
       /\ 1 <= u.first /\ u.first <= u.last /\ u.last <= Len(m.words)
       /\ Rank[Sensitivity(u.says)] <= Rank[Sensitivity(WordsOf(m, u))]
  /\ \A i, j \in DOMAIN out.units :
       i < j => /\ out.units[i].id # out.units[j].id
                /\ out.units[i].first <= out.units[j].first
                /\ ~Overlap(out.units[i], out.units[j])

ValidReferents(ctx, out) ==
  LET allowed == {u.id : u \in Units(out)} \cup {c.id : c \in Range(ctx)}
      inside(r) == \E u \in Units(out) : u.id = r.unit /\ Within(r, u)
  IN /\ \A r \in out.refs :
          /\ inside(r)
          /\ r.offered \subseteq allowed
          /\ IF r.status = "resolved" THEN r.chosen \in r.offered /\ r.chosen # r.unit
             ELSE r.chosen = "none"
     /\ \A r \in out.rels : inside(r) /\ r.target \in allowed

\* validate_semantic_binding with validate_semantic_evidence: an "ok" output
\* has units; any defect rejects the whole output.
ValidOutput(m, ctx, out) ==
  \/ out = Abstention
  \/ out.units # <<>> /\ ValidUnits(m, out) /\ ValidReferents(ctx, out)
-----------------------------------------------------------------------------
\* candidate_mapping_for_semantic_unit: the route of a memory kind or, for
\* outputs without one, of a unit type.
KindRoute(kind) ==
  CASE kind \in {"Instruction", "instruction"} -> "prompt_instruction"
    [] kind \in {"Need", "LearningGoal"}       -> "team_obligation"
    [] kind = "Preference"                     -> "user_preference"
    [] kind = "Constraint"                     -> "task_constraint"
    [] kind = "Feedback"                       -> "emotional_stance"
    [] kind \in {"Decision", "ProjectArtifact", "ProjectState", "FactClaim", "Hypothesis",
                 "Correction", "Retraction", "statement", "explanation"} -> "project_context"
    [] OTHER                                   -> "none"

\* The model's kind decides, then the persisted route, then the unit's type.
MappedRoute(u, auth) ==
  LET legacy == IF \E a \in auth : a.route \notin {"none", "ignore"}
                THEN (CHOOSE a \in auth : TRUE).route ELSE "none"
  IN IF KindRoute(u.memory) # "none" THEN KindRoute(u.memory)
     ELSE IF legacy # "none" THEN legacy ELSE KindRoute(u.type)

\* _candidate_profile: the type of the candidate that a route yields.
CandidateType(route) ==
  CASE route = "user_preference"                           -> "preference"
    [] route = "style_policy"                              -> "style"
    [] route = "terminology_rule"                          -> "definition"
    [] route \in {"task_constraint", "workflow_policy"}    -> "constraint"
    [] route = "team_obligation"                           -> "goal"
    [] route \in {"prompt_instruction", "privacy_review"}  -> "instruction"
    [] route = "emotional_stance"                          -> "feedback"
    [] OTHER                                               -> "fact"

SourceAuthority(m) ==
  IF m.imported THEN "imported_record"
  ELSE CASE m.role = "assistant" -> "assistant_claim"
         [] m.role = "tool"      -> "tool_observation"
         [] m.role = "system"    -> "system_instruction"
         [] OTHER                -> "user_explicit"

\* decide_candidate_provenance: whether the source may become a memory of
\* this route by itself.
AllowsMemory(m, route) ==
  /\ route \notin {"manual_review", "privacy_review"}
  /\ SourceAuthority(m) = "assistant_claim" =>
       route \in {"project_context", "process_fact", "resource_reference"}
  /\ SourceAuthority(m) = "tool_observation" =>
       route \in {"jira_configuration", "process_fact", "project_context", "resource_reference"}
  /\ SourceAuthority(m) = "system_instruction" =>
       route \in {"prompt_instruction", "style_policy", "task_constraint",
                  "terminology_rule", "workflow_policy"}
-----------------------------------------------------------------------------
Ratifies(out, u, target) ==
  \E r \in RelsOf(out, u) : r.type \in {"ratifies", "corrects"} /\ r.target = target

Refers(out, u, target) ==
  \E r \in RefsOf(out, u) : r.status = "resolved" /\ r.chosen = target

\* _assistant_reference_is_not_ratified: a reference to something that the
\* assistant said needs a single candidate, a single assistant item in the
\* context, a user's message that is more than an acknowledgement, and a
\* relation that ratifies or corrects it.
NotRatified(m, ctx, out, u) ==
  LET assistant == {i.id : i \in AssistantItems(ctx)}
      to == {r \in RefsOf(out, u) : r.status = "resolved" /\ r.chosen \in assistant}
  IN /\ to # {}
     /\ \/ \E r \in to : Cardinality(r.offered) # 1
        \/ Cardinality(assistant) # 1
        \/ m.role # "user"
        \/ \A w \in WordsOf(m, u) : w.mark = "ack"
        \/ ~\E r \in to : Ratifies(out, u, r.chosen)

\* Words of an assistant item that the proposition has and its evidence lacks.
Imported(m, u, item) == (Toks(u.says) \ Toks(WordsOf(m, u))) \cap Toks(item.words)

\* Seeded fault: only the newest context item is looked at.
UnratifiedFromNewest(m, ctx, out, u) ==
  \E item \in AssistantItems(ctx) :
    /\ item = ctx[Len(ctx)]
    /\ Cardinality(Imported(m, u, item)) >= 2
    /\ ~(Refers(out, u, item.id) /\ Ratifies(out, u, item.id))

\* _assistant_proposition_injection: two or more words of an assistant item
\* in the proposition, without both a reference to it and its ratification.
ImportsUnratified(m, ctx, out, u) ==
  \E item \in AssistantItems(ctx) :
    /\ Cardinality(Imported(m, u, item)) >= 2
    /\ ~(Refers(out, u, item.id) /\ Ratifies(out, u, item.id))

\* A reference without target, or a dependency hint inside the unit that no
\* reference of the unit covers.
Unresolved(m, out, u) ==
  \/ \E r \in RefsOf(out, u) : r.status # "resolved"
  \/ \E h \in m.hints \cap (u.first..u.last) :
       ~\E r \in RefsOf(out, u) : r.first <= h /\ h <= r.last

\* disposition_for_unit: the reasons to fail closed, then the policy.
ReviewReasons(auth, conflict) ==
  LET single == Cardinality(auth) = 1
      restricted == single /\ \E a \in auth : a.ceiling # "normal"
  IN    (IF single THEN {} ELSE {"missing_persisted_authority"})
   \cup (IF Cardinality(auth) > 1 THEN {"cross_authority_span"} ELSE {})
   \cup (IF single /\ conflict THEN {"conflicting_persisted_authority"} ELSE {})
   \cup (IF restricted THEN {"privacy_or_sensitivity_ceiling"} ELSE {})

UnitPolicy(u, unresolved, route) ==
  IF unresolved THEN "unresolved_reference"
  ELSE IF u.durability = "context_only" THEN "context_only"
  ELSE IF u.type = "instruction" /\ u.durability = "transient" THEN "transient_instruction"
  ELSE IF u.type = "question" \/ u.epistemic \in {"hypothetical", "questioned"}
       THEN "context_only"
  ELSE IF "unknown" \in {u.durability, u.epistemic} THEN "needs_review"
  ELSE IF route = "none" \/ u.durability # "durable" THEN "unsupported"
  ELSE "durable_candidate"

\* semantic_unit_fingerprint: the unit with its references and relations.
Fingerprint(out, u) == [unit |-> u, refs |-> RefsOf(out, u), rels |-> RelsOf(out, u)]

\* CandidateProposal, known by its route, source and gate beside its unit.
Proposal(m, auth, route) ==
  [route |-> route, source |-> SourceAuthority(m), gate |-> (CHOOSE a \in auth : TRUE).gate]

\* The loop body of plan_candidate_coverage.  The unit's fingerprint, its
\* disposition and its proposal identify the item; routes and run do not.
UnitItem(m, ctx, out, auths, executed, u) ==
  LET auth == Containing(auths, u)
      conflict == ~executed \/ NotRatified(m, ctx, out, u) \/ ImportsUnratified(m, ctx, out, u)
      route == MappedRoute(u, IF Cardinality(auth) = 1 THEN auth ELSE {})
      reasons == ReviewReasons(auth, conflict)
      policy == UnitPolicy(u, Unresolved(m, out, u), route)
      distrusted == policy = "durable_candidate" /\ ~AllowsMemory(m, route)
      disposition == IF reasons # {} \/ distrusted THEN "needs_review" ELSE policy
  IN [first |-> u.first, last |-> u.last,
      unit |-> {Fingerprint(out, u)},
      disposition |-> disposition,
      reasons |-> IF distrusted /\ reasons = {} THEN {"source"} ELSE reasons,
      proposal |-> IF disposition # "durable_candidate" THEN {} ELSE {Proposal(m, auth, route)}]

\* _merge_intervals and _tokens_outside_intervals.
Uncovered(m, out) ==
  {i \in DOMAIN m.words : ~\E u \in Units(out) : u.first <= i /\ i <= u.last}

\* The text unit a word is grouped by: the only one that holds it, if any.
AuthorityKey(auths, i) ==
  LET c == Containing(auths, [first |-> i, last |-> i])
  IN IF Cardinality(c) = 1 THEN c ELSE {}

SameGroup(m, out, auths, i, j) ==
  /\ \A k \in i..j : k \in Uncovered(m, out)
  /\ \A k \in i..j : AuthorityKey(auths, k) = AuthorityKey(auths, i)

\* Seeded fault: the gap between two uncovered words is not looked at, so a
\* group may reach across a covered unit.
UncoveredSpansAcross(m, out, auths) ==
  {s \in [first : Uncovered(m, out), last : Uncovered(m, out)] :
     /\ s.first <= s.last
     /\ \A k \in s.first..s.last : AuthorityKey(auths, k) = AuthorityKey(auths, s.first)
     /\ ~\E i \in Uncovered(m, out) :
          \/ i < s.first /\ \A k \in i..s.first :
                              AuthorityKey(auths, k) = AuthorityKey(auths, s.first)
          \/ i > s.last /\ \A k \in s.last..i :
                             AuthorityKey(auths, k) = AuthorityKey(auths, s.last)}

\* _uncovered_items: maximal runs of uncovered words of one text unit.
UncoveredSpans(m, out, auths) ==
  {s \in [first : Uncovered(m, out), last : Uncovered(m, out)] :
     /\ s.first <= s.last
     /\ SameGroup(m, out, auths, s.first, s.last)
     /\ ~SameGroup(m, out, auths, s.first - 1, s.last)
     /\ ~SameGroup(m, out, auths, s.first, s.last + 1)}

UncoveredItem(s) ==
  [first |-> s.first, last |-> s.last, unit |-> {}, disposition |-> "unsupported",
   reasons |-> {"uncovered_material"}, proposal |-> {}]

PlanStatus(out, items) ==
  IF out = Abstention THEN "abstain"
  ELSE IF \E i \in items : i.disposition = "needs_review" THEN "needs_review" ELSE "complete"

\* plan_candidate_coverage.
PlanCoverage(m, ctx, out, auths, executed) ==
  LET items == {UnitItem(m, ctx, out, auths, executed, u) : u \in Units(out)}
               \cup {UncoveredItem(s) : s \in UncoveredSpans(m, out, auths)}
  IN [items |-> items, status |-> PlanStatus(out, items)]

ProposalsOf(plan) == {i \in plan.items : i.proposal # {}}
=============================================================================
