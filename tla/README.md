# A TLA+ model of Memorist core

Memorist is the memory service behind an Open WebUI deployment. Chat messages
are captured, a background worker extracts memory candidates from them with
the help of a language model, consolidates the candidates into versioned
memories, and later chats are given the relevant ones. The service is
`memorist-core/src/memcore` (Python; SQLite in the *lite* profile, PostgreSQL
otherwise). This directory models
the parts of it where correctness depends on concurrency, failure and ordering:
the durable job queue, the worker pipeline with its paid provider calls,
semantic candidate planning and its coverage plans, the writer thread that
captures messages, a turn of the chat from the Filter to the recorded answer,
the memory store with correction and erasure, imports, and the administration of
the models that the worker calls.

Source paths below are relative to `memorist-core/src/memcore` unless they
start with `docs/` or another top-level directory.

## 1. The system

| Component | State it keeps | Operations | Hard part |
|---|---|---|---|
| Memory job queue (`memory_worker/service.py`) | `jobs` rows: status, attempts, lease token, generation, expiry | claim with recovery sweep, renew, success, failure, start-up sweep | several processes, leases that expire under a worker that is only slow, crashes |
| Worker pipeline (`memory_worker/pipeline.py`, `fencing.py`, `jakobson/service.py`) | processing runs, annotations, stage rows, message status | `prepare_message`, `process_message`: a dozen short fenced transactions between external calls | state read before a provider call and used after it; retry of half-done work |
| Provider execution (`memory_worker/execution.py`, `attempt_audit.py`) | `processing_provider_attempts` | reserve, call, finalize, one repair, fallback | a call that was paid for and whose result was lost |
| Semantic planning (`memory_worker/semantic/*`, `repositories/semantic_coverage.py`) | semantic executions, coverage plans, candidate links | load plan, load or run execution, record, persist, link one by one | check and write in different transactions; partial plans; replay across runs |
| SQLite write actor (`storage/write_actor.py`) | priority queue, one writer thread, idempotency records, metrics | submit and wait, execute with busy retry, stop | client timeouts with late execution, thread death, metrics updated after the put |
| Message capture (`openwebui/commands.py`) | messages, versions, capture rows, jobs | one command, three transactions | partial commit, resend, key reuse |
| Coverage planner (`semantic/coverage`, `gating.py`, `semantic/*_policy.py`, `textsemantics/validation.py`) | none; plans, text units, links in the database | route, gate, bound the context, validate, plan | every word has one disposition, whatever the provider answers |
| Consolidation and store (`memory_worker/consolidation`, `repositories/memory_worker.py`) | candidates, memories, versions, lexical index, embeddings | resolve, create, supersede, reinforce | version numbers read before they are written |
| Governance (`governance`) | change requests, privacy requests, receipts | apply, undo, cancel; preview, confirm, quarantine, erase, retry | erasure racing everything that copies text |
| Active memory (`active_memory`) | blocks and their versions | build, compact, roll back | snapshot read long before it is published |
| Graph projection (`graph`) | the graph database | rebuild | clear and refill with overlapping callers |
| Import (`imports`) | import runs, conversations, mappings, item leases, progress | upload, dry run, commit in batches, schedule, claim, renew, finish, recover, finalize, pause, resume, cancel, retry | every repository call commits by itself; rows shared between runs and with the job queue |
| Session resolution (`openwebui/session_resolution.py`, `api/routes_openwebui.py`) | sessions, actors, aliases | resolve | concurrent first message |
| Memory control (`memory_control`, `attachments`, `api/routes_memory_control.py`) | policy defaults, turn contracts, attachments and their lifecycle log, regenerations | resolve policy, prepare, approve, cancel, deliver, suppress, reject | compare-and-set on a status decided earlier; what a private turn may leave |
| Filter and backend (`open-webui-integration/memorist`) | the metadata of a chat request | inlet, outlet, review prepare | calls that time out while the core goes on |
| Model control (`model_control`) | profiles, health events, role defaults, stage rows, embedding records | create, patch, acknowledge, test, assign, remove, resolve, invoke | the profile is read at resolution and again at the call |
| Hot-path scheduler, retrieval ranking, text processing, migrations, other routes, installer | | | data transformation, status or one-shot maintenance; not modelled |

How they interact: the HTTP route submits a capture command to the write actor
and waits for it; the command inserts the message and enqueues a
`memory_extraction` job; a worker claims the job, takes a snapshot of text and
effective profile (the *execution identity*), calls the provider outside any
transaction, and writes its results in short transactions that first check the
lease and the identity; semantic planning is one stage of that pipeline; the
job row is closed by a compare-and-set. Accepted candidates become versions of
memories; blocks, embeddings, the lexical index and the graph are copies of
them. The Filter calls the HTTP routes before a chat request (policy, session,
capture, context, delivery) and after the answer (response link). An import
commits its conversations through the write actor and schedules items that its
own worker threads process with the same pipeline.

What must hold, component by component:

* queue: one owner per job, a bounded number of attempts, every job settles;
* pipeline: results of a lost lease or an outdated identity are never written,
  a finished run is not redone, audit rows tell the truth about the data;
* provider: an identity is never paid for twice;
* planning: nothing proceeds from a half-linked plan, a recorded execution is
  never replaced;
* planner: each word of a message is accounted for once, sensitive words and
  unratified words of the assistant do not become memories;
* write actor: every request is answered, an answered request is stored once;
* chat turn: a private turn leaves nothing, injected context was cleared for
  this user and this message, an answer is recorded once;
* store: one open version per memory, history only grows, a clean receipt means
  that no copy is left;
* import: committed means whole, an archive imported twice is stored once, a
  run settles, and only then is it reconstructed;
* models: what was called was acknowledged and tested, an answer is filed under
  the model that gave it, verdicts only tighten.

`PROJECT.json` lists the hazards at their lines and the properties against them.

## 2. Modules

| Module | What it is |
|---|---|
| `JobContract` | abstract specification of the job queue: pending, running with at most one holder, succeeded or dead, with an attempt budget |
| `JobLease` | the `jobs` rows and every statement of `MemoryJobWorkerService` against them |
| `JobLeaseProofs` | theorems about `JobLease` |
| `MemoryWorker` | the pipeline on top of `JobLease` (EXTENDS it; each pipeline action contains at most one lease action) |
| `MemoryWorkerProofs` | theorems about `MemoryWorker`, using those of `JobLease` through refinement |
| `SemanticPlanning` | the planning stage, again on top of `JobLease` |
| `SemanticPlanningProofs` | theorems about `SemanticPlanning`, using those of `JobLease` |
| `CoveragePlan` | the pure planner: gates, routes, context, validation, provenance, plan |
| `CoverageRun` | attempts that annotate, analyse, plan and link one message; EXTENDS `CoveragePlan` |
| `WriteActor` | request threads, writer thread and the capture command |
| `WriteActorProofs` | theorems about `WriteActor` |
| `ModelControl` | profiles, tests, defaults and role resolution, with the administrator's requests |
| `CandidateStages` | the stages after extraction in both editions; EXTENDS `ModelControl` |
| `CandidateStagesProofs` | theorems about `CandidateStages` and the resolution of `ModelControl` |
| `MemoryStore` | candidates, versions, index, embeddings, graph rebuild |
| `ActiveMemory` | blocks and attachment texts; EXTENDS `MemoryStore` |
| `Governance` | corrections and erasure, crash and recovery; EXTENDS `ActiveMemory` and composes the three |
| `GovernanceProofs` | theorems about versions, the graph and erasure in the composition |
| `ImportItems` | processing rows and the worker threads |
| `ImportRun` | requests, commit batches and finalization; EXTENDS `ImportItems` |
| `ImportRunProofs` | theorems about `ImportRun` |
| `MemoryControl` | policies and attachments |
| `SessionCapture` | sessions and captured messages; EXTENDS `MemoryControl` |
| `ChatTurn` | Filter, backend and interface; EXTENDS `SessionCapture` |
| `ChatTurnProofs` | theorems about `ChatTurn` |
| `MC*` | instances for TLC |

### JobLease

`status`, `attempts` and `gen` are the columns `status`, `attempts` and
`lease_generation`; a claim draws a random `lease_token` together with the next
generation, so the generation stands for both. `ttl[j]` is the time left until
`lease_expires_at`, in ticks; `due[j]` says that `run_after` has passed. `hold`
and `hgen` are the worker thread's local copy of the claim. `up` is the process.

`Owns(w)` is the WHERE clause that JobLeaseFence and both result writes share.
`Claim` and `PollEmpty` are the two outcomes of a poll: in both the recovery
sweep is part of the same transaction. `Renew` is the fence with
`before_provider=True`. `Succeed` and `Fail` are compare-and-set writes that
hit; `Abandon` is one that misses. SQLite and PostgreSQL run the same
statements with one difference, the constant `Backoff`: PostgreSQL delays a
retry, SQLite makes it due at once.

### MemoryWorker

`pc[w]` follows the worker thread through `process_once`, `prepare_message`,
`run_contract_execution` and `process_message`. Each transaction and each
external call is one action, and a crash, an expiry, another worker or a change
of profile may come between any two. `source[m]` is the execution identity a
snapshot of the message would yield now; `seen[w]` the snapshot the fence
compares; `input[w]` the one `prepare_message` froze. `FencedWrite` is
`fenced_write`: check and write in one transaction. An output is known by its
origin only: provider, fallback or local.

Detail left out: the `text_unitization` rows and `job_attempts` rows that the
success and failure writes also close, the number of units and routes, the
contents of candidates, token counts, usage events. Semantic planning, the
candidate stages, and embedding with graph projection are one action each that
passes its fence or raises; planning and the candidate stages have modules of
their own. An untrusted identity is one whose deterministic output the contract
rejects as well.

### SemanticPlanning

The stage's fence (`_fence_and_revalidate`) is a plain read: it neither locks
the row nor shares a transaction with the write that follows, so `...Fence` and
the write are two actions here. `versioned` decides whether a plan of another
run may be replayed. `plans[s]` lists a run's plans oldest first, because the
newest is replayed.

### CoveragePlan and CoverageRun

A text is a sequence of words, each with what it says and what the lexical tests
see in it (`mark`: plain, strong, sensitive, secret and so on); spans are ranges
of words. `CoveragePlan` defines the gate, the routes, the bounded context, the
validation of an output and `plan_candidate_coverage` over such messages, as
functions without state. `CoverageRun` runs attempts of one job over them:
every action is a write whose fence was passed, with the reads up to the next
fence, so that the next attempt can start between any two. `units`, `analyses`,
`recorded`, `plans` and `links` are the tables; `view[a]` is what an attempt
has read. `HidePrior` is a change of an earlier turn that alters the context.

### WriteActor

Request threads are `pc[c]`; an envelope is a request with the number of its
try. `Put` and `Register` are separate because the metrics are updated after
the envelope is in the queue. The capture's three transactions are three
actions, and `Busy` and `Crash` may come between them. The order in the queue
is left open, except that the stop sentinel comes last.

### ModelControl and CandidateStages

A configuration stands for all that the certification fingerprint covers except
the enabled flag. `test_profile` and `set_default` are two steps with a probe or
other requests in between (`tester`, `assigner`). A worker of `CandidateStages`
resolves a role, replays or calls, validates, compares the resolution and
writes under its fence; the lease is reduced to its holder. Both editions are in
the module, because they differ in order and in what a retry replaces; Init
chooses one. `w[x].call` remembers with which configuration a call was made and
whether it was approved or edited underneath; the code does not store that.

### MemoryStore, ActiveMemory, Governance

A text is known by where it came from: the candidate or the change request that
brought it in. Everything that keeps a copy of a text is a set or function of
such origins, so the residue of an erasure is a set expression. Request threads
(`thread`) read, and write in later transactions. `Steps` lists the adapters of
an erasure in the order `execute_request` calls them; `actor` is the write
actor's place in it. `late` notes, for each request, how a thread thwarted it:
"listed", by writing a listed text after the preview, whether it had read the
text before the preview or between preview and erasure (the preview lists
records once, and a memory can be read until its quarantine), or "revived", by
publishing, before the preview, a block version that another erasure had cleared
together with its source rows (finding 3). Of the
full profile the modules have candidates, versions and the rebuild of the graph;
blocks, corrections and erasure are those of lite.

### ImportItems and ImportRun

A row of `import_message_processing_status` is `item`, `owner`, `fresh`,
`tries` and `conf`. A worker thread holds one claim; each fence of
`_process_one` is a step of `WorkerStep`. `ImportRun` adds the requests of
`ImportService` and the commit, step by step as its repository calls commit:
session, message, mapping, row. Pause, resume and cancel write the run's status
and the progress flags in two transactions (`asked`). The memory worker takes
import jobs from the shared table (`MemoryWorkerRuns`).

The commit is that of the *lite* edition, where the write actor runs one batch
at a time (`busy`). The full edition commits in the request thread without a
lock (`api/routes_imports.py:270`), and `python -m memcore.imports --commit`
calls the service directly: there two runs of one archive may both find a
conversation new and both create its messages, and of two requests of one run
the second may finalize it while the first still schedules. None of the import
properties is claimed for them.

Two paths of a second import end without a row. A conversation without
`source_conversation_id` (`Nameless`) is recognised by its fingerprint and
marked skipped, but its repair looks for the hash of the whole payload, finds
no session and returns (`Unrepairable`). And `schedule` copies the active row
that another run has for the message, which the unique index on the identity of
queued and running rows refuses (`Refused`): the repair breaks off
(`RefuseMessage`) with the conversation already marked skipped, and `torn` notes
it as after a crash. For the same reason `retry_failed` raises while another
run's row of that identity is active. Two configurations stand for two
profiles; an edit in place, which changes the fingerprint of the target but not
the identity of the rows, is left out.

### MemoryControl, SessionCapture, ChatTurn

`turn[t]` is what a run of the Filter has learnt so far; `calls` are the
requests the core is working on, so that the Filter can give up on one
(`GiveUp`) which is still carried out. A transition of an attachment reads the
row and updates it by compare-and-set, in two steps. Lite runs resolution and
capture in the write actor, one at a time; full runs them as transactions that
overlap. `Govern` is a correction or erasure that makes an attachment stale.

### Where the definitions are coarser than the code

None of these decides a property; they are listed for whoever compares the
definitions with the code.

* *Errors of other kinds.* `Annotate` leaves early by a rejected fence only; the
  code also raises for units that are no sentences and for a failed analysis,
  through the same handler (both in `CoverageRun`). `RecordExecution` merges the
  SELECT with the INSERT, whose loser raises in the code and goes on here.
  `Persist` leaves out the replay's error for a changed authority and takes the
  plans of one origin for equal whatever their routes. `BuildVersion` appends
  with the number it finds; in the code a collision raises. A worker that finds
  the resolution changed (`Receive`) keeps its lease until it runs out, where
  the code may give the job back at once; fallback output that is rejected is
  left out there.
* *Transactions merged.* `InvalidateDependencies` marks every block and
  attachment in one step, `PreviewRequest` lists everything in one, and
  `UpdateWorkflow` reads and writes at once.
* *Keys.* The item keys of `CoveragePlan` (`Fingerprint`) are finer than the
  code's, which leave out unit, kind and referents. `CaptureKey` leaves out turn
  index, content hash and time bucket; `ReadAlias` the lookup of a conversation
  of an older schema; `Recorded` knows an answer by its turn, where the code
  uses the provider's id or the content hash.
* *Cases left out.* Of the resolver's outcomes (`Resolve`), manual review of a
  forget request and rejection for missing evidence, neither of which writes a
  version; of the wishes of a request (`SendMessage`), `no_recall` and
  `private`, which only restrict what the policy allows; the rows of
  `memory_consolidation_decisions`, by which lite never revisits a decision
  (`Store` may try again, which allows more than the code does).

## 3. Runs

| Run | Shows | Bounds |
|---|---|---|
| `job_lease` | types, exclusive ownership, retry budget, a lost lease stays lost, refinement of `JobContract`, every job settles | 2 workers, 3 jobs of 2 priorities, attempts 2, 2 and 1, lease of 2 ticks |
| `worker` | types, no call paid twice, audit row matches annotations, message available, fenced canonical writes, refinement of `JobLease`, every job settles | 2 workers, 1 job with 2 attempts, 3 identities (remote, untrusted local, disabled), lease of 2 ticks |
| `semantic_planning` | no exit without a complete plan, a recorded execution is stable | 2 workers, 2 attempts, 3 identities, 2 proposals |
| `coverage_plan` | every stored plan gives each word one disposition, no sensitive word leaves, no two candidates share a word, words of the assistant need ratification | 5 messages of 4 words and 2 sentences, 3 earlier turns, 6 outputs, 2 attempts that may overlap, 1 change of an earlier turn, both editions, 3 kinds of provider |
| `crashed_plans` | counterexample, finding 2 | as above |
| `write_actor` | answered means stored, one job per capture, surplus messages only from interrupted captures, capture rows are final, requests are answered | 2 requests on one key, one sent twice, 2 busy attempts, 2 faults |
| `model_control` | records agree, calls were approved, one edit never mislabels an answer, verdicts only tighten | 2 workers, 2 claims, 1 profile, 2 configurations, 2 administrator requests, both editions |
| `memory_store` | one open version, history only grows, a clean receipt leaves no residue, an undisturbed rebuild is exact | 2 candidates of one key, 1 change request, 1 privacy request, 2 threads, 2 rebuilders, 3 versions, 2 requests or crashes |
| `revived_block` | counterexample, finding 3 | 2 memories with a text each, 1 block, 2 privacy requests, 1 thread, 1 version, 2 requests or crashes |
| `chat_turn` | private turns leave nothing, injected context was cleared, the lifecycle log is a path, an answer is recorded once | 2 turns of 1 user in 1 chat, 1 attachment, 1 request of the interface, 1 event (policy change, stale memory, lost reply or crash), both profiles |
| `import_run` | committed conversations are whole, one copy unless interrupted, reconstructed means done, processing settles (lite) | 2 runs of an archive of 2 conversations, one without source id, 1 worker thread, 2 configurations, 1 attempt, 1 fault, control request or repeated commit |
| `finished_means_every_message` | counterexample, finding 1 | as above |

Why the bounds suffice for the cases of interest: two workers and two attempts
are what a late worker needs to meet its successor; a third worker adds a second
late one, which the fence treats like the first. A lease of one or two ticks is
enough for an expiry at every point, since a tick may come between any two
steps. Three identities cover a change to another kind of profile and back
again. Two proposals make a half-linked plan. Two faults allow a busy error and
a crash in one history. Two administrator requests are one more than the window
of `OneEditNeverMislabels` needs, and enough for create and test, or edit and
disable. Four words in two sentences let a unit lie inside a sentence, cut
across two, overlap another and leave words uncovered. Two imports of one
archive are what skipping, repair and the refused copy of an active row need,
and the conversation without source id is imported by both; one disturbance at
every point covers each single failure, not combinations. Two
threads and a write actor are enough for every reader to publish around an
erasure; two erasures that meet in one block take two memories, which only
`revived_block` has, and the proof covers any number. The code's four busy
attempts and three job attempts are smaller in the runs, `MaxBusy` and
`MaxAttempts`; the proofs hold for any number of attempts.

Counters that TLC bounds: job attempts by `MaxAttempts` (the code's own bound),
`Attempts` and `MaxClaims`; requests by `MaxTries`, `MaxUi`, `MaxOps` and
`MaxChanges`; faults by `MaxFaults` and `MaxEvents`; rows by `MaxVersions` and
`MaxAttachments`. In `model_control` the last claim keeps its lease, as nobody
could take the job after it. Changes of profile in `worker` need no bound. Runs
with a finite number of requests (`write_actor`, `coverage_plan`,
`model_control`, `memory_store`, `revived_block`, `chat_turn`, `import_run`)
turn the deadlock check off, since they end; the others keep it on.

Type invariants are checked in `job_lease` and `worker` (and as part of
`RecordsAgree` in `model_control`); in the other modules they document the
state.

### Fairness

* Worker threads poll in an endless loop (`_run`), so polling, and every step
  of a job in hand, is weakly fair; each stage has a timeout of its own, so a
  provider call ends.
* A dead process is restarted by its supervisor: `StartWorker` is weakly fair.
  Nothing is assumed about how often it dies, but a job's attempts bound that.
* Time passes: leases that nobody renews expire. Renewal and change of profile
  are never forced.
* The writer thread and a request thread that waits go on, also in the middle of
  an import batch and between the two transactions of a control request.
  Timeouts, busy errors, stops and crashes are not forced, nor that a failed
  request is sent again.

## 4. Findings

1. `finished_means_every_message`: `finalize_if_terminal` takes a run without
   processing rows for finished and looks at nothing else
   (`imports/processing.py:942`). The shortest history uploads, makes the dry
   run and calls the process endpoint: the run is `fully_reconstructed` with no
   message committed. A conversation that fails in the commit or whose repair
   breaks off has the same effect on its messages. docs/reference/import.md says
   that the status is reached only when every message has a terminal state.
   `FullyReconstructedMeansDone` is what does hold.
2. `crashed_plans`: docs/reference/semantic-candidate-authority.md says that
   rows left by a crash before the link are verified and linked. That holds of
   the repository call by itself, but an attempt of the pipeline seldom gets
   there: fragments stored by the crashed attempt make it raise when it
   annotates the message (`jakobson/service.py:397`; in full the count check of
   `prompts/validators.py:150`), and after a partly linked plan its own plan has
   new route uuids, hence another hash, and the same item keys
   (`repositories/semantic_coverage.py:98`). The job ends dead.
3. `revived_block`: a privacy request finds the blocks of its memory by
   `memory_block_sources` (`governance/privacy.py:576`), and an erasure or
   quarantine for any other memory in the block deletes those rows without
   raising the block's lock. A build, compaction or rollback that is under way
   then publishes its version all the same, and the block shows text whose
   source rows are gone. A later request for that text does not list the block:
   its receipt has no exceptions and `memory_blocks.value` keeps the text.
   docs/reference/forget-residue.md lists block values among what an erasure
   redacts. A thread that publishes a listed text after the preview
   (`late`, "listed") is not counted here; apart from these two ways
   `CleanReceiptLeavesNoResidue` holds, for any number of requests. The residue
   check of the API finds such a text only when it is given the text to look for,
   and the receipt does not depend on it.

Corners kept as notes at their hazards, without a run of their own:

* the fence of semantic planning is not locked together with the write it guards
  (`semantic/orchestration.py`, the calls of `_fence_and_revalidate` before
  recording, persisting and linking), so a worker whose lease runs out in between
  still writes executions, plans and candidates, which RELEASE_NOTES.md excludes.
  The window is short compared with the lease, and `DonePlansAreLinked` and
  `ExecutionsAreStable` prove that the later stages are not misled;
* a message processed under a changed identity and back is not made available
  again, and an empty pending run may be left for an identity that came and went;
* a worker that finds another execution recorded for its run plans from its own
  output; a command the writer takes between put and registration is counted as
  queued for ever; an interrupted capture that is run again leaves a surplus
  message (`SurplusOnlyFromInterruption`: nothing else does);
* a request without timeout waits while the writer thread cannot connect;
* skipped spans are always `unsupported` or `uncovered_material`, although
  semantic-candidate-authority.md names `rejected_by_gate`;
* an acknowledgement given for one endpoint stays valid for the next; a stage row
  that failed open is replayed under its identity; removing a default marks the
  embeddings of the wider scope's profile stale;
* a delivered attachment whose reply was lost cannot be completed later (409),
  and a resend by way of the concurrent event may inject it a second time;
  two first resolutions in full create two sessions; turn indexes of full can
  coincide, as the two writers take different advisory locks;
* a cancel during a batch is overwritten by `paused`, a resume revives a
  cancelled run; a skipped conversation whose repair broke off, or that has no
  source id, is not taken up again, and its run still finishes as
  `fully_reconstructed`;
* two configurations of a profile may be called without approval: one edited in
  after the resolution, and one put in place while another was probed
  (`CallsWhatWasApproved` names both and excludes everything else); a vector
  written for a profile that was replaced meanwhile keeps the wrong stale mark;
* a correction makes a forgotten memory active again and loses its polarity; a
  privacy request with a receipt can be confirmed or retried and changes its
  status; change requests and block build runs keep text that was erased.

## 5. Proofs

TLAPS checks every theorem for arbitrary values of the constants, under the
assumptions named in the modules that declare them; TLC evaluates them in every
run. They give the constants their types and keep the null values out of the
sets. Those that say more: attempts, lease and claims are positive
(`JobAssumption`, `CandidateStagesAssumption`), and every archive holds a message
(`ImportAssumption`: a thread of the model names the run it finalizes by one of
its rows). `CommitAssumption` adds that two archives with a message of the same
conversation without source id have all of it, since such a conversation is
known by a hash of its content. Finiteness is not assumed, except of scopes, which are a sequence.
`StoreAssumption` keeps candidates and changes
apart, both being names of the texts they bring, and `CaptureAssumption` keeps
the index of an unknown message out of the numbers. The four largest invariants,
`ImportInv`, `StagesInv`, `ErasureInv` and `ChatInv`, were model-checked before
they were proved.

*Job queue.* `LeaseExclusive` is not inductive by itself: a stale claim and a
fresh one must be told apart. `LeaseInv` joins to the types and the retry budget
that a worker's generation never exceeds the job's and that two workers with the
same job have different generations (`GenerationsDistinct`). Each action
preserves it (`LeaseInvInductive`), and `LeaseIsExclusive`, `RetriesAreBounded`
and `LostLeaseStaysLost` follow.
`LeaseImplementsContract` maps a row to the phase it would have after a sweep,
so the sweep itself is a stuttering step (`SweepInvisible`) and an expiring
lease is the contract's `Lapse`; the holder is the worker that owns the row,
which exclusiveness makes unique (`HolderKept`, `HolderGone`).

*Pipeline.* `PipelineStepIsLeaseStep` shows action by action that a pipeline
step is a lease step or leaves the rows alone; so `PipelineImplementsLease`
holds, and the guarantees of the queue carry over
(`PipelineKeepsLeaseGuarantees`). `Placed` ties `pc` to the job and the identity
the worker holds; with the types it is inductive (`PlacedStep`).
`ProviderPaidAtMostOnce` needs to know where a worker is between reservation and
completion (`ReservedBeforeCall`): an identity without reservation was never
called, and at most one worker stands in front of the call with it, the one that
reserved it. `RunRecordsAreFenced` says of every step that changes a run's
records that its worker passed the fence and that the frozen identity is the
fence's (`Agreed`).

`FinishedRunsAreAudited` and `SucceededJobsAreAvailable` rest on `OutcomeInv`,
which says what the owner of a job may conclude from its place (`OwnerView`:
past the annotations, the run's are its own), what a finished run has
(`RunView`) and what a succeeded job leaves (`JobView`). Annotations and stage
row are two transactions, so this needs that nobody else writes the run in
between: the lease excludes that for one job, and the jobs table's idempotency
key (`openwebui:<job_type>:<message_uuid>`, `routes_openwebui.py`) makes a
message have one. `OneJob` states it in both properties: with two jobs of one
message TLC finds a finished run whose audit row names the other job's output.

*Planning.* `PlanningKeepsTheLease` is the refinement of the lease.
`DonePlansAreLinked` and `ExecutionsAreStable` hold although the fence locks
nothing, so the invariant (`PlanningInv`) may use no ownership: it ties each
place of a worker to rows that are only ever added, its plan is stored and the
proposals it has passed are linked (`Linking`). `UnmovedKeepsItsPlace` says that
what others add cannot disturb that.

*Write actor.* `CaptureInv` follows the command through its three transactions:
the writer between lookup and insert knows that its key has no capture
(`CommandSeesKey`), every answer `ok` has its capture (`AnswersAreCaptured`), and
a key's messages are at most the interrupted captures, the stored one and the
one in progress (`MessagesAreAccounted`). The last is why
`SurplusOnlyFromInterruption` is not inductive: it does not see the message of
the command in progress.

*Store.* `VersionInv` says that a memory's current number is the number of its
versions and that exactly the last is open (`Chained`), and that a thread about
to write one read a number no higher than that (`Read`): if it is lower, the
unique index stops the thread. `MemoriesHaveOneOpenVersion` and
`HistoriesOnlyGrow` follow for consolidation, corrections, undo, blocks and
erasure together. `GraphInv` tells what a rebuilder that was alone has projected
so far; the other components leave its variables alone
(`OtherStepsKeepTheGraph`).

*Erasure.* `CleanReceiptsLeaveNoResidue` rests on `ErasureInv`, which has four
parts. `TextsFit`: a text is stored only under the memory it is at home in, and
a candidate whose text a version has is linked to it, so a preview finds it.
`CopiesFit`: a block version or attachment names the memories of the texts it
shows. `ThreadsHold` says the same of what a thread has read and not yet
published. `RequestsFit`, for each request that is not late: until its preview, a
block that shows a text of its memory is found by its sources (`Tracked`); after
it, only what is listed holds a listed text (`Covered`), and the erasures past in
the order of `Steps` have left nothing where they work (`Gone`). A step therefore
either adds no listed text (`TextsListed`, `CopiesListed`) or marks the request
late, and that one step is all the exception there is. The first version of the
property did not survive this: `Tracked` was not inductive, and TLC showed the
counterexample with two requests that became finding 3; the exception now names
it. (tlapm reads `UNION A \cup B` as `UNION (A \cup B)`, hence the parentheses
in `Residue`.)

*Chat turn.* `ChatInv` says of every table what its rows refer to, and of every
turn and every request in flight that what it knows is true. Rows are only added
and keep their identity (`Grows`), and a turn only goes on (`Advances`): so what
a handler does to its own turn and row cannot falsify what the others know, and
each operation needs proof only for what it writes. `RowFits` binds the status,
the log and the idempotency keys of an attachment: the log is a path to the
status, and its owner's contract allowed recall. `CallFits` says that what a
handler has read still belongs to the row, so the compare-and-set extends the
path by an allowed step, whoever came in between; `LifecycleLogs` follows.
`TurnFits` and `SentBy` tie a turn that started with the switch off to a single
request, the policy, and to no trace in any table (`PrivateTurns`); a turn with
injected context has a delivered row of its own user and message, and asked for
the delivery while the row was fresh (`InjectedContext`). `LinksFit` says that
two answer links share neither turn nor attachment nor regeneration, and that
every used attachment has one (`RequestsAreAnsweredOnce`).

*Import.* `ImportInv` has the place of every thread and of the batch
(`ClaimsPlaced`, `BatchPlaced`), that a conversation with a session keeps what
was committed of it, in whichever archive (`ConversationsKept`), how many copies
of a message there are while no batch was cut short (`CopiesCounted`), that done
rows ran under their own configuration (`RowsRan`), and that the verdict over a
run, once given, stays true (`VerdictsHold`), also when its commit is requested
once more (`Loaded`). All of it supposes that one batch runs at a time. The worker threads are one case,
since none of their steps makes a row appear or vanish (`ItemStep`,
`CommitFrame`).

*Model control and stages.* `StagesInv` has four ideas. The holder of the lease
knows the candidate's row as it is until it has stored it (`KnowsTheRow`): every
writer is fenced, so nobody changes the row under it, and `VerdictsTighten`
follows although each stage works from a copy. An attempt of the job makes at
most one attempt of the embedding (`AttemptsCounted`), and vectors are replaced
but never all removed (`VectorsStay`). Between resolution and answer a worker is
followed through the administrator's steps (`Drifts`, `Called`): none since
means that the profile is the one that was certified; one that gave it another
model has made the certification stale, since one request changes the profile
or its health event and never both (`AdministerStep`). So the comparison after
the answer drops it, and what is filed carries a true label (`LabelsHold`).
`CallsAreApproved` follows from `Called`: approved is a configuration that
passed its probe, certifies itself, or is the one under which a probe of
another was recorded.
The attempt to prove this showed that `OneEditNeverMislabels` must leave out one
more case, which TLC confirmed on an instance with a deterministic
configuration: a remote profile is tested, patched to a deterministic model,
which certifies itself (`certification.py`, `_SELF_CERTIFYING_PROVIDERS`),
resolved, and patched back. The old health event certifies it again, and the
remote answer is filed under the deterministic model after one edit.
`SelfCertified` names both directions.

*Only model-checked:*

* all liveness (`JobsSettle`, `RequestsAreAnswered`, `ProcessingSettles`), which
  the prover cannot do;
* the four properties of `coverage_plan`: what the planner computes of a message
  is an induction over its words, which the prover cannot do either.

Every other property that a passing run checks is stated by a theorem.

## 6. Seeded faults

Operators whose comment begins with "Seeded fault" are not part of any
specification. Each changes one operation the way a plausible mistake would,
and with it in place TLC finds the property of its entry in `PROJECT.json`
violated. They guard against properties that hold whatever the code does.

## 7. Plan

Done: all modules above, and the proofs of the queue, the pipeline, planning,
the write actor, the store with its erasures, the chat turn, the import and the
stages. No module uses a RECURSIVE operator.

Next in the model: erasure of a message or a session against the attempts of
`CoverageRun` (units and fragments created between preview and execution are
not listed); `submit_batch`; two workers in `import_run`.

## 8. Not modelled

* Retrieval, ranking and token budgets: floating point scores over read-only
  queries. What they deliver is an attachment of `MemoryControl`.
* Parsing, segmentation, lexicons, factor resolution and prompts: functions of
  text without state. `CoveragePlan` takes their results as marks and
  annotations.
* Erasure of messages and sessions, legal holds, the residue check and the
  verify methods; the outbox of the graph, whose lite projector projects
  nothing; the FalkorDB and object store adapters; the hot cache of blocks.
* Token and usage accounting, pricing, secret storage.
* `ImportScheduler` and the hot-path scheduler, which the modelled paths do not
  call.
* Migrations, backup, restore and the installer: one-shot maintenance.
