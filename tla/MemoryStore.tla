---------------------------- MODULE MemoryStore ----------------------------
(***************************************************************************)
(* The canonical memory store: candidates pass the candidate stages and    *)
(* are consolidated into memories and memory versions; the lexical index,  *)
(* the embeddings and the graph are derived from the versions.             *)
(*                                                                         *)
(* The deployment profile is chosen once.  In "lite" (SQLite) candidates   *)
(* with the same canonical key are consolidated into one memory.  In       *)
(* "full" (PostgreSQL) every accepted candidate becomes a memory of its    *)
(* own and the graph database is rebuilt from the canonical rows.          *)
(*                                                                         *)
(* A text is represented by its origin: the candidate or the change        *)
(* request that brought it in.  TextOf says which origins say the same,    *)
(* PolarityOf what they affirm.                                            *)
(***************************************************************************)
EXTENDS Naturals, Sequences, FiniteSets

CONSTANTS
    Memories, Candidates, Changes,
    KeyOf,        \* lite: the memory of a candidate's canonical key
    OwnKey,       \* full: the memory of a candidate's own key
    TextOf, PolarityOf,
    AnswersOf,    \* what the two candidate stages may answer of a candidate:
                  \* pairs <<privacy classification, high confidence verdict>>
    HighPass,     \* candidates that need the high confidence stage
    MaxVersions,  \* bound: versions of one memory
    Rebuilders,   \* full: callers of the graph rebuild
    Erased        \* the text '[erased]' or '[redacted]'

VARIABLES
    profile,    \* "lite" or "full"
    cand,       \* the row of memory_candidates: status, stage passed, text
    decision,   \* the consolidation decision of a candidate
    memory,     \* the row of memories: status, current version number
    versions,   \* the rows of memory_versions, by version number
    links,      \* memory_evidence_links: <<memory, version number, candidate>>
    fts,        \* memory_version_fts: <<memory, text>>
    embeddings, \* memory_version_embeddings: <<memory, version number, text>>
    embedder,   \* the embedding stage of the memory worker
    graph,      \* nodes of the graph database: <<memory, text>>
    rebuild     \* the calls that rebuild the graph

storeVars == <<profile, cand, decision, memory, versions, links, fts,
               embeddings, embedder>>
graphVars == <<graph, rebuild>>

Origins == Candidates \cup Changes
Polarities == {"affirmed", "negated", "unknown"}

ASSUME StoreAssumption ==
    /\ Erased \notin Origins /\ Candidates \cap Changes = {}
    /\ KeyOf \in [Candidates -> Memories]
    /\ OwnKey \in [Candidates -> Memories]
    /\ \A c, d \in Candidates : OwnKey[c] = OwnKey[d] => c = d
    /\ DOMAIN TextOf = Origins
    /\ PolarityOf \in [Candidates -> Polarities]
    /\ HighPass \subseteq Candidates
    /\ MaxVersions \in Nat \ {0}

NoRow == [status |-> "none", current |-> 0]
Resting == [m |-> "none", n |-> 0, text |-> Erased]
Called == [pc |-> "idle", rows |-> {}, todo |-> {}, alone |-> TRUE]

StoreTypeOK ==
    /\ profile \in {"lite", "full"}
    /\ \A c \in Candidates :
          /\ cand[c].status \in {"ready", "needs_review", "rejected", "redacted"}
          /\ cand[c].stage \in {"new", "staged", "stored", "done"}
          /\ cand[c].text \in Origins \cup {Erased}
          /\ decision[c] \in {"none", "add", "reinforce", "supersede",
                              "contradict", "reject", "manual_review"}
    /\ \A m \in Memories :
          /\ memory[m].status \in {"none", "active", "needs_review",
                                   "retracted", "forgotten"}
          /\ memory[m].current \in 0 .. Len(versions[m])
          /\ Len(versions[m]) <= MaxVersions
          /\ \A n \in DOMAIN versions[m] :
                /\ versions[m][n].text \in Origins \cup {Erased}
                /\ versions[m][n].polarity \in Polarities
                /\ versions[m][n].open \in BOOLEAN
    /\ links \subseteq Memories \X (1 .. MaxVersions) \X Candidates
    /\ fts \subseteq Memories \X (Origins \cup {Erased})
    /\ embeddings \subseteq Memories \X (1 .. MaxVersions) \X (Origins \cup {Erased})
    /\ graph \subseteq Memories \X (Origins \cup {Erased})

StoreInit ==
    /\ profile \in {"lite", "full"}
    /\ cand = [c \in Candidates |->
                 [status |-> "ready", stage |-> "new", text |-> c]]
    /\ decision = [c \in Candidates |-> "none"]
    /\ memory = [m \in Memories |-> NoRow]
    /\ versions = [m \in Memories |-> << >>]
    /\ links = {}
    /\ fts = {}
    /\ embeddings = {}
    /\ embedder = Resting
    /\ graph = {}
    /\ rebuild = [g \in Rebuilders |-> Called]

-----------------------------------------------------------------------------
(* The candidate stages.                                                   *)

(* What the privacy classification does to a candidate's status.           *)
ApplyPrivacyResult(status, classification) ==
    CASE classification = "secret" -> "rejected"
      [] classification \in {"sensitive", "requires_review", "abstain"}
         /\ status # "rejected" -> "needs_review"
      [] OTHER -> status

(* What the high confidence verdict does to it.                            *)
ApplyHighConfidenceResult(status, verdict) ==
    CASE verdict = "rejected" -> "rejected"
      [] verdict \in {"needs_review", "abstain"} /\ status # "rejected" ->
            "needs_review"
      [] OTHER -> status

(* _run_candidate_stages: both stages touch only the candidate's own row,  *)
(* so the candidates may as well be taken one by one.                      *)
CandidateStages(c) ==
    /\ cand[c].stage = "new"
    /\ \A d \in Candidates : cand[d].stage \in {"new", "done"}
    /\ \E answer \in AnswersOf[c] :
          LET status == ApplyPrivacyResult(cand[c].status, answer[1])
          IN  cand' = [cand EXCEPT
                         ![c].stage = "staged",
                         ![c].status = IF c \in HighPass
                                       THEN ApplyHighConfidenceResult(status, answer[2])
                                       ELSE status]
    /\ UNCHANGED <<profile, decision, memory, versions, links, fts,
                   embeddings, embedder>>

-----------------------------------------------------------------------------
(* Consolidation.                                                          *)

Current(m) == versions[m][memory[m].current]

SaysTheSame(a, b) ==
    a \in Origins /\ b \in Origins /\ TextOf[a] = TextOf[b]

(* Two decided polarities disagree; an unknown one disagrees with none.    *)
PolaritiesContradict(p, q) == "unknown" \notin {p, q} /\ p # q

(* find_by_canonical_key: the key has a memory, whatever its status.       *)
Known(m) == memory[m].current # 0

(* DeterministicResolver.resolve                                           *)
Resolve(c, m) ==
    IF cand[c].status = "rejected" THEN "reject"
    ELSE IF cand[c].status = "needs_review" THEN "manual_review"
    ELSE IF ~Known(m) THEN "add"
    ELSE IF SaysTheSame(Current(m).text, cand[c].text) THEN "reinforce"
    ELSE IF PolaritiesContradict(Current(m).polarity, PolarityOf[c]) THEN "contradict"
    ELSE "supersede"

(* Mutant: the unique index is missing.                                    *)
NumberInBound(m, n) == n <= MaxVersions

(* A version appended as the current one; the unique index on (memory,     *)
(* version number) refuses a number that is taken.                         *)
NumberIsFree(m, n) == n > Len(versions[m]) /\ n <= MaxVersions

(* Mutant: closing the old version also writes the new text to it.         *)
WithVersionRewritten(m, text, polarity, close) ==
    LET old == IF close
               THEN [versions[m] EXCEPT ![memory[m].current].open = FALSE,
                                        ![memory[m].current].text = text]
               ELSE versions[m]
    IN  Append(old, [text |-> text, polarity |-> polarity, open |-> TRUE])

WithVersion(m, text, polarity, close) ==
    LET old == IF close THEN [versions[m] EXCEPT ![memory[m].current].open = FALSE]
                        ELSE versions[m]
    IN  Append(old, [text |-> text, polarity |-> polarity, open |-> TRUE])

(* get_consolidation_decision and _record_decision: one per candidate.     *)
Decided(c) == decision[c] # "none"

RecordDecision(c, operation) == decision' = [decision EXCEPT ![c] = operation]

(* _link_evidence: the version rests on the candidate's evidence.          *)
LinkEvidence(m, n, c) == links' = links \cup {<<m, n, c>>}

(* create_memory_with_version, create_version_for_memory: the decision,    *)
(* the version, the evidence link in one transaction.                      *)
StoreVersion(c, m, close) ==
    /\ NumberIsFree(m, memory[m].current + 1)
    /\ versions' = [versions EXCEPT
                      ![m] = WithVersion(m, cand[c].text, PolarityOf[c], close)]
    /\ memory' = [memory EXCEPT
                    ![m].status = IF @ = "none" THEN "active" ELSE @,
                    ![m].current = @ + 1]
    /\ LinkEvidence(m, memory[m].current + 1, c)

(* record_reinforcement: only the decision and the evidence link.          *)
Reinforce(c, m) ==
    /\ LinkEvidence(m, memory[m].current, c)
    /\ UNCHANGED <<memory, versions>>

(* MemoryConsolidator.consolidate_candidate, inside the worker's fenced    *)
(* transaction.  An existing decision is returned as it is.                *)
Consolidate(c) ==
    LET m == KeyOf[c]
        operation == Resolve(c, m)
    IN  /\ profile = "lite"
        /\ cand[c].stage = "staged" /\ cand[c].status # "redacted"
        /\ ~Decided(c)
        /\ RecordDecision(c, operation)
        /\ cand' = [cand EXCEPT ![c].stage =
              IF operation \in {"add", "supersede", "reinforce"} THEN "stored" ELSE "done"]
        /\ CASE operation \in {"add", "supersede"} ->
                  StoreVersion(c, m, operation = "supersede")
             [] operation = "reinforce" -> Reinforce(c, m)
             [] OTHER -> UNCHANGED <<memory, versions, links>>
        /\ UNCHANGED <<profile, fts, embeddings, embedder>>

(* PostgresMemoryPipeline._record_memories: every accepted candidate gets  *)
(* a memory of its own; one that has it is skipped.                        *)
RecordMemory(c) ==
    /\ profile = "full"
    /\ cand[c].stage = "staged"
    /\ ~Decided(c)
    /\ IF cand[c].status = "ready" /\ ~Known(OwnKey[c])
       THEN /\ StoreVersion(c, OwnKey[c], FALSE)
            /\ RecordDecision(c, "add")
            /\ cand' = [cand EXCEPT ![c].stage = "stored"]
       ELSE /\ RecordDecision(c, "reject")
            /\ cand' = [cand EXCEPT ![c].stage = "done"]
            /\ UNCHANGED <<memory, versions, links>>
    /\ UNCHANGED <<profile, fts, embeddings, embedder>>

-----------------------------------------------------------------------------
(* Derived data.                                                           *)

(* The embedding of the version a candidate was stored in: the text is     *)
(* read, the provider is called without a transaction, and the vector is   *)
(* written afterwards.  A vector of the same text is not made again.       *)
EmbedRead(c) ==
    /\ cand[c].stage = "stored"
    /\ embedder = Resting
    /\ \E m \in Memories, n \in 1 .. MaxVersions :
          /\ <<m, n, c>> \in links
          /\ embedder' = [m |-> m, n |-> n, text |-> versions[m][n].text]
    /\ UNCHANGED <<profile, cand, decision, memory, versions, links, fts, embeddings>>

EmbedWrite(c) ==
    /\ cand[c].stage = "stored"
    /\ embedder # Resting
    /\ \/ embeddings' = {e \in embeddings : <<e[1], e[2]>> # <<embedder.m, embedder.n>>}
                          \cup {<<embedder.m, embedder.n, embedder.text>>}
       \/ UNCHANGED embeddings      \* replayed, or the provider gave no vector
    /\ embedder' = Resting
    /\ cand' = [cand EXCEPT ![c].stage = "done"]
    /\ UNCHANGED <<profile, decision, memory, versions, links, fts>>

(* rebuild_index: the index of every current or closed version, in one     *)
(* transaction.                                                            *)
IndexRows(mem, vers) ==
    UNION {{<<m, vers[m][n].text>> :
              n \in {k \in DOMAIN vers[m] : k = mem[m].current \/ ~vers[m][k].open}}
           : m \in Memories}

(* Every lexical search rebuilds the index first.                          *)
LexicalSearch ==
    /\ profile = "lite"
    /\ fts # IndexRows(memory, versions)
    /\ fts' = IndexRows(memory, versions)
    /\ UNCHANGED <<profile, cand, decision, memory, versions, links,
                   embeddings, embedder>>

(* The rows a graph rebuild projects.                                      *)
ActiveGraphRows ==
    {<<m, Current(m).text>> : m \in
        {k \in Memories : memory[k].status = "active" /\ memory[k].current # 0}}

(* GraphProjectionService.rebuild: the graph is deleted, then the rows are *)
(* read, then projected one at a time; an error leaves what is projected.  *)
(* alone records that no other rebuild overlapped this one.                *)
RebuildDelete(g) ==
    /\ profile = "full"
    /\ rebuild[g].pc = "idle"
    /\ graph' = {}
    /\ rebuild' = [h \in Rebuilders |->
          IF h # g THEN [rebuild[h] EXCEPT !.alone = FALSE]
          ELSE [pc |-> "read", rows |-> {}, todo |-> {},
                alone |-> \A k \in Rebuilders :
                             rebuild[k].pc \notin {"read", "project"}]]
    /\ UNCHANGED storeVars

RebuildRead(g) ==
    /\ rebuild[g].pc = "read"
    /\ rebuild' = [rebuild EXCEPT ![g].pc = "project", ![g].rows = ActiveGraphRows,
                                  ![g].todo = ActiveGraphRows]
    /\ UNCHANGED <<storeVars, graph>>

(* project_full_memory_record: the nodes of one row are merged.            *)
ProjectMemory(g) ==
    /\ rebuild[g].pc = "project"
    /\ \E row \in rebuild[g].todo :
          /\ graph' = graph \cup {row}
          /\ rebuild' = [rebuild EXCEPT ![g].todo = @ \ {row}]
    /\ UNCHANGED storeVars

(* Mutant: an unfinished projection is reported as a success.              *)
RebuildCommitEarly(g) ==
    /\ rebuild[g].pc = "project"
    /\ rebuild' = [rebuild EXCEPT ![g].pc = "ok"]
    /\ UNCHANGED <<storeVars, graph>>

RebuildCommit(g) ==
    /\ rebuild[g].pc = "project"
    /\ rebuild[g].todo = {}
    /\ rebuild' = [rebuild EXCEPT ![g].pc = "ok"]
    /\ UNCHANGED <<storeVars, graph>>

(* The graph database or PostgreSQL fails: rolled back, reported failed.   *)
RebuildFail(g) ==
    /\ rebuild[g].pc \in {"read", "project"}
    /\ rebuild' = [rebuild EXCEPT ![g].pc = "failed"]
    /\ UNCHANGED <<storeVars, graph>>

(* The caller may ask again.                                               *)
RebuildAgain(g) ==
    /\ rebuild[g].pc \in {"ok", "failed"}
    /\ rebuild' = [rebuild EXCEPT ![g] = Called]
    /\ UNCHANGED <<storeVars, graph>>

GraphNext ==
    \E g \in Rebuilders :
        \/ RebuildDelete(g) \/ RebuildRead(g) \/ ProjectMemory(g)
        \/ RebuildCommit(g) \/ RebuildFail(g) \/ RebuildAgain(g)

StoreNext ==
    \/ \E c \in Candidates : CandidateStages(c) \/ Consolidate(c) \/ RecordMemory(c)
=============================================================================
