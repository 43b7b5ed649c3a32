----------------------------- MODULE Governance -----------------------------
(***************************************************************************)
(* Corrections and privacy erasure over the memory store of the lite       *)
(* profile, with crashes and the recovery that follows.                    *)
(*                                                                         *)
(* A change request is applied by a request thread in several              *)
(* transactions.  A privacy request lists the records to erase when it is  *)
(* previewed; the write actor executes it adapter by adapter, one          *)
(* transaction each.                                                       *)
(***************************************************************************)
EXTENDS ActiveMemory

CONSTANTS Requests, TargetOf, OperationsOf

VARIABLES
    change,   \* the row of memory_change_requests: status, operation
    privacy,  \* the row of privacy_requests with its items and its receipt
    actor,    \* the privacy request the write actor executes: step, failures
    late      \* how threads that hold a text thwarted the request:
              \* "listed", by writing a listed text after the preview, or
              \* "revived", by publishing an erased version before it

govVars == <<change, privacy, actor, late>>
vars == <<storeVars, graphVars, activeVars, govVars>>

NoRequest == [status |-> "none", versions |-> {}, blocks |-> {}, attachments |-> {},
              texts |-> {}, receipt |-> "none"]
Free == [r |-> None, step |-> 0, failed |-> FALSE]

(* The adapters in the order execute_request calls them: every quarantine  *)
(* first, then every erasure.                                              *)
Steps == <<"quarantine memory", "quarantine fts", "quarantine blocks",
           "quarantine attachments", "erase memory", "erase fts",
           "erase embeddings", "erase blocks", "erase attachments",
           "receipt", "close">>

Operations == {"correct", "confirm", "retract", "mark_outdated"}

ASSUME GovernanceAssumption ==
    /\ TargetOf \in [Changes \cup Requests -> Memories]
    /\ OperationsOf \in [Changes -> SUBSET Operations]

TypeOK ==
    /\ StoreTypeOK /\ ActiveTypeOK
    /\ \A x \in Changes : 
          /\ change[x].status \in {"none", "pending", "applied", "cancelled"}
          /\ change[x].op \in Operations \cup {"none"}
    /\ \A r \in Requests :
          /\ privacy[r].status \in {"none", "preview", "confirmed", "executing",
                                    "partial_failure", "completed"}
          /\ privacy[r].receipt \in {"none", "clean", "exceptions"}
    /\ actor.step \in 0 .. Len(Steps)

Init ==
    /\ StoreInit /\ ActiveInit
    /\ change = [x \in Changes |-> [status |-> "none", op |-> "none"]]
    /\ privacy = [r \in Requests |-> NoRequest]
    /\ actor = Free
    /\ late = [r \in Requests |-> {}]

(* A thread writes the texts it has read, in a transaction of its own:     *)
(* late for every request that has listed one of them, whether the thread  *)
(* read it before the preview or between preview and erasure, and for      *)
(* every request still to come about one of the memories revived.          *)
Writes(texts, revived) ==
    late' = [r \in Requests |->
        late[r] \cup IF texts \cap privacy[r].texts # {} THEN {"listed"}
                     ELSE IF privacy[r].status = "none" /\ TargetOf[r] \in revived
                     THEN {"revived"} ELSE {}]

(* The memories of a block version that a thread is about to publish       *)
(* although an erasure has cleared its row, sources included, since.       *)
Revived(p) ==
    IF /\ thread[p].pc \in {"built", "rollback"}
       /\ blockVersions[thread[p].obj][thread[p].v] # thread[p].version
    THEN thread[p].version.sources ELSE {}

-----------------------------------------------------------------------------
(* MemoryCorrectionService                                                 *)

(* create_change_request and update_change_request: neither looks at the   *)
(* status the row had.                                                     *)
NewChange(x, op) == change' = [change EXCEPT ![x] = [status |-> "pending", op |-> op]]
SetChange(x, status) == change' = [change EXCEPT ![x].status = status]

CreateRequest(x) ==
    /\ profile = "lite"
    /\ change[x].status = "none" /\ memory[TargetOf[x]].current # 0
    /\ \E op \in OperationsOf[x] : NewChange(x, op)
    /\ UNCHANGED <<storeVars, activeVars, privacy, actor, late>>

CancelRequest(x) ==
    /\ change[x].status # "none" /\ ops < MaxOps
    /\ SetChange(x, "cancelled")
    /\ ops' = ops + 1
    /\ UNCHANGED <<storeVars, blocks, blockVersions, attachments, thread,
                   privacy, actor, late>>

(* apply_request reads the request and the current version; the text is    *)
(* the proposed one, or the current one for a confirmation.                *)
ApplyRead(p, x) ==
    LET m == TargetOf[x]
    IN  /\ Begin(p)
        /\ change[x].status = "pending"
        /\ Becomes(p, [Idle EXCEPT
              !.pc = IF change[x].op \in {"correct", "confirm"} THEN "version" ELSE "status",
              !.obj = x, !.n = memory[m].current,
              !.text = IF change[x].op = "confirm" THEN Current(m).text ELSE x])
        /\ UNCHANGED <<storeVars, blocks, blockVersions, attachments, govVars>>

(* undo_request restores the text of the version before the last.          *)
UndoRead(p, x) ==
    LET vs == versions[TargetOf[x]]
    IN  /\ Begin(p)
        /\ change[x].status # "none" /\ Len(vs) >= 2
        /\ Becomes(p, [Idle EXCEPT
              !.pc = "version", !.obj = x, !.n = memory[TargetOf[x]].current,
              !.v = 1,   \* an undo: the request x is not marked applied
              !.text = vs[Len(vs) - 1].text])
        /\ UNCHANGED <<storeVars, blocks, blockVersions, attachments, govVars>>

(* _create_new_version: the version read before the transaction is closed, *)
(* the next number inserted, the memory active again.  A number that is    *)
(* taken violates the unique index and the request fails.                  *)
CreateNewVersion(p) ==
    LET m == TargetOf[thread[p].obj]
        n == thread[p].n
    IN  /\ thread[p].pc = "version"
        /\ n + 1 <= MaxVersions
        /\ IF NumberIsFree(m, n + 1)
           THEN /\ versions' = [versions EXCEPT ![m] =
                     WithVersion(m, thread[p].text, "unknown", TRUE)]
                /\ memory' = [memory EXCEPT ![m] = [status |-> "active", current |-> n + 1]]
                /\ embeddings' = {e \in embeddings : <<e[1], e[2]>> # <<m, n>>}
                /\ Writes({thread[p].text}, {})
                /\ Becomes(p, [thread[p] EXCEPT !.pc = "invalidate"])
           ELSE /\ Ends(p)
                /\ UNCHANGED <<versions, memory, embeddings, late>>
        /\ UNCHANGED <<profile, cand, decision, links, fts, embedder, blocks,
                       blockVersions, attachments, ops, change, privacy, actor>>

(* mark_incorrect, mark_outdated and retract only set the status.          *)
SetStatus(p) ==
    LET x == thread[p].obj
    IN  /\ thread[p].pc = "status"
        /\ memory' = [memory EXCEPT ![TargetOf[x]].status =
                        IF change[x].op = "retract" THEN "retracted" ELSE "needs_review"]
        /\ Becomes(p, [thread[p] EXCEPT !.pc = "invalidate"])
        /\ UNCHANGED <<profile, cand, decision, versions, links, fts, embeddings,
                       embedder, blocks, blockVersions, attachments, ops, govVars>>

(* _invalidate_dependencies: the blocks and the attachments go stale; the  *)
(* optimistic lock of a block is not touched.                              *)
InvalidateDependencies(p) ==
    LET m == TargetOf[thread[p].obj]
    IN  /\ thread[p].pc = "invalidate"
        /\ blocks' = [b \in Blocks |->
              IF b \in BlocksWith(m) THEN [blocks[b] EXCEPT !.build = "stale"] ELSE blocks[b]]
        /\ attachments' = [a \in Attachments |->
              IF m \in attachments[a].sources
              THEN [attachments[a] EXCEPT !.status = "stale"] ELSE attachments[a]]
        /\ Becomes(p, [thread[p] EXCEPT !.pc = "finish"])
        /\ UNCHANGED <<storeVars, blockVersions, ops, govVars>>

(* rebuild_index and the request's status; an undo does neither to x.      *)
FinishRequest(p) ==
    LET undo == thread[p].v = 1
    IN  /\ thread[p].pc = "finish"
        /\ fts' = IF undo THEN fts ELSE IndexRows(memory, versions)
        /\ IF undo THEN UNCHANGED change ELSE SetChange(thread[p].obj, "applied")
        /\ Ends(p)
        /\ UNCHANGED <<profile, cand, decision, memory, versions, links,
                       embeddings, embedder, blocks, blockVersions, attachments,
                       ops, privacy, actor, late>>

-----------------------------------------------------------------------------
(* PrivacyService                                                          *)

(* The adapters' discover methods: the records of the memory at preview.   *)
VersionsOf(m) == DOMAIN versions[m]
AttachmentsWith(m) == {a \in Attachments : m \in attachments[a].sources}

(* The candidates, with their evidence and text units, that the given      *)
(* versions were made of.                                                  *)
SourcesOf(m, numbers) ==
    {c \in Candidates : \E n \in numbers : <<m, n, c>> \in links}

(* What the request is about: the texts of its records.                    *)
TextsOf(m) ==
    ({versions[m][n].text : n \in VersionsOf(m)}
       \cup {cand[c].text : c \in SourcesOf(m, VersionsOf(m))}) \ {Erased}

(* add_privacy_item for every discovered record.                           *)
WithItems(m) == [NoRequest EXCEPT !.versions = VersionsOf(m), !.blocks = BlocksWith(m),
                                  !.attachments = AttachmentsWith(m), !.texts = TextsOf(m)]

(* preview_request: the discovered records become the request's items.     *)
PreviewRequest(r) ==
    LET m == TargetOf[r]
    IN  /\ profile = "lite"
        /\ privacy[r].status = "none" /\ Known(m)
        /\ privacy' = [privacy EXCEPT ![r] = [WithItems(m) EXCEPT !.status = "preview"]]
        /\ UNCHANGED <<storeVars, activeVars, change, actor, late>>

(* update_privacy_request                                                  *)
SetPrivacy(r, status) == privacy' = [privacy EXCEPT ![r].status = status]

(* confirm_request compares the token and its expiry, not the status.      *)
ConfirmRequest(r) ==
    /\ actor = Free
    /\ privacy[r].status # "none"
    /\ SetPrivacy(r, "confirmed")
    /\ UNCHANGED <<storeVars, activeVars, change, actor, late>>

Executable == {"confirmed", "executing", "partial_failure"}

(* execute_request, the start: a request with a receipt is not run again.  *)
ExecuteRequest(r) ==
    /\ actor = Free
    /\ privacy[r].receipt = "none" /\ privacy[r].status \in Executable
    /\ SetPrivacy(r, "executing")
    /\ actor' = [r |-> r, step |-> 1, failed |-> FALSE]
    /\ UNCHANGED <<storeVars, activeVars, change, late>>

(* retry_request marks the request failed first, whatever its status.      *)
RetryRequest(r) ==
    /\ actor = Free /\ ops < MaxOps
    /\ privacy[r].status # "none"
    /\ ops' = ops + 1
    /\ IF privacy[r].receipt = "none"
       THEN /\ SetPrivacy(r, "executing")
            /\ actor' = [r |-> r, step |-> 1, failed |-> FALSE]
       ELSE /\ SetPrivacy(r, "partial_failure")
            /\ UNCHANGED actor
    /\ UNCHANGED <<storeVars, blocks, blockVersions, attachments, thread, change, late>>

At(name) == actor.r # None /\ Steps[actor.step] = name
Listed == privacy[actor.r]
Target == TargetOf[actor.r]
NextStep == actor' = [actor EXCEPT !.step = @ + 1]

(* SQLiteCanonicalAdapter.quarantine                                       *)
QuarantineMemory ==
    /\ At("quarantine memory")
    /\ memory' = [memory EXCEPT ![Target].status = "forgotten"]
    /\ NextStep
    /\ UNCHANGED <<profile, cand, decision, versions, links, fts, embeddings,
                   embedder, activeVars, change, privacy, late>>

(* SQLiteCanonicalAdapter.erase: the listed versions, the candidates and   *)
(* the evidence linked to them.                                            *)
EraseMemory ==
    LET linked == SourcesOf(Target, Listed.versions)
    IN  /\ At("erase memory")
        /\ memory' = [memory EXCEPT ![Target].status = "forgotten"]
        /\ versions' = [versions EXCEPT ![Target] =
              [n \in DOMAIN @ |-> IF n \in Listed.versions
                                  THEN [@[n] EXCEPT !.text = Erased] ELSE @[n]]]
        /\ cand' = [c \in Candidates |->
              IF c \in linked THEN [cand[c] EXCEPT !.text = Erased, !.status = "redacted"]
                              ELSE cand[c]]
        /\ NextStep
        /\ UNCHANGED <<profile, decision, links, fts, embeddings, embedder,
                       activeVars, change, privacy, late>>

(* SQLiteFTSAdapter: its quarantine is its erasure.                        *)
EraseFts ==
    /\ At("quarantine fts") \/ At("erase fts")
    /\ fts' = {row \in fts : row[1] # Target}
    /\ NextStep
    /\ UNCHANGED <<profile, cand, decision, memory, versions, links, embeddings,
                   embedder, activeVars, change, privacy, late>>

EraseEmbeddings ==
    /\ At("erase embeddings")
    /\ embeddings' = {e \in embeddings : ~(e[1] = Target /\ e[2] \in Listed.versions)}
    /\ NextStep
    /\ UNCHANGED <<profile, cand, decision, memory, versions, links, fts,
                   embedder, activeVars, change, privacy, late>>

(* MemoryBlockAdapter: its quarantine is its erasure; every version of the *)
(* block is redacted and its sources deleted.                              *)
EraseBlocks ==
    /\ At("quarantine blocks") \/ At("erase blocks")
    /\ blocks' = [b \in Blocks |->
          IF b \in Listed.blocks
          THEN [blocks[b] EXCEPT !.value = {Erased}, !.build = "stale", !.status = "redacted"]
          ELSE blocks[b]]
    /\ blockVersions' = [b \in Blocks |->
          IF b \in Listed.blocks
          THEN [n \in DOMAIN blockVersions[b] |->
                  [blockVersions[b][n] EXCEPT !.value = {Erased}, !.sources = {}]]
          ELSE blockVersions[b]]
    /\ NextStep
    /\ UNCHANGED <<storeVars, attachments, thread, ops, change, privacy, late>>

QuarantineAttachments ==
    /\ At("quarantine attachments")
    /\ attachments' = [a \in Attachments |->
          IF a \in Listed.attachments
          THEN [attachments[a] EXCEPT !.status = "stale"] ELSE attachments[a]]
    /\ NextStep
    /\ UNCHANGED <<storeVars, blocks, blockVersions, thread, ops, change, privacy, late>>

EraseAttachments ==
    /\ At("erase attachments")
    /\ attachments' = [a \in Attachments |->
          IF a \in Listed.attachments
          THEN [status |-> "redacted", text |-> {}, sources |-> {}] ELSE attachments[a]]
    /\ NextStep
    /\ UNCHANGED <<storeVars, blocks, blockVersions, thread, ops, change, privacy, late>>

(* An erasure raises: it is noted and the next adapter runs.  A quarantine *)
(* that raises ends the command with the request still executing.          *)
AdapterFails ==
    /\ actor.r # None /\ actor.step < 10 /\ ops < MaxOps
    /\ ops' = ops + 1
    /\ actor' = IF actor.step <= 4 THEN Free
                ELSE [actor EXCEPT !.step = @ + 1, !.failed = TRUE]
    /\ UNCHANGED <<storeVars, blocks, blockVersions, attachments, thread,
                   change, privacy, late>>

(* create_receipt: the counts and the exceptions; what the verification    *)
(* found is kept in it too and decides nothing.                            *)
Receipt(failed) == IF failed THEN "exceptions" ELSE "clean"

(* The receipt is written whether or not an adapter failed.                *)
CreateReceipt ==
    /\ At("receipt")
    /\ privacy' = [privacy EXCEPT ![actor.r].receipt = Receipt(actor.failed)]
    /\ NextStep
    /\ UNCHANGED <<storeVars, activeVars, change, late>>

CloseRequest ==
    /\ At("close")
    /\ SetPrivacy(actor.r, IF actor.failed THEN "partial_failure" ELSE "completed")
    /\ actor' = Free
    /\ UNCHANGED <<storeVars, activeVars, change, late>>

-----------------------------------------------------------------------------
(* _recover_privacy_requests marks what was confirmed or executing.        *)
Interrupted(r) == privacy[r].status \in {"executing", "confirmed"}

(* The process dies with what its threads held; the next start recovers    *)
(* before it serves.                                                       *)
CrashAndRecover ==
    /\ ops < MaxOps /\ profile = "lite"
    /\ \/ \E p \in Threads : thread[p].pc # "idle"
       \/ \E r \in Requests : Interrupted(r)
    /\ ops' = ops + 1
    /\ thread' = [p \in Threads |-> Idle]
    /\ actor' = Free
    /\ embedder' = Resting
    /\ privacy' = [r \in Requests |->
          IF Interrupted(r) THEN [privacy[r] EXCEPT !.status = "partial_failure"]
                            ELSE privacy[r]]
    /\ UNCHANGED <<profile, cand, decision, memory, versions, links, fts, embeddings,
                   blocks, blockVersions, attachments, change, late>>

PrivacyNext ==
    \/ \E r \in Requests : \/ PreviewRequest(r) \/ ConfirmRequest(r)
                           \/ ExecuteRequest(r) \/ RetryRequest(r)
    \/ QuarantineMemory \/ EraseMemory \/ EraseFts \/ EraseEmbeddings
    \/ EraseBlocks \/ QuarantineAttachments \/ EraseAttachments
    \/ AdapterFails \/ CreateReceipt \/ CloseRequest
    \/ CrashAndRecover

CorrectionNext ==
    \/ \E x \in Changes : CreateRequest(x) \/ CancelRequest(x)
    \/ \E p \in Threads :
          \/ \E x \in Changes : ApplyRead(p, x) \/ UndoRead(p, x)
          \/ CreateNewVersion(p) \/ SetStatus(p)
          \/ InvalidateDependencies(p) \/ FinishRequest(p)

Next ==
    \/ StoreNext /\ UNCHANGED <<graphVars, activeVars, govVars>>
    \/ /\ LexicalSearch
       /\ ops < MaxOps /\ ops' = ops + 1
       /\ UNCHANGED <<graphVars, blocks, blockVersions, attachments, thread, govVars>>
    \/ GraphNext /\ UNCHANGED <<activeVars, govVars>>
    \/ \E c \in Candidates :
          \/ EmbedRead(c) /\ UNCHANGED <<graphVars, activeVars, govVars>>
          \/ /\ EmbedWrite(c)
             /\ IF UNCHANGED embeddings THEN UNCHANGED late
                ELSE Writes({embedder.text}, {})
             /\ UNCHANGED <<graphVars, activeVars, change, privacy, actor>>
    \/ \E p \in Threads :
          \/ ActiveNext(p) /\ UNCHANGED <<storeVars, graphVars, govVars>>
          \/ /\ ThreadWrites(p)
             /\ IF UNCHANGED <<blocks, blockVersions, attachments>> THEN UNCHANGED late
                ELSE Writes(thread[p].version.value \cup {s[3] : s \in thread[p].snap},
                            Revived(p))
             /\ UNCHANGED <<storeVars, graphVars, change, privacy, actor>>
    \/ CorrectionNext /\ UNCHANGED graphVars
    \/ PrivacyNext /\ UNCHANGED graphVars

Spec == Init /\ [][Next]_vars

-----------------------------------------------------------------------------
(* A memory has one open version, the current one, whoever corrects,       *)
(* undoes or consolidates at the same time: each reads the current number  *)
(* before it writes the next, and only the unique index on (memory,        *)
(* version number) keeps two of them apart.                                *)
OneOpenVersion ==
    \A m \in Memories :
        {n \in DOMAIN versions[m] : versions[m][n].open} = {memory[m].current} \ {0}

(* Corrections, undos and consolidation add versions and never rewrite     *)
(* one; only an erasure replaces a text (docs/MEMORY_MACHINE.md).          *)
HistoryOnlyGrows ==
    [][\A m \in Memories :
          /\ Len(versions'[m]) >= Len(versions[m])
          /\ memory'[m].current >= memory[m].current
          /\ \A n \in DOMAIN versions[m] :
                versions'[m][n].text \in {versions[m][n].text, Erased}]_vars

(* Every copy of a text that the store and its derived data hold.          *)
VersionTexts == UNION {{versions[m][n].text : n \in DOMAIN versions[m]} : m \in Memories}
BlockTexts(b) ==
    blocks[b].value \cup UNION {blockVersions[b][n].value : n \in DOMAIN blockVersions[b]}
AttachmentTexts == UNION {attachments[a].text : a \in Attachments}
EvidenceTexts == {cand[c].text : c \in {d \in Candidates : \E l \in links : l[3] = d}}

Residue ==
    VersionTexts \cup {row[2] : row \in fts} \cup {e[3] : e \in embeddings}
      \cup (UNION {BlockTexts(b) : b \in Blocks}) \cup AttachmentTexts \cup EvidenceTexts

(* A receipt without exceptions means that no copy is left of a text the   *)
(* request listed, through crashes, retries and rebuilds of the derived    *)
(* data, unless a build, compaction, rollback, preparation or embedding    *)
(* wrote such a text after the preview, whenever it had read it, or        *)
(* published it into a block from a version that an earlier erasure had    *)
(* cleared.  The preview lists records once, so what such a write adds is  *)
(* not among them.                                                         *)
CleanReceiptLeavesNoResidue ==
    \A r \in Requests :
        privacy[r].receipt = "clean" /\ late[r] = {} => privacy[r].texts \cap Residue = {}

(* What docs/reference/forget-residue.md says of an erasure, for the values *)
(* of the blocks: it redacts them, so a clean receipt means that no block   *)
(* holds a listed text.  A late write after the preview is excepted here    *)
(* too; what was published before the preview is not.                       *)
ErasureReachesEveryBlock ==
    \A r \in Requests :
        privacy[r].receipt = "clean" /\ "listed" \notin late[r] =>
            \A b \in Blocks : privacy[r].texts \cap blocks[b].value = {}

(* A graph rebuild that reports success, and that no other rebuild         *)
(* overlapped, leaves exactly the rows it read in the graph: nothing of an *)
(* earlier failed rebuild, and none missing.                               *)
RebuiltGraphIsExact ==
    \A g \in Rebuilders :
        rebuild[g].pc = "ok" /\ rebuild[g].alone => graph = rebuild[g].rows
=============================================================================
