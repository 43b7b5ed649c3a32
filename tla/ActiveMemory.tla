---------------------------- MODULE ActiveMemory ----------------------------
(***************************************************************************)
(* The active memory blocks of the lite profile and the context            *)
(* attachments, both copies of the text of memories.  They are written by  *)
(* request threads, each with its own SQLite connection: a thread reads a  *)
(* snapshot of the canonical sources and writes in later transactions.     *)
(***************************************************************************)
EXTENDS MemoryStore

CONSTANTS Blocks, Attachments, Threads, None

VARIABLES
    blocks,        \* the row of memory_blocks
    blockVersions, \* the rows of memory_block_versions, by version number
    attachments,   \* the row of memory_context_attachments
    thread,        \* what a request thread is doing
    ops            \* requests and crashes so far

activeVars == <<blocks, blockVersions, attachments, thread, ops>>

CONSTANT MaxOps    \* bound: requests and crashes

(* A version of a block: the texts in its value, the memories it was made  *)
(* of and the hash of the snapshot.                                        *)
BlockVersion(snap) ==
    [value |-> {s[3] : s \in snap}, sources |-> {s[1] : s \in snap}, snap |-> snap]

(* A thread: what it read (the lock or a version number n, a text, the     *)
(* snapshot) and what it is about to write (version, as number v).         *)
Idle == [pc |-> "idle", obj |-> None, n |-> 0, v |-> 0, text |-> Erased,
         snap |-> {}, version |-> BlockVersion({})]

ActiveTypeOK ==
    /\ \A b \in Blocks :
          /\ blocks[b].status \in {"active", "redacted"}
          /\ blocks[b].build \in {"stale", "current"}
          /\ blocks[b].lock \in Nat
          /\ blocks[b].current \in 0 .. Len(blockVersions[b])
          /\ blocks[b].value \subseteq Origins \cup {Erased}
    /\ \A a \in Attachments :
          attachments[a].status \in {"none", "active", "stale", "redacted"}
    /\ ops \in 0 .. MaxOps

ActiveInit ==
    /\ blocks = [b \in Blocks |->
          [status |-> "active", build |-> "stale", lock |-> 0, current |-> 0,
           value |-> {}, snap |-> {}]]
    /\ blockVersions = [b \in Blocks |-> << >>]
    /\ attachments = [a \in Attachments |->
          [status |-> "none", text |-> {}, sources |-> {}]]
    /\ thread = [p \in Threads |-> Idle]
    /\ ops = 0

(* A request arrives at an idle thread.                                    *)
Begin(p) ==
    /\ profile = "lite"
    /\ thread[p].pc = "idle" /\ ops < MaxOps
    /\ ops' = ops + 1

Becomes(p, t) == thread' = [thread EXCEPT ![p] = t]
Ends(p) == Becomes(p, Idle)

(* select_canonical_sources: the current versions of the active memories,  *)
(* as <<memory, version number, text>>.                                    *)
CanonicalSources ==
    {<<m, memory[m].current, Current(m).text>> : m \in
        {k \in Memories : memory[k].status = "active"}}

-----------------------------------------------------------------------------
(* ActiveMemoryMaterializer.build                                          *)

BuildStart(p, b) ==
    /\ Begin(p)
    /\ Becomes(p, [Idle EXCEPT !.pc = "build", !.obj = b, !.n = blocks[b].lock,
                               !.snap = CanonicalSources])
    /\ UNCHANGED <<blocks, blockVersions, attachments>>

(* rebuild_stale_blocks builds the active blocks whose snapshot changed.   *)
RebuildStale(p, b) ==
    /\ blocks[b].status = "active"
    /\ blocks[b].snap # CanonicalSources
    /\ BuildStart(p, b)

(* After the build run is recorded: the lock and the sources again.        *)
BuildCheck(p) ==
    /\ thread[p].pc = "build"
    /\ IF /\ blocks[thread[p].obj].lock = thread[p].n
          /\ CanonicalSources = thread[p].snap
       THEN Becomes(p, [thread[p] EXCEPT !.pc = "checked"])
       ELSE Ends(p)
    /\ UNCHANGED <<blocks, blockVersions, attachments, ops>>

(* create_version                                                          *)
BuildVersion(p) ==
    LET b == thread[p].obj
    IN  /\ thread[p].pc = "checked"
        /\ blockVersions' = [blockVersions EXCEPT ![b] = Append(@, BlockVersion(thread[p].snap))]
        /\ Becomes(p, [thread[p] EXCEPT !.pc = "built", !.v = Len(blockVersions[b]) + 1,
                                        !.version = BlockVersion(thread[p].snap)])
        /\ UNCHANGED <<blocks, attachments, ops>>

(* The row that publishes version n of a block.                            *)
Published(b, n, version) ==
    [blocks[b] EXCEPT !.build = "current", !.lock = @ + 1, !.current = n,
                      !.value = version.value, !.snap = version.snap]

(* update_current_version: refused when the lock moved on.  The value is   *)
(* the one the thread rendered.                                            *)
BuildPublish(p) ==
    LET b == thread[p].obj
    IN  /\ thread[p].pc = "built"
        /\ IF blocks[b].lock = thread[p].n
           THEN blocks' = [blocks EXCEPT ![b] = Published(b, thread[p].v, thread[p].version)]
           ELSE UNCHANGED blocks
        /\ Ends(p)
        /\ UNCHANGED <<blockVersions, attachments, ops>>

-----------------------------------------------------------------------------
(* BlockCompactor.compact: the sources are read, the provider is called,   *)
(* the validated proposal is published in one transaction.                 *)

CompactStart(p, b) ==
    /\ Begin(p)
    /\ Becomes(p, [Idle EXCEPT !.pc = "compact", !.obj = b, !.n = blocks[b].lock,
                               !.snap = CanonicalSources])
    /\ UNCHANGED <<blocks, blockVersions, attachments>>

(* The proposal keeps every source or leaves some out with a reason; an    *)
(* invalid one leaves the block as it was, or falls back to all sources    *)
(* when there is none.  A changed lock or source refuses the publication.  *)
CompactPublish(p) ==
    LET b == thread[p].obj
    IN  /\ thread[p].pc = "compact"
        /\ \E kept \in SUBSET thread[p].snap, valid \in BOOLEAN :
              /\ ~valid => kept = thread[p].snap
              /\ IF \/ ~valid /\ blocks[b].current # 0
                    \/ blocks[b].lock # thread[p].n
                    \/ CanonicalSources # thread[p].snap
                 THEN UNCHANGED <<blocks, blockVersions>>
                 ELSE LET version == [BlockVersion(kept) EXCEPT !.snap = thread[p].snap]
                      IN  /\ blockVersions' = [blockVersions EXCEPT ![b] = Append(@, version)]
                          /\ blocks' = [blocks EXCEPT
                                ![b] = Published(b, Len(blockVersions[b]) + 1, version)]
        /\ Ends(p)
        /\ UNCHANGED <<attachments, ops>>

-----------------------------------------------------------------------------
(* ActiveMemoryRepository.rollback reads the version, then writes without  *)
(* comparing the lock.                                                     *)

RollbackRead(p, b, n) ==
    /\ Begin(p)
    /\ Becomes(p, [Idle EXCEPT !.pc = "rollback", !.obj = b, !.v = n,
                               !.version = blockVersions[b][n]])
    /\ UNCHANGED <<blocks, blockVersions, attachments>>

RollbackWrite(p) ==
    LET b == thread[p].obj
    IN  /\ thread[p].pc = "rollback"
        /\ blocks' = [blocks EXCEPT ![b] = Published(b, thread[p].v, thread[p].version)]
        /\ Ends(p)
        /\ UNCHANGED <<blockVersions, attachments, ops>>

-----------------------------------------------------------------------------
(* AttachmentBuilder.build: the selected items were read by the retrieval. *)

AttachRead(p, a) ==
    /\ Begin(p)
    /\ attachments[a].status = "none"
    /\ CanonicalSources # {}
    /\ Becomes(p, [Idle EXCEPT !.pc = "attach", !.obj = a,
                               !.version = BlockVersion(CanonicalSources)])
    /\ UNCHANGED <<blocks, blockVersions, attachments>>

AttachWrite(p) ==
    /\ thread[p].pc = "attach"
    /\ attachments' = [attachments EXCEPT ![thread[p].obj] =
          [status |-> "active", text |-> thread[p].version.value,
           sources |-> thread[p].version.sources]]
    /\ Ends(p)
    /\ UNCHANGED <<blocks, blockVersions, ops>>

(* Mutant: only the blocks whose published version was made of it.         *)
BlocksNowWith(m) ==
    {b \in Blocks : /\ blocks[b].current # 0
                    /\ m \in blockVersions[b][blocks[b].current].sources}

(* The blocks a version of which was made of the memory.                   *)
BlocksWith(m) ==
    {b \in Blocks : \E n \in DOMAIN blockVersions[b] : m \in blockVersions[b][n].sources}

ActiveNext(p) ==
    \/ \E b \in Blocks :
          \/ BuildStart(p, b) \/ RebuildStale(p, b) \/ CompactStart(p, b)
          \/ \E n \in DOMAIN blockVersions[b] : RollbackRead(p, b, n)
    \/ \E a \in Attachments : AttachRead(p, a)
    \/ BuildCheck(p)

(* The steps that write a text the thread read earlier.                    *)
ThreadWrites(p) ==
    \/ BuildVersion(p) \/ BuildPublish(p) \/ CompactPublish(p)
    \/ RollbackWrite(p) \/ AttachWrite(p)
=============================================================================
