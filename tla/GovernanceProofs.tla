--------------------------- MODULE GovernanceProofs ---------------------------
(***************************************************************************)
(* Proofs about the memory store under consolidation, corrections and      *)
(* privacy erasure, for any number of memories, candidates, requests,      *)
(* threads and callers of the graph rebuild.                               *)
(***************************************************************************)
EXTENDS Governance, TLAPS

(* The graph rebuild.  While no other rebuild overlaps it, the graph holds  *)
(* what the rebuild has projected so far; a rebuild that overlaps marks it. *)

RebuildRows ==
    /\ rebuild = [g \in Rebuilders |-> rebuild[g]]
    /\ \A g \in Rebuilders :
          /\ DOMAIN rebuild[g] = {"pc", "rows", "todo", "alone"}
          /\ rebuild[g].pc \in {"idle", "read", "project", "ok", "failed"}
          /\ rebuild[g].alone \in BOOLEAN

AloneInGraph ==
    \A g \in Rebuilders : rebuild[g].alone /\ rebuild[g].pc # "idle" =>
        /\ \A h \in Rebuilders \ {g} : rebuild[h].pc \notin {"read", "project"}
        /\ rebuild[g].pc = "read" => graph = {}
        /\ rebuild[g].pc = "project" =>
              /\ rebuild[g].todo \subseteq rebuild[g].rows
              /\ graph = rebuild[g].rows \ rebuild[g].todo
        /\ rebuild[g].pc = "ok" => graph = rebuild[g].rows

GraphInv == RebuildRows /\ AloneInGraph

\* Every rebuild step keeps it: a projection by a rebuild that is not alone may
\* put anything into the graph, and then no other rebuild claims to be alone.
LEMMA GraphStepKeepsGraphInv ==
    ASSUME GraphInv, NEW g \in Rebuilders,
           \/ RebuildDelete(g) \/ RebuildRead(g) \/ ProjectMemory(g)
           \/ RebuildCommit(g) \/ RebuildFail(g) \/ RebuildAgain(g)
    PROVE  GraphInv'
<1> USE DEF GraphInv, RebuildRows, AloneInGraph
<1>1. CASE RebuildDelete(g)
  BY <1>1 DEF RebuildDelete
<1>2. CASE RebuildRead(g)
  BY <1>2 DEF RebuildRead
<1>3. CASE ProjectMemory(g)
  <2>1. PICK row \in rebuild[g].todo :
          /\ graph' = graph \cup {row}
          /\ rebuild' = [rebuild EXCEPT ![g].todo = @ \ {row}]
    BY <1>3 DEF ProjectMemory
  <2>2. /\ rebuild[g].pc = "project" /\ rebuild'[g].pc = "project"
        /\ rebuild'[g].alone = rebuild[g].alone /\ rebuild'[g].rows = rebuild[g].rows
        /\ rebuild'[g].todo = rebuild[g].todo \ {row}
        /\ \A h \in Rebuilders \ {g} : rebuild'[h] = rebuild[h]
    BY <1>3, <2>1 DEF ProjectMemory
  <2>3. RebuildRows'
    BY <2>1, <2>2
  <2>4. ASSUME NEW h \in Rebuilders, h # g, rebuild'[h].alone, rebuild'[h].pc # "idle" PROVE FALSE
    BY <2>2, <2>4
  <2>5. rebuild[g].alone => graph' = rebuild'[g].rows \ rebuild'[g].todo
    BY <2>1, <2>2
  <2> QED
    BY <2>2, <2>3, <2>4, <2>5
<1>4. CASE RebuildCommit(g)
  BY <1>4 DEF RebuildCommit
<1>5. CASE RebuildFail(g)
  BY <1>5 DEF RebuildFail
<1>6. CASE RebuildAgain(g)
  BY <1>6 DEF RebuildAgain, Called
<1> QED
  BY <1>1, <1>2, <1>3, <1>4, <1>5, <1>6

\* No step outside the rebuild touches the graph.
LEMMA OtherStepsKeepTheGraph == [Next]_vars => GraphNext \/ UNCHANGED graphVars
  BY DEF Next, vars

\* A graph rebuild that reports success and was not overlapped leaves exactly
\* the rows it read.
THEOREM RebuiltGraphsAreExact == Spec => []RebuiltGraphIsExact
<1>1. Init => GraphInv
  <2> SUFFICES ASSUME Init PROVE GraphInv
    OBVIOUS
  <2>1. rebuild = [g \in Rebuilders |-> Called]
    BY DEF Init, StoreInit
  <2>2. RebuildRows
    BY <2>1 DEF RebuildRows, Called
  <2>3. AloneInGraph
    BY <2>1 DEF AloneInGraph, Called
  <2> QED
    BY <2>2, <2>3 DEF GraphInv
<1>2. GraphInv /\ [Next]_vars => GraphInv'
  <2> SUFFICES ASSUME GraphInv, [Next]_vars PROVE GraphInv'
    OBVIOUS
  <2>1. CASE GraphNext
    BY <2>1, GraphStepKeepsGraphInv DEF GraphNext
  <2>2. CASE UNCHANGED graphVars
    BY <2>2 DEF graphVars, GraphInv, RebuildRows, AloneInGraph
  <2> QED
    BY <2>1, <2>2, OtherStepsKeepTheGraph
<1>3. GraphInv => RebuiltGraphIsExact
  BY DEF GraphInv, AloneInGraph, RebuiltGraphIsExact
<1> QED
  BY <1>1, <1>2, <1>3, PTL DEF Spec
-----------------------------------------------------------------------------
(* The versions of a memory.  The current number is the number of versions  *)
(* and only the last one is open.  A thread that is about to write a        *)
(* version read a number no higher than that, so the unique index lets it   *)
(* write only if nobody wrote in between.                                   *)

Texts == Origins \cup {Erased}
CandidateRow == [status : {"ready", "needs_review", "rejected", "redacted"},
                 stage : {"new", "staged", "stored", "done"}, text : Texts]
MemoryRow == [status : {"none", "active", "needs_review", "retracted", "forgotten"},
              current : Nat]
VersionRow == [text : Texts, polarity : Polarities, open : BOOLEAN]
ChangeRow == [status : {"none", "pending", "applied", "cancelled"},
              op : Operations \cup {"none"}]
ActorRow == [r : Requests \cup {None}, step : Nat, failed : BOOLEAN]

RowTypes ==
    /\ cand \in [Candidates -> CandidateRow]
    /\ memory \in [Memories -> MemoryRow]
    /\ versions \in [Memories -> Seq(VersionRow)]
    /\ change \in [Changes -> ChangeRow]
    /\ actor \in ActorRow

Chained(m) ==
    /\ memory[m].current = Len(versions[m])
    /\ \A n \in DOMAIN versions[m] : versions[m][n].open <=> n = Len(versions[m])

(* What a thread has read of a memory is still there.                       *)
Correcting == {"version", "status", "invalidate", "finish"}

Read(p) ==
    /\ {"pc", "obj"} \subseteq DOMAIN thread[p]
    /\ thread[p].pc \in Correcting =>
          thread[p].obj \in Changes /\ Known(TargetOf[thread[p].obj])
    /\ thread[p].pc = "version" =>
          /\ thread[p].text \in Texts
          /\ thread[p].n \in 0 .. Len(versions[TargetOf[thread[p].obj]])

ThreadsRead ==
    /\ thread = [p \in Threads |-> thread[p]]
    /\ \A p \in Threads : Read(p)

(* A memory that a change was requested for exists.                         *)
ChangesKnown == \A x \in Changes : change[x].status # "none" => Known(TargetOf[x])

MemoriesChained == \A m \in Memories : Chained(m)

VersionInv == RowTypes /\ MemoriesChained /\ ThreadsRead /\ ChangesKnown

(* What HistoryOnlyGrows says of one memory.                                *)
HistoryKept(m) ==
    /\ Len(versions'[m]) >= Len(versions[m])
    /\ memory'[m].current >= memory[m].current
    /\ \A n \in DOMAIN versions[m] : versions'[m][n].text \in {versions[m][n].text, Erased}

\* A function on 1 .. k is a sequence of length k.
LEMMA FunctionIsSeq ==
    ASSUME NEW k \in Nat, NEW S, NEW f, f = [n \in 1 .. k |-> f[n]],
           \A n \in 1 .. k : f[n] \in S
    PROVE  f \in Seq(S) /\ Len(f) = k
<1>1. f \in [1 .. k -> S]
  OBVIOUS
<1> QED
  BY <1>1

\* The appended version is open, the one before it closed, and no text is
\* touched.
LEMMA WithVersionAppends ==
    ASSUME RowTypes, NEW m \in Memories, Chained(m), NEW text \in Texts,
           NEW polarity \in Polarities, NEW close \in BOOLEAN,
           close \/ versions[m] = << >>
    PROVE  LET vs == WithVersion(m, text, polarity, close)
           IN  /\ vs \in Seq(VersionRow) /\ Len(vs) = Len(versions[m]) + 1
               /\ \A n \in DOMAIN vs : vs[n].open <=> n = Len(vs)
               /\ \A n \in DOMAIN versions[m] : vs[n].text = versions[m][n].text
<1> DEFINE old == IF close THEN [versions[m] EXCEPT ![memory[m].current].open = FALSE]
                           ELSE versions[m]
           row == [text |-> text, polarity |-> polarity, open |-> TRUE]
<1>1. versions[m] \in Seq(VersionRow)
  BY DEF RowTypes
<1>2. row \in VersionRow
  BY DEF VersionRow
<1>3. /\ old \in Seq(VersionRow) /\ Len(old) = Len(versions[m])
      /\ \A n \in DOMAIN versions[m] : ~old[n].open /\ old[n].text = versions[m][n].text
  <2>1. CASE close
    <3>1. Len(versions[m]) \in Nat /\ DOMAIN versions[m] = 1 .. Len(versions[m])
      BY <1>1
    <3>2. \A n \in DOMAIN versions[m] :
            /\ versions[m][n] \in VersionRow
            /\ old[n] = IF n = Len(versions[m]) THEN [versions[m][n] EXCEPT !.open = FALSE]
                                                ELSE versions[m][n]
      <4>1. old = [versions[m] EXCEPT ![Len(versions[m])].open = FALSE]
        BY <2>1 DEF Chained
      <4>2. \A n \in DOMAIN versions[m] : versions[m][n] \in VersionRow
        BY <1>1
      <4> HIDE DEF old
      <4> QED
        BY <3>1, <4>1, <4>2
    <3>3. \A n \in DOMAIN versions[m] :
            old[n] \in VersionRow /\ ~old[n].open /\ old[n].text = versions[m][n].text
      BY <3>1, <3>2 DEF VersionRow, Chained
    <3>4. DOMAIN old = 1 .. Len(versions[m]) /\ old = [n \in 1 .. Len(versions[m]) |-> old[n]]
      BY <1>1, <2>1, <3>1
    <3>5. old \in Seq(VersionRow) /\ Len(old) = Len(versions[m])
      <4> DEFINE k == Len(versions[m])
      <4>1. k \in Nat /\ old = [n \in 1 .. k |-> old[n]] /\ \A n \in 1 .. k : old[n] \in VersionRow
        BY <3>1, <3>3, <3>4
      <4> HIDE DEF old, k
      <4>2. old \in Seq(VersionRow) /\ Len(old) = k
        BY <4>1, FunctionIsSeq
      <4> QED
        BY <4>2 DEF k
    <3> QED
      BY <3>3, <3>5
  <2>2. CASE versions[m] = << >> /\ ~close
    BY <1>1, <2>2
  <2> QED
    BY <2>1, <2>2
<1>4. WithVersion(m, text, polarity, close) = Append(old, row)
  BY DEF WithVersion
<1>5. /\ Append(old, row) \in Seq(VersionRow) /\ Len(Append(old, row)) = Len(versions[m]) + 1
      /\ Append(old, row)[Len(versions[m]) + 1] = row
      /\ \A n \in DOMAIN versions[m] : Append(old, row)[n] = old[n]
      /\ DOMAIN versions[m] = 1 .. Len(versions[m]) /\ Len(versions[m]) \in Nat
      /\ DOMAIN Append(old, row) = 1 .. Len(versions[m]) + 1
  BY <1>1, <1>2, <1>3
<1>6. row.open
  OBVIOUS
<1> HIDE DEF old, row
<1> QED
  BY <1>3, <1>4, <1>5, <1>6

HistoriesKept == \A m \in Memories : HistoryKept(m)
StatusesOnly == UNCHANGED versions /\ \A m \in Memories : memory'[m].current = memory[m].current

\* A step that adds no version keeps the chains.
LEMMA StatusesKeepChains ==
    ASSUME RowTypes, MemoriesChained, StatusesOnly
    PROVE  MemoriesChained' /\ HistoriesKept
<1>1. ASSUME NEW m \in Memories PROVE Chained(m)' /\ HistoryKept(m)
  <2>1. versions[m] \in Seq(VersionRow) /\ memory[m].current \in Nat
    BY DEF RowTypes, MemoryRow
  <2> QED
    BY <2>1 DEF Chained, HistoryKept, MemoriesChained, StatusesOnly
<1> QED
  BY <1>1 DEF MemoriesChained, HistoriesKept

\* A memory once known stays known.
LEMMA KnownStaysKnown ==
    ASSUME RowTypes, RowTypes', HistoriesKept, NEW m \in Memories, Known(m)
    PROVE  Known(m)'
<1>1. memory[m].current \in Nat /\ memory'[m].current \in Nat
  BY DEF RowTypes, MemoryRow
<1> QED
  BY <1>1 DEF HistoriesKept, HistoryKept, Known

\* Versions that only grow leave what a thread has read.
LEMMA GrowthKeepsRead ==
    ASSUME RowTypes, RowTypes', HistoriesKept, NEW p \in Threads, Read(p), thread'[p] = thread[p]
    PROVE  Read(p)'
<1>1. ASSUME thread[p].pc \in Correcting
      PROVE  thread[p].obj \in Changes /\ TargetOf[thread[p].obj] \in Memories
  BY <1>1, GovernanceAssumption DEF Read
<1>2. ASSUME thread[p].pc \in Correcting
      PROVE  Known(TargetOf[thread[p].obj])'
  <2> DEFINE m == TargetOf[thread[p].obj]
  <2>1. memory[m].current # 0 => memory'[m].current # 0
    BY <1>1, <1>2, KnownStaysKnown DEF Known
  <2> QED
    BY <1>2, <2>1 DEF Read, Known
<1>3. ASSUME thread[p].pc = "version"
      PROVE  thread[p].n \in 0 .. Len(versions'[TargetOf[thread[p].obj]])
  BY <1>1, <1>3 DEF Read, HistoriesKept, HistoryKept, RowTypes, Correcting
<1> QED
  BY <1>1, <1>2, <1>3 DEF Read

\* One thread goes on to t, all the others stay.
LEMMA ThreadMoves ==
    ASSUME RowTypes, RowTypes', HistoriesKept, ThreadsRead, NEW p \in Threads, NEW t,
           Becomes(p, t), {"pc", "obj"} \subseteq DOMAIN t,
           t.pc \in Correcting => t.obj \in Changes /\ memory'[TargetOf[t.obj]].current # 0,
           t.pc = "version" => /\ t.text \in Texts
                               /\ t.n \in 0 .. Len(versions'[TargetOf[t.obj]])
    PROVE  ThreadsRead'
<1>1. thread'[p] = t /\ \A q \in Threads \ {p} : thread'[q] = thread[q]
  BY DEF ThreadsRead, Becomes
<1>2. thread' = [q \in Threads |-> thread'[q]]
  BY DEF ThreadsRead, Becomes
<1>3. ASSUME NEW q \in Threads PROVE Read(q)'
  <2>1. CASE q = p
    BY <1>1, <2>1 DEF Read, Known
  <2>2. CASE q # p
    BY <1>1, <2>2, GrowthKeepsRead DEF ThreadsRead
  <2> QED
    BY <2>1, <2>2
<1> QED
  BY <1>2, <1>3 DEF ThreadsRead

\* No thread moves.
LEMMA ThreadsStay ==
    ASSUME RowTypes, RowTypes', HistoriesKept, ThreadsRead, UNCHANGED thread
    PROVE  ThreadsRead'
  BY GrowthKeepsRead DEF ThreadsRead

\* The memories that changes were requested for stay known.
LEMMA ChangesStayKnown ==
    ASSUME RowTypes, RowTypes', HistoriesKept, ChangesKnown, UNCHANGED change
    PROVE  ChangesKnown'
<1>1. \A x \in Changes : TargetOf[x] \in Memories
  BY GovernanceAssumption
<1> QED
  BY <1>1, KnownStaysKnown DEF ChangesKnown

\* The memory m gets a next version, and no other memory changes.
VersionAdded(m, text, polarity, close) ==
    /\ versions' = [versions EXCEPT ![m] = WithVersion(m, text, polarity, close)]
    /\ memory'[m].current = memory[m].current + 1
    /\ \A k \in Memories \ {m} : memory'[k] = memory[k]

\* An added version keeps the chains.
LEMMA AddedKeepsChains ==
    ASSUME RowTypes, MemoriesChained, NEW m \in Memories, NEW text \in Texts,
           NEW polarity \in Polarities, NEW close \in BOOLEAN, close \/ ~Known(m),
           VersionAdded(m, text, polarity, close)
    PROVE  MemoriesChained' /\ HistoriesKept /\ versions' \in [Memories -> Seq(VersionRow)]
<1> DEFINE vs == WithVersion(m, text, polarity, close)
<1>1. Chained(m) /\ versions[m] \in Seq(VersionRow) /\ Len(versions[m]) \in Nat
  BY DEF MemoriesChained, RowTypes
<1>2. close \/ versions[m] = << >>
  BY <1>1 DEF Known, Chained
<1>3. /\ vs \in Seq(VersionRow) /\ Len(vs) = Len(versions[m]) + 1
      /\ \A n \in DOMAIN vs : vs[n].open <=> n = Len(vs)
      /\ \A n \in DOMAIN versions[m] : vs[n].text = versions[m][n].text
  BY <1>1, <1>2, WithVersionAppends
<1> HIDE DEF vs
<1>4. versions'[m] = vs /\ \A k \in Memories \ {m} : versions'[k] = versions[k]
  BY DEF VersionAdded, RowTypes, vs
<1>5. ASSUME NEW k \in Memories PROVE Chained(k)' /\ HistoryKept(k)
  <2>1. CASE k = m
    BY <1>1, <1>3, <1>4, <2>1 DEF Chained, HistoryKept, VersionAdded
  <2>2. CASE k # m
    <3>1. Chained(k) /\ versions[k] \in Seq(VersionRow) /\ memory[k].current \in Nat
      BY DEF MemoriesChained, RowTypes, MemoryRow
    <3> QED
      BY <1>4, <2>2, <3>1 DEF Chained, HistoryKept, VersionAdded
  <2> QED
    BY <2>1, <2>2
<1>6. versions' \in [Memories -> Seq(VersionRow)]
  BY <1>3 DEF VersionAdded, RowTypes, vs
<1> QED
  BY <1>5, <1>6 DEF MemoriesChained, HistoriesKept
-----------------------------------------------------------------------------
\* Consolidation in either profile: a version is added to the memory that the
\* candidate belongs to, or no version at all.
LEMMA StoreVersionKeepsChains ==
    ASSUME RowTypes, MemoriesChained, NEW c \in Candidates, NEW m \in Memories,
           NEW close \in BOOLEAN, close \/ ~Known(m), StoreVersion(c, m, close)
    PROVE  /\ MemoriesChained' /\ HistoriesKept
           /\ memory' \in [Memories -> MemoryRow] /\ versions' \in [Memories -> Seq(VersionRow)]
<1>1. cand[c].text \in Texts /\ PolarityOf[c] \in Polarities
  BY StoreAssumption DEF RowTypes, CandidateRow
<1>2. memory' \in [Memories -> MemoryRow]
  BY DEF StoreVersion, RowTypes, MemoryRow
<1>3. VersionAdded(m, cand[c].text, PolarityOf[c], close)
  BY DEF StoreVersion, VersionAdded, RowTypes, MemoryRow
<1> QED
  BY <1>1, <1>2, <1>3, AddedKeepsChains

\* A step that touches neither threads nor changes only has to keep types and
\* chains.
LEMMA ChainsAreEnough ==
    ASSUME VersionInv, RowTypes', MemoriesChained', HistoriesKept, UNCHANGED <<thread, change>>
    PROVE  VersionInv'
  BY ThreadsStay, ChangesStayKnown DEF VersionInv

\* The memory worker's steps keep the invariant and the history.
LEMMA StoreStepKeepsVersionInv ==
    ASSUME VersionInv, NEW c \in Candidates, UNCHANGED <<thread, change, actor>>,
           \/ CandidateStages(c) \/ Consolidate(c) \/ RecordMemory(c)
           \/ EmbedRead(c) \/ EmbedWrite(c) \/ LexicalSearch
    PROVE  VersionInv' /\ HistoriesKept
<1> USE DEF VersionInv
<1>0. cand[c] \in CandidateRow
  BY DEF RowTypes
<1>1. CASE CandidateStages(c)
  <2>1. PICK answer \in AnswersOf[c] :
          LET status == ApplyPrivacyResult(cand[c].status, answer[1])
          IN  cand' = [cand EXCEPT
                         ![c].stage = "staged",
                         ![c].status = IF c \in HighPass
                                       THEN ApplyHighConfidenceResult(status, answer[2])
                                       ELSE status]
    BY <1>1 DEF CandidateStages
  <2> DEFINE status == ApplyPrivacyResult(cand[c].status, answer[1])
             final == IF c \in HighPass THEN ApplyHighConfidenceResult(status, answer[2])
                      ELSE status
             Statuses == {"ready", "needs_review", "rejected", "redacted"}
  <2>2. status \in Statuses
    BY <1>0 DEF ApplyPrivacyResult, CandidateRow
  <2>3. final \in Statuses
    BY <2>2 DEF ApplyHighConfidenceResult
  <2>4. cand' = [cand EXCEPT ![c].stage = "staged", ![c].status = final]
    BY <2>1
  <2> HIDE DEF final
  <2>5. cand' \in [Candidates -> CandidateRow]
    BY <1>0, <2>3, <2>4 DEF RowTypes, CandidateRow
  <2>6. RowTypes' /\ StatusesOnly
    BY <1>1, <2>5 DEF CandidateStages, RowTypes, StatusesOnly
  <2> QED
    BY <2>6, StatusesKeepChains, ChainsAreEnough
<1>2. CASE Consolidate(c)
  <2> DEFINE m == KeyOf[c]
             operation == Resolve(c, m)
  <2>1. m \in Memories
    BY StoreAssumption
  <2>2. cand' \in [Candidates -> CandidateRow]
    BY <1>0, <1>2 DEF Consolidate, RowTypes, CandidateRow
  <2>3. CASE operation \in {"add", "supersede"}
    <3>1. StoreVersion(c, m, operation = "supersede") /\ (operation = "supersede") \in BOOLEAN
      BY <1>2, <2>3 DEF Consolidate
    <3>2. operation = "supersede" \/ ~Known(m)
      BY <2>3 DEF Resolve
    <3> HIDE DEF operation, m
    <3>3. /\ MemoriesChained' /\ HistoriesKept
          /\ memory' \in [Memories -> MemoryRow] /\ versions' \in [Memories -> Seq(VersionRow)]
      BY <2>1, <3>1, <3>2, StoreVersionKeepsChains
    <3> QED
      BY <2>2, <3>3, ChainsAreEnough DEF RowTypes
  <2>4. CASE operation \notin {"add", "supersede"}
    <3>1. UNCHANGED <<memory, versions>>
      BY <1>2, <2>4 DEF Consolidate, Reinforce
    <3>2. RowTypes' /\ StatusesOnly
      BY <2>2, <3>1 DEF RowTypes, StatusesOnly
    <3> QED
      BY <3>2, StatusesKeepChains, ChainsAreEnough
  <2> QED
    BY <2>3, <2>4
<1>3. CASE RecordMemory(c)
  <2>1. OwnKey[c] \in Memories
    BY StoreAssumption
  <2>2. cand' \in [Candidates -> CandidateRow]
    <3>1. PICK g \in {"stored", "done"} : cand' = [cand EXCEPT ![c].stage = g]
      BY <1>3 DEF RecordMemory
    <3> QED
      BY <1>0, <3>1 DEF RowTypes, CandidateRow
  <2>3. CASE cand[c].status = "ready" /\ ~Known(OwnKey[c])
    <3>1. /\ MemoriesChained' /\ HistoriesKept
          /\ memory' \in [Memories -> MemoryRow] /\ versions' \in [Memories -> Seq(VersionRow)]
      BY <1>3, <2>1, <2>3, StoreVersionKeepsChains DEF RecordMemory
    <3> QED
      BY <2>2, <3>1, ChainsAreEnough DEF RowTypes
  <2>4. CASE ~(cand[c].status = "ready" /\ ~Known(OwnKey[c]))
    <3>1. RowTypes' /\ StatusesOnly
      BY <1>3, <2>2, <2>4 DEF RecordMemory, RowTypes, StatusesOnly
    <3> QED
      BY <3>1, StatusesKeepChains, ChainsAreEnough
  <2> QED
    BY <2>3, <2>4
<1>4. CASE EmbedRead(c) \/ EmbedWrite(c) \/ LexicalSearch
  <2>1. RowTypes' /\ StatusesOnly
    BY <1>0, <1>4
       DEF EmbedRead, EmbedWrite, LexicalSearch, RowTypes, CandidateRow, StatusesOnly
  <2> QED
    BY <2>1, StatusesKeepChains, ChainsAreEnough
<1> QED
  BY <1>1, <1>2, <1>3, <1>4

\* A thread goes on to a place where it relies on no version number.
MovesOn(p) ==
    /\ thread' = [thread EXCEPT ![p] = thread'[p]]
    /\ {"pc", "obj"} \subseteq DOMAIN thread'[p]
    /\ thread'[p].pc \notin Correcting

\* Such a step keeps the invariant.
LEMMA ThreadStepKeepsVersionInv ==
    ASSUME VersionInv, NEW p \in Threads, MovesOn(p), RowTypes', StatusesOnly, UNCHANGED change
    PROVE  VersionInv' /\ HistoriesKept
<1>1. MemoriesChained' /\ HistoriesKept
  BY StatusesKeepChains DEF VersionInv
<1>2. ASSUME NEW q \in Threads PROVE Read(q)'
  <2>1. CASE q = p
    BY <2>1 DEF MovesOn, Read, Correcting
  <2>2. CASE q # p
    <3>1. thread'[q] = thread[q]
      BY <2>2 DEF MovesOn, VersionInv, ThreadsRead
    <3> QED
      BY <1>1, <3>1, GrowthKeepsRead DEF VersionInv, ThreadsRead
  <2> QED
    BY <2>1, <2>2
<1>3. thread' = [q \in Threads |-> thread'[q]]
  BY DEF MovesOn, VersionInv, ThreadsRead
<1> QED
  BY <1>1, <1>2, <1>3, ChangesStayKnown DEF VersionInv, ThreadsRead

\* The steps of the block builds, rollbacks and attachments.
LEMMA ActiveStepKeepsVersionInv ==
    ASSUME VersionInv, NEW p \in Threads, ActiveNext(p) \/ ThreadWrites(p),
           UNCHANGED <<cand, memory, versions, change, actor>>
    PROVE  VersionInv' /\ HistoriesKept
<1>1. RowTypes' /\ StatusesOnly
  BY DEF VersionInv, RowTypes, StatusesOnly
<1>2. {"pc", "obj"} \subseteq DOMAIN thread[p] /\ thread = [q \in Threads |-> thread[q]]
  BY DEF VersionInv, ThreadsRead, Read
<1>3. MovesOn(p)
  <2> USE <1>2 DEF MovesOn, Becomes, Correcting
  <2>1. CASE Ends(p)
    BY <2>1 DEF Ends, Idle
  <2>2. ASSUME NEW b \in Blocks, BuildStart(p, b) \/ RebuildStale(p, b) \/ CompactStart(p, b)
        PROVE  MovesOn(p)
    <3>1. CASE BuildStart(p, b)
      BY <3>1 DEF BuildStart, Idle
    <3>2. CASE CompactStart(p, b)
      BY <3>2 DEF CompactStart, Idle
    <3> QED
      BY <2>2, <3>1, <3>2 DEF RebuildStale
  <2>3. ASSUME NEW b \in Blocks, NEW n \in DOMAIN blockVersions[b], RollbackRead(p, b, n)
        PROVE  MovesOn(p)
    BY <2>3 DEF RollbackRead, Idle
  <2>4. ASSUME NEW a \in Attachments, AttachRead(p, a)
        PROVE  MovesOn(p)
    BY <2>4 DEF AttachRead, Idle
  <2>5. CASE BuildCheck(p)
    BY <2>1, <2>5 DEF BuildCheck
  <2>6. CASE BuildVersion(p)
    BY <2>6 DEF BuildVersion
  <2>7. CASE BuildPublish(p) \/ CompactPublish(p) \/ RollbackWrite(p) \/ AttachWrite(p)
    BY <2>1, <2>7 DEF BuildPublish, CompactPublish, RollbackWrite, AttachWrite
  <2> QED
    BY <2>2, <2>3, <2>4, <2>5, <2>6, <2>7 DEF ActiveNext, ThreadWrites
<1> QED
  BY <1>1, <1>3, ThreadStepKeepsVersionInv

\* A change request's row moves on with its memory known.
LEMMA ChangeStepKeepsVersionInv ==
    ASSUME VersionInv, NEW x \in Changes, CreateRequest(x) \/ CancelRequest(x)
    PROVE  VersionInv' /\ HistoriesKept
<1> USE DEF VersionInv
<1>1. UNCHANGED <<cand, memory, versions, actor, thread>>
  BY DEF CreateRequest, CancelRequest, storeVars, activeVars
<1>2. change' \in [Changes -> ChangeRow]
  <2>1. CASE CreateRequest(x)
    <3>1. PICK op \in OperationsOf[x] : change' = [change EXCEPT ![x] = [status |-> "pending", op |-> op]]
      BY <2>1 DEF CreateRequest, NewChange
    <3>2. op \in Operations
      BY <3>1, GovernanceAssumption
    <3> QED
      BY <3>1, <3>2 DEF RowTypes, ChangeRow
  <2>2. CASE CancelRequest(x)
    BY <2>2 DEF CancelRequest, SetChange, RowTypes, ChangeRow
  <2> QED
    BY <2>1, <2>2
<1>3. RowTypes' /\ StatusesOnly
  BY <1>1, <1>2 DEF RowTypes, StatusesOnly
<1>4. MemoriesChained' /\ HistoriesKept /\ ThreadsRead'
  BY <1>1, <1>3, StatusesKeepChains, ThreadsStay
<1>5. ChangesKnown'
  BY <1>1 DEF CreateRequest, CancelRequest, NewChange, SetChange, ChangesKnown, Known, RowTypes,
              ChangeRow
<1> QED
  BY <1>3, <1>4, <1>5

\* A correction or an undo reads the current version and its number.
LEMMA ReadStepKeepsVersionInv ==
    ASSUME VersionInv, NEW p \in Threads, NEW x \in Changes, ApplyRead(p, x) \/ UndoRead(p, x)
    PROVE  VersionInv' /\ HistoriesKept
<1> USE DEF VersionInv
<1> DEFINE m == TargetOf[x]
<1>1. UNCHANGED <<cand, memory, versions, actor, change>>
  BY DEF ApplyRead, UndoRead, storeVars, govVars
<1>2. RowTypes' /\ StatusesOnly
  BY <1>1 DEF RowTypes, StatusesOnly
<1>3. MemoriesChained' /\ HistoriesKept /\ ChangesKnown'
  BY <1>1, <1>2, StatusesKeepChains, ChangesStayKnown
<1>4. /\ m \in Memories /\ memory[m].current = Len(versions[m])
      /\ versions[m] \in Seq(VersionRow) /\ Len(versions[m]) \in Nat
  BY GovernanceAssumption DEF MemoriesChained, Chained, RowTypes
<1>5. \A n \in 1 .. Len(versions[m]) : versions[m][n].text \in Texts
  <2>1. \A n \in 1 .. Len(versions[m]) : versions[m][n] \in VersionRow
    BY <1>4
  <2> QED
    BY <2>1 DEF VersionRow
<1>6. CASE ApplyRead(p, x)
  <2> DEFINE text == IF change[x].op = "confirm" THEN Current(m).text ELSE x
             place == IF change[x].op \in {"correct", "confirm"} THEN "version" ELSE "status"
             t == [Idle EXCEPT !.pc = place, !.obj = x, !.n = memory[m].current, !.text = text]
  <2>1. change[x].status # "none"
    BY <1>6 DEF ApplyRead
  <2>2. Current(m).text \in Texts
    BY <1>4, <1>5, <2>1 DEF ChangesKnown, Known, Current
  <2>3. text \in Texts
    BY <2>2 DEF Texts, Origins
  <2>4. Becomes(p, t)
    BY <1>6 DEF ApplyRead
  <2>5. {"pc", "obj"} \subseteq DOMAIN t /\ t.obj = x /\ t.n = memory[m].current /\ t.text = text
    BY DEF Idle
  <2> HIDE DEF t, text
  <2>6. /\ t.n \in 0 .. Len(versions'[TargetOf[t.obj]])
        /\ memory'[TargetOf[t.obj]].current # 0
    BY <1>1, <1>4, <2>1, <2>5 DEF ChangesKnown, Known
  <2> QED
    BY <1>2, <1>3, <2>3, <2>4, <2>5, <2>6, ThreadMoves
<1>7. CASE UndoRead(p, x)
  <2> DEFINE t == [Idle EXCEPT !.pc = "version", !.obj = x, !.n = memory[m].current, !.v = 1,
                               !.text = versions[m][Len(versions[m]) - 1].text]
  <2>1. Len(versions[m]) >= 2 /\ Becomes(p, t)
    BY <1>7 DEF UndoRead
  <2>2. /\ {"pc", "obj"} \subseteq DOMAIN t /\ t.obj = x /\ t.n = memory[m].current
        /\ t.text = versions[m][Len(versions[m]) - 1].text
    BY DEF Idle
  <2> HIDE DEF t
  <2>3. /\ t.n \in 0 .. Len(versions'[TargetOf[t.obj]]) /\ t.text \in Texts
        /\ memory'[TargetOf[t.obj]].current # 0
    BY <1>1, <1>4, <1>5, <2>1, <2>2
  <2> QED
    BY <1>2, <1>3, <2>1, <2>2, <2>3, ThreadMoves
<1> QED
  BY <1>6, <1>7

\* The write of a correction or an undo: only a number that is free is written,
\* and that number is the next one.
LEMMA NewVersionKeepsVersionInv ==
    ASSUME VersionInv, NEW p \in Threads, CreateNewVersion(p)
    PROVE  VersionInv' /\ HistoriesKept
<1> USE DEF VersionInv
<1> DEFINE m == TargetOf[thread[p].obj]
           n == thread[p].n
<1>1. /\ thread[p].obj \in Changes /\ m \in Memories /\ thread[p].text \in Texts
      /\ n \in 0 .. Len(versions[m]) /\ {"pc", "obj"} \subseteq DOMAIN thread[p]
      /\ thread = [q \in Threads |-> thread[q]]
  BY GovernanceAssumption DEF CreateNewVersion, ThreadsRead, Read, Correcting
<1>2. UNCHANGED <<cand, actor, change>>
  BY DEF CreateNewVersion
<1>3. Chained(m) /\ versions[m] \in Seq(VersionRow) /\ Len(versions[m]) \in Nat
  BY <1>1 DEF MemoriesChained, RowTypes
<1>4. CASE NumberIsFree(m, n + 1)
  <2>1. n = Len(versions[m]) /\ n \in Nat
    BY <1>1, <1>3, <1>4 DEF NumberIsFree
  <2>2. /\ memory' = [memory EXCEPT ![m] = [status |-> "active", current |-> n + 1]]
        /\ versions' = [versions EXCEPT ![m] = WithVersion(m, thread[p].text, "unknown", TRUE)]
        /\ Becomes(p, [thread[p] EXCEPT !.pc = "invalidate"])
    BY <1>4 DEF CreateNewVersion
  <2>3. memory' \in [Memories -> MemoryRow] /\ memory'[m].current = n + 1
    BY <1>1, <2>1, <2>2 DEF RowTypes, MemoryRow
  <2>4. VersionAdded(m, thread[p].text, "unknown", TRUE)
    BY <1>3, <2>1, <2>2, <2>3 DEF VersionAdded, Chained
  <2>5. "unknown" \in Polarities
    BY DEF Polarities
  <2>6. MemoriesChained' /\ HistoriesKept /\ versions' \in [Memories -> Seq(VersionRow)]
    BY <1>1, <2>4, <2>5, AddedKeepsChains
  <2>7. RowTypes'
    BY <1>2, <2>3, <2>6 DEF RowTypes
  <2> DEFINE t == [thread[p] EXCEPT !.pc = "invalidate"]
  <2>8. {"pc", "obj"} \subseteq DOMAIN t /\ t.pc = "invalidate" /\ t.obj = thread[p].obj
    BY <1>1
  <2>9. memory'[TargetOf[t.obj]].current # 0
    BY <2>1, <2>3, <2>8
  <2>10. Becomes(p, t)
    BY <2>2
  <2> HIDE DEF t
  <2>11. ThreadsRead'
    BY <1>1, <2>6, <2>7, <2>8, <2>9, <2>10, ThreadMoves
  <2> QED
    BY <1>2, <2>6, <2>7, <2>11, ChangesStayKnown
<1>5. CASE ~NumberIsFree(m, n + 1)
  <2>1. Ends(p) /\ UNCHANGED <<versions, memory>>
    BY <1>5 DEF CreateNewVersion
  <2>2. RowTypes' /\ StatusesOnly
    BY <1>2, <2>1 DEF RowTypes, StatusesOnly
  <2>3. MovesOn(p)
    BY <1>1, <2>1 DEF MovesOn, Ends, Becomes, Idle, Correcting
  <2> QED
    BY <1>2, <2>2, <2>3, ThreadStepKeepsVersionInv
<1> QED
  BY <1>4, <1>5

\* The other steps of a correction.
LEMMA CorrectionStepKeepsVersionInv ==
    ASSUME VersionInv, NEW p \in Threads,
           SetStatus(p) \/ InvalidateDependencies(p) \/ FinishRequest(p)
    PROVE  VersionInv' /\ HistoriesKept
<1> USE DEF VersionInv
<1> DEFINE x == thread[p].obj
<1>1. /\ {"pc", "obj"} \subseteq DOMAIN thread[p] /\ thread = [q \in Threads |-> thread[q]]
      /\ x \in Changes /\ Known(TargetOf[x]) /\ TargetOf[x] \in Memories
  BY GovernanceAssumption
     DEF ThreadsRead, Read, Correcting, SetStatus, InvalidateDependencies, FinishRequest
<1>2. UNCHANGED <<cand, actor, versions>>
  BY DEF SetStatus, InvalidateDependencies, FinishRequest, storeVars, govVars
<1>3. CASE SetStatus(p) \/ InvalidateDependencies(p)
  <2>1. PICK place \in Correcting \ {"version"} :
          Becomes(p, [thread[p] EXCEPT !.pc = place])
    BY <1>3 DEF SetStatus, InvalidateDependencies, Correcting
  <2>2. memory' \in [Memories -> MemoryRow] /\ StatusesOnly /\ UNCHANGED change
    <3>1. CASE InvalidateDependencies(p)
      BY <1>2, <3>1 DEF InvalidateDependencies, storeVars, govVars, RowTypes, StatusesOnly
    <3>2. CASE SetStatus(p)
      <4>1. PICK st \in {"retracted", "needs_review"} :
              memory' = [memory EXCEPT ![TargetOf[x]].status = st]
        BY <3>2 DEF SetStatus
      <4>2. memory' \in [Memories -> MemoryRow] /\ StatusesOnly
        BY <1>1, <1>2, <4>1 DEF RowTypes, MemoryRow, StatusesOnly
      <4> QED
        BY <3>2, <4>2 DEF SetStatus, govVars
    <3> QED
      BY <1>3, <3>1, <3>2
  <2>3. RowTypes'
    BY <1>2, <2>2 DEF RowTypes
  <2>4. MemoriesChained' /\ HistoriesKept /\ ChangesKnown'
    BY <2>2, <2>3, StatusesKeepChains, ChangesStayKnown
  <2> DEFINE t == [thread[p] EXCEPT !.pc = place]
  <2>5. {"pc", "obj"} \subseteq DOMAIN t /\ t.pc = place /\ t.obj = x
    BY <1>1
  <2>6. Becomes(p, t)
    BY <2>1
  <2> HIDE DEF t
  <2>7. t.obj \in Changes /\ memory'[TargetOf[t.obj]].current # 0
    BY <1>1, <2>2, <2>5 DEF StatusesOnly, Known
  <2>8. ThreadsRead'
    BY <2>1, <2>3, <2>4, <2>5, <2>6, <2>7, ThreadMoves
  <2> QED
    BY <2>3, <2>4, <2>8
<1>4. CASE FinishRequest(p)
  <2>1. Ends(p) /\ UNCHANGED memory
    BY <1>4 DEF FinishRequest
  <2>2. change' = change \/ change' = [change EXCEPT ![x].status = "applied"]
    BY <1>4 DEF FinishRequest, SetChange
  <2>3. RowTypes' /\ StatusesOnly
    BY <1>2, <2>1, <2>2 DEF RowTypes, ChangeRow, StatusesOnly
  <2>4. MemoriesChained' /\ HistoriesKept
    BY <2>3, StatusesKeepChains
  <2>5. ChangesKnown'
    BY <1>1, <2>1, <2>2 DEF ChangesKnown, Known, RowTypes, ChangeRow
  <2>6. {"pc", "obj"} \subseteq DOMAIN Idle /\ Idle.pc = "idle"
    BY DEF Idle
  <2>7. ThreadsRead'
    BY <2>1, <2>3, <2>4, <2>6, ThreadMoves DEF Ends, Correcting
  <2> QED
    BY <2>3, <2>4, <2>5, <2>7
<1> QED
  BY <1>3, <1>4

\* The steps of a privacy request and of the crash: an erasure replaces texts of
\* the versions that are there, and a crash loses what the threads had read.
LEMMA PrivacyStepKeepsVersionInv ==
    ASSUME VersionInv, PrivacyNext
    PROVE  VersionInv' /\ HistoriesKept
<1> USE DEF VersionInv
<1>0. actor \in ActorRow /\ Free \in ActorRow
  BY DEF RowTypes, ActorRow, Free
<1>1. ASSUME UNCHANGED <<cand, memory, versions, change, thread>>, actor' \in ActorRow
      PROVE  VersionInv' /\ HistoriesKept
  <2>1. RowTypes' /\ StatusesOnly
    BY <1>1 DEF RowTypes, StatusesOnly
  <2> QED
    BY <1>1, <2>1, StatusesKeepChains, ChainsAreEnough
<1>2. ASSUME NEW r \in Requests,
             PreviewRequest(r) \/ ConfirmRequest(r) \/ ExecuteRequest(r) \/ RetryRequest(r)
      PROVE  VersionInv' /\ HistoriesKept
  <2>1. UNCHANGED <<cand, memory, versions, change, thread>>
    BY <1>2 DEF PreviewRequest, ConfirmRequest, ExecuteRequest, RetryRequest, storeVars, activeVars
  <2>2. actor' = actor \/ actor' = [r |-> r, step |-> 1, failed |-> FALSE]
    BY <1>2 DEF PreviewRequest, ConfirmRequest, ExecuteRequest, RetryRequest
  <2> QED
    <3>1. [r |-> r, step |-> 1, failed |-> FALSE] \in ActorRow
      BY DEF ActorRow
    <3> QED
      BY <1>0, <1>1, <2>1, <2>2, <3>1
<1>3. ASSUME NextStep \/ actor' = [actor EXCEPT !.step = @ + 1, !.failed = TRUE] \/ actor' = Free
      PROVE  actor' \in ActorRow
  <2>1. [actor EXCEPT !.step = @ + 1] \in ActorRow
    BY <1>0 DEF ActorRow
  <2>2. [actor EXCEPT !.step = @ + 1, !.failed = TRUE] \in ActorRow
    <3> DEFINE a == [actor EXCEPT !.step = @ + 1]
    <3>1. [a EXCEPT !.failed = TRUE] \in ActorRow
      BY <2>1 DEF ActorRow
    <3> QED
      BY <3>1
  <2> QED
    BY <1>0, <1>3, <2>1, <2>2 DEF NextStep
<1>4. CASE EraseFts \/ EraseEmbeddings \/ EraseBlocks \/ QuarantineAttachments \/ EraseAttachments
           \/ AdapterFails \/ CreateReceipt \/ CloseRequest
  <2>1. UNCHANGED <<cand, memory, versions, change, thread>>
    BY <1>4 DEF EraseFts, EraseEmbeddings, EraseBlocks, QuarantineAttachments, EraseAttachments,
                AdapterFails, CreateReceipt, CloseRequest, storeVars, activeVars
  <2>2. actor' \in ActorRow
    BY <1>3, <1>4 DEF EraseFts, EraseEmbeddings, EraseBlocks, QuarantineAttachments,
                      EraseAttachments, AdapterFails, CreateReceipt, CloseRequest
  <2> QED
    BY <1>1, <2>1, <2>2
<1>5. CASE QuarantineMemory
  <2>1. /\ UNCHANGED <<cand, versions, change, thread>> /\ NextStep
        /\ memory' = [memory EXCEPT ![Target].status = "forgotten"]
    BY <1>5 DEF QuarantineMemory, activeVars
  <2>2. RowTypes' /\ StatusesOnly
    BY <1>3, <2>1 DEF RowTypes, MemoryRow, StatusesOnly
  <2> QED
    BY <2>1, <2>2, StatusesKeepChains, ChainsAreEnough
<1>6. CASE EraseMemory
  <2> DEFINE m == Target
             row(n) == IF n \in Listed.versions THEN [versions[m][n] EXCEPT !.text = Erased]
                       ELSE versions[m][n]
  <2>1. m \in Memories
    <3>1. actor.r \in Requests
      BY <1>0, <1>6 DEF EraseMemory, At, ActorRow
    <3> QED
      BY <3>1, GovernanceAssumption DEF Target
  <2>2. /\ UNCHANGED <<change, thread>> /\ NextStep
        /\ memory' = [memory EXCEPT ![m].status = "forgotten"]
        /\ versions' = [versions EXCEPT ![m] = [n \in DOMAIN versions[m] |-> row(n)]]
    BY <1>6, <2>1 DEF EraseMemory, activeVars, RowTypes
  <2>3. /\ versions[m] \in Seq(VersionRow) /\ Len(versions[m]) \in Nat
        /\ DOMAIN versions[m] = 1 .. Len(versions[m])
        /\ \A n \in DOMAIN versions[m] : versions[m][n] \in VersionRow
    BY <2>1 DEF RowTypes
  <2>4. \A n \in DOMAIN versions[m] :
          /\ row(n) \in VersionRow /\ row(n).open = versions[m][n].open
          /\ row(n).text \in {versions[m][n].text, Erased}
    BY <2>3 DEF VersionRow, Texts
  <2> HIDE DEF m, row
  <2>5. versions'[m] = [n \in 1 .. Len(versions[m]) |-> row(n)]
    BY <2>1, <2>2, <2>3 DEF RowTypes
  <2>6. versions'[m] \in Seq(VersionRow) /\ Len(versions'[m]) = Len(versions[m])
    BY <2>3, <2>4, <2>5, FunctionIsSeq
  <2>7. \A k \in Memories \ {m} : versions'[k] = versions[k]
    BY <2>2 DEF RowTypes
  <2>8. versions' \in [Memories -> Seq(VersionRow)]
    <3>1. versions' = [k \in Memories |-> versions'[k]]
      BY <2>2 DEF RowTypes
    <3>2. \A k \in Memories : versions'[k] \in Seq(VersionRow)
      BY <2>6, <2>7 DEF RowTypes
    <3> QED
      BY <3>1, <3>2
  <2>9. cand' \in [Candidates -> CandidateRow]
    <3>1. \A c \in Candidates : [cand[c] EXCEPT !.text = Erased, !.status = "redacted"] \in CandidateRow
      BY DEF RowTypes, CandidateRow, Texts
    <3> QED
      BY <1>6, <3>1 DEF EraseMemory, RowTypes
  <2>10. memory' \in [Memories -> MemoryRow] /\ \A k \in Memories : memory'[k].current = memory[k].current
    BY <2>2 DEF RowTypes, MemoryRow
  <2>11. RowTypes'
    BY <1>3, <2>2, <2>8, <2>9, <2>10 DEF RowTypes
  <2>12. ASSUME NEW k \in Memories PROVE Chained(k)' /\ HistoryKept(k)
    <3>1. Chained(k) /\ versions[k] \in Seq(VersionRow) /\ memory[k].current \in Nat
      BY DEF MemoriesChained, RowTypes, MemoryRow
    <3>2. CASE k = m
      <4>1. DOMAIN versions'[m] = DOMAIN versions[m]
        BY <2>3, <2>5
      <4>2. \A n \in DOMAIN versions[m] :
              /\ versions'[m][n].open = versions[m][n].open
              /\ versions'[m][n].text \in {versions[m][n].text, Erased}
        BY <2>3, <2>4, <2>5
      <4> QED
        BY <2>3, <2>6, <2>10, <3>1, <3>2, <4>1, <4>2 DEF Chained, HistoryKept
    <3>3. CASE k # m
      BY <2>7, <2>10, <3>1, <3>3 DEF Chained, HistoryKept
    <3> QED
      BY <3>2, <3>3
  <2> QED
    BY <2>2, <2>11, <2>12, ChainsAreEnough DEF MemoriesChained, HistoriesKept
<1>7. CASE CrashAndRecover
  <2>1. UNCHANGED <<cand, memory, versions, change>> /\ actor' = Free
    BY <1>7 DEF CrashAndRecover
  <2>2. RowTypes' /\ StatusesOnly
    BY <1>0, <2>1 DEF RowTypes, StatusesOnly
  <2>3. ThreadsRead'
    BY <1>7 DEF CrashAndRecover, ThreadsRead, Read, Idle, Correcting
  <2> QED
    BY <2>1, <2>2, <2>3, StatusesKeepChains, ChangesStayKnown
<1> QED
  BY <1>2, <1>4, <1>5, <1>6, <1>7 DEF PrivacyNext

\* Every step keeps the invariant and the history.
LEMMA VersionStep == VersionInv /\ [Next]_vars => VersionInv' /\ HistoriesKept
<1> SUFFICES ASSUME VersionInv, [Next]_vars PROVE VersionInv' /\ HistoriesKept
  OBVIOUS
<1>1. ASSUME UNCHANGED <<cand, memory, versions, change, actor, thread>>
      PROVE  VersionInv' /\ HistoriesKept
  <2>1. RowTypes' /\ StatusesOnly
    BY <1>1 DEF VersionInv, RowTypes, StatusesOnly
  <2> QED
    BY <1>1, <2>1, StatusesKeepChains, ChainsAreEnough DEF VersionInv
<1>2. CASE UNCHANGED vars
  BY <1>1, <1>2 DEF vars, storeVars, activeVars, govVars
<1>3. CASE StoreNext /\ UNCHANGED <<graphVars, activeVars, govVars>>
  BY <1>3, StoreStepKeepsVersionInv DEF StoreNext, activeVars, govVars
<1>4. CASE LexicalSearch /\ UNCHANGED <<thread, govVars>>
  BY <1>1, <1>4 DEF LexicalSearch, govVars
<1>5. CASE GraphNext /\ UNCHANGED <<activeVars, govVars>>
  BY <1>1, <1>5
     DEF GraphNext, RebuildDelete, RebuildRead, ProjectMemory, RebuildCommit, RebuildFail,
         RebuildAgain, storeVars, activeVars, govVars
<1>6. ASSUME NEW c \in Candidates, EmbedRead(c) \/ EmbedWrite(c),
             UNCHANGED <<activeVars, change, actor>>
      PROVE  VersionInv' /\ HistoriesKept
  BY <1>6, StoreStepKeepsVersionInv DEF activeVars
<1>7. ASSUME NEW p \in Threads, ActiveNext(p) \/ ThreadWrites(p),
             UNCHANGED <<storeVars, change, actor>>
      PROVE  VersionInv' /\ HistoriesKept
  BY <1>7, ActiveStepKeepsVersionInv DEF storeVars
<1>8. CASE CorrectionNext
  BY <1>8, ChangeStepKeepsVersionInv, ReadStepKeepsVersionInv, NewVersionKeepsVersionInv,
     CorrectionStepKeepsVersionInv DEF CorrectionNext
<1>9. CASE PrivacyNext
  BY <1>9, PrivacyStepKeepsVersionInv
<1> QED
  BY <1>2, <1>3, <1>4, <1>5, <1>6, <1>7, <1>8, <1>9 DEF Next, govVars

\* The invariant holds in every reachable state.
LEMMA VersionInvAlways == Spec => []VersionInv
<1>1. Init => VersionInv
  <2> SUFFICES ASSUME Init PROVE VersionInv
    OBVIOUS
  <2>1. RowTypes
    BY DEF Init, StoreInit, RowTypes, CandidateRow, MemoryRow, NoRow, ChangeRow, ActorRow, Free,
           Texts, Origins
  <2>2. MemoriesChained
    BY DEF Init, StoreInit, NoRow, MemoriesChained, Chained
  <2>3. ThreadsRead
    BY DEF Init, ActiveInit, Idle, ThreadsRead, Read, Correcting
  <2>4. ChangesKnown
    BY DEF Init, ChangesKnown
  <2> QED
    BY <2>1, <2>2, <2>3, <2>4 DEF VersionInv
<1> QED
  BY <1>1, VersionStep, PTL DEF Spec

\* A memory has one open version, the current one, whoever corrects, undoes or
\* consolidates at the same time.
THEOREM MemoriesHaveOneOpenVersion == Spec => []OneOpenVersion
<1>1. VersionInv => OneOpenVersion
  <2> SUFFICES ASSUME VersionInv, NEW m \in Memories
               PROVE  {n \in DOMAIN versions[m] : versions[m][n].open} = {memory[m].current} \ {0}
    BY DEF OneOpenVersion
  <2>1. Chained(m) /\ versions[m] \in Seq(VersionRow)
    BY DEF VersionInv, MemoriesChained, RowTypes
  <2>2. DOMAIN versions[m] = 1 .. Len(versions[m]) /\ Len(versions[m]) \in Nat
    BY <2>1
  <2> QED
    BY <2>1, <2>2 DEF Chained
<1> QED
  BY <1>1, VersionInvAlways, PTL

\* Corrections, undos and consolidation add versions and never rewrite one; only
\* an erasure replaces a text.
THEOREM HistoriesOnlyGrow == Spec => HistoryOnlyGrows
<1>1. VersionInv /\ [Next]_vars => [HistoriesKept]_vars
  BY VersionStep
<1> QED
  BY <1>1, VersionInvAlways, PTL DEF Spec, HistoryOnlyGrows, HistoriesKept, HistoryKept
-----------------------------------------------------------------------------
(* The erasure.  Every copy of a text is one of the memory the text is at   *)
(* home in, and whatever holds a text of a memory names the memory, so that *)
(* a preview lists it.  A copy made after the preview is not of a listed    *)
(* text, or the request is late.  So an adapter that has erased what was    *)
(* listed has erased every listed text, and none comes back.                *)

(* The memory that a candidate or a change writes its text to.              *)
HomeOf(t) == IF t \in Changes THEN TargetOf[t]
             ELSE IF profile = "lite" THEN KeyOf[t] ELSE OwnKey[t]

AtHome(t, m) == t = Erased \/ (t \in Origins /\ HomeOf(t) = m)

(* A candidate whose text a version has is linked to it.                    *)
IsLinked(t) == t \in Candidates => \E l \in links : l[3] = t

LinksFit ==
    /\ decision = [c \in Candidates |-> decision[c]]
    /\ \A l \in links : /\ l \in Memories \X Nat \X Candidates
                        /\ l[2] \in DOMAIN versions[l[1]]
                        /\ HomeOf(l[3]) = l[1] /\ Decided(l[3])

(* The versions, the index and the vectors hold texts of their memory.      *)
VersionsAtHome ==
    /\ \A m \in Memories : \A n \in DOMAIN versions[m] :
          AtHome(versions[m][n].text, m) /\ IsLinked(versions[m][n].text)
    /\ \A c \in Candidates : cand[c].text \in {c, Erased}

(* Only a memory that was consolidated is active.                           *)
ActiveKnown == \A m \in Memories : memory[m].status = "active" => Known(m)

IndexAtHome == \A row \in fts : row[1] \in Memories /\ AtHome(row[2], row[1])

VectorsAtHome ==
    /\ \A e \in embeddings :
          e[1] \in Memories /\ e[2] \in DOMAIN versions[e[1]] /\ AtHome(e[3], e[1])
    /\ embedder # Resting =>
          /\ embedder.m \in Memories /\ embedder.n \in DOMAIN versions[embedder.m]
          /\ AtHome(embedder.text, embedder.m)

TextsFit == LinksFit /\ VersionsAtHome /\ ActiveKnown /\ IndexAtHome /\ VectorsAtHome

(* A block version or an attachment names the memories of its texts.        *)
Covers(sources, texts) ==
    \A t \in texts : t = Erased \/ (t \in Origins /\ HomeOf(t) \in sources)

Snapshots == SUBSET (Memories \X Nat \X Texts)
BlockVersionRow == [value : SUBSET Texts, sources : SUBSET Memories, snap : Snapshots]
BlockRow == [status : {"active", "redacted"}, build : {"stale", "current"}, lock : Nat,
             current : Nat, value : SUBSET Texts, snap : Snapshots]
AttachmentRow == [status : {"none", "active", "stale", "redacted"},
                  text : SUBSET Texts, sources : SUBSET Memories]

BlocksFit == blocks \in [Blocks -> BlockRow]

BlockVersionsFit ==
    /\ blockVersions \in [Blocks -> Seq(BlockVersionRow)]
    /\ \A b \in Blocks : \A n \in DOMAIN blockVersions[b] :
          Covers(blockVersions[b][n].sources, blockVersions[b][n].value)

AttachmentsFit ==
    /\ attachments \in [Attachments -> AttachmentRow]
    /\ \A a \in Attachments : Covers(attachments[a].sources, attachments[a].text)

CopiesFit == BlocksFit /\ BlockVersionsFit /\ AttachmentsFit

(* What a thread has read.                                                  *)
Building == {"build", "checked", "compact"}
Publishing == {"built", "rollback"}

Holds(t) ==
    /\ DOMAIN t = DOMAIN Idle
    /\ t.snap \in Snapshots /\ \A s \in t.snap : AtHome(s[3], s[1])
    /\ t.version \in BlockVersionRow /\ Covers(t.version.sources, t.version.value)
    /\ t.pc = "version" => AtHome(t.text, TargetOf[t.obj]) /\ IsLinked(t.text)
    /\ t.pc \in Building \cup Publishing => t.obj \in Blocks
    /\ t.pc \in Publishing => t.v \in DOMAIN blockVersions[t.obj]
    /\ t.pc = "attach" => t.obj \in Attachments

ThreadsHold == \A p \in Threads : Holds(thread[p])

(* What a request lists.                                                    *)
PrivacyRow == [status : {"none", "preview", "confirmed", "executing",
                         "partial_failure", "completed"},
               versions : SUBSET Nat, blocks : SUBSET Blocks,
               attachments : SUBSET Attachments, texts : SUBSET Origins,
               receipt : {"none", "clean", "exceptions"}]

Lists(r) ==
    /\ privacy[r].status = "none" =>
          privacy[r] = NoRequest /\ (actor.r = r => actor.step = 0)
    /\ \A t \in privacy[r].texts :
          /\ HomeOf(t) = TargetOf[r]
          /\ t \in Candidates => \E n \in privacy[r].versions : <<TargetOf[r], n, t>> \in links

(* A block that shows a text of a memory is found by a preview of it.       *)
ShownFound(m) ==
    \A b \in Blocks : \A t \in blocks[b].value :
        t = Erased \/ HomeOf(t) # m \/ b \in BlocksWith(m)

Tracked(r) == privacy[r].status = "none" => ShownFound(TargetOf[r])

(* Only what is listed holds a listed text.                                 *)
VersionsCovered(r) ==
    \A n \in DOMAIN versions[TargetOf[r]] :
        versions[TargetOf[r]][n].text \in privacy[r].texts => n \in privacy[r].versions
VectorsCovered(r) ==
    \A e \in embeddings :
        e[1] = TargetOf[r] /\ e[3] \in privacy[r].texts => e[2] \in privacy[r].versions
BlocksCovered(r) ==
    \A b \in Blocks \ privacy[r].blocks : BlockTexts(b) \cap privacy[r].texts = {}
AttachmentsCovered(r) ==
    \A a \in Attachments \ privacy[r].attachments :
        attachments[a].text \cap privacy[r].texts = {}

Covered(r) ==
    VersionsCovered(r) /\ VectorsCovered(r) /\ BlocksCovered(r) /\ AttachmentsCovered(r)

(* The erasures of the request that are done, in the order of Steps.        *)
Past(r, k) ==
    \/ privacy[r].receipt = "clean"
    \/ actor.r = r /\ actor.step > k /\ ~actor.failed

VersionsGone(r) ==
    /\ \A n \in DOMAIN versions[TargetOf[r]] :
          versions[TargetOf[r]][n].text \notin privacy[r].texts
    /\ \A c \in Candidates : cand[c].text \notin privacy[r].texts
IndexGone(r) == \A row \in fts : row[2] \notin privacy[r].texts
VectorsGone(r) == \A e \in embeddings : e[3] \notin privacy[r].texts
BlocksGone(r) == \A b \in Blocks : BlockTexts(b) \cap privacy[r].texts = {}
AttachmentsGone(r) == \A a \in Attachments : attachments[a].text \cap privacy[r].texts = {}

Gone(r) ==
    /\ Past(r, 5) => VersionsGone(r)
    /\ Past(r, 6) => IndexGone(r)
    /\ Past(r, 7) => VectorsGone(r)
    /\ Past(r, 8) => BlocksGone(r)
    /\ Past(r, 9) => AttachmentsGone(r)

(* The actor executes one request at a time.                                *)
ActorRuns == actor.step \in 0 .. Len(Steps) /\ (actor.r # None => actor.step # 0)

RequestsFit ==
    /\ ActorRuns
    /\ privacy \in [Requests -> PrivacyRow]
    /\ late \in [Requests -> SUBSET {"listed", "revived"}]
    /\ \A r \in Requests :
          Lists(r) /\ (late[r] = {} => Tracked(r) /\ Covered(r) /\ Gone(r))

ErasureInv == TextsFit /\ CopiesFit /\ ThreadsHold /\ RequestsFit
-----------------------------------------------------------------------------
(* The texts of the store and what is derived from them.                    *)

\* No step changes the profile, so no text changes its home; links only grow
\* in the steps below, so what is linked stays linked.
ProfileStays == profile' = profile
LinksGrow == links \subseteq links'

\* The texts a step writes to versions: m gets text, if any memory gets one.
Adds(m, text) ==
    \A k \in Memories : \A n \in DOMAIN versions'[k] :
        \/ n \in DOMAIN versions[k] /\ versions'[k][n].text \in {versions[k][n].text, Erased}
        \/ k = m /\ versions'[k][n].text = text

\* Whatever a step writes is at home.
LEMMA AddingKeepsHome ==
    ASSUME VersionsAtHome, ProfileStays, LinksGrow,
           NEW m, NEW text, Adds(m, text), AtHome(text, m), IsLinked(text)',
           \A c \in Candidates : cand'[c].text \in {cand[c].text, Erased}
    PROVE  VersionsAtHome'
<1>1. ASSUME NEW t, IsLinked(t) PROVE IsLinked(t)'
  BY <1>1 DEF IsLinked, LinksGrow
<1>2. ASSUME NEW t, NEW k, AtHome(t, k) PROVE AtHome(t, k)'
  BY <1>2 DEF AtHome, HomeOf, ProfileStays
<1>3. AtHome(Erased, m) /\ IsLinked(Erased)
  BY StoreAssumption DEF AtHome, IsLinked, Origins
<1>4. ASSUME NEW k \in Memories, NEW n \in DOMAIN versions'[k], NEW t, t = versions'[k][n].text
      PROVE  AtHome(t, k)' /\ IsLinked(t)'
  <2>1. CASE n \in DOMAIN versions[k] /\ t \in {versions[k][n].text, Erased}
    <3>1. AtHome(t, k) /\ IsLinked(t)
      BY <1>3, <2>1 DEF VersionsAtHome, AtHome
    <3> QED
      BY <1>1, <1>2, <3>1
  <2>2. CASE k = m /\ t = text
    BY <1>2, <2>2
  <2> QED
    BY <1>4, <2>1, <2>2 DEF Adds
<1>5. \A k \in Memories : \A n \in DOMAIN versions'[k] :
        AtHome(versions[k][n].text, k)' /\ IsLinked(versions[k][n].text)'
  BY <1>4
<1>6. \A c \in Candidates : cand'[c].text \in {c, Erased}
  BY DEF VersionsAtHome
<1> QED
  BY <1>5, <1>6 DEF VersionsAtHome

\* The links of a step that adds at most the link l.
LEMMA LinkingKeepsLinks ==
    ASSUME LinksFit, ProfileStays, RowTypes, RowTypes', HistoriesKept,
           decision' = [c \in Candidates |-> decision'[c]],
           \A c \in Candidates : Decided(c) => decision'[c] # "none",
           \A l \in links' \ links :
              /\ l \in Memories \X Nat \X Candidates
              /\ l[2] \in DOMAIN versions'[l[1]]
              /\ HomeOf(l[3]) = l[1] /\ decision'[l[3]] # "none"
    PROVE  LinksFit'
<1>1. \A k \in Memories : DOMAIN versions[k] \subseteq DOMAIN versions'[k]
  BY DEF RowTypes, HistoriesKept, HistoryKept
<1>2. \A t : HomeOf(t)' = HomeOf(t)
  BY DEF HomeOf, ProfileStays
<1>3. ASSUME NEW l \in links'
      PROVE  /\ l \in Memories \X Nat \X Candidates
             /\ l[2] \in DOMAIN versions'[l[1]]
             /\ HomeOf(l[3])' = l[1] /\ decision'[l[3]] # "none"
  <2>1. CASE l \in links
    BY <1>1, <1>2, <2>1 DEF LinksFit
  <2>2. CASE l \notin links
    BY <1>2, <1>3, <2>2
  <2> QED
    BY <2>1, <2>2
<1> QED
  BY <1>3 DEF LinksFit, Decided

\* The rows of an index built from the versions.
LEMMA IndexRowsAreVersions ==
    ASSUME NEW row \in IndexRows(memory, versions)
    PROVE  /\ row[1] \in Memories
           /\ \E n \in DOMAIN versions[row[1]] : row[2] = versions[row[1]][n].text
  BY DEF IndexRows

\* An index that keeps rows or is built from the versions.
LEMMA IndexStaysAtHome ==
    ASSUME IndexAtHome, VersionsAtHome, ProfileStays,
           fts' \subseteq fts \/ fts' = IndexRows(memory, versions)
    PROVE  IndexAtHome'
<1>1. ASSUME NEW t, NEW k, AtHome(t, k) PROVE AtHome(t, k)'
  BY <1>1 DEF AtHome, HomeOf, ProfileStays
<1>2. ASSUME NEW row \in fts' PROVE row[1] \in Memories /\ AtHome(row[2], row[1])
  <2>1. CASE row \in fts
    BY <2>1 DEF IndexAtHome
  <2>2. CASE row \in IndexRows(memory, versions)
    BY <2>2, IndexRowsAreVersions DEF VersionsAtHome
  <2> QED
    BY <1>2, <2>1, <2>2
<1>3. ASSUME NEW row \in fts' PROVE row[1] \in Memories /\ AtHome(row[2], row[1])'
  BY <1>1, <1>2, <1>3
<1> QED
  BY <1>3 DEF IndexAtHome

\* What the embedder holds is of a version, and it writes nothing else.
LEMMA VectorsStayAtHome ==
    ASSUME VectorsAtHome, VersionsAtHome, ProfileStays, RowTypes, RowTypes', HistoriesKept,
           \A e \in embeddings' \ embeddings :
              embedder # Resting /\ e = <<embedder.m, embedder.n, embedder.text>>,
           \/ embedder' \in {embedder, Resting}
           \/ \E m \in Memories : \E n \in DOMAIN versions[m] :
                 embedder' = [m |-> m, n |-> n, text |-> versions[m][n].text]
    PROVE  VectorsAtHome'
<1>1. ASSUME NEW t, NEW k, AtHome(t, k) PROVE AtHome(t, k)'
  BY <1>1 DEF AtHome, HomeOf, ProfileStays
<1>2. \A k \in Memories : DOMAIN versions[k] \subseteq DOMAIN versions'[k]
  BY DEF RowTypes, HistoriesKept, HistoryKept
<1>3. ASSUME NEW e \in embeddings'
      PROVE  e[1] \in Memories /\ e[2] \in DOMAIN versions'[e[1]] /\ AtHome(e[3], e[1])'
  <2>1. e[1] \in Memories /\ e[2] \in DOMAIN versions[e[1]] /\ AtHome(e[3], e[1])
    <3>1. CASE e \in embeddings
      BY <3>1 DEF VectorsAtHome
    <3>2. CASE e \notin embeddings
      BY <1>3, <3>2 DEF VectorsAtHome
    <3> QED
      BY <3>1, <3>2
  <2> QED
    BY <1>1, <1>2, <2>1
<1>4. ASSUME NEW v, v = embedder', v # Resting
      PROVE  v.m \in Memories /\ v.n \in DOMAIN versions'[v.m] /\ AtHome(v.text, v.m)'
  <2>1. v.m \in Memories /\ v.n \in DOMAIN versions[v.m] /\ AtHome(v.text, v.m)
    <3>1. CASE v = embedder
      BY <1>4, <3>1 DEF VectorsAtHome
    <3>2. ASSUME NEW m \in Memories, NEW n \in DOMAIN versions[m],
                 v = [m |-> m, n |-> n, text |-> versions[m][n].text]
          PROVE  v.m \in Memories /\ v.n \in DOMAIN versions[v.m] /\ AtHome(v.text, v.m)
      BY <3>2 DEF VersionsAtHome
    <3> QED
      BY <1>4, <3>1, <3>2
  <2> QED
    BY <1>1, <1>2, <2>1
<1>5. embedder' # Resting =>
        /\ embedder'.m \in Memories /\ embedder'.n \in DOMAIN versions'[embedder'.m]
        /\ AtHome(embedder.text, embedder.m)'
  BY <1>4
<1>6. Resting' = Resting
  BY DEF Resting
<1> QED
  BY <1>3, <1>5, <1>6 DEF VectorsAtHome

\* An added version is the only one with another text.
LEMMA AddedTexts ==
    ASSUME RowTypes, MemoriesChained, NEW m \in Memories, NEW text \in Texts,
           NEW polarity \in Polarities, NEW close \in BOOLEAN, close \/ ~Known(m),
           VersionAdded(m, text, polarity, close)
    PROVE  Adds(m, text)
<1> DEFINE vs == WithVersion(m, text, polarity, close)
           old == IF close THEN [versions[m] EXCEPT ![memory[m].current].open = FALSE]
                           ELSE versions[m]
           row == [text |-> text, polarity |-> polarity, open |-> TRUE]
<1>1. Chained(m) /\ versions[m] \in Seq(VersionRow) /\ Len(versions[m]) \in Nat
  BY DEF MemoriesChained, RowTypes
<1>2. close \/ versions[m] = << >>
  BY <1>1 DEF Known, Chained
<1>3. /\ vs \in Seq(VersionRow) /\ Len(vs) = Len(versions[m]) + 1
      /\ \A n \in DOMAIN versions[m] : vs[n].text = versions[m][n].text
  BY <1>1, <1>2, WithVersionAppends
<1>4. vs = Append(old, row)
  BY DEF WithVersion
<1>5. DOMAIN old = DOMAIN versions[m]
  OBVIOUS
<1>6. vs[Len(versions[m]) + 1] = row
  <2>1. DOMAIN old = 1 .. Len(versions[m])
    BY <1>1, <1>5
  <2>2. Len(old) = Len(versions[m])
    BY <1>1, <2>1
  <2> HIDE DEF old, row
  <2> QED
    BY <1>1, <1>4, <2>2
<1>7. row.text = text
  OBVIOUS
<1>8. DOMAIN vs = DOMAIN versions[m] \cup {Len(versions[m]) + 1}
  <2> HIDE DEF vs
  <2>1. DOMAIN vs = 1 .. Len(versions[m]) + 1 /\ DOMAIN versions[m] = 1 .. Len(versions[m])
    BY <1>1, <1>3
  <2> QED
    BY <1>1, <2>1
<1> HIDE DEF vs, old, row
<1>9. versions'[m] = vs /\ \A k \in Memories \ {m} : versions'[k] = versions[k]
  BY DEF VersionAdded, RowTypes, vs
<1> QED
  BY <1>3, <1>6, <1>7, <1>8, <1>9 DEF Adds

\* A step that writes no text to a version.
Rewrites ==
    \A k \in Memories : \A n \in DOMAIN versions'[k] :
        n \in DOMAIN versions[k] /\ versions'[k][n].text \in {versions[k][n].text, Erased}

\* A step that adds no version.
LEMMA RewritingKeepsHome ==
    ASSUME VersionsAtHome, ProfileStays, LinksGrow, Rewrites,
           \A c \in Candidates : cand'[c].text \in {cand[c].text, Erased}
    PROVE  VersionsAtHome'
<1>1. PICK m : m = Erased
  OBVIOUS
<1>2. Adds(m, Erased)
  BY DEF Adds, Rewrites
<1>3. AtHome(Erased, m)
  BY DEF AtHome
<1>4. IsLinked(Erased)'
  BY StoreAssumption DEF IsLinked, Origins
<1> QED
  BY <1>2, <1>3, <1>4, AddingKeepsHome

\* The other parts, where a step leaves what they are about.
LEMMA UntouchedTexts ==
    ASSUME TextsFit, ProfileStays, RowTypes, RowTypes', HistoriesKept
    PROVE  /\ UNCHANGED <<links, decision>> => LinksFit'
           /\ UNCHANGED fts => IndexAtHome'
           /\ embeddings' \subseteq embeddings /\ embedder' \in {embedder, Resting} => VectorsAtHome'
           /\ UNCHANGED versions => Rewrites
           /\ UNCHANGED memory => ActiveKnown'
<1>1. UNCHANGED <<links, decision>> => LinksFit'
  BY LinkingKeepsLinks DEF TextsFit, LinksFit, Decided
<1>2. UNCHANGED fts => IndexAtHome'
  BY IndexStaysAtHome DEF TextsFit
<1>3. embeddings' \subseteq embeddings /\ embedder' \in {embedder, Resting} => VectorsAtHome'
  BY VectorsStayAtHome DEF TextsFit
<1>4. UNCHANGED versions => Rewrites
  BY DEF Rewrites
<1>5. UNCHANGED memory => ActiveKnown'
  BY DEF ActiveKnown, Known, TextsFit
<1> QED
  BY <1>1, <1>2, <1>3, <1>4, <1>5

\* A candidate's version is the only text it adds.
LEMMA StoringAdds ==
    ASSUME VersionInv, TextsFit, NEW c \in Candidates, NEW m \in Memories,
           NEW close \in BOOLEAN, close \/ ~Known(m), StoreVersion(c, m, close)
    PROVE  Adds(m, cand[c].text)
<1> USE DEF VersionInv
<1>1. c \in Origins /\ cand[c].text \in {c, Erased} /\ cand[c].text \in Texts
  BY DEF Origins, Texts, TextsFit, VersionsAtHome
<1>2. PolarityOf[c] \in Polarities
  BY StoreAssumption
<1>3. VersionAdded(m, cand[c].text, PolarityOf[c], close)
  BY DEF StoreVersion, VersionAdded, RowTypes, MemoryRow
<1> QED
  BY <1>1, <1>2, <1>3, AddedTexts

\* A candidate's version, in either profile.
LEMMA StoringKeepsTexts ==
    ASSUME VersionInv, VersionInv', HistoriesKept, TextsFit, ProfileStays,
           NEW c \in Candidates, NEW m \in Memories, HomeOf(c) = m,
           NEW close \in BOOLEAN, close \/ ~Known(m), StoreVersion(c, m, close),
           NEW operation, operation # "none", RecordDecision(c, operation),
           \A d \in Candidates : cand'[d].text = cand[d].text,
           UNCHANGED <<fts, embeddings, embedder>>
    PROVE  TextsFit'
<1> USE DEF VersionInv
<1>1. c \in Origins /\ cand[c].text \in {c, Erased}
  BY DEF Origins, TextsFit, VersionsAtHome
<1>2. Adds(m, cand[c].text)
  BY StoringAdds
<1>3. links' = links \cup {<<m, memory[m].current + 1, c>>}
  BY DEF StoreVersion, LinkEvidence
<1>4. VersionsAtHome'
  <2>1. AtHome(cand[c].text, m)
    BY <1>1 DEF AtHome
  <2>2. ASSUME NEW t, t = cand[c].text PROVE IsLinked(t)'
    <3>1. t \in Candidates => t = c
      BY <1>1, <2>2, StoreAssumption DEF Origins
    <3>2. <<m, memory[m].current + 1, c>>[3] = c
      OBVIOUS
    <3> QED
      BY <1>3, <3>1, <3>2 DEF IsLinked
  <2>3. ASSUME NEW t, t = cand[c].text PROVE VersionsAtHome'
    BY <1>2, <1>3, <2>1, <2>2, <2>3, AddingKeepsHome DEF TextsFit, LinksGrow
  <2> QED
    BY <2>3
<1>5. LinksFit'
  <2>1. /\ decision' = [d \in Candidates |-> decision'[d]] /\ decision'[c] # "none"
        /\ \A d \in Candidates : Decided(d) => decision'[d] # "none"
    BY DEF RecordDecision, Decided, TextsFit, LinksFit
  <2>2. memory[m].current \in Nat /\ memory'[m].current = memory[m].current + 1
    BY DEF StoreVersion, RowTypes, MemoryRow
  <2>3. memory[m].current + 1 \in DOMAIN versions'[m]
    <3>1. versions'[m] \in Seq(VersionRow) /\ memory'[m].current = Len(versions'[m])
      BY DEF RowTypes, MemoriesChained, Chained
    <3> QED
      BY <2>2, <3>1
  <2> QED
    BY <1>3, <2>1, <2>2, <2>3, LinkingKeepsLinks DEF TextsFit
<1>6. ActiveKnown'
  BY DEF StoreVersion, RowTypes, MemoryRow, TextsFit, ActiveKnown, Known
<1>7. IndexAtHome' /\ VectorsAtHome'
  BY UntouchedTexts
<1> QED
  BY <1>4, <1>5, <1>6, <1>7 DEF TextsFit

\* Where the candidates' texts are at home.
LEMMA CandidateHome ==
    ASSUME NEW c \in Candidates
    PROVE  /\ profile = "lite" => HomeOf(c) = KeyOf[c]
           /\ profile = "full" => HomeOf(c) = OwnKey[c]
           /\ KeyOf[c] \in Memories /\ OwnKey[c] \in Memories
  BY StoreAssumption DEF HomeOf

\* A decision that stores no version and adds at most a link to the current one.
LEMMA DecidingKeepsTexts ==
    ASSUME VersionInv, VersionInv', HistoriesKept, TextsFit, ProfileStays,
           NEW c \in Candidates, NEW m \in Memories, HomeOf(c) = m,
           links' = links \/ (Known(m) /\ LinkEvidence(m, memory[m].current, c)),
           NEW operation, operation # "none", RecordDecision(c, operation),
           \A d \in Candidates : cand'[d].text = cand[d].text,
           UNCHANGED <<memory, versions, fts, embeddings, embedder>>
    PROVE  TextsFit'
<1> USE DEF VersionInv
<1>1. /\ decision' = [d \in Candidates |-> decision'[d]] /\ decision'[c] # "none"
      /\ \A d \in Candidates : Decided(d) => decision'[d] # "none"
  BY DEF RecordDecision, Decided, TextsFit, LinksFit
<1>2. memory[m].current \in Nat /\ (Known(m) => memory[m].current \in DOMAIN versions[m])
  <2>1. versions[m] \in Seq(VersionRow) /\ memory[m].current = Len(versions[m])
    BY DEF RowTypes, MemoriesChained, Chained
  <2> QED
    BY <2>1 DEF Known
<1>3. LinksFit'
  BY <1>1, <1>2, LinkingKeepsLinks DEF LinkEvidence, TextsFit
<1>4. LinksGrow /\ Rewrites /\ ActiveKnown' /\ IndexAtHome' /\ VectorsAtHome'
  BY UntouchedTexts DEF LinksGrow, LinkEvidence
<1>5. VersionsAtHome'
  BY <1>4, RewritingKeepsHome DEF TextsFit
<1> QED
  BY <1>3, <1>4, <1>5 DEF TextsFit

\* The memory worker's steps.
LEMMA StoreStepKeepsTexts ==
    ASSUME VersionInv, VersionInv', HistoriesKept, TextsFit, NEW c \in Candidates,
           \/ CandidateStages(c) \/ Consolidate(c) \/ RecordMemory(c)
           \/ EmbedRead(c) \/ EmbedWrite(c)
    PROVE  ProfileStays /\ LinksGrow /\ TextsFit'
<1> USE DEF VersionInv
<1>0. cand[c] \in CandidateRow /\ cand = [d \in Candidates |-> cand[d]]
      /\ \A d \in Candidates : DOMAIN cand[d] = {"status", "stage", "text"}
  BY DEF RowTypes, CandidateRow
<1>1. ProfileStays
  BY DEF ProfileStays, CandidateStages, Consolidate, RecordMemory, EmbedRead, EmbedWrite
<1>2. LinksGrow
  BY DEF LinksGrow, CandidateStages, Consolidate, RecordMemory, EmbedRead, EmbedWrite,
         StoreVersion, Reinforce, LinkEvidence
<1> SUFFICES TextsFit'
  BY <1>1, <1>2
<1>3. ASSUME UNCHANGED <<decision, memory, versions, links>>, IndexAtHome', VectorsAtHome',
             \A d \in Candidates : cand'[d].text = cand[d].text
      PROVE  TextsFit'
  <2>1. Rewrites /\ LinksFit' /\ ActiveKnown'
    BY <1>1, <1>3, UntouchedTexts
  <2>2. VersionsAtHome'
    BY <1>1, <1>2, <1>3, <2>1, RewritingKeepsHome DEF TextsFit
  <2> QED
    BY <1>3, <2>1, <2>2 DEF TextsFit
<1>4. CASE CandidateStages(c)
  <2>1. UNCHANGED <<decision, memory, versions, links, fts, embeddings, embedder>>
    BY <1>4 DEF CandidateStages
  <2>2. PICK st : cand' = [cand EXCEPT ![c].stage = "staged", ![c].status = st]
    BY <1>4 DEF CandidateStages
  <2>3. \A d \in Candidates : cand'[d].text = cand[d].text
    BY <1>0, <2>2
  <2>4. IndexAtHome' /\ VectorsAtHome'
    BY <1>1, <2>1, UntouchedTexts
  <2> QED
    BY <1>3, <2>1, <2>3, <2>4
<1>5. CASE Consolidate(c)
  <2> DEFINE m == KeyOf[c]
             operation == Resolve(c, m)
  <2>1. /\ profile = "lite" /\ m \in Memories /\ HomeOf(c) = m
        /\ RecordDecision(c, operation) /\ UNCHANGED <<fts, embeddings, embedder>>
    BY <1>5, CandidateHome DEF Consolidate
  <2>2. operation # "none"
    BY DEF Resolve
  <2>3. \A d \in Candidates : cand'[d].text = cand[d].text
    <3>1. PICK stage : cand' = [cand EXCEPT ![c].stage = stage]
      BY <1>5 DEF Consolidate
    <3> QED
      BY <1>0, <3>1
  <2>4. CASE operation \in {"add", "supersede"}
    <3>1. StoreVersion(c, m, operation = "supersede") /\ (operation = "supersede") \in BOOLEAN
      BY <1>5, <2>4 DEF Consolidate
    <3>2. operation = "supersede" \/ ~Known(m)
      BY <2>4 DEF Resolve
    <3> HIDE DEF operation, m
    <3> QED
      BY <1>1, <2>1, <2>2, <2>3, <3>1, <3>2, StoringKeepsTexts
  <2>5. CASE operation = "reinforce"
    <3>1. Reinforce(c, m)
      BY <1>5, <2>5 DEF Consolidate
    <3>2. Known(m)
      BY <2>5 DEF Resolve
    <3> HIDE DEF operation, m
    <3> QED
      BY <1>1, <2>1, <2>2, <2>3, <3>1, <3>2, DecidingKeepsTexts DEF Reinforce
  <2>6. CASE operation \notin {"add", "supersede", "reinforce"}
    <3>1. UNCHANGED <<memory, versions, links>>
      BY <1>5, <2>6 DEF Consolidate
    <3> HIDE DEF operation, m
    <3> QED
      BY <1>1, <2>1, <2>2, <2>3, <3>1, DecidingKeepsTexts
  <2> QED
    BY <2>4, <2>5, <2>6
<1>6. CASE RecordMemory(c)
  <2> DEFINE m == OwnKey[c]
  <2>1. /\ m \in Memories /\ HomeOf(c) = m /\ UNCHANGED <<fts, embeddings, embedder>>
    BY <1>6, CandidateHome DEF RecordMemory
  <2>2. \A d \in Candidates : cand'[d].text = cand[d].text
    <3>1. PICK stage : cand' = [cand EXCEPT ![c].stage = stage]
      BY <1>6 DEF RecordMemory
    <3> QED
      BY <1>0, <3>1
  <2> HIDE DEF m
  <2>3. CASE cand[c].status = "ready" /\ ~Known(m)
    <3>1. StoreVersion(c, m, FALSE) /\ RecordDecision(c, "add")
      BY <1>6, <2>3 DEF RecordMemory, m
    <3> QED
      BY <1>1, <2>1, <2>2, <2>3, <3>1, StoringKeepsTexts
  <2>4. CASE ~(cand[c].status = "ready" /\ ~Known(m))
    <3>1. RecordDecision(c, "reject") /\ UNCHANGED <<memory, versions, links>>
      BY <1>6, <2>4 DEF RecordMemory, m
    <3> QED
      BY <1>1, <2>1, <2>2, <3>1, DecidingKeepsTexts
  <2> QED
    BY <2>3, <2>4
<1>7. CASE EmbedRead(c)
  <2>1. UNCHANGED <<cand, decision, memory, versions, links, fts, embeddings>>
    BY <1>7 DEF EmbedRead
  <2>2. PICK m \in Memories, n \in 1 .. MaxVersions :
          /\ <<m, n, c>> \in links
          /\ embedder' = [m |-> m, n |-> n, text |-> versions[m][n].text]
    BY <1>7 DEF EmbedRead
  <2>3. n \in DOMAIN versions[m]
    BY <2>2 DEF TextsFit, LinksFit
  <2>4. VectorsAtHome'
    BY <1>1, <2>1, <2>2, <2>3, VectorsStayAtHome DEF TextsFit
  <2>5. IndexAtHome'
    BY <1>1, <2>1, UntouchedTexts
  <2> QED
    BY <1>3, <2>1, <2>4, <2>5
<1>8. CASE EmbedWrite(c)
  <2>1. /\ UNCHANGED <<decision, memory, versions, links, fts>> /\ embedder # Resting
        /\ embedder' = Resting /\ cand' = [cand EXCEPT ![c].stage = "done"]
        /\ \A e \in embeddings' \ embeddings : e = <<embedder.m, embedder.n, embedder.text>>
    BY <1>8 DEF EmbedWrite
  <2>2. VectorsAtHome'
    BY <1>1, <2>1, VectorsStayAtHome DEF TextsFit
  <2>3. IndexAtHome'
    BY <1>1, <2>1, UntouchedTexts
  <2>4. \A d \in Candidates : cand'[d].text = cand[d].text
    BY <1>0, <2>1
  <2> QED
    BY <1>3, <2>1, <2>2, <2>3, <2>4
<1> QED
  BY <1>4, <1>5, <1>6, <1>7, <1>8

\* A step that changes at most statuses, the index and the vectors.
LEMMA StatusesKeepTexts ==
    ASSUME VersionInv, VersionInv', HistoriesKept, TextsFit,
           UNCHANGED <<profile, cand, decision, versions, links>>, ActiveKnown', IndexAtHome',
           embeddings' \subseteq embeddings, embedder' \in {embedder, Resting}
    PROVE  ProfileStays /\ LinksGrow /\ TextsFit'
<1> USE DEF VersionInv
<1>1. ProfileStays /\ LinksGrow
  BY DEF ProfileStays, LinksGrow
<1>2. Rewrites /\ LinksFit' /\ VectorsAtHome'
  BY <1>1, UntouchedTexts
<1>3. VersionsAtHome'
  BY <1>1, <1>2, RewritingKeepsHome DEF TextsFit
<1> QED
  BY <1>1, <1>2, <1>3 DEF TextsFit

\* A step that leaves the store alone.
LEMMA StoreUntouched ==
    ASSUME VersionInv, VersionInv', HistoriesKept, TextsFit, UNCHANGED storeVars
    PROVE  ProfileStays /\ LinksGrow /\ TextsFit'
<1>1. /\ UNCHANGED <<profile, cand, decision, versions, links, memory, fts>>
      /\ embeddings' \subseteq embeddings /\ embedder' \in {embedder, Resting}
  BY DEF storeVars
<1>2. ActiveKnown' /\ IndexAtHome'
  BY <1>1, UntouchedTexts DEF ProfileStays, VersionInv
<1> QED
  BY <1>1, <1>2, StatusesKeepTexts

\* The write of a correction adds its text and no other.
LEMMA CorrectingAdds ==
    ASSUME VersionInv, NEW p \in Threads, CreateNewVersion(p),
           NEW m, m = TargetOf[thread[p].obj], NumberIsFree(m, thread[p].n + 1)
    PROVE  /\ m \in Memories /\ thread[p].n = Len(versions[m]) /\ Chained(m)
           /\ Adds(m, thread[p].text)
<1> USE DEF VersionInv
<1> DEFINE n == thread[p].n
<1>1. thread[p].obj \in Changes /\ m \in Memories
  BY GovernanceAssumption DEF ThreadsRead, Read, Correcting, CreateNewVersion
<1>2. /\ versions' = [versions EXCEPT ![m] = WithVersion(m, thread[p].text, "unknown", TRUE)]
      /\ memory' = [memory EXCEPT ![m] = [status |-> "active", current |-> n + 1]]
  BY DEF CreateNewVersion
<1>3. thread[p].text \in Texts /\ n \in 0 .. Len(versions[m])
  BY DEF CreateNewVersion, ThreadsRead, Read
<1>4. n = Len(versions[m]) /\ n \in Nat /\ Chained(m)
  <2>1. versions[m] \in Seq(VersionRow)
    BY <1>1 DEF RowTypes
  <2> QED
    BY <1>1, <1>3, <2>1 DEF NumberIsFree, MemoriesChained
<1>5. VersionAdded(m, thread[p].text, "unknown", TRUE)
  <2>1. memory'[m].current = n + 1
    BY <1>1, <1>2 DEF RowTypes
  <2> QED
    BY <1>1, <1>2, <1>4, <2>1 DEF VersionAdded, Chained, RowTypes
<1>6. "unknown" \in Polarities
  BY DEF Polarities
<1> QED
  BY <1>1, <1>3, <1>4, <1>5, <1>6, AddedTexts

\* The write of a correction, its status and its index.
LEMMA CorrectionKeepsTexts ==
    ASSUME VersionInv, VersionInv', HistoriesKept, TextsFit, ThreadsHold, NEW p \in Threads,
           CreateNewVersion(p) \/ SetStatus(p) \/ FinishRequest(p)
    PROVE  ProfileStays /\ LinksGrow /\ TextsFit'
<1> USE DEF VersionInv
<1> DEFINE m == TargetOf[thread[p].obj]
           n == thread[p].n
<1>1. thread[p].obj \in Changes /\ m \in Memories
  BY GovernanceAssumption
     DEF ThreadsRead, Read, Correcting, CreateNewVersion, SetStatus, FinishRequest
<1>2. CASE CreateNewVersion(p) /\ NumberIsFree(m, n + 1)
  <2>1. /\ versions' = [versions EXCEPT ![m] = WithVersion(m, thread[p].text, "unknown", TRUE)]
        /\ memory' = [memory EXCEPT ![m] = [status |-> "active", current |-> n + 1]]
        /\ embeddings' \subseteq embeddings
        /\ UNCHANGED <<profile, cand, decision, links, fts, embedder>>
    BY <1>2 DEF CreateNewVersion
  <2>2. n = Len(versions[m]) /\ Chained(m) /\ Adds(m, thread[p].text)
    BY <1>2, CorrectingAdds
  <2>3. AtHome(thread[p].text, m) /\ IsLinked(thread[p].text)
    BY <1>2 DEF CreateNewVersion, ThreadsHold, Holds
  <2>4. ProfileStays /\ LinksGrow
    BY <2>1 DEF ProfileStays, LinksGrow
  <2>5. VersionsAtHome'
    <3> HIDE DEF m
    <3>1. ASSUME NEW t, t = thread[p].text PROVE VersionsAtHome'
      <4>1. IsLinked(t)'
        BY <2>1, <2>3, <3>1 DEF IsLinked
      <4> QED
        BY <1>1, <2>1, <2>2, <2>3, <2>4, <3>1, <4>1, AddingKeepsHome DEF TextsFit
    <3> QED
      BY <3>1
  <2>6. LinksFit' /\ IndexAtHome' /\ VectorsAtHome'
    BY <2>1, <2>4, UntouchedTexts
  <2>7. ActiveKnown'
    BY <1>1, <2>1, <2>2 DEF RowTypes, TextsFit, ActiveKnown, Known
  <2> QED
    BY <2>4, <2>5, <2>6, <2>7 DEF TextsFit
<1>3. CASE CreateNewVersion(p) /\ ~NumberIsFree(m, n + 1)
  <2>1. UNCHANGED storeVars
    BY <1>3 DEF CreateNewVersion, storeVars
  <2> QED
    BY <2>1, StoreUntouched
<1>4. CASE SetStatus(p)
  <2>1. UNCHANGED <<profile, cand, decision, versions, links, fts, embeddings, embedder>>
    BY <1>4 DEF SetStatus
  <2>2. PICK st \in {"retracted", "needs_review"} : memory' = [memory EXCEPT ![m].status = st]
    BY <1>4 DEF SetStatus
  <2>3. ActiveKnown'
    BY <1>1, <2>2 DEF RowTypes, MemoryRow, TextsFit, ActiveKnown, Known
  <2>4. IndexAtHome'
    BY <2>1, UntouchedTexts DEF ProfileStays
  <2> QED
    BY <2>1, <2>3, <2>4, StatusesKeepTexts
<1>5. CASE FinishRequest(p)
  <2>1. /\ UNCHANGED <<profile, cand, decision, memory, versions, links, embeddings, embedder>>
        /\ fts' = fts \/ fts' = IndexRows(memory, versions)
    BY <1>5 DEF FinishRequest
  <2>2. IndexAtHome'
    BY <2>1, IndexStaysAtHome DEF ProfileStays, TextsFit
  <2>3. ActiveKnown'
    BY <2>1, UntouchedTexts DEF ProfileStays
  <2> QED
    BY <2>1, <2>2, <2>3, StatusesKeepTexts
<1> QED
  BY <1>2, <1>3, <1>4, <1>5

\* An erasure only replaces texts.
LEMMA ErasureRewrites ==
    ASSUME VersionInv, EraseMemory
    PROVE  /\ Rewrites
           /\ \A c \in Candidates : cand'[c].text \in {cand[c].text, Erased}
<1> USE DEF VersionInv
<1>1. PICK m, gone :
        /\ m = Target /\ gone = Listed.versions
        /\ versions' = [versions EXCEPT ![m] =
             [n \in DOMAIN @ |-> IF n \in gone THEN [@[n] EXCEPT !.text = Erased] ELSE @[n]]]
  BY DEF EraseMemory
<1>2. \A k \in Memories : \A n \in DOMAIN versions[k] : versions[k][n] \in VersionRow
  BY DEF RowTypes
<1>3. \A k \in Memories : DOMAIN versions'[k] = DOMAIN versions[k]
  BY <1>1 DEF RowTypes
<1>4. ASSUME NEW k \in Memories, NEW n \in DOMAIN versions[k]
      PROVE  versions'[k][n].text \in {versions[k][n].text, Erased}
  <2>1. \/ versions'[k][n] = versions[k][n]
        \/ versions'[k][n] = [versions[k][n] EXCEPT !.text = Erased]
    BY <1>1 DEF RowTypes
  <2> QED
    BY <1>2, <2>1 DEF VersionRow
<1>5. \A c \in Candidates : cand'[c].text \in {cand[c].text, Erased}
  BY DEF EraseMemory, RowTypes, CandidateRow
<1> QED
  BY <1>3, <1>4, <1>5 DEF Rewrites

\* An erasure takes texts away.
LEMMA PrivacyKeepsTexts ==
    ASSUME VersionInv, VersionInv', HistoriesKept, TextsFit, PrivacyNext
    PROVE  ProfileStays /\ LinksGrow /\ TextsFit'
<1> USE DEF VersionInv
<1>1. ASSUME UNCHANGED storeVars PROVE ProfileStays /\ LinksGrow /\ TextsFit'
  BY <1>1, StoreUntouched
<1>2. CASE \E r \in Requests :
             PreviewRequest(r) \/ ConfirmRequest(r) \/ ExecuteRequest(r) \/ RetryRequest(r)
  BY <1>1, <1>2 DEF PreviewRequest, ConfirmRequest, ExecuteRequest, RetryRequest
<1>3. CASE EraseBlocks \/ QuarantineAttachments \/ EraseAttachments \/ AdapterFails
           \/ CreateReceipt \/ CloseRequest
  BY <1>1, <1>3 DEF EraseBlocks, QuarantineAttachments, EraseAttachments, AdapterFails,
                    CreateReceipt, CloseRequest
<1>4. CASE QuarantineMemory
  <2>1. UNCHANGED <<profile, cand, decision, versions, links, fts, embeddings, embedder>>
    BY <1>4 DEF QuarantineMemory
  <2>2. ActiveKnown'
    BY <1>4 DEF QuarantineMemory, RowTypes, MemoryRow, TextsFit, ActiveKnown, Known
  <2>3. IndexAtHome'
    BY <2>1, UntouchedTexts DEF ProfileStays
  <2> QED
    BY <2>1, <2>2, <2>3, StatusesKeepTexts
<1>5. CASE EraseMemory
  <2>1. UNCHANGED <<profile, decision, links, fts, embeddings, embedder>>
    BY <1>5 DEF EraseMemory
  <2>2. ProfileStays /\ LinksGrow
    BY <2>1 DEF ProfileStays, LinksGrow
  <2>3. LinksFit' /\ IndexAtHome' /\ VectorsAtHome'
    BY <2>1, <2>2, UntouchedTexts
  <2>4. ActiveKnown'
    BY <1>5 DEF EraseMemory, RowTypes, MemoryRow, TextsFit, ActiveKnown, Known
  <2>5. /\ Rewrites
        /\ \A c \in Candidates : cand'[c].text \in {cand[c].text, Erased}
    BY <1>5, ErasureRewrites
  <2>6. VersionsAtHome'
    BY <2>2, <2>5, RewritingKeepsHome DEF TextsFit
  <2> QED
    BY <2>2, <2>3, <2>4, <2>6 DEF TextsFit
<1>6. CASE EraseFts \/ EraseEmbeddings
  <2>1. /\ UNCHANGED <<profile, cand, decision, memory, versions, links, embedder>>
        /\ fts' \subseteq fts /\ embeddings' \subseteq embeddings
    BY <1>6 DEF EraseFts, EraseEmbeddings
  <2>2. IndexAtHome'
    BY <2>1, IndexStaysAtHome DEF TextsFit, ProfileStays
  <2>3. ActiveKnown'
    BY <2>1, UntouchedTexts DEF ProfileStays
  <2> QED
    BY <2>1, <2>2, <2>3, StatusesKeepTexts
<1>7. CASE CrashAndRecover
  <2>1. /\ UNCHANGED <<profile, cand, decision, memory, versions, links, fts, embeddings>>
        /\ embedder' = Resting
    BY <1>7 DEF CrashAndRecover
  <2>2. ActiveKnown' /\ IndexAtHome'
    BY <2>1, UntouchedTexts DEF ProfileStays
  <2> QED
    BY <2>1, <2>2, StatusesKeepTexts
<1> QED
  BY <1>2, <1>3, <1>4, <1>5, <1>6, <1>7 DEF PrivacyNext

\* Every step keeps the texts at home.
LEMMA TextsStep ==
    ASSUME VersionInv, VersionInv', HistoriesKept, TextsFit, ThreadsHold, [Next]_vars
    PROVE  ProfileStays /\ LinksGrow /\ TextsFit'
<1>1. CASE UNCHANGED storeVars
  BY <1>1, StoreUntouched
<1>2. ASSUME NEW c \in Candidates,
             \/ CandidateStages(c) \/ Consolidate(c) \/ RecordMemory(c)
             \/ EmbedRead(c) \/ EmbedWrite(c)
      PROVE  ProfileStays /\ LinksGrow /\ TextsFit'
  BY <1>2, StoreStepKeepsTexts
<1>3. CASE LexicalSearch
  <2>1. /\ UNCHANGED <<profile, cand, decision, memory, versions, links, embeddings, embedder>>
        /\ fts' = IndexRows(memory, versions)
    BY <1>3 DEF LexicalSearch
  <2>2. ActiveKnown'
    BY <2>1, UntouchedTexts DEF ProfileStays, VersionInv
  <2>3. IndexAtHome'
    BY <2>1, IndexStaysAtHome DEF TextsFit, ProfileStays
  <2> QED
    BY <2>1, <2>2, <2>3, StatusesKeepTexts
<1>4. CASE GraphNext
  <2>1. UNCHANGED storeVars
    BY <1>4 DEF GraphNext, RebuildDelete, RebuildRead, ProjectMemory, RebuildCommit, RebuildFail,
                RebuildAgain
  <2> QED
    BY <2>1, StoreUntouched
<1>5. CASE CorrectionNext
  <2>1. ASSUME NEW p \in Threads, CreateNewVersion(p) \/ SetStatus(p) \/ FinishRequest(p)
        PROVE  ProfileStays /\ LinksGrow /\ TextsFit'
    BY <2>1, CorrectionKeepsTexts
  <2>2. ASSUME NEW x \in Changes, CreateRequest(x) \/ CancelRequest(x) PROVE UNCHANGED storeVars
    BY <2>2 DEF CreateRequest, CancelRequest
  <2>3. ASSUME NEW p \in Threads, NEW x \in Changes, ApplyRead(p, x) \/ UndoRead(p, x)
        PROVE  UNCHANGED storeVars
    BY <2>3 DEF ApplyRead, UndoRead
  <2>4. ASSUME NEW p \in Threads, InvalidateDependencies(p) PROVE UNCHANGED storeVars
    BY <2>4 DEF InvalidateDependencies
  <2> QED
    BY <1>1, <1>5, <2>1, <2>2, <2>3, <2>4 DEF CorrectionNext
<1>6. CASE PrivacyNext
  BY <1>6, PrivacyKeepsTexts
<1> QED
  BY <1>1, <1>2, <1>3, <1>4, <1>5, <1>6 DEF Next, StoreNext, vars
-----------------------------------------------------------------------------
(* The blocks and the attachments.                                          *)

\* What a row covers it goes on covering.
LEMMA CoversStays ==
    ASSUME ProfileStays, NEW sources, NEW texts, Covers(sources, texts)
    PROVE  Covers(sources, texts)'
  BY DEF Covers, HomeOf, ProfileStays

\* A version made of a snapshot, of all of it or of what a compaction keeps.
LEMMA SnapshotVersion ==
    ASSUME NEW snap \in Snapshots, \A s \in snap : AtHome(s[3], s[1]), NEW kept \in SUBSET snap
    PROVE  /\ BlockVersion(kept) \in BlockVersionRow
           /\ [BlockVersion(kept) EXCEPT !.snap = snap] \in BlockVersionRow
           /\ Covers(BlockVersion(kept).sources, BlockVersion(kept).value)
           /\ BlockVersion(kept).value \subseteq {s[3] : s \in snap}
<1>1. \A s \in snap : s[1] \in Memories /\ s[3] \in Texts
  BY DEF Snapshots
<1>2. kept \in Snapshots
  BY DEF Snapshots
<1>3. /\ BlockVersion(kept).value = {s[3] : s \in kept}
      /\ BlockVersion(kept).sources = {s[1] : s \in kept}
  BY DEF BlockVersion
<1>4. {s[3] : s \in kept} \in SUBSET Texts /\ {s[1] : s \in kept} \in SUBSET Memories
  BY <1>1
<1>5. BlockVersion(kept) \in BlockVersionRow
  BY <1>2, <1>4 DEF BlockVersion, BlockVersionRow
<1>6. [BlockVersion(kept) EXCEPT !.snap = snap] \in BlockVersionRow
  BY <1>5 DEF BlockVersionRow
<1>7. Covers({s[1] : s \in kept}, {s[3] : s \in kept})
  <2> SUFFICES ASSUME NEW s \in kept, s[3] # Erased
               PROVE  s[3] \in Origins /\ HomeOf(s[3]) \in {z[1] : z \in kept}
    BY DEF Covers
  <2> QED
    BY DEF AtHome
<1> QED
  BY <1>3, <1>5, <1>6, <1>7

\* The row that publishes a version.
LEMMA PublishedRow ==
    ASSUME BlocksFit, NEW b \in Blocks, NEW n \in Nat, NEW v \in BlockVersionRow
    PROVE  Published(b, n, v) \in BlockRow /\ Published(b, n, v).value = v.value
<1>1. blocks[b] \in BlockRow
  BY DEF BlocksFit
<1>2. v.value \in SUBSET Texts /\ v.snap \in Snapshots
  BY DEF BlockVersionRow
<1>3. blocks[b].lock \in Nat
  BY <1>1 DEF BlockRow
<1> DEFINE e1 == [blocks[b] EXCEPT !.build = "current"]
           e2 == [e1 EXCEPT !.lock = blocks[b].lock + 1]
           e3 == [e2 EXCEPT !.current = n]
           e4 == [e3 EXCEPT !.value = v.value]
           e5 == [e4 EXCEPT !.snap = v.snap]
<1>4. e1 \in BlockRow /\ e1.lock = blocks[b].lock
  BY <1>1 DEF BlockRow
<1> HIDE DEF e1
<1>5. e2 \in BlockRow
  BY <1>3, <1>4 DEF BlockRow
<1> HIDE DEF e2
<1>6. e3 \in BlockRow
  BY <1>5 DEF BlockRow
<1> HIDE DEF e3
<1>7. e4 \in BlockRow /\ e4.value = v.value
  BY <1>2, <1>6 DEF BlockRow
<1> HIDE DEF e4
<1>8. e5 \in BlockRow /\ e5.value = v.value
  BY <1>2, <1>7 DEF BlockRow
<1>9. Published(b, n, v) = e5
  BY <1>1, <1>4 DEF Published, e1, e2, e3, e4
<1> QED
  BY <1>8, <1>9

\* A version appended to those of a block.
BlockVersionsStay ==
    \A b \in Blocks : \A n \in DOMAIN blockVersions[b] :
        n \in DOMAIN blockVersions'[b] /\ blockVersions'[b][n] = blockVersions[b][n]

\* A block version that covers its texts is appended.
LEMMA AppendedVersion ==
    ASSUME BlockVersionsFit, NEW b \in Blocks, NEW v \in BlockVersionRow, Covers(v.sources, v.value),
           ProfileStays, blockVersions' = [blockVersions EXCEPT ![b] = Append(@, v)]
    PROVE  /\ BlockVersionsFit' /\ BlockVersionsStay
           /\ \A d \in Blocks : \A n \in DOMAIN blockVersions'[d] :
                 n \in DOMAIN blockVersions[d] \/ blockVersions'[d][n] = v
           /\ \E n \in DOMAIN blockVersions'[b] : blockVersions'[b][n] = v
           /\ Len(blockVersions[b]) + 1 \in DOMAIN blockVersions'[b]
<1>1. blockVersions[b] \in Seq(BlockVersionRow) /\ Len(blockVersions[b]) \in Nat
  BY DEF BlockVersionsFit
<1>2. /\ blockVersions'[b] = Append(blockVersions[b], v)
      /\ \A d \in Blocks \ {b} : blockVersions'[d] = blockVersions[d]
  BY DEF BlockVersionsFit
<1>3. /\ Append(blockVersions[b], v) \in Seq(BlockVersionRow)
      /\ DOMAIN Append(blockVersions[b], v) = 1 .. Len(blockVersions[b]) + 1
      /\ Append(blockVersions[b], v)[Len(blockVersions[b]) + 1] = v
      /\ \A n \in 1 .. Len(blockVersions[b]) : Append(blockVersions[b], v)[n] = blockVersions[b][n]
      /\ DOMAIN blockVersions[b] = 1 .. Len(blockVersions[b])
  BY <1>1
<1>4. blockVersions' \in [Blocks -> Seq(BlockVersionRow)]
  BY <1>2, <1>3 DEF BlockVersionsFit
<1>5. \A n \in 1 .. Len(blockVersions[b]) + 1 :
        n \in 1 .. Len(blockVersions[b]) \/ n = Len(blockVersions[b]) + 1
  BY <1>1
<1>6. 1 .. Len(blockVersions[b]) \subseteq 1 .. Len(blockVersions[b]) + 1
  BY <1>1
<1>7. ASSUME NEW d \in Blocks, NEW n \in DOMAIN blockVersions'[d]
      PROVE  \/ n \in DOMAIN blockVersions[d] /\ blockVersions'[d][n] = blockVersions[d][n]
             \/ blockVersions'[d][n] = v
  BY <1>2, <1>3, <1>5, <1>7
<1>8. ASSUME NEW d \in Blocks, NEW n \in DOMAIN blockVersions'[d]
      PROVE  Covers(blockVersions[d][n].sources, blockVersions[d][n].value)'
  <2>1. PICK w : w = blockVersions'[d][n]
    OBVIOUS
  <2>2. Covers(w.sources, w.value)
    BY <1>7, <1>8, <2>1 DEF BlockVersionsFit
  <2>3. Covers(w.sources, w.value)'
    BY <2>2, CoversStays
  <2> QED
    BY <2>1, <2>3
<1>9. BlockVersionsStay
  BY <1>2, <1>3, <1>6 DEF BlockVersionsStay
<1>10. Len(blockVersions[b]) + 1 \in 1 .. Len(blockVersions[b]) + 1
  BY <1>1
<1> QED
  BY <1>2, <1>3, <1>4, <1>7, <1>8, <1>9, <1>10 DEF BlockVersionsFit

\* Rows that a step leaves alone.
LEMMA UntouchedCopies ==
    ASSUME CopiesFit, ProfileStays
    PROVE  /\ UNCHANGED blocks => BlocksFit'
           /\ UNCHANGED blockVersions => BlockVersionsFit' /\ BlockVersionsStay
           /\ UNCHANGED attachments => AttachmentsFit'
<1>1. UNCHANGED blocks => BlocksFit'
  BY DEF CopiesFit, BlocksFit
<1>2. ASSUME UNCHANGED blockVersions PROVE BlockVersionsFit' /\ BlockVersionsStay
  <2>1. ASSUME NEW b \in Blocks, NEW n \in DOMAIN blockVersions'[b], NEW w, w = blockVersions'[b][n]
        PROVE  Covers(w.sources, w.value)'
    BY <1>2, <2>1, CoversStays DEF CopiesFit, BlockVersionsFit
  <2>2. \A b \in Blocks : \A n \in DOMAIN blockVersions'[b] :
          Covers(blockVersions[b][n].sources, blockVersions[b][n].value)'
    BY <2>1
  <2> QED
    BY <1>2, <2>2 DEF CopiesFit, BlockVersionsFit, BlockVersionsStay
<1>3. ASSUME UNCHANGED attachments PROVE AttachmentsFit'
  <2>1. ASSUME NEW a \in Attachments, NEW w, w = attachments'[a] PROVE Covers(w.sources, w.text)'
    BY <1>3, <2>1, CoversStays DEF CopiesFit, AttachmentsFit
  <2>2. \A a \in Attachments : Covers(attachments[a].sources, attachments[a].text)'
    BY <2>1
  <2> QED
    BY <1>3, <2>2 DEF CopiesFit, AttachmentsFit
<1> QED
  BY <1>1, <1>2, <1>3

(* What a thread may write, and where what it publishes is found.           *)
WrittenBy(p) == thread[p].version.value \cup {s[3] : s \in thread[p].snap}

CopiesAdd(texts) ==
    /\ \A b \in Blocks :
          /\ blocks'[b].value \subseteq blocks[b].value \cup texts
          /\ \A n \in DOMAIN blockVersions'[b] :
                \/ n \in DOMAIN blockVersions[b]
                   /\ blockVersions'[b][n].value \subseteq blockVersions[b][n].value \cup texts
                \/ blockVersions'[b][n].value \subseteq texts
    /\ \A a \in Attachments : attachments'[a].text \subseteq attachments[a].text \cup texts

Found(b, t) == \E n \in DOMAIN blockVersions'[b] : HomeOf(t) \in blockVersions'[b][n].sources

PublishesFound(revived) ==
    \A b \in Blocks : \A t \in blocks'[b].value :
        t = Erased \/ t \in blocks[b].value \/ HomeOf(t) \in revived \/ Found(b, t)

\* The writes of the builds, compactions, rollbacks and attachments.
LEMMA WritesKeepCopies ==
    ASSUME CopiesFit, ProfileStays, ThreadsHold, NEW p \in Threads, ThreadWrites(p)
    PROVE  CopiesFit' /\ BlockVersionsStay /\ CopiesAdd(WrittenBy(p)) /\ PublishesFound(Revived(p))
<1> DEFINE b == thread[p].obj
           v == thread[p].version
           snap == thread[p].snap
<1>1. /\ snap \in Snapshots /\ \A s \in snap : AtHome(s[3], s[1])
      /\ v \in BlockVersionRow /\ Covers(v.sources, v.value)
      /\ thread[p].pc \in Building \cup Publishing => b \in Blocks
      /\ thread[p].pc \in Publishing => thread[p].v \in DOMAIN blockVersions[b]
      /\ thread[p].pc = "attach" => b \in Attachments
  BY DEF ThreadsHold, Holds
<1>2. CASE BuildVersion(p)
  <2> DEFINE w == BlockVersion(snap)
  <2>1. /\ b \in Blocks /\ blockVersions' = [blockVersions EXCEPT ![b] = Append(@, w)]
        /\ UNCHANGED <<blocks, attachments>>
    BY <1>1, <1>2 DEF BuildVersion, Building
  <2>2. w \in BlockVersionRow /\ Covers(w.sources, w.value) /\ w.value \subseteq WrittenBy(p)
    BY <1>1, SnapshotVersion DEF WrittenBy
  <2> HIDE DEF w
  <2>3. /\ BlockVersionsFit' /\ BlockVersionsStay
        /\ \A d \in Blocks : \A n \in DOMAIN blockVersions'[d] :
              n \in DOMAIN blockVersions[d] \/ blockVersions'[d][n] = w
    BY <2>1, <2>2, AppendedVersion DEF CopiesFit
  <2>4. BlocksFit' /\ AttachmentsFit'
    BY <2>1, UntouchedCopies
  <2>5. CopiesAdd(WrittenBy(p))
    BY <2>1, <2>2, <2>3 DEF CopiesAdd, BlockVersionsStay
  <2>6. PublishesFound(Revived(p))
    BY <2>1 DEF PublishesFound
  <2> QED
    BY <2>3, <2>4, <2>5, <2>6 DEF CopiesFit
<1>3. CASE BuildPublish(p) \/ RollbackWrite(p)
  <2>1. /\ thread[p].pc \in Publishing /\ UNCHANGED <<blockVersions, attachments>>
        /\ blocks' = blocks \/ blocks' = [blocks EXCEPT ![b] = Published(b, thread[p].v, v)]
    BY <1>3 DEF BuildPublish, RollbackWrite, Publishing
  <2>2. b \in Blocks /\ thread[p].v \in DOMAIN blockVersions[b] /\ thread[p].v \in Nat
    <3>1. b \in Blocks /\ thread[p].v \in DOMAIN blockVersions[b]
      BY <1>1, <2>1
    <3>2. DOMAIN blockVersions[b] \subseteq Nat
      BY <3>1 DEF CopiesFit, BlockVersionsFit
    <3> QED
      BY <3>1, <3>2
  <2>3. BlockVersionsFit' /\ BlockVersionsStay /\ AttachmentsFit'
    BY <2>1, UntouchedCopies
  <2>4. /\ Published(b, thread[p].v, v) \in BlockRow
        /\ Published(b, thread[p].v, v).value = v.value
    BY <1>1, <2>2, PublishedRow DEF CopiesFit
  <2>5. BlocksFit' /\ \A d \in Blocks : blocks'[d].value \in {blocks[d].value, v.value}
                   /\ (d # b => blocks'[d].value = blocks[d].value)
    <3> HIDE DEF b, v
    <3> QED
      BY <2>1, <2>2, <2>4 DEF CopiesFit, BlocksFit
  <2>6. CopiesAdd(WrittenBy(p))
    BY <2>1, <2>5 DEF CopiesAdd, WrittenBy
  <2>7. ASSUME NEW t \in v.value, t # Erased PROVE HomeOf(t) \in Revived(p) \/ Found(b, t)
    <3>1. HomeOf(t) \in v.sources
      BY <1>1, <2>7 DEF Covers
    <3>2. CASE blockVersions[b][thread[p].v] = v
      BY <2>1, <2>2, <3>1, <3>2 DEF Found
    <3>3. CASE blockVersions[b][thread[p].v] # v
      BY <2>1, <3>1, <3>3 DEF Revived, Publishing
    <3> QED
      BY <3>2, <3>3
  <2>8. PublishesFound(Revived(p))
    <3> HIDE DEF b, v
    <3> QED
      BY <2>5, <2>7 DEF PublishesFound
  <2> QED
    BY <2>3, <2>5, <2>6, <2>8 DEF CopiesFit
<1>4. CASE CompactPublish(p)
  <2>0. b \in Blocks /\ UNCHANGED attachments
    BY <1>1, <1>4 DEF CompactPublish, Building
  <2>1. CASE UNCHANGED <<blocks, blockVersions>>
    <3>1. CopiesFit' /\ BlockVersionsStay
      BY <2>0, <2>1, UntouchedCopies DEF CopiesFit
    <3> QED
      BY <2>0, <2>1, <3>1 DEF CopiesAdd, PublishesFound
  <2>2. ASSUME NEW kept \in SUBSET snap, NEW w, w = [BlockVersion(kept) EXCEPT !.snap = snap],
               blockVersions' = [blockVersions EXCEPT ![b] = Append(@, w)],
               blocks' = [blocks EXCEPT ![b] = Published(b, Len(blockVersions[b]) + 1, w)]
        PROVE  CopiesFit' /\ BlockVersionsStay /\ CopiesAdd(WrittenBy(p)) /\ PublishesFound(Revived(p))
    <3>1. /\ w.value = BlockVersion(kept).value /\ w.sources = BlockVersion(kept).sources
          /\ w \in BlockVersionRow /\ BlockVersion(kept).value \subseteq WrittenBy(p)
          /\ Covers(w.sources, w.value)
      <4>1. w.value = BlockVersion(kept).value /\ w.sources = BlockVersion(kept).sources
        BY <2>2 DEF BlockVersion
      <4> QED
        BY <1>1, <2>2, <4>1, SnapshotVersion DEF WrittenBy
    <3> HIDE DEF b, v, snap
    <3>2. /\ BlockVersionsFit' /\ BlockVersionsStay
          /\ \A d \in Blocks : \A n \in DOMAIN blockVersions'[d] :
                n \in DOMAIN blockVersions[d] \/ blockVersions'[d][n] = w
          /\ \E n \in DOMAIN blockVersions'[b] : blockVersions'[b][n] = w
      <4>1. BlockVersionsFit
        BY DEF CopiesFit
      <4>2. b \in Blocks /\ w \in BlockVersionRow /\ Covers(w.sources, w.value)
        BY <2>0, <3>1
      <4>3. blockVersions' = [blockVersions EXCEPT ![b] = Append(@, w)]
        BY <2>2
      <4> HIDE <2>2
      <4> QED
        BY <4>1, <4>2, <4>3, AppendedVersion
    <3>3. Len(blockVersions[b]) + 1 \in Nat
      BY <2>0 DEF CopiesFit, BlockVersionsFit
    <3>4. /\ Published(b, Len(blockVersions[b]) + 1, w) \in BlockRow
          /\ Published(b, Len(blockVersions[b]) + 1, w).value = w.value
      BY <2>0, <3>1, <3>3, PublishedRow DEF CopiesFit
    <3>5. /\ BlocksFit' /\ blocks'[b].value = w.value
          /\ \A d \in Blocks \ {b} : blocks'[d].value = blocks[d].value
      BY <2>0, <2>2, <3>4 DEF CopiesFit, BlocksFit
    <3>6. AttachmentsFit'
      BY <2>0, UntouchedCopies
    <3>7. CopiesAdd(WrittenBy(p))
      BY <2>0, <3>1, <3>2, <3>5 DEF CopiesAdd, BlockVersionsStay
    <3>8. \A t \in w.value : t = Erased \/ Found(b, t)
      BY <3>1, <3>2 DEF Covers, Found
    <3>9. PublishesFound(Revived(p))
      BY <3>5, <3>8 DEF PublishesFound
    <3> QED
      BY <3>2, <3>5, <3>6, <3>7, <3>9 DEF CopiesFit
  <2> QED
    BY <1>4, <2>1, <2>2 DEF CompactPublish
<1>5. CASE AttachWrite(p)
  <2>1. /\ b \in Attachments /\ UNCHANGED <<blocks, blockVersions>>
        /\ attachments' = [attachments EXCEPT ![b] =
              [status |-> "active", text |-> v.value, sources |-> v.sources]]
    BY <1>1, <1>5 DEF AttachWrite
  <2>2. BlocksFit' /\ BlockVersionsFit' /\ BlockVersionsStay
    BY <2>1, UntouchedCopies
  <2>3. Covers(v.sources, v.value) /\ v.value \in SUBSET Texts /\ v.sources \in SUBSET Memories
    BY <1>1 DEF BlockVersionRow
  <2>4. ASSUME NEW w, w = v PROVE AttachmentsFit' /\ CopiesAdd(WrittenBy(p))
    <3>1. [status |-> "active", text |-> w.value, sources |-> w.sources] \in AttachmentRow
      BY <2>3, <2>4 DEF AttachmentRow
    <3>2. /\ attachments'[b].text = w.value /\ attachments'[b].sources = w.sources
          /\ \A a \in Attachments \ {b} : attachments'[a] = attachments[a]
          /\ attachments' \in [Attachments -> AttachmentRow]
      BY <2>1, <2>4, <3>1 DEF CopiesFit, AttachmentsFit
    <3>3. ASSUME NEW a \in Attachments, NEW y, y = attachments'[a] PROVE Covers(y.sources, y.text)'
      <4>1. Covers(y.sources, y.text)
        BY <2>3, <2>4, <3>2, <3>3 DEF CopiesFit, AttachmentsFit
      <4> QED
        BY <4>1, CoversStays
    <3>4. \A a \in Attachments : Covers(attachments[a].sources, attachments[a].text)'
      BY <3>3
    <3> QED
      BY <2>1, <2>4, <3>2, <3>4 DEF AttachmentsFit, CopiesAdd, WrittenBy
  <2> QED
    BY <2>1, <2>2, <2>4 DEF CopiesFit, PublishesFound
<1> QED
  BY <1>2, <1>3, <1>4, <1>5 DEF ThreadWrites

\* A block that is erased, or shows what it showed and is found where it was.
BlockKept(b) ==
    /\ DOMAIN blockVersions'[b] = DOMAIN blockVersions[b]
    /\ \/ \A t \in blocks'[b].value : t = Erased
       \/ blocks'[b].value = blocks[b].value /\ blockVersions'[b] = blockVersions[b]

CopiesKept == CopiesFit' /\ CopiesAdd({Erased}) /\ \A b \in Blocks : BlockKept(b)

\* No copy is touched.
LEMMA CopiesUntouched ==
    ASSUME CopiesFit, ProfileStays, UNCHANGED <<blocks, blockVersions, attachments>>
    PROVE  CopiesKept
<1>1. CopiesFit'
  BY UntouchedCopies DEF CopiesFit
<1> QED
  BY <1>1 DEF CopiesKept, CopiesAdd, BlockKept

\* Blocks and attachments go stale.
LEMMA InvalidationKeepsCopies ==
    ASSUME CopiesFit, ProfileStays, NEW p \in Threads, InvalidateDependencies(p)
    PROVE  CopiesKept
<1>1. PICK stale \in SUBSET Blocks :
        blocks' = [b \in Blocks |->
           IF b \in stale THEN [blocks[b] EXCEPT !.build = "stale"] ELSE blocks[b]]
  <2>1. BlocksWith(TargetOf[thread[p].obj]) \in SUBSET Blocks
    BY DEF BlocksWith
  <2> QED
    BY <2>1 DEF InvalidateDependencies
<1>2. PICK m :
        attachments' = [a \in Attachments |->
           IF m \in attachments[a].sources
           THEN [attachments[a] EXCEPT !.status = "stale"] ELSE attachments[a]]
  BY DEF InvalidateDependencies
<1>3. UNCHANGED blockVersions
  BY DEF InvalidateDependencies
<1>4. \A b \in Blocks :
        /\ [blocks[b] EXCEPT !.build = "stale"] \in BlockRow
        /\ [blocks[b] EXCEPT !.build = "stale"].value = blocks[b].value
  BY DEF CopiesFit, BlocksFit, BlockRow
<1>5. \A a \in Attachments :
        /\ [attachments[a] EXCEPT !.status = "stale"] \in AttachmentRow
        /\ [attachments[a] EXCEPT !.status = "stale"].text = attachments[a].text
        /\ [attachments[a] EXCEPT !.status = "stale"].sources = attachments[a].sources
  BY DEF CopiesFit, AttachmentsFit, AttachmentRow
<1>6. BlocksFit' /\ \A b \in Blocks : blocks'[b].value = blocks[b].value
  BY <1>1, <1>4 DEF CopiesFit, BlocksFit
<1>7. BlockVersionsFit'
  BY <1>3, UntouchedCopies
<1>8. /\ attachments' \in [Attachments -> AttachmentRow]
      /\ \A a \in Attachments : /\ attachments'[a].text = attachments[a].text
                                /\ attachments'[a].sources = attachments[a].sources
  BY <1>2, <1>5 DEF CopiesFit, AttachmentsFit
<1>9. ASSUME NEW a \in Attachments, NEW s, NEW t, s = attachments'[a].sources, t = attachments'[a].text
      PROVE  Covers(s, t)'
  BY <1>8, <1>9, CoversStays DEF CopiesFit, AttachmentsFit
<1>10. \A a \in Attachments : Covers(attachments[a].sources, attachments[a].text)'
  BY <1>9
<1>11. AttachmentsFit'
  BY <1>8, <1>10 DEF AttachmentsFit
<1> QED
  BY <1>3, <1>6, <1>7, <1>8, <1>11 DEF CopiesKept, CopiesFit, CopiesAdd, BlockKept

\* The erasures of the blocks and the attachments.
LEMMA ErasureKeepsCopies ==
    ASSUME CopiesFit, ProfileStays, EraseBlocks \/ QuarantineAttachments \/ EraseAttachments
    PROVE  CopiesKept
<1>1. CASE EraseBlocks
  <2>1. PICK listed : listed = Listed.blocks
    OBVIOUS
  <2> DEFINE row(b) == [blocks[b] EXCEPT !.value = {Erased}, !.build = "stale", !.status = "redacted"]
             ver(b, n) == [blockVersions[b][n] EXCEPT !.value = {Erased}, !.sources = {}]
  <2>2. /\ blocks' = [b \in Blocks |-> IF b \in listed THEN row(b) ELSE blocks[b]]
        /\ blockVersions' = [b \in Blocks |-> IF b \in listed
              THEN [n \in DOMAIN blockVersions[b] |-> ver(b, n)] ELSE blockVersions[b]]
        /\ UNCHANGED attachments
    BY <1>1, <2>1 DEF EraseBlocks
  <2>3. {Erased} \in SUBSET Texts /\ {} \in SUBSET Memories
    BY DEF Texts
  <2>4. ASSUME NEW b \in Blocks PROVE row(b) \in BlockRow /\ row(b).value = {Erased}
    <3>1. blocks[b] \in BlockRow
      BY DEF CopiesFit, BlocksFit
    <3> DEFINE e1 == [blocks[b] EXCEPT !.value = {Erased}]
               e2 == [e1 EXCEPT !.build = "stale"]
    <3>2. e1 \in BlockRow /\ e1.value = {Erased}
      BY <2>3, <3>1 DEF BlockRow
    <3> HIDE DEF e1
    <3>3. e2 \in BlockRow /\ e2.value = {Erased}
      BY <3>2 DEF BlockRow
    <3> HIDE DEF e2
    <3>4. /\ [e2 EXCEPT !.status = "redacted"] \in BlockRow
          /\ [e2 EXCEPT !.status = "redacted"].value = {Erased}
      BY <3>3 DEF BlockRow
    <3>5. row(b) = [e2 EXCEPT !.status = "redacted"]
      BY <3>1 DEF e1, e2, BlockRow
    <3> QED
      BY <3>4, <3>5
  <2>5. ASSUME NEW b \in Blocks, NEW n \in DOMAIN blockVersions[b]
        PROVE  ver(b, n) \in BlockVersionRow /\ ver(b, n).value = {Erased} /\ ver(b, n).sources = {}
    <3>1. blockVersions[b][n] \in BlockVersionRow
      BY DEF CopiesFit, BlockVersionsFit
    <3> DEFINE e1 == [blockVersions[b][n] EXCEPT !.value = {Erased}]
    <3>2. e1 \in BlockVersionRow /\ e1.value = {Erased}
      BY <2>3, <3>1 DEF BlockVersionRow
    <3>3. ver(b, n) = [e1 EXCEPT !.sources = {}]
      BY <3>1 DEF BlockVersionRow
    <3> HIDE DEF e1
    <3>4. [e1 EXCEPT !.sources = {}] \in BlockVersionRow /\ [e1 EXCEPT !.sources = {}].value = {Erased}
          /\ [e1 EXCEPT !.sources = {}].sources = {}
      BY <2>3, <3>2 DEF BlockVersionRow
    <3> QED
      BY <3>3, <3>4
  <2> HIDE DEF row, ver
  <2>6. BlocksFit'
    BY <2>2, <2>4 DEF CopiesFit, BlocksFit
  <2>7. ASSUME NEW b \in Blocks
        PROVE  /\ blockVersions'[b] \in Seq(BlockVersionRow)
               /\ DOMAIN blockVersions'[b] = DOMAIN blockVersions[b]
    <3>1. /\ blockVersions[b] \in Seq(BlockVersionRow) /\ Len(blockVersions[b]) \in Nat
          /\ DOMAIN blockVersions[b] = 1 .. Len(blockVersions[b])
      BY DEF CopiesFit, BlockVersionsFit
    <3>2. CASE b \in listed
      <4>1. blockVersions'[b] = [n \in 1 .. Len(blockVersions[b]) |-> ver(b, n)]
        BY <2>2, <3>1, <3>2
      <4>2. /\ blockVersions'[b] = [n \in 1 .. Len(blockVersions[b]) |-> blockVersions'[b][n]]
            /\ \A n \in 1 .. Len(blockVersions[b]) : blockVersions'[b][n] \in BlockVersionRow
        BY <2>5, <3>1, <4>1
      <4> QED
        BY <3>1, <4>1, <4>2, FunctionIsSeq
    <3>3. CASE b \notin listed
      BY <2>2, <3>1, <3>3
    <3> QED
      BY <3>2, <3>3
  <2>8. ASSUME NEW b \in Blocks, NEW n \in DOMAIN blockVersions'[b], NEW w, w = blockVersions'[b][n]
        PROVE  Covers(w.sources, w.value)'
    <3>1. CASE b \in listed
      <4>1. w = ver(b, n)
        BY <2>2, <2>7, <2>8, <3>1
      <4>2. w.sources = {} /\ w.value = {Erased}
        BY <2>5, <2>7, <2>8, <4>1
      <4>3. Covers({}, {Erased})
        BY DEF Covers
      <4> QED
        BY <4>2, <4>3, CoversStays
    <3>2. CASE b \notin listed
      BY <2>2, <2>7, <2>8, <3>2, CoversStays DEF CopiesFit, BlockVersionsFit
    <3> QED
      BY <3>1, <3>2
  <2>9. BlockVersionsFit'
    <3>1. \A b \in Blocks : \A n \in DOMAIN blockVersions'[b] :
            Covers(blockVersions[b][n].sources, blockVersions[b][n].value)'
      BY <2>8
    <3> QED
      BY <2>2, <2>7, <3>1 DEF BlockVersionsFit
  <2>10. AttachmentsFit'
    BY <2>2, UntouchedCopies
  <2>11. \A b \in Blocks : BlockKept(b)
    BY <2>2, <2>4, <2>7 DEF BlockKept
  <2>12. CopiesAdd({Erased})
    <3>1. ASSUME NEW b \in Blocks, NEW n \in DOMAIN blockVersions'[b]
          PROVE  /\ blocks'[b].value \subseteq blocks[b].value \cup {Erased}
                 /\ n \in DOMAIN blockVersions[b]
                 /\ blockVersions'[b][n].value \subseteq blockVersions[b][n].value \cup {Erased}
      BY <2>2, <2>4, <2>5, <2>7, <3>1
    <3>2. \A b \in Blocks : blocks'[b].value \subseteq blocks[b].value \cup {Erased}
      BY <2>2, <2>4
    <3> QED
      BY <2>2, <3>1, <3>2 DEF CopiesAdd
  <2> QED
    BY <2>6, <2>9, <2>10, <2>11, <2>12 DEF CopiesKept, CopiesFit
<1>2. CASE QuarantineAttachments \/ EraseAttachments
  <2>1. UNCHANGED <<blocks, blockVersions>>
    BY <1>2 DEF QuarantineAttachments, EraseAttachments
  <2>2. ASSUME NEW a \in Attachments, NEW row, row = attachments'[a]
        PROVE  /\ row \in AttachmentRow /\ row.text \subseteq attachments[a].text
               /\ Covers(row.sources, row.text)
    <3>1. attachments[a] \in AttachmentRow /\ Covers(attachments[a].sources, attachments[a].text)
      BY DEF CopiesFit, AttachmentsFit
    <3>2. \/ row = attachments[a]
          \/ row = [attachments[a] EXCEPT !.status = "stale"]
          \/ row = [status |-> "redacted", text |-> {}, sources |-> {}]
      BY <1>2, <2>2 DEF QuarantineAttachments, EraseAttachments
    <3> QED
      BY <3>1, <3>2 DEF AttachmentRow, Covers
  <2>3. \A a \in Attachments : Covers(attachments[a].sources, attachments[a].text)'
    <3>1. ASSUME NEW a \in Attachments, NEW row, row = attachments'[a]
          PROVE  Covers(row.sources, row.text)'
      BY <2>2, <3>1, CoversStays
    <3> QED
      BY <3>1
  <2>4. attachments' = [a \in Attachments |-> attachments'[a]]
    BY <1>2 DEF QuarantineAttachments, EraseAttachments
  <2>5. AttachmentsFit'
    BY <2>2, <2>3, <2>4 DEF AttachmentsFit
  <2>6. BlocksFit' /\ BlockVersionsFit'
    BY <2>1, UntouchedCopies
  <2> QED
    BY <2>1, <2>2, <2>5, <2>6 DEF CopiesKept, CopiesFit, CopiesAdd, BlockKept
<1> QED
  BY <1>1, <1>2
\* The texts of a request, of which a step adds none to a copy.
CopiesListed(r) ==
    /\ \A b \in Blocks : \A t \in BlockTexts(b)' : t \in privacy[r].texts => t \in BlockTexts(b)
    /\ \A a \in Attachments : \A t \in attachments'[a].text :
          t \in privacy[r].texts => t \in attachments[a].text

VersionNumbersStay == \A b \in Blocks : DOMAIN blockVersions[b] \subseteq DOMAIN blockVersions'[b]

\* Copies that get no text of a request.
LEMMA AddedCopies ==
    ASSUME NEW r \in Requests, NEW texts, CopiesAdd(texts), texts \cap privacy[r].texts = {}
    PROVE  CopiesListed(r)
<1>1. ASSUME NEW b \in Blocks, NEW t \in BlockTexts(b)', t \in privacy[r].texts
      PROVE  t \in BlockTexts(b)
  <2>1. t \notin texts
    BY <1>1
  <2>2. t \in blocks'[b].value \/ \E n \in DOMAIN blockVersions'[b] : t \in blockVersions'[b][n].value
    BY <1>1 DEF BlockTexts
  <2> QED
    BY <2>1, <2>2 DEF CopiesAdd, BlockTexts
<1> QED
  BY <1>1 DEF CopiesListed, CopiesAdd

\* A block that shows what it showed is found where it was.
LEMMA KeptBlocksAreFound ==
    ASSUME ProfileStays, CopiesKept, NEW m, ShownFound(m)
    PROVE  ShownFound(m)'
<1> SUFFICES ASSUME NEW b \in Blocks, NEW t \in blocks'[b].value, t # Erased, HomeOf(t)' = m
             PROVE  b \in BlocksWith(m)'
  BY DEF ShownFound
<1>1. blocks'[b].value = blocks[b].value /\ blockVersions'[b] = blockVersions[b]
  BY DEF CopiesKept, BlockKept
<1>2. HomeOf(t) = m
  BY DEF HomeOf, ProfileStays
<1>3. b \in BlocksWith(m)
  BY <1>1, <1>2 DEF ShownFound
<1> QED
  BY <1>1, <1>3 DEF BlocksWith

\* What a thread publishes is found, unless it revives the memory.
LEMMA PublishedBlocksAreFound ==
    ASSUME ProfileStays, BlockVersionsStay, NEW revived, PublishesFound(revived),
           NEW m, m \notin revived, ShownFound(m)
    PROVE  ShownFound(m)'
<1> SUFFICES ASSUME NEW b \in Blocks, NEW t \in blocks'[b].value, t # Erased, HomeOf(t)' = m
             PROVE  b \in BlocksWith(m)'
  BY DEF ShownFound
<1>1. HomeOf(t) = m
  BY DEF HomeOf, ProfileStays
<1>2. b \in BlocksWith(m) \/ Found(b, t)
  BY <1>1 DEF PublishesFound, ShownFound
<1>3. b \in BlocksWith(m) => b \in BlocksWith(m)'
  BY DEF BlocksWith, BlockVersionsStay
<1>4. Found(b, t) => b \in BlocksWith(m)'
  BY <1>1 DEF BlocksWith, Found
<1> QED
  BY <1>2, <1>3, <1>4

\* What a step does to the copies, for a request that it does not make late.
CopiesStay(r) ==
    /\ CopiesListed(r)
    /\ privacy[r].status = "none" /\ ShownFound(TargetOf[r]) => ShownFound(TargetOf[r])'

\* Copies that only erasures touch.
LEMMA KeptCopiesStay ==
    ASSUME RequestsFit, ProfileStays, CopiesKept
    PROVE  CopiesFit' /\ VersionNumbersStay /\ \A r \in Requests : CopiesStay(r)
<1>1. CopiesFit' /\ VersionNumbersStay
  BY DEF CopiesKept, BlockKept, VersionNumbersStay
<1>2. ASSUME NEW r \in Requests PROVE CopiesStay(r)
  <2>1. {Erased} \cap privacy[r].texts = {}
    BY StoreAssumption DEF RequestsFit, PrivacyRow
  <2>2. CopiesListed(r)
    BY <2>1, AddedCopies DEF CopiesKept
  <2> QED
    BY <2>2, KeptBlocksAreFound DEF CopiesStay
<1> QED
  BY <1>1, <1>2

\* Every step keeps the copies covered, and adds no text of a request to one
\* unless it makes the request late.
LEMMA CopiesStep ==
    ASSUME CopiesFit, ThreadsHold, RequestsFit, ProfileStays, [Next]_vars
    PROVE  /\ CopiesFit' /\ VersionNumbersStay
           /\ \A r \in Requests : late'[r] = {} => CopiesStay(r)
<1> DEFINE Goal == /\ CopiesFit' /\ VersionNumbersStay
                   /\ \A r \in Requests : late'[r] = {} => CopiesStay(r)
<1> SUFFICES Goal
  OBVIOUS
<1>1. CopiesKept => Goal
  BY KeptCopiesStay
<1>2. UNCHANGED <<blocks, blockVersions, attachments>> => Goal
  BY <1>1, CopiesUntouched
<1>3. ASSUME NEW p \in Threads, ThreadWrites(p), Writes(WrittenBy(p), Revived(p))
      PROVE  Goal
  <2>1. CopiesFit' /\ BlockVersionsStay /\ CopiesAdd(WrittenBy(p)) /\ PublishesFound(Revived(p))
    BY <1>3, WritesKeepCopies
  <2>2. VersionNumbersStay
    BY <2>1 DEF BlockVersionsStay, VersionNumbersStay
  <2>3. ASSUME NEW r \in Requests, late'[r] = {} PROVE CopiesStay(r)
    <3>1. /\ WrittenBy(p) \cap privacy[r].texts = {}
          /\ privacy[r].status = "none" => TargetOf[r] \notin Revived(p)
      BY <1>3, <2>3 DEF Writes
    <3>2. CopiesListed(r)
      BY <2>1, <3>1, AddedCopies
    <3> QED
      BY <2>1, <3>1, <3>2, PublishedBlocksAreFound DEF CopiesStay
  <2> QED
    BY <2>1, <2>2, <2>3
<1> HIDE DEF Goal
<1>4. ASSUME NEW p \in Threads, ThreadWrites(p),
             IF UNCHANGED <<blocks, blockVersions, attachments>> THEN UNCHANGED late
             ELSE Writes(thread[p].version.value \cup {s[3] : s \in thread[p].snap}, Revived(p))
      PROVE  Goal
  BY <1>2, <1>3, <1>4 DEF WrittenBy
<1>5. CASE CorrectionNext
  <2>1. ASSUME NEW p \in Threads, InvalidateDependencies(p) PROVE Goal
    BY <1>1, <2>1, InvalidationKeepsCopies
  <2>2. ASSUME NEW p \in Threads, CreateNewVersion(p) \/ SetStatus(p) \/ FinishRequest(p)
        PROVE  UNCHANGED <<blocks, blockVersions, attachments>>
    BY <2>2 DEF CreateNewVersion, SetStatus, FinishRequest
  <2>3. ASSUME NEW x \in Changes, CreateRequest(x) \/ CancelRequest(x)
        PROVE  UNCHANGED <<blocks, blockVersions, attachments>>
    BY <2>3 DEF CreateRequest, CancelRequest, activeVars
  <2>4. ASSUME NEW p \in Threads, NEW x \in Changes, ApplyRead(p, x) \/ UndoRead(p, x)
        PROVE  UNCHANGED <<blocks, blockVersions, attachments>>
    BY <2>4 DEF ApplyRead, UndoRead
  <2> QED
    BY <1>2, <1>5, <2>1, <2>2, <2>3, <2>4 DEF CorrectionNext
<1>6. CASE PrivacyNext
  <2>1. CASE EraseBlocks \/ QuarantineAttachments \/ EraseAttachments
    BY <1>1, <2>1, ErasureKeepsCopies
  <2>2. CASE QuarantineMemory \/ EraseMemory \/ EraseFts \/ EraseEmbeddings \/ AdapterFails
             \/ CreateReceipt \/ CloseRequest \/ CrashAndRecover
    BY <1>2, <2>2 DEF QuarantineMemory, EraseMemory, EraseFts, EraseEmbeddings, AdapterFails,
                      CreateReceipt, CloseRequest, CrashAndRecover, activeVars
  <2>3. ASSUME NEW r \in Requests,
               PreviewRequest(r) \/ ConfirmRequest(r) \/ ExecuteRequest(r) \/ RetryRequest(r)
        PROVE  UNCHANGED <<blocks, blockVersions, attachments>>
    BY <2>3 DEF PreviewRequest, ConfirmRequest, ExecuteRequest, RetryRequest, activeVars
  <2> QED
    BY <1>2, <1>6, <2>1, <2>2, <2>3 DEF PrivacyNext
<1>7. ASSUME NEW p \in Threads, ActiveNext(p) PROVE UNCHANGED <<blocks, blockVersions, attachments>>
  BY <1>7 DEF ActiveNext, BuildStart, RebuildStale, CompactStart, RollbackRead, AttachRead, BuildCheck
<1> QED
  BY <1>2, <1>4, <1>5, <1>6, <1>7 DEF Next, vars, activeVars
-----------------------------------------------------------------------------
(* What the threads have read.                                              *)

\* What was at home, covered and numbered stays so.
LEMMA HeldStays ==
    ASSUME ProfileStays, LinksGrow, VersionNumbersStay, NEW t, Holds(t)
    PROVE  Holds(t)'
<1>1. \A text, m : AtHome(text, m) => AtHome(text, m)'
  BY DEF AtHome, HomeOf, ProfileStays
<1>2. Covers(t.version.sources, t.version.value)'
  BY CoversStays DEF Holds
<1>3. IsLinked(t.text) => IsLinked(t.text)'
  BY DEF IsLinked, LinksGrow
<1>4. t.pc \in Publishing => t.v \in DOMAIN blockVersions'[t.obj]
  BY DEF Holds, VersionNumbersStay
<1> QED
  BY <1>1, <1>2, <1>3, <1>4 DEF Holds

\* An idle thread holds nothing.
LEMMA IdleHolds == Holds(Idle) /\ Holds(Idle)'
<1>1. /\ Idle.snap = {} /\ Idle.pc = "idle"
      /\ Idle.version = [value |-> {}, sources |-> {}, snap |-> {}]
  BY DEF Idle, BlockVersion
<1>2. {} \in Snapshots /\ Idle.version \in BlockVersionRow
  BY <1>1 DEF Snapshots, BlockVersionRow
<1>3. Covers(Idle.version.sources, Idle.version.value)
      /\ Covers(Idle.version.sources, Idle.version.value)'
  BY <1>1 DEF Covers
<1>4. "idle" \notin Building \cup Publishing
  BY DEF Building, Publishing
<1> QED
  BY <1>1, <1>2, <1>3, <1>4 DEF Holds

\* One thread goes on to t, and all the others stay.
LEMMA HoldingMoves ==
    ASSUME ThreadsRead, ThreadsHold, ProfileStays, LinksGrow, VersionNumbersStay,
           NEW p \in Threads, NEW t, Becomes(p, t), Holds(t)'
    PROVE  ThreadsHold'
<1>1. thread'[p] = t /\ \A q \in Threads \ {p} : thread'[q] = thread[q]
  BY DEF ThreadsRead, Becomes
<1>2. ASSUME NEW q \in Threads, NEW u, u = thread'[q] PROVE Holds(u)'
  <2>1. CASE q = p
    BY <1>1, <1>2, <2>1
  <2>2. CASE q # p
    BY <1>1, <1>2, <2>2, HeldStays DEF ThreadsHold
  <2> QED
    BY <2>1, <2>2
<1>3. \A q \in Threads : Holds(thread[q])'
  BY <1>2
<1> QED
  BY <1>3 DEF ThreadsHold

\* No thread moves.
LEMMA HoldingStays ==
    ASSUME ThreadsHold, ProfileStays, LinksGrow, VersionNumbersStay, UNCHANGED thread
    PROVE  ThreadsHold'
<1>1. ASSUME NEW q \in Threads, NEW u, u = thread'[q] PROVE Holds(u)'
  BY <1>1, HeldStays DEF ThreadsHold
<1>2. \A q \in Threads : Holds(thread[q])'
  BY <1>1
<1> QED
  BY <1>2 DEF ThreadsHold

\* A thread that reads nothing more.
LEMMA HoldingEnds ==
    ASSUME ThreadsRead, ThreadsHold, ProfileStays, LinksGrow, VersionNumbersStay,
           NEW p \in Threads, Ends(p)
    PROVE  ThreadsHold'
  BY IdleHolds, HoldingMoves DEF Ends

\* A thread that goes on to another place with what it has read.
LEMMA HoldingGoesOn ==
    ASSUME NEW t, Holds(t), NEW pc, pc \in {"checked", "invalidate", "finish"},
           pc = "checked" => t.pc \in Building
    PROVE  Holds([t EXCEPT !.pc = pc])
<1> DEFINE u == [t EXCEPT !.pc = pc]
<1>1. DOMAIN Idle = {"pc", "obj", "n", "v", "text", "snap", "version"}
  BY DEF Idle
<1>2. /\ DOMAIN u = DOMAIN t /\ u.pc = pc /\ u.obj = t.obj
      /\ u.snap = t.snap /\ u.version = t.version
  BY <1>1 DEF Holds
<1> HIDE DEF u
<1> QED
  BY <1>2 DEF Holds, Building, Publishing

\* The canonical sources are texts of the memories they name.
LEMMA SourcesAtHome ==
    ASSUME VersionInv, TextsFit
    PROVE  CanonicalSources \in Snapshots /\ \A s \in CanonicalSources : AtHome(s[3], s[1])
<1>1. ASSUME NEW m \in Memories, memory[m].status = "active"
      PROVE  /\ memory[m].current \in Nat /\ Current(m).text \in Texts
             /\ AtHome(Current(m).text, m)
  <2>1. /\ versions[m] \in Seq(VersionRow) /\ memory[m].current \in Nat
        /\ memory[m].current = Len(versions[m]) /\ memory[m].current # 0
    BY <1>1 DEF VersionInv, RowTypes, MemoryRow, MemoriesChained, Chained, TextsFit, ActiveKnown, Known
  <2>2. memory[m].current \in DOMAIN versions[m] /\ versions[m][memory[m].current] \in VersionRow
    BY <2>1
  <2> QED
    BY <2>1, <2>2 DEF Current, VersionRow, TextsFit, VersionsAtHome
<1>2. \A s \in CanonicalSources : s \in Memories \X Nat \X Texts /\ AtHome(s[3], s[1])
  BY <1>1 DEF CanonicalSources
<1> QED
  BY <1>2 DEF Snapshots

\* What a build, a compaction, a rollback or an attachment reads.
LEMMA ActiveReadsHold ==
    ASSUME VersionInv, TextsFit, CopiesFit, ThreadsHold, NEW p \in Threads, ActiveNext(p)
    PROVE  \E t : Becomes(p, t) /\ Holds(t)
<1>1. /\ DOMAIN Idle = {"pc", "obj", "n", "v", "text", "snap", "version"}
      /\ Idle.snap = {} /\ {} \in Snapshots
      /\ Idle.version \in BlockVersionRow /\ Covers(Idle.version.sources, Idle.version.value)
  BY IdleHolds DEF Holds, Idle
<1>2. CanonicalSources \in Snapshots /\ \A s \in CanonicalSources : AtHome(s[3], s[1])
  BY SourcesAtHome
<1>3. ASSUME NEW b \in Blocks, NEW pc \in {"build", "compact"},
             Becomes(p, [Idle EXCEPT !.pc = pc, !.obj = b, !.n = blocks[b].lock,
                                     !.snap = CanonicalSources])
      PROVE  \E t : Becomes(p, t) /\ Holds(t)
  <2> DEFINE t == [Idle EXCEPT !.pc = pc, !.obj = b, !.n = blocks[b].lock, !.snap = CanonicalSources]
  <2>1. /\ DOMAIN t = DOMAIN Idle /\ t.pc = pc /\ t.obj = b /\ t.snap = CanonicalSources
        /\ t.version = Idle.version
    BY <1>1
  <2> HIDE DEF t
  <2>2. Holds(t)
    BY <1>1, <1>2, <2>1 DEF Holds, Building, Publishing
  <2> QED
    BY <1>3, <2>2 DEF t
<1>4. ASSUME NEW b \in Blocks, NEW n \in DOMAIN blockVersions[b], RollbackRead(p, b, n)
      PROVE  \E t : Becomes(p, t) /\ Holds(t)
  <2> DEFINE t == [Idle EXCEPT !.pc = "rollback", !.obj = b, !.v = n, !.version = blockVersions[b][n]]
  <2>1. /\ DOMAIN t = DOMAIN Idle /\ t.pc = "rollback" /\ t.obj = b /\ t.snap = {}
        /\ t.v = n /\ t.version = blockVersions[b][n]
    BY <1>1
  <2> HIDE DEF t
  <2>2. t.version \in BlockVersionRow /\ Covers(t.version.sources, t.version.value)
    BY <2>1 DEF CopiesFit, BlockVersionsFit
  <2>3. Holds(t)
    BY <1>1, <2>1, <2>2 DEF Holds, Building, Publishing
  <2> QED
    BY <1>4, <2>3 DEF RollbackRead, t
<1>5. ASSUME NEW a \in Attachments, AttachRead(p, a)
      PROVE  \E t : Becomes(p, t) /\ Holds(t)
  <2> DEFINE t == [Idle EXCEPT !.pc = "attach", !.obj = a, !.version = BlockVersion(CanonicalSources)]
  <2>1. /\ DOMAIN t = DOMAIN Idle /\ t.pc = "attach" /\ t.obj = a /\ t.snap = {}
        /\ t.version = BlockVersion(CanonicalSources)
    BY <1>1
  <2> HIDE DEF t
  <2>2. t.version \in BlockVersionRow /\ Covers(t.version.sources, t.version.value)
    BY <1>2, <2>1, SnapshotVersion
  <2>3. Holds(t)
    BY <1>1, <2>1, <2>2 DEF Holds, Building, Publishing
  <2> QED
    BY <1>5, <2>3 DEF AttachRead, t
<1>6. CASE BuildCheck(p)
  <2>1. Holds(thread[p]) /\ thread[p].pc = "build"
    BY <1>6 DEF ThreadsHold, BuildCheck
  <2>2. Holds([thread[p] EXCEPT !.pc = "checked"])
    BY <2>1, HoldingGoesOn DEF Building
  <2> QED
    BY <1>6, <2>2, IdleHolds DEF BuildCheck, Ends
<1> QED
  BY <1>3, <1>4, <1>5, <1>6 DEF ActiveNext, BuildStart, RebuildStale, CompactStart
\* What a correction or an undo reads.
LEMMA CorrectionReadsHold ==
    ASSUME VersionInv, TextsFit, NEW p \in Threads, NEW x \in Changes,
           ApplyRead(p, x) \/ UndoRead(p, x)
    PROVE  \E t : Becomes(p, t) /\ Holds(t)
<1> DEFINE m == TargetOf[x]
<1>1. /\ DOMAIN Idle = {"pc", "obj", "n", "v", "text", "snap", "version"}
      /\ Idle.snap = {} /\ {} \in Snapshots
      /\ Idle.version \in BlockVersionRow /\ Covers(Idle.version.sources, Idle.version.value)
  BY IdleHolds DEF Holds, Idle
<1>2. /\ m \in Memories /\ versions[m] \in Seq(VersionRow) /\ Len(versions[m]) \in Nat
      /\ memory[m].current = Len(versions[m]) /\ DOMAIN versions[m] = 1 .. Len(versions[m])
  BY GovernanceAssumption DEF VersionInv, RowTypes, MemoriesChained, Chained
<1>3. \A n \in DOMAIN versions[m] : AtHome(versions[m][n].text, m) /\ IsLinked(versions[m][n].text)
  BY <1>2 DEF TextsFit, VersionsAtHome
<1>4. AtHome(x, m) /\ IsLinked(x)
  BY StoreAssumption DEF AtHome, HomeOf, Origins, IsLinked
<1>5. ASSUME NEW t, DOMAIN t = DOMAIN Idle, t.obj = x, t.snap = Idle.snap, t.version = Idle.version,
             t.pc \in {"version", "status"},
             t.pc = "version" => AtHome(t.text, m) /\ IsLinked(t.text)
      PROVE  Holds(t)
  BY <1>1, <1>5 DEF Holds, Building, Publishing
<1>6. CASE ApplyRead(p, x)
  <2> DEFINE text == IF change[x].op = "confirm" THEN Current(m).text ELSE x
             place == IF change[x].op \in {"correct", "confirm"} THEN "version" ELSE "status"
             t == [Idle EXCEPT !.pc = place, !.obj = x, !.n = memory[m].current, !.text = text]
  <2>1. change[x].status # "none" /\ Becomes(p, t)
    BY <1>6 DEF ApplyRead
  <2>2. memory[m].current \in DOMAIN versions[m]
    BY <1>2, <2>1 DEF VersionInv, ChangesKnown, Known
  <2>3. AtHome(text, m) /\ IsLinked(text)
    BY <1>3, <1>4, <2>2 DEF Current
  <2>4. /\ DOMAIN t = DOMAIN Idle /\ t.obj = x /\ t.snap = Idle.snap /\ t.version = Idle.version
        /\ t.text = text /\ t.pc \in {"version", "status"}
    BY <1>1
  <2> HIDE DEF t, text, m
  <2>5. Holds(t)
    BY <1>5, <2>3, <2>4
  <2> QED
    BY <2>1, <2>5
<1>7. CASE UndoRead(p, x)
  <2> DEFINE text == versions[m][Len(versions[m]) - 1].text
             t == [Idle EXCEPT !.pc = "version", !.obj = x, !.n = memory[m].current, !.v = 1,
                               !.text = text]
  <2>1. Len(versions[m]) >= 2 /\ Becomes(p, t)
    BY <1>7 DEF UndoRead
  <2>2. AtHome(text, m) /\ IsLinked(text)
    BY <1>2, <1>3, <2>1
  <2>3. /\ DOMAIN t = DOMAIN Idle /\ t.obj = x /\ t.snap = Idle.snap /\ t.version = Idle.version
        /\ t.text = text /\ t.pc = "version"
    BY <1>1
  <2> HIDE DEF t, text, m
  <2>4. Holds(t)
    BY <1>5, <2>2, <2>3
  <2> QED
    BY <2>1, <2>4
<1> QED
  BY <1>6, <1>7

\* The thread that built a version holds it under its number.
LEMMA BuiltHolds ==
    ASSUME VersionInv, CopiesFit, ThreadsHold, ProfileStays, LinksGrow, VersionNumbersStay,
           NEW p \in Threads, BuildVersion(p)
    PROVE  ThreadsHold'
<1> DEFINE b == thread[p].obj
           w == BlockVersion(thread[p].snap)
           t == [thread[p] EXCEPT !.pc = "built", !.v = Len(blockVersions[b]) + 1, !.version = w]
<1>1. /\ Holds(thread[p]) /\ b \in Blocks /\ Becomes(p, t)
      /\ blockVersions' = [blockVersions EXCEPT ![b] = Append(@, w)]
  BY DEF BuildVersion, ThreadsHold, Holds, Building
<1>2. w \in BlockVersionRow /\ Covers(w.sources, w.value)
  BY <1>1, SnapshotVersion DEF Holds
<1>3. /\ DOMAIN t = DOMAIN Idle /\ t.pc = "built" /\ t.obj = b /\ t.snap = thread[p].snap
      /\ t.v = Len(blockVersions[b]) + 1 /\ t.version = w
  <2>1. DOMAIN Idle = {"pc", "obj", "n", "v", "text", "snap", "version"}
    BY DEF Idle
  <2> QED
    BY <1>1, <2>1 DEF Holds
<1>4. Len(blockVersions[b]) + 1 \in DOMAIN blockVersions'[b]
  <2> HIDE DEF b, t, w
  <2> QED
    BY <1>1, <1>2, AppendedVersion DEF CopiesFit
<1>5. PICK u : u = t
  OBVIOUS
<1> HIDE DEF b, t, w
<1>6. \A s \in u.snap : AtHome(s[3], s[1])'
  BY <1>1, <1>3, <1>5 DEF Holds, AtHome, HomeOf, ProfileStays
<1>7. Covers(u.version.sources, u.version.value)'
  BY <1>2, <1>3, <1>5, CoversStays
<1>8. u.snap \in Snapshots /\ u.version \in BlockVersionRow
  BY <1>1, <1>2, <1>3, <1>5 DEF Holds
<1>9. Holds(u)'
  BY <1>1, <1>3, <1>4, <1>5, <1>6, <1>7, <1>8 DEF Holds, Building, Publishing
<1> QED
  BY <1>1, <1>5, <1>9, HoldingMoves DEF VersionInv

\* Every step keeps what the threads have read.
LEMMA HoldsStep ==
    ASSUME VersionInv, TextsFit, CopiesFit, ThreadsHold, ProfileStays, LinksGrow,
           VersionNumbersStay, [Next]_vars
    PROVE  ThreadsHold'
<1>1. ThreadsRead
  BY DEF VersionInv
<1>2. UNCHANGED thread => ThreadsHold'
  BY HoldingStays
<1>3. ASSUME NEW p \in Threads, Ends(p) PROVE ThreadsHold'
  BY <1>1, <1>3, HoldingEnds
<1>4. ASSUME NEW p \in Threads, NEW t, Becomes(p, t), Holds(t) PROVE ThreadsHold'
  BY <1>1, <1>4, HeldStays, HoldingMoves
<1>5. ASSUME NEW p \in Threads, ActiveNext(p) PROVE ThreadsHold'
  BY <1>4, <1>5, ActiveReadsHold
<1>6. ASSUME NEW p \in Threads, ThreadWrites(p) PROVE ThreadsHold'
  <2>1. CASE BuildVersion(p)
    BY <2>1, BuiltHolds
  <2>2. CASE BuildPublish(p) \/ CompactPublish(p) \/ RollbackWrite(p) \/ AttachWrite(p)
    BY <1>3, <2>2 DEF BuildPublish, CompactPublish, RollbackWrite, AttachWrite
  <2> QED
    BY <1>6, <2>1, <2>2 DEF ThreadWrites
<1>7. CASE CorrectionNext
  <2>1. ASSUME NEW p \in Threads, NEW x \in Changes, ApplyRead(p, x) \/ UndoRead(p, x)
        PROVE  ThreadsHold'
    BY <1>4, <2>1, CorrectionReadsHold
  <2>2. ASSUME NEW p \in Threads, CreateNewVersion(p) \/ SetStatus(p) \/ InvalidateDependencies(p)
                                  \/ FinishRequest(p)
        PROVE  ThreadsHold'
    <3>1. Holds(thread[p])
      BY DEF ThreadsHold
    <3>2. Holds([thread[p] EXCEPT !.pc = "invalidate"]) /\ Holds([thread[p] EXCEPT !.pc = "finish"])
      BY <3>1, HoldingGoesOn
    <3>3. \/ Becomes(p, [thread[p] EXCEPT !.pc = "invalidate"])
          \/ Becomes(p, [thread[p] EXCEPT !.pc = "finish"]) \/ Ends(p)
      BY <2>2 DEF CreateNewVersion, SetStatus, InvalidateDependencies, FinishRequest
    <3> QED
      BY <1>3, <1>4, <3>2, <3>3
  <2>3. ASSUME NEW x \in Changes, CreateRequest(x) \/ CancelRequest(x) PROVE UNCHANGED thread
    BY <2>3 DEF CreateRequest, CancelRequest, activeVars
  <2> QED
    BY <1>2, <1>7, <2>1, <2>2, <2>3 DEF CorrectionNext
<1>8. CASE PrivacyNext
  <2>1. CASE CrashAndRecover
    <3>1. \A p \in Threads : thread'[p] = Idle
      BY <2>1 DEF CrashAndRecover
    <3>2. ASSUME NEW p \in Threads, NEW t, t = thread'[p] PROVE Holds(t)'
      BY <3>1, <3>2, IdleHolds
    <3>3. \A p \in Threads : Holds(thread[p])'
      BY <3>2
    <3> QED
      BY <3>3 DEF ThreadsHold
  <2>2. CASE QuarantineMemory \/ EraseMemory \/ EraseFts \/ EraseEmbeddings \/ EraseBlocks
             \/ QuarantineAttachments \/ EraseAttachments \/ AdapterFails \/ CreateReceipt
             \/ CloseRequest
    BY <1>2, <2>2 DEF QuarantineMemory, EraseMemory, EraseFts, EraseEmbeddings, EraseBlocks,
                      QuarantineAttachments, EraseAttachments, AdapterFails, CreateReceipt,
                      CloseRequest, activeVars
  <2>3. ASSUME NEW r \in Requests,
               PreviewRequest(r) \/ ConfirmRequest(r) \/ ExecuteRequest(r) \/ RetryRequest(r)
        PROVE  UNCHANGED thread
    BY <2>3 DEF PreviewRequest, ConfirmRequest, ExecuteRequest, RetryRequest, activeVars
  <2> QED
    BY <1>2, <1>8, <2>1, <2>2, <2>3 DEF PrivacyNext
<1> QED
  BY <1>2, <1>5, <1>6, <1>7, <1>8 DEF Next, vars, activeVars
-----------------------------------------------------------------------------
(* The requests.                                                            *)

\* The texts of a request, of which a step adds none to the store.
VersionsListed(r) ==
    \A n \in DOMAIN versions'[TargetOf[r]] :
        versions'[TargetOf[r]][n].text \in privacy[r].texts =>
            /\ n \in DOMAIN versions[TargetOf[r]]
            /\ versions[TargetOf[r]][n].text \in privacy[r].texts

CandidatesListed(r) ==
    \A c \in Candidates : cand'[c].text \in privacy[r].texts => cand[c].text \in privacy[r].texts

IndexListed(r) ==
    \A row \in fts' : row[2] \in privacy[r].texts =>
        row \in fts \/ \E n \in DOMAIN versions[TargetOf[r]] : versions[TargetOf[r]][n].text = row[2]

VectorsListed(r) == \A e \in embeddings' : e[3] \in privacy[r].texts => e \in embeddings

TextsListed(r) ==
    VersionsListed(r) /\ CandidatesListed(r) /\ IndexListed(r) /\ VectorsListed(r)

\* What a request lists is the text of a change or of a decided candidate.
LEMMA ListedTexts ==
    ASSUME RequestsFit, LinksFit, NEW r \in Requests
    PROVE  /\ TargetOf[r] \in Memories /\ Erased \notin privacy[r].texts
           /\ \A c \in Candidates : c \in privacy[r].texts => Decided(c)
           /\ \A t \in privacy[r].texts : t \in Origins /\ HomeOf(t) = TargetOf[r]
<1>1. \A t \in privacy[r].texts : t \in Origins /\ HomeOf(t) = TargetOf[r]
  BY DEF RequestsFit, PrivacyRow, Lists
<1>2. ASSUME NEW c \in Candidates, c \in privacy[r].texts PROVE Decided(c)
  <2>1. PICK n : <<TargetOf[r], n, c>> \in links
    BY <1>2 DEF RequestsFit, Lists
  <2>2. Decided(<<TargetOf[r], n, c>>[3])
    BY <2>1 DEF LinksFit
  <2> QED
    BY <2>2
<1>3. TargetOf[r] \in Memories
  BY GovernanceAssumption
<1> QED
  BY <1>1, <1>2, <1>3, StoreAssumption

\* Versions that get no text, or a text that is not listed.
LEMMA UnlistedVersions ==
    ASSUME RequestsFit, LinksFit, NEW r \in Requests,
           Rewrites \/ \E m, text : Adds(m, text) /\ text \notin privacy[r].texts
    PROVE  VersionsListed(r)
<1>1. ASSUME NEW n \in DOMAIN versions'[TargetOf[r]],
             versions'[TargetOf[r]][n].text \in privacy[r].texts
      PROVE  /\ n \in DOMAIN versions[TargetOf[r]]
             /\ versions[TargetOf[r]][n].text \in privacy[r].texts
  <2>1. TargetOf[r] \in Memories /\ Erased \notin privacy[r].texts
    BY ListedTexts
  <2> QED
    BY <1>1, <2>1 DEF Rewrites, Adds
<1> QED
  BY <1>1 DEF VersionsListed

\* An index that keeps rows or is built from the versions.
LEMMA UnlistedIndex ==
    ASSUME RequestsFit, TextsFit, NEW r \in Requests,
           fts' \subseteq fts \/ fts' = IndexRows(memory, versions)
    PROVE  IndexListed(r)
<1>1. ASSUME NEW row \in fts', row[2] \in privacy[r].texts, row \notin fts
      PROVE  \E n \in DOMAIN versions[TargetOf[r]] : versions[TargetOf[r]][n].text = row[2]
  <2>1. PICK n \in DOMAIN versions[row[1]] : row[2] = versions[row[1]][n].text
    BY <1>1, IndexRowsAreVersions
  <2>2. row[1] \in Memories
    BY <1>1, IndexRowsAreVersions
  <2>3. AtHome(row[2], row[1])
    BY <2>1, <2>2 DEF TextsFit, VersionsAtHome
  <2>4. row[2] # Erased /\ HomeOf(row[2]) = TargetOf[r]
    BY <1>1, ListedTexts DEF TextsFit
  <2>5. row[1] = TargetOf[r]
    BY <2>3, <2>4 DEF AtHome
  <2> QED
    BY <2>1, <2>5
<1> QED
  BY <1>1 DEF IndexListed

\* A candidate becomes a version at most with its own text, undecided before.
LEMMA StoreStepAdds ==
    ASSUME VersionInv, TextsFit, NEW c \in Candidates,
           CandidateStages(c) \/ Consolidate(c) \/ RecordMemory(c)
    PROVE  /\ UNCHANGED <<fts, embeddings>>
           /\ \A d \in Candidates : cand'[d].text = cand[d].text
           /\ Rewrites \/ (~Decided(c) /\ \E m : Adds(m, cand[c].text))
<1> USE DEF VersionInv
<1>1. cand = [d \in Candidates |-> cand[d]]
      /\ \A d \in Candidates : DOMAIN cand[d] = {"status", "stage", "text"}
  BY DEF RowTypes, CandidateRow
<1>2. UNCHANGED versions => Rewrites
  BY DEF Rewrites
<1>3. CASE CandidateStages(c)
  <2>1. PICK st : cand' = [cand EXCEPT ![c].stage = "staged", ![c].status = st]
    BY <1>3 DEF CandidateStages
  <2>2. \A d \in Candidates : cand'[d].text = cand[d].text
    BY <1>1, <2>1
  <2> QED
    BY <1>2, <1>3, <2>2 DEF CandidateStages
<1>4. CASE Consolidate(c)
  <2> DEFINE m == KeyOf[c]
             operation == Resolve(c, m)
  <2>1. ~Decided(c) /\ m \in Memories /\ UNCHANGED <<fts, embeddings>>
    BY <1>4, StoreAssumption DEF Consolidate
  <2>2. \A d \in Candidates : cand'[d].text = cand[d].text
    <3>1. PICK stage : cand' = [cand EXCEPT ![c].stage = stage]
      BY <1>4 DEF Consolidate
    <3> QED
      BY <1>1, <3>1
  <2>3. CASE operation \in {"add", "supersede"}
    <3>1. StoreVersion(c, m, operation = "supersede") /\ (operation = "supersede") \in BOOLEAN
      BY <1>4, <2>3 DEF Consolidate
    <3>2. operation = "supersede" \/ ~Known(m)
      BY <2>3 DEF Resolve
    <3> HIDE DEF operation, m
    <3>3. Adds(m, cand[c].text)
      BY <2>1, <3>1, <3>2, StoringAdds
    <3> QED
      BY <2>1, <2>2, <3>3
  <2>4. CASE operation \notin {"add", "supersede"}
    <3>1. UNCHANGED versions
      BY <1>4, <2>4 DEF Consolidate, Reinforce
    <3> QED
      BY <1>2, <2>1, <2>2, <3>1
  <2> QED
    BY <2>3, <2>4
<1>5. CASE RecordMemory(c)
  <2> DEFINE m == OwnKey[c]
  <2>1. ~Decided(c) /\ m \in Memories /\ UNCHANGED <<fts, embeddings>>
    BY <1>5, StoreAssumption DEF RecordMemory
  <2>2. \A d \in Candidates : cand'[d].text = cand[d].text
    <3>1. PICK stage : cand' = [cand EXCEPT ![c].stage = stage]
      BY <1>5 DEF RecordMemory
    <3> QED
      BY <1>1, <3>1
  <2> HIDE DEF m
  <2>3. UNCHANGED versions \/ (StoreVersion(c, m, FALSE) /\ ~Known(m))
    BY <1>5 DEF RecordMemory, m
  <2>4. StoreVersion(c, m, FALSE) /\ ~Known(m) => Adds(m, cand[c].text)
    BY <2>1, StoringAdds
  <2> QED
    BY <1>2, <2>1, <2>2, <2>3, <2>4
<1> QED
  BY <1>3, <1>4, <1>5
\* A step that only takes texts away or copies versions to the index.
LEMMA FewerTexts ==
    ASSUME RequestsFit, TextsFit, NEW r \in Requests, Rewrites,
           \A c \in Candidates : cand'[c].text \in {cand[c].text, Erased},
           fts' \subseteq fts \/ fts' = IndexRows(memory, versions), embeddings' \subseteq embeddings
    PROVE  TextsListed(r)
<1>1. VersionsListed(r) /\ IndexListed(r)
  BY UnlistedVersions, UnlistedIndex DEF TextsFit
<1>2. CandidatesListed(r)
  BY ListedTexts DEF CandidatesListed, TextsFit
<1> QED
  BY <1>1, <1>2 DEF VectorsListed, TextsListed

\* A step adds a listed text to the store only if it makes the request late.
LEMMA TextsListedStep ==
    ASSUME VersionInv, TextsFit, RequestsFit, [Next]_vars, NEW r \in Requests, late'[r] = {}
    PROVE  TextsListed(r)
<1>1. ASSUME UNCHANGED <<cand, versions, embeddings>>,
             fts' \subseteq fts \/ fts' = IndexRows(memory, versions)
      PROVE  TextsListed(r)
  <2>1. Rewrites
    BY <1>1 DEF Rewrites
  <2> QED
    BY <1>1, <2>1, FewerTexts
<1>2. ASSUME NEW c \in Candidates, CandidateStages(c) \/ Consolidate(c) \/ RecordMemory(c)
      PROVE  TextsListed(r)
  <2>1. /\ UNCHANGED <<fts, embeddings>>
        /\ \A d \in Candidates : cand'[d].text = cand[d].text
        /\ Rewrites \/ (~Decided(c) /\ \E m : Adds(m, cand[c].text))
    BY <1>2, StoreStepAdds
  <2>2. ~Decided(c) => cand[c].text \notin privacy[r].texts
    BY ListedTexts DEF TextsFit, VersionsAtHome
  <2>3. VersionsListed(r) /\ IndexListed(r)
    BY <2>1, <2>2, UnlistedVersions, UnlistedIndex DEF TextsFit
  <2> QED
    BY <2>1, <2>3 DEF TextsListed, CandidatesListed, VectorsListed
<1>3. ASSUME NEW c \in Candidates, EmbedWrite(c),
             IF UNCHANGED embeddings THEN UNCHANGED late ELSE Writes({embedder.text}, {})
      PROVE  TextsListed(r)
  <2>1. UNCHANGED <<versions, fts>> /\ cand' = [cand EXCEPT ![c].stage = "done"]
    BY <1>3 DEF EmbedWrite
  <2>2. \A d \in Candidates : cand'[d].text = cand[d].text
    BY <2>1 DEF VersionInv, RowTypes, CandidateRow
  <2>3. Rewrites
    BY <2>1 DEF Rewrites
  <2>4. VersionsListed(r) /\ IndexListed(r)
    BY <2>1, <2>3, UnlistedVersions, UnlistedIndex DEF TextsFit
  <2>5. VectorsListed(r)
    <3>1. CASE UNCHANGED embeddings
      BY <3>1 DEF VectorsListed
    <3>2. CASE embeddings' # embeddings
      <4>1. embedder.text \notin privacy[r].texts
        BY <1>3, <3>2 DEF Writes
      <4>2. \A e \in embeddings' : e \in embeddings \/ e = <<embedder.m, embedder.n, embedder.text>>
        BY <1>3 DEF EmbedWrite
      <4> QED
        BY <4>1, <4>2 DEF VectorsListed
    <3> QED
      BY <3>1, <3>2
  <2> QED
    BY <2>2, <2>4, <2>5 DEF TextsListed, CandidatesListed
<1>4. CASE CorrectionNext
  <2>1. ASSUME NEW p \in Threads, CreateNewVersion(p) PROVE TextsListed(r)
    <3>1. PICK m : m = TargetOf[thread[p].obj]
      OBVIOUS
    <3>2. CASE NumberIsFree(m, thread[p].n + 1)
      <4>1. Writes({thread[p].text}, {}) /\ UNCHANGED <<cand, fts>> /\ embeddings' \subseteq embeddings
        BY <2>1, <3>1, <3>2 DEF CreateNewVersion
      <4>2. thread[p].text \notin privacy[r].texts
        BY <4>1 DEF Writes
      <4>3. Adds(m, thread[p].text)
        BY <2>1, <3>1, <3>2, CorrectingAdds
      <4>4. VersionsListed(r) /\ IndexListed(r)
        BY <4>1, <4>2, <4>3, UnlistedVersions, UnlistedIndex DEF TextsFit
      <4> QED
        BY <4>1, <4>4 DEF TextsListed, CandidatesListed, VectorsListed
    <3>3. CASE ~NumberIsFree(m, thread[p].n + 1)
      BY <1>1, <2>1, <3>1, <3>3 DEF CreateNewVersion
    <3> QED
      BY <3>2, <3>3
  <2>2. ASSUME NEW p \in Threads, SetStatus(p) \/ InvalidateDependencies(p) \/ FinishRequest(p)
        PROVE  TextsListed(r)
    BY <1>1, <2>2 DEF SetStatus, InvalidateDependencies, FinishRequest, storeVars
  <2>3. ASSUME NEW x \in Changes, CreateRequest(x) \/ CancelRequest(x) PROVE TextsListed(r)
    BY <1>1, <2>3 DEF CreateRequest, CancelRequest, storeVars
  <2>4. ASSUME NEW p \in Threads, NEW x \in Changes, ApplyRead(p, x) \/ UndoRead(p, x)
        PROVE  TextsListed(r)
    BY <1>1, <2>4 DEF ApplyRead, UndoRead, storeVars
  <2> QED
    BY <1>4, <2>1, <2>2, <2>3, <2>4 DEF CorrectionNext
<1>5. CASE PrivacyNext
  <2>1. CASE EraseMemory
    <3>1. UNCHANGED <<fts, embeddings>>
      BY <2>1 DEF EraseMemory
    <3> QED
      BY <2>1, <3>1, ErasureRewrites, FewerTexts
  <2>2. CASE EraseFts \/ EraseEmbeddings
    <3>1. UNCHANGED <<cand, versions>> /\ fts' \subseteq fts /\ embeddings' \subseteq embeddings
      BY <2>2 DEF EraseFts, EraseEmbeddings
    <3>2. Rewrites
      BY <3>1 DEF Rewrites
    <3> QED
      BY <3>1, <3>2, FewerTexts
  <2>3. CASE QuarantineMemory \/ EraseBlocks \/ QuarantineAttachments \/ EraseAttachments
             \/ AdapterFails \/ CreateReceipt \/ CloseRequest \/ CrashAndRecover
    BY <1>1, <2>3 DEF QuarantineMemory, EraseBlocks, QuarantineAttachments, EraseAttachments,
                      AdapterFails, CreateReceipt, CloseRequest, CrashAndRecover, storeVars
  <2>4. ASSUME NEW q \in Requests,
               PreviewRequest(q) \/ ConfirmRequest(q) \/ ExecuteRequest(q) \/ RetryRequest(q)
        PROVE  TextsListed(r)
    BY <1>1, <2>4 DEF PreviewRequest, ConfirmRequest, ExecuteRequest, RetryRequest, storeVars
  <2> QED
    BY <1>5, <2>1, <2>2, <2>3, <2>4 DEF PrivacyNext
<1>6. CASE LexicalSearch
  BY <1>1, <1>6 DEF LexicalSearch
<1>7. ASSUME NEW c \in Candidates, EmbedRead(c) PROVE TextsListed(r)
  BY <1>1, <1>7 DEF EmbedRead
<1>8. UNCHANGED storeVars => TextsListed(r)
  BY <1>1 DEF storeVars
<1>9. CASE GraphNext
  <2>1. UNCHANGED storeVars
    BY <1>9 DEF GraphNext, RebuildDelete, RebuildRead, ProjectMemory, RebuildCommit, RebuildFail,
                RebuildAgain
  <2> QED
    BY <1>8, <2>1
<1> QED
  BY <1>2, <1>3, <1>4, <1>5, <1>6, <1>7, <1>8, <1>9 DEF Next, StoreNext, vars
\* The adapter, the receipt or the closing that is due.
LEMMA DueSteps ==
    ASSUME ActorRuns, NEW name, At(name)
    PROVE  /\ actor.r # None /\ actor.step \in 1 .. 11
           /\ name = "erase memory" => actor.step = 5
           /\ name \in {"quarantine fts", "erase fts"} => actor.step \in {2, 6}
           /\ name = "erase embeddings" => actor.step = 7
           /\ name \in {"quarantine blocks", "erase blocks"} => actor.step \in {3, 8}
           /\ name = "erase attachments" => actor.step = 9
           /\ name = "quarantine memory" => actor.step = 1
           /\ name = "quarantine attachments" => actor.step = 4
           /\ name = "receipt" => actor.step = 10
           /\ name = "close" => actor.step = 11
<1>1. actor.r # None /\ Steps[actor.step] = name
  BY DEF At
<1>2. Len(Steps) = 11
  BY DEF Steps
<1>3. actor.step \in 1 .. 11
  BY <1>1, <1>2 DEF ActorRuns
<1>4. /\ Steps[1] = "quarantine memory" /\ Steps[2] = "quarantine fts"
      /\ Steps[3] = "quarantine blocks" /\ Steps[4] = "quarantine attachments"
      /\ Steps[5] = "erase memory" /\ Steps[6] = "erase fts" /\ Steps[7] = "erase embeddings"
      /\ Steps[8] = "erase blocks" /\ Steps[9] = "erase attachments"
      /\ Steps[10] = "receipt" /\ Steps[11] = "close"
  BY DEF Steps
<1>5. actor.step \in {1, 2, 3, 4, 5, 6, 7, 8, 9, 10, 11}
  BY <1>3
<1> QED
  BY <1>1, <1>3, <1>4, <1>5

(* What a step does to the row of a request and to its execution: only the  *)
(* preview fills the lists, and an erasure is past only when it is done.    *)
SameLists(r) ==
    /\ privacy'[r].versions = privacy[r].versions /\ privacy'[r].blocks = privacy[r].blocks
    /\ privacy'[r].attachments = privacy[r].attachments /\ privacy'[r].texts = privacy[r].texts

Erases(k) ==
    \/ k = 5 /\ EraseMemory
    \/ k = 6 /\ EraseFts
    \/ k = 7 /\ EraseEmbeddings
    \/ k = 8 /\ EraseBlocks
    \/ k = 9 /\ EraseAttachments

RowStays(r) ==
    /\ SameLists(r) /\ privacy'[r] \in PrivacyRow
    /\ privacy'[r].status = "none" =>
          privacy'[r] = privacy[r] /\ (actor'.r = r => actor'.step = 0)
    /\ \A k \in 5 .. 9 : Past(r, k)' =>
          Past(r, k) \/ (actor.r # None /\ actor.r = r /\ actor.step = k /\ Erases(k))

RowsStay ==
    /\ ActorRuns' /\ privacy' = [r \in Requests |-> privacy'[r]]
    /\ \A r \in Requests : RowStays(r)

\* Neither the requests nor the actor move.
LEMMA RequestsUntouched ==
    ASSUME RequestsFit, UNCHANGED <<privacy, actor>>
    PROVE  RowsStay
<1>1. ActorRuns' /\ privacy' = [r \in Requests |-> privacy'[r]]
  BY DEF RequestsFit, ActorRuns
<1>2. ASSUME NEW r \in Requests PROVE RowStays(r)
  BY <1>2 DEF RequestsFit, RowStays, SameLists, Past, Lists
<1> QED
  BY <1>1, <1>2 DEF RowsStay

\* The row of one request gets another status.
LEMMA StatusMoves ==
    ASSUME RequestsFit, NEW r \in Requests, NEW status, SetPrivacy(r, status),
           status \in {"confirmed", "executing", "partial_failure", "completed"}
    PROVE  /\ privacy' \in [Requests -> PrivacyRow]
           /\ \A q \in Requests :
                 /\ SameLists(q) /\ privacy'[q].receipt = privacy[q].receipt
                 /\ privacy'[q].status = "none" => privacy'[q] = privacy[q]
<1>1. /\ privacy' = [privacy EXCEPT ![r].status = status]
      /\ privacy \in [Requests -> PrivacyRow]
  BY DEF SetPrivacy, RequestsFit
<1>2. [privacy[r] EXCEPT !.status = status] \in PrivacyRow
  BY <1>1 DEF PrivacyRow
<1>3. /\ privacy'[r] = [privacy[r] EXCEPT !.status = status]
      /\ \A q \in Requests \ {r} : privacy'[q] = privacy[q]
      /\ privacy' \in [Requests -> PrivacyRow]
  BY <1>1, <1>2
<1>4. /\ SameLists(r) /\ privacy'[r].receipt = privacy[r].receipt
      /\ privacy'[r].status # "none"
  BY <1>1, <1>3 DEF PrivacyRow, SameLists
<1> QED
  BY <1>3, <1>4 DEF SameLists

\* An actor that is not past anything new.
LEMMA RowsStayPut ==
    ASSUME RequestsFit, ActorRuns', privacy' \in [Requests -> PrivacyRow],
           \A q \in Requests :
              /\ SameLists(q) /\ privacy'[q].receipt = privacy[q].receipt
              /\ privacy'[q].status = "none" => privacy'[q] = privacy[q],
           \A q \in Requests : actor'.r = q =>
              \/ actor'.step = 0
              \/ privacy[q].status # "none" /\ (actor'.step < 5 \/ actor'.failed)
    PROVE  RowsStay
<1>1. ASSUME NEW q \in Requests PROVE RowStays(q)
  <2>1. privacy'[q] \in PrivacyRow
    OBVIOUS
  <2>2. ASSUME privacy'[q].status = "none", actor'.r = q PROVE actor'.step = 0
    BY <2>2
  <2>3. ASSUME NEW k \in 5 .. 9, Past(q, k)' PROVE Past(q, k)
    <3>1. CASE privacy'[q].receipt = "clean"
      BY <3>1 DEF Past
    <3>2. ASSUME actor'.r = q, actor'.step > k, ~actor'.failed PROVE FALSE
      <4>1. actor'.step = 0 \/ actor'.step < 5
        BY <3>2
      <4> QED
        BY <3>2, <4>1 DEF ActorRuns
    <3> QED
      BY <2>3, <3>1, <3>2 DEF Past
  <2> QED
    BY <2>1, <2>2, <2>3 DEF RowStays
<1> QED
  BY <1>1 DEF RowsStay
\* The actor goes on to its next step: past an erasure it has just done.
LEMMA ActorGoesOn ==
    ASSUME VersionInv, RequestsFit, actor.r # None, actor.step \in 1 .. 10, NextStep,
           actor.step \in 5 .. 9 => Erases(actor.step), UNCHANGED privacy
    PROVE  RowsStay
<1>1. /\ actor.r \in Requests \cup {None} /\ actor' = [actor EXCEPT !.step = @ + 1]
      /\ actor'.r = actor.r /\ actor'.step = actor.step + 1 /\ actor'.failed = actor.failed
  BY DEF VersionInv, RowTypes, ActorRow, NextStep
<1>2. ActorRuns'
  <2>1. Len(Steps) = 11
    BY DEF Steps
  <2> QED
    BY <1>1, <2>1 DEF ActorRuns
<1>3. ASSUME NEW q \in Requests PROVE RowStays(q)
  <2>1. privacy'[q] \in PrivacyRow /\ SameLists(q)
    BY DEF RequestsFit, SameLists
  <2>2. privacy'[q].status = "none" => actor'.r # q
    BY <1>1 DEF RequestsFit, Lists
  <2>3. ASSUME NEW k \in 5 .. 9, Past(q, k)' PROVE Past(q, k) \/ (actor.r = q /\ actor.step = k)
    BY <1>1, <2>3 DEF Past
  <2>4. ASSUME NEW k \in 5 .. 9, Past(q, k)'
        PROVE  Past(q, k) \/ (actor.r # None /\ actor.r = q /\ actor.step = k /\ Erases(k))
    BY <2>3, <2>4
  <2> QED
    BY <2>1, <2>2, <2>4 DEF RowStays
<1>4. privacy' = [q \in Requests |-> privacy'[q]]
  BY DEF RequestsFit
<1> QED
  BY <1>2, <1>3, <1>4 DEF RowsStay

\* The adapters.
LEMMA AdaptersKeepRows ==
    ASSUME VersionInv, RequestsFit,
           \/ QuarantineMemory \/ EraseMemory \/ EraseFts \/ EraseEmbeddings
           \/ EraseBlocks \/ QuarantineAttachments \/ EraseAttachments
    PROVE  RowsStay
<1>1. ActorRuns
  BY DEF RequestsFit
<1>2. NextStep /\ UNCHANGED privacy
  BY DEF QuarantineMemory, EraseMemory, EraseFts, EraseEmbeddings, EraseBlocks,
         QuarantineAttachments, EraseAttachments
<1>3. CASE QuarantineMemory \/ QuarantineAttachments
  <2>1. actor.r # None /\ actor.step \in {1, 4}
    BY <1>1, <1>3, DueSteps DEF QuarantineMemory, QuarantineAttachments
  <2> QED
    BY <1>2, <2>1, ActorGoesOn
<1>4. CASE EraseMemory
  <2>1. actor.r # None /\ actor.step = 5
    BY <1>1, <1>4, DueSteps DEF EraseMemory
  <2>2. Erases(actor.step)
    BY <1>4, <2>1 DEF Erases
  <2> QED
    BY <1>2, <2>1, <2>2, ActorGoesOn
<1>5. CASE EraseFts
  <2>1. actor.r # None /\ actor.step \in {2, 6}
    BY <1>1, <1>5, DueSteps DEF EraseFts
  <2>2. actor.step = 6 => Erases(actor.step)
    BY <1>5 DEF Erases
  <2> QED
    BY <1>2, <2>1, <2>2, ActorGoesOn
<1>6. CASE EraseEmbeddings
  <2>1. actor.r # None /\ actor.step = 7
    BY <1>1, <1>6, DueSteps DEF EraseEmbeddings
  <2>2. Erases(actor.step)
    BY <1>6, <2>1 DEF Erases
  <2> QED
    BY <1>2, <2>1, <2>2, ActorGoesOn
<1>7. CASE EraseBlocks
  <2>1. actor.r # None /\ actor.step \in {3, 8}
    BY <1>1, <1>7, DueSteps DEF EraseBlocks
  <2>2. actor.step = 8 => Erases(actor.step)
    BY <1>7 DEF Erases
  <2> QED
    BY <1>2, <2>1, <2>2, ActorGoesOn
<1>8. CASE EraseAttachments
  <2>1. actor.r # None /\ actor.step = 9
    BY <1>1, <1>8, DueSteps DEF EraseAttachments
  <2>2. Erases(actor.step)
    BY <1>8, <2>1 DEF Erases
  <2> QED
    BY <1>2, <2>1, <2>2, ActorGoesOn
<1> QED
  BY <1>3, <1>4, <1>5, <1>6, <1>7, <1>8

\* The calls, the receipt, the closing, a failed adapter and a crash.
LEMMA CallsKeepRows ==
    ASSUME VersionInv, RequestsFit,
           \/ \E r \in Requests : ConfirmRequest(r) \/ ExecuteRequest(r) \/ RetryRequest(r)
           \/ AdapterFails \/ CreateReceipt \/ CloseRequest \/ CrashAndRecover
    PROVE  RowsStay
<1>1. ActorRuns /\ privacy \in [Requests -> PrivacyRow] /\ actor.r \in Requests \cup {None}
      /\ Len(Steps) = 11
  BY DEF RequestsFit, VersionInv, RowTypes, ActorRow, Steps
<1>2. actor' = Free => ActorRuns' /\ actor'.step = 0
  BY <1>1 DEF ActorRuns, Free
<1>3. \A q \in Requests : privacy[q].status = "none" => (actor.r = q => actor.step = 0)
  BY DEF RequestsFit, Lists
<1>4. ASSUME NEW r \in Requests, ConfirmRequest(r) \/ ExecuteRequest(r) \/ RetryRequest(r)
      PROVE  RowsStay
  <2>1. privacy[r].status # "none" /\ actor = Free
    BY <1>4 DEF ConfirmRequest, ExecuteRequest, RetryRequest, Executable
  <2>2. PICK status \in {"confirmed", "executing", "partial_failure"} : SetPrivacy(r, status)
    BY <1>4 DEF ConfirmRequest, ExecuteRequest, RetryRequest
  <2>3. actor' = Free \/ actor' = [r |-> r, step |-> 1, failed |-> FALSE]
    BY <1>4, <2>1 DEF ConfirmRequest, ExecuteRequest, RetryRequest
  <2>4. ActorRuns' /\ \A q \in Requests : actor'.r = q =>
            \/ actor'.step = 0
            \/ privacy[q].status # "none" /\ (actor'.step < 5 \/ actor'.failed)
    BY <1>1, <1>2, <2>1, <2>3 DEF ActorRuns
  <2> QED
    BY <2>2, <2>4, StatusMoves, RowsStayPut
<1>5. CASE AdapterFails
  <2>1. /\ actor.r # None /\ actor.step < 10 /\ UNCHANGED privacy
        /\ actor' = Free \/ actor' = [actor EXCEPT !.step = @ + 1, !.failed = TRUE]
    BY <1>5 DEF AdapterFails
  <2>2. ASSUME actor' = [actor EXCEPT !.step = @ + 1, !.failed = TRUE]
        PROVE  ActorRuns' /\ actor'.r = actor.r /\ actor'.failed
    <3>1. actor'.r = actor.r /\ actor'.failed /\ actor'.step = actor.step + 1
      BY <2>2 DEF VersionInv, RowTypes, ActorRow
    <3> QED
      BY <1>1, <2>1, <3>1 DEF ActorRuns
  <2>3. ActorRuns' /\ \A q \in Requests : actor'.r = q =>
            \/ actor'.step = 0
            \/ privacy[q].status # "none" /\ (actor'.step < 5 \/ actor'.failed)
    BY <1>1, <1>2, <1>3, <2>1, <2>2 DEF ActorRuns
  <2> QED
    BY <1>1, <2>1, <2>3, RowsStayPut DEF SameLists
<1>6. CASE CloseRequest
  <2>1. actor.r # None /\ actor.step = 11 /\ actor' = Free
    BY <1>1, <1>6, DueSteps DEF CloseRequest
  <2>2. PICK status \in {"partial_failure", "completed"} : SetPrivacy(actor.r, status)
    BY <1>6 DEF CloseRequest
  <2>3. actor.r \in Requests
    BY <1>1, <2>1
  <2> QED
    BY <1>2, <2>1, <2>2, <2>3, StatusMoves, RowsStayPut
<1>7. CASE CrashAndRecover
  <2>1. /\ actor' = Free
        /\ privacy' = [r \in Requests |->
              IF Interrupted(r) THEN [privacy[r] EXCEPT !.status = "partial_failure"]
                                ELSE privacy[r]]
    BY <1>7 DEF CrashAndRecover
  <2>2. ASSUME NEW q \in Requests
        PROVE  /\ privacy'[q] \in PrivacyRow /\ SameLists(q)
               /\ privacy'[q].receipt = privacy[q].receipt
               /\ privacy'[q].status = "none" => privacy'[q] = privacy[q]
    <3>1. privacy'[q] = privacy[q] \/ privacy'[q] = [privacy[q] EXCEPT !.status = "partial_failure"]
      BY <2>1
    <3>2. privacy[q] \in PrivacyRow
      BY <1>1
    <3> QED
      BY <3>1, <3>2 DEF PrivacyRow, SameLists
  <2>3. privacy' \in [Requests -> PrivacyRow]
    BY <2>1, <2>2
  <2> QED
    BY <1>2, <2>1, <2>2, <2>3, RowsStayPut
<1>8. CASE CreateReceipt
  <2>1. actor.r # None /\ actor.step = 10 /\ NextStep
    BY <1>1, <1>8, DueSteps DEF CreateReceipt
  <2>2. actor'.r = actor.r /\ actor'.step = 11 /\ actor'.failed = actor.failed
    BY <2>1 DEF VersionInv, RowTypes, ActorRow, NextStep
  <2>3. ActorRuns'
    BY <1>1, <2>1, <2>2 DEF ActorRuns
  <2>4. PICK receipt \in {"clean", "exceptions"} :
          /\ privacy' = [privacy EXCEPT ![actor.r].receipt = receipt]
          /\ receipt = "clean" => ~actor.failed
    BY <1>8 DEF CreateReceipt, Receipt
  <2>5. ASSUME NEW q \in Requests PROVE RowStays(q)
    <3>1. CASE q = actor.r
      <4>1. privacy'[q] = [privacy[q] EXCEPT !.receipt = receipt] /\ privacy[q] \in PrivacyRow
        BY <1>1, <2>4, <3>1
      <4>2. /\ privacy'[q] \in PrivacyRow /\ SameLists(q) /\ privacy'[q].receipt = receipt
            /\ privacy'[q].status = privacy[q].status
        BY <4>1 DEF PrivacyRow, SameLists
      <4>3. privacy[q].status # "none"
        BY <1>3, <2>1, <3>1
      <4>4. ASSUME NEW k \in 5 .. 9, Past(q, k)' PROVE Past(q, k)
        <5>1. ~actor.failed
          BY <2>2, <2>4, <4>2, <4>4 DEF Past
        <5> QED
          BY <2>1, <3>1, <5>1 DEF Past
      <4> QED
        BY <4>2, <4>3, <4>4 DEF RowStays
    <3>2. CASE q # actor.r
      <4>1. privacy'[q] = privacy[q] /\ privacy[q] \in PrivacyRow
        BY <1>1, <2>4, <3>2
      <4> QED
        BY <2>2, <3>2, <4>1 DEF RowStays, SameLists, Past
    <3> QED
      BY <3>1, <3>2
  <2>6. privacy' = [r \in Requests |-> privacy'[r]]
    BY <1>1, <2>4
  <2> QED
    BY <2>3, <2>5, <2>6 DEF RowsStay
<1> QED
  BY <1>4, <1>5, <1>6, <1>7, <1>8
\* What a request lists stays listed.
LEMMA ListsStay ==
    ASSUME RequestsFit, ProfileStays, LinksGrow, NEW r \in Requests, RowStays(r)
    PROVE  Lists(r)'
<1>1. ASSUME privacy'[r].status = "none"
      PROVE  privacy'[r] = NoRequest /\ (actor'.r = r => actor'.step = 0)
  BY <1>1 DEF RowStays, RequestsFit, Lists
<1>2. ASSUME NEW t \in privacy'[r].texts
      PROVE  /\ HomeOf(t)' = TargetOf[r]
             /\ t \in Candidates => \E n \in privacy'[r].versions : <<TargetOf[r], n, t>> \in links'
  <2>1. t \in privacy[r].texts /\ privacy'[r].versions = privacy[r].versions
    BY <1>2 DEF RowStays, SameLists
  <2>2. HomeOf(t) = TargetOf[r] /\ HomeOf(t)' = HomeOf(t)
    BY <2>1 DEF RequestsFit, Lists, HomeOf, ProfileStays
  <2>3. t \in Candidates => \E n \in privacy[r].versions : <<TargetOf[r], n, t>> \in links
    BY <2>1 DEF RequestsFit, Lists
  <2> QED
    BY <2>1, <2>2, <2>3 DEF LinksGrow
<1> QED
  BY <1>1, <1>2 DEF Lists

\* A block goes on being found until the preview.
LEMMA TrackedStays ==
    ASSUME NEW r \in Requests, RowStays(r), Tracked(r), CopiesStay(r)
    PROVE  Tracked(r)'
  BY DEF RowStays, Tracked, CopiesStay

\* What is covered stays covered.
LEMMA CoveredStays ==
    ASSUME NEW r \in Requests, SameLists(r), TextsListed(r), CopiesListed(r), Covered(r)
    PROVE  Covered(r)'
<1>1. VersionsCovered(r)'
  BY DEF Covered, VersionsCovered, SameLists, TextsListed, VersionsListed
<1>2. VectorsCovered(r)'
  BY DEF Covered, VectorsCovered, SameLists, TextsListed, VectorsListed
<1>3. BlocksCovered(r)'
  <2>1. ASSUME NEW b \in Blocks, b \notin privacy[r].blocks, NEW t \in BlockTexts(b)',
               t \in privacy[r].texts
        PROVE  FALSE
    BY <2>1 DEF Covered, BlocksCovered, CopiesListed
  <2> QED
    BY <2>1 DEF BlocksCovered, SameLists
<1>4. AttachmentsCovered(r)'
  BY DEF Covered, AttachmentsCovered, SameLists, CopiesListed
<1> QED
  BY <1>1, <1>2, <1>3, <1>4 DEF Covered

\* What is gone stays gone: the index is built from versions that are erased.
LEMMA GoneStays ==
    ASSUME NEW r \in Requests, SameLists(r), TextsListed(r), CopiesListed(r)
    PROVE  /\ VersionsGone(r) => VersionsGone(r)'
           /\ VersionsGone(r) /\ IndexGone(r) => IndexGone(r)'
           /\ VectorsGone(r) => VectorsGone(r)'
           /\ BlocksGone(r) => BlocksGone(r)'
           /\ AttachmentsGone(r) => AttachmentsGone(r)'
<1> USE DEF SameLists
<1>1. VersionsGone(r) => VersionsGone(r)'
  BY DEF VersionsGone, TextsListed, VersionsListed, CandidatesListed
<1>2. VersionsGone(r) /\ IndexGone(r) => IndexGone(r)'
  BY DEF VersionsGone, IndexGone, TextsListed, IndexListed
<1>3. VectorsGone(r) => VectorsGone(r)'
  BY DEF VectorsGone, TextsListed, VectorsListed
<1>4. BlocksGone(r) => BlocksGone(r)'
  <2>1. ASSUME BlocksGone(r), NEW b \in Blocks, NEW t \in BlockTexts(b)', t \in privacy[r].texts
        PROVE  FALSE
    BY <2>1 DEF BlocksGone, CopiesListed
  <2> QED
    BY <2>1 DEF BlocksGone
<1>5. AttachmentsGone(r) => AttachmentsGone(r)'
  BY DEF AttachmentsGone, CopiesListed
<1> QED
  BY <1>1, <1>2, <1>3, <1>4, <1>5

\* The erasure of the versions takes every listed text, because what is covered
\* is listed and a listed candidate is linked to a listed version.
LEMMA MemoryErased ==
    ASSUME VersionInv, TextsFit, RequestsFit, NEW r \in Requests, actor.r = r, EraseMemory,
           SameLists(r), Covered(r)
    PROVE  VersionsGone(r)'
<1> DEFINE m == TargetOf[r]
           gone == privacy[r].versions
<1>0. m \in Memories /\ Erased \notin privacy[r].texts
  BY ListedTexts DEF TextsFit
<1>1. versions' = [versions EXCEPT ![m] =
         [n \in DOMAIN @ |-> IF n \in gone THEN [@[n] EXCEPT !.text = Erased] ELSE @[n]]]
  BY DEF EraseMemory, Target, Listed
<1>2. /\ DOMAIN versions'[m] = DOMAIN versions[m]
      /\ \A n \in DOMAIN versions[m] : versions[m][n] \in VersionRow
  BY <1>0, <1>1 DEF VersionInv, RowTypes
<1>3. ASSUME NEW n \in DOMAIN versions'[m] PROVE versions'[m][n].text \notin privacy[r].texts
  <2>1. versions'[m][n] = IF n \in gone THEN [versions[m][n] EXCEPT !.text = Erased]
                          ELSE versions[m][n]
    BY <1>0, <1>1, <1>2 DEF VersionInv, RowTypes
  <2>2. CASE n \in gone
    BY <1>0, <1>2, <2>1, <2>2 DEF VersionRow
  <2>3. CASE n \notin gone
    BY <1>2, <2>1, <2>3 DEF Covered, VersionsCovered
  <2> QED
    BY <2>2, <2>3
<1>4. ASSUME NEW c \in Candidates PROVE cand'[c].text \notin privacy[r].texts
  <2>1. cand' = [d \in Candidates |->
           IF d \in SourcesOf(m, gone) THEN [cand[d] EXCEPT !.text = Erased, !.status = "redacted"]
                                       ELSE cand[d]]
    BY DEF EraseMemory, Target, Listed
  <2>2. CASE c \in SourcesOf(m, gone)
    BY <1>0, <2>1, <2>2 DEF VersionInv, RowTypes, CandidateRow
  <2>3. CASE c \notin SourcesOf(m, gone)
    <3>1. cand'[c] = cand[c] /\ cand[c].text \in {c, Erased}
      BY <2>1, <2>3 DEF TextsFit, VersionsAtHome
    <3>2. c \notin privacy[r].texts
      BY <2>3 DEF SourcesOf, RequestsFit, Lists
    <3> QED
      BY <1>0, <3>1, <3>2
  <2> QED
    BY <2>2, <2>3
<1> QED
  BY <1>3, <1>4 DEF VersionsGone, SameLists

\* The other erasures, for the same reason.
LEMMA DerivedErased ==
    ASSUME VersionInv, TextsFit, RequestsFit, NEW r \in Requests, actor.r = r, SameLists(r), Covered(r)
    PROVE  /\ EraseFts => IndexGone(r)'
           /\ EraseEmbeddings => VectorsGone(r)'
           /\ EraseAttachments => AttachmentsGone(r)'
<1>0. /\ Erased \notin privacy[r].texts
      /\ \A t \in privacy[r].texts : HomeOf(t) = TargetOf[r]
  BY ListedTexts DEF TextsFit
<1>1. ASSUME EraseFts, NEW row \in fts' PROVE row[2] \notin privacy[r].texts
  <2>1. row \in fts /\ row[1] # TargetOf[r]
    BY <1>1 DEF EraseFts, Target
  <2>2. AtHome(row[2], row[1])
    BY <2>1 DEF TextsFit, IndexAtHome
  <2> QED
    BY <1>0, <2>1, <2>2 DEF AtHome
<1>2. ASSUME EraseEmbeddings, NEW e \in embeddings' PROVE e[3] \notin privacy[r].texts
  <2>1. e \in embeddings /\ ~(e[1] = TargetOf[r] /\ e[2] \in privacy[r].versions)
    BY <1>2 DEF EraseEmbeddings, Target, Listed
  <2>2. AtHome(e[3], e[1])
    BY <2>1 DEF TextsFit, VectorsAtHome
  <2>3. ASSUME e[3] \in privacy[r].texts PROVE e[1] = TargetOf[r]
    BY <1>0, <2>2, <2>3 DEF AtHome
  <2> QED
    BY <2>1, <2>3 DEF Covered, VectorsCovered
<1>3. ASSUME EraseAttachments, NEW a \in Attachments
      PROVE  attachments'[a].text \cap privacy[r].texts = {}
  <2>1. attachments'[a] = IF a \in privacy[r].attachments
                          THEN [status |-> "redacted", text |-> {}, sources |-> {}]
                          ELSE attachments[a]
    BY <1>3 DEF EraseAttachments, Listed
  <2> QED
    BY <2>1 DEF Covered, AttachmentsCovered
<1> QED
  BY <1>1, <1>2, <1>3 DEF IndexGone, VectorsGone, AttachmentsGone, SameLists

\* The erasure of the listed blocks erases every listed text in a block: the
\* others hold none.
LEMMA BlocksErased ==
    ASSUME CopiesFit, TextsFit, RequestsFit, NEW r \in Requests, actor.r = r, EraseBlocks,
           SameLists(r), Covered(r)
    PROVE  BlocksGone(r)'
<1>0. Erased \notin privacy[r].texts
  BY ListedTexts DEF TextsFit
<1>1. PICK listed : listed = privacy[r].blocks
  OBVIOUS
<1>2. /\ blocks' = [b \in Blocks |-> IF b \in listed
            THEN [blocks[b] EXCEPT !.value = {Erased}, !.build = "stale", !.status = "redacted"]
            ELSE blocks[b]]
      /\ blockVersions' = [b \in Blocks |-> IF b \in listed
            THEN [n \in DOMAIN blockVersions[b] |->
                    [blockVersions[b][n] EXCEPT !.value = {Erased}, !.sources = {}]]
            ELSE blockVersions[b]]
  BY <1>1 DEF EraseBlocks, Listed
<1>3. ASSUME NEW b \in Blocks, NEW t \in BlockTexts(b)', t \in privacy[r].texts PROVE FALSE
  <2>1. t # Erased
    BY <1>0, <1>3
  <2>2. t \in blocks'[b].value \/ \E n \in DOMAIN blockVersions'[b] : t \in blockVersions'[b][n].value
    BY <1>3 DEF BlockTexts
  <2>3. CASE b \in listed
    <3>1. /\ blocks[b] \in BlockRow
          /\ \A n \in DOMAIN blockVersions[b] : blockVersions[b][n] \in BlockVersionRow
      BY DEF CopiesFit, BlocksFit, BlockVersionsFit
    <3>2. blocks'[b].value = {Erased}
      <4>1. blocks'[b] = [blocks[b] EXCEPT !.value = {Erased}, !.build = "stale", !.status = "redacted"]
        BY <1>2, <2>3
      <4> QED
        BY <3>1, <4>1 DEF BlockRow
    <3>3. \A n \in DOMAIN blockVersions'[b] : blockVersions'[b][n].value = {Erased}
      <4>1. blockVersions'[b] = [n \in DOMAIN blockVersions[b] |->
               [blockVersions[b][n] EXCEPT !.value = {Erased}, !.sources = {}]]
        BY <1>2, <2>3
      <4>2. \A n \in DOMAIN blockVersions[b] :
              [blockVersions[b][n] EXCEPT !.value = {Erased}, !.sources = {}].value = {Erased}
        BY <3>1 DEF BlockVersionRow
      <4> QED
        BY <4>1, <4>2
    <3> QED
      BY <2>1, <2>2, <3>2, <3>3
  <2>4. CASE b \notin listed
    <3>1. blocks'[b] = blocks[b] /\ blockVersions'[b] = blockVersions[b]
      BY <1>2, <2>4
    <3>2. t \in BlockTexts(b)
      BY <2>2, <3>1 DEF BlockTexts
    <3> QED
      BY <1>1, <1>3, <2>4, <3>2 DEF Covered, BlocksCovered
  <2> QED
    BY <2>3, <2>4
<1> QED
  BY <1>3 DEF BlocksGone, SameLists
\* An erasure is past when it has been done, and what it took stays away.
LEMMA GoneStep ==
    ASSUME VersionInv, TextsFit, CopiesFit, RequestsFit, NEW r \in Requests, RowStays(r),
           TextsListed(r), CopiesListed(r), Covered(r), Gone(r)
    PROVE  Gone(r)'
<1>0. SameLists(r) /\ actor.step \in Nat
  BY DEF RowStays, VersionInv, RowTypes, ActorRow
<1>1. /\ VersionsGone(r) => VersionsGone(r)'
      /\ VersionsGone(r) /\ IndexGone(r) => IndexGone(r)'
      /\ VectorsGone(r) => VectorsGone(r)'
      /\ BlocksGone(r) => BlocksGone(r)'
      /\ AttachmentsGone(r) => AttachmentsGone(r)'
  BY <1>0, GoneStays
<1>2. \A k \in 5 .. 9 : Past(r, k)' => Past(r, k) \/ (actor.r = r /\ Erases(k))
  BY DEF RowStays
<1>3. Past(r, 6) => Past(r, 5)
  BY <1>0 DEF Past
<1>4. Past(r, 5)' => VersionsGone(r)'
  <2>1. actor.r = r /\ Erases(5) => VersionsGone(r)'
    BY <1>0, MemoryErased DEF Erases
  <2> QED
    BY <1>1, <1>2, <2>1 DEF Gone
<1>5. Past(r, 6)' => IndexGone(r)'
  <2>1. actor.r = r /\ Erases(6) => IndexGone(r)'
    BY <1>0, DerivedErased DEF Erases
  <2> QED
    BY <1>1, <1>2, <1>3, <2>1 DEF Gone
<1>6. Past(r, 7)' => VectorsGone(r)'
  <2>1. actor.r = r /\ Erases(7) => VectorsGone(r)'
    BY <1>0, DerivedErased DEF Erases
  <2> QED
    BY <1>1, <1>2, <2>1 DEF Gone
<1>7. Past(r, 8)' => BlocksGone(r)'
  <2>1. actor.r = r /\ Erases(8) => BlocksGone(r)'
    BY <1>0, BlocksErased DEF Erases
  <2> QED
    BY <1>1, <1>2, <2>1 DEF Gone
<1>8. Past(r, 9)' => AttachmentsGone(r)'
  <2>1. actor.r = r /\ Erases(9) => AttachmentsGone(r)'
    BY <1>0, DerivedErased DEF Erases
  <2> QED
    BY <1>1, <1>2, <2>1 DEF Gone
<1> QED
  BY <1>4, <1>5, <1>6, <1>7, <1>8 DEF Gone

\* The records that the preview discovers.
ListsAll(row, m) ==
    /\ row \in PrivacyRow /\ row.status = "preview" /\ row.receipt = "none"
    /\ row.versions = VersionsOf(m) /\ row.blocks = BlocksWith(m)
    /\ row.attachments = AttachmentsWith(m) /\ row.texts = TextsOf(m)

\* The lists of a new request: all that holds a text of its memory.
LEMMA DiscoveredRecords ==
    ASSUME VersionInv, TextsFit, CopiesFit, NEW m \in Memories
    PROVE  /\ ListsAll([WithItems(m) EXCEPT !.status = "preview"], m)
           /\ \A t \in TextsOf(m) :
                 /\ t \in Origins /\ HomeOf(t) = m
                 /\ t \in Candidates => \E n \in VersionsOf(m) : <<m, n, t>> \in links
<1>1. VersionsOf(m) \in SUBSET Nat
  BY DEF VersionsOf, VersionInv, RowTypes
<1>2. ASSUME NEW c \in SourcesOf(m, VersionsOf(m)), NEW t, t = cand[c].text, t # Erased
      PROVE  t \in Origins /\ HomeOf(t) = m /\ \E n \in VersionsOf(m) : <<m, n, t>> \in links
  <2>1. c \in Candidates /\ t = c
    BY <1>2 DEF SourcesOf, TextsFit, VersionsAtHome
  <2>2. PICK n \in VersionsOf(m) : <<m, n, c>> \in links
    BY <1>2 DEF SourcesOf
  <2>3. HomeOf(<<m, n, c>>[3]) = <<m, n, c>>[1]
    BY <2>2 DEF TextsFit, LinksFit
  <2> QED
    BY <2>1, <2>2, <2>3 DEF Origins
<1>3. ASSUME NEW n \in VersionsOf(m), NEW t, t = versions[m][n].text, t # Erased
      PROVE  /\ t \in Origins /\ HomeOf(t) = m
             /\ t \in Candidates => \E k \in VersionsOf(m) : <<m, k, t>> \in links
  <2>1. AtHome(t, m) /\ IsLinked(t)
    BY <1>3 DEF VersionsOf, TextsFit, VersionsAtHome
  <2>2. t \in Origins /\ HomeOf(t) = m
    BY <1>3, <2>1 DEF AtHome
  <2>3. ASSUME t \in Candidates PROVE \E k \in VersionsOf(m) : <<m, k, t>> \in links
    <3>1. PICK l \in links : l[3] = t
      BY <2>1, <2>3 DEF IsLinked
    <3>2. l \in Memories \X Nat \X Candidates /\ l[2] \in DOMAIN versions[l[1]] /\ HomeOf(l[3]) = l[1]
      BY <3>1 DEF TextsFit, LinksFit
    <3>3. l[1] = m /\ l = <<l[1], l[2], l[3]>>
      BY <2>2, <3>1, <3>2
    <3> QED
      BY <3>1, <3>2, <3>3 DEF VersionsOf
  <2> QED
    BY <2>2, <2>3
<1>4. \A t \in TextsOf(m) :
         /\ t \in Origins /\ HomeOf(t) = m
         /\ t \in Candidates => \E n \in VersionsOf(m) : <<m, n, t>> \in links
  BY <1>2, <1>3 DEF TextsOf
<1>5. ListsAll([WithItems(m) EXCEPT !.status = "preview"], m)
  <2>1. /\ BlocksWith(m) \in SUBSET Blocks /\ AttachmentsWith(m) \in SUBSET Attachments
        /\ TextsOf(m) \in SUBSET Origins
    BY <1>4 DEF BlocksWith, AttachmentsWith
  <2> DEFINE e1 == [NoRequest EXCEPT !.versions = VersionsOf(m)]
             e2 == [e1 EXCEPT !.blocks = BlocksWith(m)]
             e3 == [e2 EXCEPT !.attachments = AttachmentsWith(m)]
             e4 == [e3 EXCEPT !.texts = TextsOf(m)]
             e5 == [e4 EXCEPT !.status = "preview"]
  <2>2. NoRequest \in PrivacyRow /\ NoRequest.receipt = "none"
    BY DEF NoRequest, PrivacyRow
  <2> HIDE DEF NoRequest
  <2>3. e1 \in PrivacyRow /\ e1.versions = VersionsOf(m) /\ e1.receipt = "none"
    BY <1>1, <2>2 DEF PrivacyRow
  <2> HIDE DEF e1
  <2>4. /\ e2 \in PrivacyRow /\ e2.versions = VersionsOf(m) /\ e2.receipt = "none"
        /\ e2.blocks = BlocksWith(m)
    BY <2>1, <2>3 DEF PrivacyRow
  <2> HIDE DEF e2
  <2>5. /\ e3 \in PrivacyRow /\ e3.versions = VersionsOf(m) /\ e3.receipt = "none"
        /\ e3.blocks = BlocksWith(m) /\ e3.attachments = AttachmentsWith(m)
    BY <2>1, <2>4 DEF PrivacyRow
  <2> HIDE DEF e3
  <2>6. /\ e4 \in PrivacyRow /\ e4.versions = VersionsOf(m) /\ e4.receipt = "none"
        /\ e4.blocks = BlocksWith(m) /\ e4.attachments = AttachmentsWith(m)
        /\ e4.texts = TextsOf(m)
    BY <2>1, <2>5 DEF PrivacyRow
  <2> HIDE DEF e4
  <2>7. /\ e5 \in PrivacyRow /\ e5.status = "preview" /\ e5.receipt = "none"
        /\ e5.versions = VersionsOf(m) /\ e5.blocks = BlocksWith(m)
        /\ e5.attachments = AttachmentsWith(m) /\ e5.texts = TextsOf(m)
    BY <2>6 DEF PrivacyRow
  <2>8. [WithItems(m) EXCEPT !.status = "preview"] = e5
    BY DEF WithItems, e1, e2, e3, e4
  <2> HIDE DEF e5
  <2> QED
    BY <2>7, <2>8 DEF ListsAll
<1> QED
  BY <1>4, <1>5

\* A preview lists whatever holds a text of its memory.
LEMMA PreviewCovers ==
    ASSUME VersionInv, TextsFit, CopiesFit, RequestsFit, NEW r \in Requests, PreviewRequest(r)
    PROVE  RequestsFit'
<1> DEFINE m == TargetOf[r]
           row == [WithItems(m) EXCEPT !.status = "preview"]
<1>1. /\ m \in Memories /\ privacy' = [privacy EXCEPT ![r] = row] /\ privacy[r].status = "none"
      /\ UNCHANGED <<storeVars, activeVars, actor, late>>
  BY GovernanceAssumption DEF PreviewRequest
<1>2. UNCHANGED <<profile, cand, versions, links, fts, embeddings, blocks, blockVersions, attachments>>
  BY <1>1 DEF storeVars, activeVars
<1>3. /\ ListsAll(row, m)
      /\ \A t \in TextsOf(m) :
            /\ t \in Origins /\ HomeOf(t) = m
            /\ t \in Candidates => \E n \in VersionsOf(m) : <<m, n, t>> \in links
  BY <1>1, DiscoveredRecords
<1> HIDE DEF row
<1>4. privacy'[r] = row /\ \A q \in Requests \ {r} : privacy'[q] = privacy[q]
  BY <1>1 DEF RequestsFit
<1>5. privacy' \in [Requests -> PrivacyRow]
  BY <1>1, <1>3 DEF RequestsFit, ListsAll
<1>6. ActorRuns' /\ late' \in [Requests -> SUBSET {"listed", "revived"}]
  BY <1>1 DEF RequestsFit, ActorRuns
<1>7. ASSUME NEW q \in Requests, q # r
      PROVE  Lists(q)' /\ (late'[q] = {} => Tracked(q)' /\ Covered(q)' /\ Gone(q)')
  <2>1. privacy'[q] = privacy[q] /\ Lists(q) /\ (late[q] = {} => Tracked(q) /\ Covered(q) /\ Gone(q))
    BY <1>4, <1>7 DEF RequestsFit
  <2>2. Lists(q)'
    BY <1>1, <1>2, <2>1 DEF Lists, HomeOf
  <2>3. Tracked(q) => Tracked(q)'
    BY <1>2, <2>1 DEF Tracked, ShownFound, HomeOf, BlocksWith
  <2>4. Covered(q) => Covered(q)'
    BY <1>2, <2>1 DEF Covered, VersionsCovered, VectorsCovered, BlocksCovered,
                          AttachmentsCovered, BlockTexts
  <2>5. Gone(q) => Gone(q)'
    BY <1>1, <1>2, <2>1 DEF Gone, Past, VersionsGone, IndexGone, VectorsGone, BlocksGone,
                            AttachmentsGone, BlockTexts
  <2> QED
    BY <1>1, <2>1, <2>2, <2>3, <2>4, <2>5
<1>8. Lists(r)'
  BY <1>2, <1>3, <1>4 DEF Lists, ListsAll, HomeOf
<1>9. ASSUME late'[r] = {} PROVE Tracked(r)' /\ Covered(r)' /\ Gone(r)'
  <2>1. Tracked(r)'
    BY <1>3, <1>4 DEF Tracked, ListsAll
  <2>2. ShownFound(m)
    BY <1>1, <1>9 DEF RequestsFit, Tracked
  <2>3. \A t \in row.texts : t # Erased /\ HomeOf(t) = m
    BY <1>3, StoreAssumption DEF ListsAll
  <2>4. VersionsCovered(r)' /\ VectorsCovered(r)'
    <3>1. \A e \in embeddings : e[2] \in DOMAIN versions[e[1]]
      BY DEF TextsFit, VectorsAtHome
    <3> QED
      BY <1>2, <1>3, <1>4, <3>1 DEF VersionsCovered, VectorsCovered, ListsAll, VersionsOf
  <2>5. ASSUME NEW b \in Blocks, NEW t \in BlockTexts(b), t \in row.texts PROVE b \in BlocksWith(m)
    <3>1. CASE t \in blocks[b].value
      BY <2>2, <2>3, <2>5, <3>1 DEF ShownFound
    <3>2. ASSUME NEW n \in DOMAIN blockVersions[b], t \in blockVersions[b][n].value
          PROVE  b \in BlocksWith(m)
      <4>1. m \in blockVersions[b][n].sources
        BY <2>3, <2>5, <3>2 DEF CopiesFit, BlockVersionsFit, Covers
      <4> QED
        BY <4>1 DEF BlocksWith
    <3> QED
      BY <2>5, <3>1, <3>2 DEF BlockTexts
  <2>6. BlocksCovered(r)'
    <3>1. \A b \in Blocks : BlockTexts(b)' = BlockTexts(b)
      BY <1>2 DEF BlockTexts
    <3> QED
      BY <1>3, <1>4, <2>5, <3>1 DEF BlocksCovered, ListsAll
  <2>7. ASSUME NEW a \in Attachments, NEW t \in attachments[a].text, t \in row.texts
        PROVE  a \in AttachmentsWith(m)
    BY <2>3, <2>7 DEF CopiesFit, AttachmentsFit, Covers, AttachmentsWith
  <2>8. AttachmentsCovered(r)'
    BY <1>2, <1>3, <1>4, <2>7 DEF AttachmentsCovered, ListsAll
  <2>9. \A k \in 5 .. 9 : ~Past(r, k)'
    <3>1. actor.r = r => actor.step = 0
      BY <1>1 DEF RequestsFit, Lists
    <3> QED
      BY <1>1, <1>3, <1>4, <3>1 DEF Past, ListsAll
  <2> QED
    BY <2>1, <2>4, <2>6, <2>8, <2>9 DEF Covered, Gone
<1>10. \A q \in Requests : Lists(q)' /\ (late'[q] = {} => Tracked(q)' /\ Covered(q)' /\ Gone(q)')
  BY <1>7, <1>8, <1>9
<1> QED
  BY <1>5, <1>6, <1>10 DEF RequestsFit

\* A request that is late stays late.
LEMMA LateStays ==
    ASSUME RequestsFit, [Next]_vars
    PROVE  /\ late' \in [Requests -> SUBSET {"listed", "revived"}]
           /\ \A r \in Requests : late'[r] = {} => late[r] = {}
<1>1. ASSUME UNCHANGED late
      PROVE  /\ late' \in [Requests -> SUBSET {"listed", "revived"}]
             /\ \A r \in Requests : late'[r] = {} => late[r] = {}
  BY <1>1 DEF RequestsFit
<1>2. ASSUME NEW texts, NEW revived, Writes(texts, revived)
      PROVE  /\ late' \in [Requests -> SUBSET {"listed", "revived"}]
             /\ \A r \in Requests : late'[r] = {} => late[r] = {}
  <2>1. ASSUME NEW r \in Requests
        PROVE  late'[r] \in SUBSET {"listed", "revived"} /\ late[r] \subseteq late'[r]
    BY <1>2, <2>1 DEF Writes, RequestsFit
  <2>2. late' = [r \in Requests |-> late'[r]]
    BY <1>2 DEF Writes
  <2> QED
    BY <2>1, <2>2
<1>3. CASE CorrectionNext
  <2>1. ASSUME NEW p \in Threads, CreateNewVersion(p)
        PROVE  UNCHANGED late \/ Writes({thread[p].text}, {})
    BY <2>1 DEF CreateNewVersion
  <2>2. ASSUME NEW p \in Threads, SetStatus(p) \/ InvalidateDependencies(p) \/ FinishRequest(p)
        PROVE  UNCHANGED late
    BY <2>2 DEF SetStatus, InvalidateDependencies, FinishRequest, govVars
  <2>3. ASSUME NEW x \in Changes, CreateRequest(x) \/ CancelRequest(x) PROVE UNCHANGED late
    BY <2>3 DEF CreateRequest, CancelRequest
  <2>4. ASSUME NEW p \in Threads, NEW x \in Changes, ApplyRead(p, x) \/ UndoRead(p, x)
        PROVE  UNCHANGED late
    BY <2>4 DEF ApplyRead, UndoRead, govVars
  <2> QED
    BY <1>1, <1>2, <1>3, <2>1, <2>2, <2>3, <2>4 DEF CorrectionNext
<1>4. CASE PrivacyNext
  <2>1. UNCHANGED late
    BY <1>4 DEF PrivacyNext, PreviewRequest, ConfirmRequest, ExecuteRequest, RetryRequest,
                QuarantineMemory, EraseMemory, EraseFts, EraseEmbeddings, EraseBlocks,
                QuarantineAttachments, EraseAttachments, AdapterFails, CreateReceipt,
                CloseRequest, CrashAndRecover
  <2> QED
    BY <1>1, <2>1
<1>5. CASE UNCHANGED govVars
  BY <1>1, <1>5 DEF govVars
<1>6. ASSUME NEW c \in Candidates,
             IF UNCHANGED embeddings THEN UNCHANGED late ELSE Writes({embedder.text}, {})
      PROVE  UNCHANGED late \/ Writes({embedder.text}, {})
  BY <1>6
<1>7. ASSUME NEW p \in Threads,
             IF UNCHANGED <<blocks, blockVersions, attachments>> THEN UNCHANGED late
             ELSE Writes(thread[p].version.value \cup {s[3] : s \in thread[p].snap}, Revived(p))
      PROVE  \/ UNCHANGED late
             \/ Writes(thread[p].version.value \cup {s[3] : s \in thread[p].snap}, Revived(p))
  BY <1>7
<1> QED
  BY <1>1, <1>2, <1>3, <1>4, <1>5, <1>6, <1>7 DEF Next, vars

\* A step fills no list of a request, or it is a preview.
LEMMA RowsStep ==
    ASSUME VersionInv, RequestsFit, [Next]_vars
    PROVE  RowsStay \/ \E r \in Requests : PreviewRequest(r)
<1>1. UNCHANGED <<privacy, actor>> => RowsStay
  BY RequestsUntouched
<1>2. CASE PrivacyNext
  BY <1>2, AdaptersKeepRows, CallsKeepRows DEF PrivacyNext
<1>3. CASE CorrectionNext
  <2>1. UNCHANGED <<privacy, actor>>
    BY <1>3 DEF CorrectionNext, CreateRequest, CancelRequest, ApplyRead, UndoRead,
                CreateNewVersion, SetStatus, InvalidateDependencies, FinishRequest, govVars
  <2> QED
    BY <1>1, <2>1
<1> QED
  BY <1>1, <1>2, <1>3 DEF Next, vars, govVars

\* Every step keeps the requests.
LEMMA RequestsStep ==
    ASSUME VersionInv, TextsFit, CopiesFit, RequestsFit, ProfileStays, LinksGrow,
           \A r \in Requests : late'[r] = {} => TextsListed(r) /\ CopiesStay(r), [Next]_vars
    PROVE  RequestsFit'
<1>1. ASSUME NEW r \in Requests, PreviewRequest(r) PROVE RequestsFit'
  BY <1>1, PreviewCovers
<1>2. CASE RowsStay
  <2>1. /\ late' \in [Requests -> SUBSET {"listed", "revived"}]
        /\ \A r \in Requests : late'[r] = {} => late[r] = {}
    BY LateStays
  <2>2. ASSUME NEW r \in Requests PROVE privacy'[r] \in PrivacyRow /\ RowStays(r) /\ Lists(r)'
    BY <1>2, <2>2, ListsStay DEF RowsStay, RowStays
  <2>3. ASSUME NEW r \in Requests, late'[r] = {} PROVE Tracked(r)' /\ Covered(r)' /\ Gone(r)'
    <3>1. Tracked(r) /\ Covered(r) /\ Gone(r) /\ RowStays(r) /\ SameLists(r)
      BY <2>1, <2>2, <2>3 DEF RequestsFit, RowStays
    <3>2. TextsListed(r) /\ CopiesStay(r) /\ CopiesListed(r)
      BY <2>3 DEF CopiesStay
    <3> QED
      BY <3>1, <3>2, TrackedStays, CoveredStays, GoneStep
  <2>4. ActorRuns' /\ privacy' \in [Requests -> PrivacyRow]
    BY <1>2, <2>2 DEF RowsStay
  <2> QED
    BY <2>1, <2>2, <2>3, <2>4 DEF RequestsFit
<1> QED
  BY <1>1, <1>2, RowsStep
-----------------------------------------------------------------------------
\* Nothing is stored at first.
LEMMA ErasureInit == Init => ErasureInv
<1> SUFFICES ASSUME Init PROVE ErasureInv
  OBVIOUS
<1>1. TextsFit
  <2>1. \A m \in Memories : versions[m] = << >> /\ DOMAIN versions[m] = {}
    BY DEF Init, StoreInit
  <2>2. LinksFit /\ IndexAtHome /\ VectorsAtHome
    BY DEF Init, StoreInit, LinksFit, IndexAtHome, VectorsAtHome
  <2>3. VersionsAtHome
    BY <2>1 DEF Init, StoreInit, VersionsAtHome
  <2>4. ActiveKnown
    BY DEF Init, StoreInit, NoRow, ActiveKnown
  <2> QED
    BY <2>2, <2>3, <2>4 DEF TextsFit
<1>2. CopiesFit
  <2>1. \A b \in Blocks : blockVersions[b] = << >> /\ DOMAIN blockVersions[b] = {}
    BY DEF Init, ActiveInit
  <2>2. {} \in Snapshots /\ {} \in SUBSET Texts /\ {} \in SUBSET Memories
    BY DEF Snapshots
  <2>3. [status |-> "active", build |-> "stale", lock |-> 0, current |-> 0,
         value |-> {}, snap |-> {}] \in BlockRow
    BY <2>2 DEF BlockRow
  <2>4. BlocksFit
    BY <2>3 DEF Init, ActiveInit, BlocksFit
  <2>5. << >> \in Seq(BlockVersionRow)
    OBVIOUS
  <2>6. BlockVersionsFit
    BY <2>1, <2>5 DEF Init, ActiveInit, BlockVersionsFit
  <2>7. AttachmentsFit
    BY DEF Init, ActiveInit, AttachmentsFit, AttachmentRow, Covers
  <2> QED
    BY <2>4, <2>6, <2>7 DEF CopiesFit
<1>3. ThreadsHold
  BY IdleHolds DEF Init, ActiveInit, ThreadsHold
<1>4. RequestsFit
  <2>1. NoRequest \in PrivacyRow /\ NoRequest.status = "none" /\ NoRequest.texts = {}
        /\ NoRequest.receipt = "none"
    BY DEF NoRequest, PrivacyRow
  <2>2. /\ privacy = [r \in Requests |-> NoRequest] /\ actor.step = 0 /\ actor.r = None
        /\ late = [r \in Requests |-> {}]
    BY DEF Init, Free
  <2>3. ActorRuns
    BY <2>2 DEF ActorRuns, Steps
  <2>4. ASSUME NEW r \in Requests PROVE Lists(r) /\ Tracked(r) /\ Covered(r) /\ Gone(r)
    <3>1. privacy[r] = NoRequest
      BY <2>2
    <3>2. Lists(r)
      BY <2>1, <2>2, <3>1 DEF Lists
    <3>3. Tracked(r)
      BY DEF Tracked, ShownFound, Init, ActiveInit
    <3>4. Covered(r)
      BY <2>1, <3>1 DEF Covered, VersionsCovered, VectorsCovered, BlocksCovered, AttachmentsCovered
    <3>5. \A k \in 5 .. 9 : ~Past(r, k)
      BY <2>1, <2>2, <3>1 DEF Past
    <3> QED
      BY <3>2, <3>3, <3>4, <3>5 DEF Gone
  <2> QED
    BY <2>1, <2>2, <2>3, <2>4 DEF RequestsFit
<1> QED
  BY <1>1, <1>2, <1>3, <1>4 DEF ErasureInv

\* Every step keeps the invariant, whatever late writes do to other requests.
LEMMA ErasureStep == VersionInv /\ VersionInv' /\ ErasureInv /\ [Next]_vars => ErasureInv'
<1> SUFFICES ASSUME VersionInv, VersionInv', ErasureInv, [Next]_vars PROVE ErasureInv'
  OBVIOUS
<1>1. TextsFit /\ CopiesFit /\ ThreadsHold /\ RequestsFit /\ HistoriesKept
  BY VersionStep DEF ErasureInv
<1>2. ProfileStays /\ LinksGrow /\ TextsFit'
  BY <1>1, TextsStep
<1>3. /\ CopiesFit' /\ VersionNumbersStay
      /\ \A r \in Requests : late'[r] = {} => CopiesStay(r)
  BY <1>1, <1>2, CopiesStep
<1>4. ThreadsHold'
  BY <1>1, <1>2, <1>3, HoldsStep
<1>5. \A r \in Requests : late'[r] = {} => TextsListed(r)
  BY <1>1, TextsListedStep
<1>6. RequestsFit'
  BY <1>1, <1>2, <1>3, <1>5, RequestsStep
<1> QED
  BY <1>2, <1>3, <1>4, <1>6 DEF ErasureInv

\* A clean receipt means that no copy is left of a text the request listed: not
\* in the versions, the index, the vectors, the blocks, the attachments or the
\* candidates, through crashes, failed adapters, retries and rebuilds, and
\* whatever other requests erase in between.  Excepted are the requests that are
\* late: after whose preview a thread wrote a listed text, read before the
\* preview or since, or for whose memory a thread revived a block version.
THEOREM CleanReceiptsLeaveNoResidue == Spec => []CleanReceiptLeavesNoResidue
<1>1. ErasureInv => CleanReceiptLeavesNoResidue
  <2> SUFFICES ASSUME ErasureInv, NEW r \in Requests, privacy[r].receipt = "clean", late[r] = {},
                      NEW t \in privacy[r].texts, t \in Residue
               PROVE  FALSE
    BY DEF CleanReceiptLeavesNoResidue
  <2>1. VersionsGone(r) /\ IndexGone(r) /\ VectorsGone(r) /\ BlocksGone(r) /\ AttachmentsGone(r)
    BY DEF ErasureInv, RequestsFit, Gone, Past
  <2>2. TargetOf[r] \in Memories /\ HomeOf(t) = TargetOf[r] /\ t # Erased
    BY ListedTexts DEF ErasureInv, TextsFit
  <2>3. ASSUME NEW m \in Memories, NEW n \in DOMAIN versions[m], t = versions[m][n].text PROVE FALSE
    <3>1. HomeOf(t) = m
      BY <2>2, <2>3 DEF ErasureInv, TextsFit, VersionsAtHome, AtHome
    <3> QED
      BY <2>1, <2>2, <2>3, <3>1 DEF VersionsGone
  <2>4. \/ \E m \in Memories : \E n \in DOMAIN versions[m] : t = versions[m][n].text
        \/ \E row \in fts : t = row[2]
        \/ \E e \in embeddings : t = e[3]
        \/ \E b \in Blocks : t \in BlockTexts(b)
        \/ \E a \in Attachments : t \in attachments[a].text
        \/ \E c \in Candidates : t = cand[c].text
    <3>1. \/ t \in VersionTexts \/ t \in {row[2] : row \in fts}
          \/ t \in {e[3] : e \in embeddings}
          \/ t \in UNION {BlockTexts(b) : b \in Blocks}
          \/ t \in AttachmentTexts \/ t \in EvidenceTexts
      BY DEF Residue
    <3> QED
      BY <3>1 DEF VersionTexts, AttachmentTexts, EvidenceTexts
  <2> QED
    BY <2>1, <2>3, <2>4 DEF VersionsGone, IndexGone, VectorsGone, BlocksGone,
                                  AttachmentsGone
<1>2. VersionInv /\ VersionInv' /\ ErasureInv /\ [Next]_vars => ErasureInv'
  BY ErasureStep
<1> QED
  BY <1>1, <1>2, ErasureInit, VersionInvAlways, PTL DEF Spec
=============================================================================
