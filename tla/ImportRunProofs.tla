--------------------------- MODULE ImportRunProofs ---------------------------
(***************************************************************************)
(* Proofs about ImportRun, the imports of the lite edition, for any        *)
(* archives, runs, worker threads and bounds: conversations are whole, a   *)
(* second copy takes an interruption, and fully_reconstructed means done   *)
(* unless a user steers the run.                                           *)
(*                                                                         *)
(* The worker threads never touch what the commit writes, and leave the    *)
(* rows the commit has created in being: ItemStep says so once for all of  *)
(* their steps.                                                            *)
(***************************************************************************)
EXTENDS ImportRun, TLAPS

\* The batch is inside the loop over the messages of a conversation.
Working == step \in {"create", "map", "schedule"}

\* The message that loop is at.
ThisMessage == CHOOSE k \in todo : TRUE

\* A thread past its poll has a row to work on or a run to finalize.
ClaimsPlaced == \A w \in Workers : pc[w] # "poll" => claim[w] \in Items

\* Where the batch is, and that only conversations of the archive have rows.
BatchPlaced ==
  /\ step = "idle" <=> busy = NoRun
  /\ busy # NoRun => want[busy]
  /\ step \in {"idle", "pick"} => cur = NoConv
  /\ ~Working => todo = {}
  /\ Working => /\ cur \in sessions
                /\ todo # {}
                /\ todo \subseteq Of(busy, cur)
                /\ conv[busy][cur] \in {"pending", "skipped"}
  /\ \A r \in Runs : \A c \in Convs : conv[r][c] = "pending" => c \in Archive(r)

Placed == TypeOK /\ ClaimsPlaced /\ BatchPlaced

\* Conversation c of run r has all its mappings and processing rows.
Whole(r, c) ==
  /\ Of(r, c) \subseteq mapped
  /\ r \in Full => \A m \in Of(r, c) : item[<<r, m>>] # "none"

\* What the batch has behind it is mapped and has its row, and so has every
\* conversation that is shown as in.
ConversationsKept ==
  /\ Working => \A m \in Of(busy, cur) \ todo :
                  m \in mapped /\ (busy \in Full => item[<<busy, m>>] # "none")
  /\ step = "schedule" => ThisMessage \in mapped
  /\ \A r \in Runs : \A c \in Convs :
       conv[r][c] \in {"committed", "skipped"} =>
         \/ conv[r][c] = "skipped" /\ c \in torn[r] \cup Nameless
         \/ busy = r /\ cur = c /\ Working
         \/ Whole(r, c)

\* Without an interruption a message row and its mapping come together, and
\* a conversation that is committed for the first time has neither.
CopiesCounted == faults = 0 =>
  /\ \A m \in Messages :
       copies[m] = IF m \in mapped \/ (step = "map" /\ m = ThisMessage) THEN 1 ELSE 0
  /\ \A m \in mapped : ConvOf[m] \in sessions
  /\ step = "map" => ThisMessage \notin mapped
  /\ Working /\ conv[busy][cur] = "pending" =>
       \A m \in todo : m \in mapped => step = "schedule" /\ m = ThisMessage

\* A row that counts as processed has a succeeded run of its identity; a
\* thread about to say so has seen it.
RowsRan ==
  /\ \A i \in Items : item[i] \in {"succeeded", "already_processed"} => conf[i] \in ran[i[2]]
  /\ \A w \in Workers : pc[w] = "result" =>
       item[claim[w]] # "none" /\ conf[claim[w]] \in ran[claim[w][2]]

\* The commit of run r is over: every conversation is settled, and a batch
\* that a further request of it has started finds none.
Loaded(r) ==
  /\ CommitComplete(r)
  /\ busy = r => step \in {"close", "final"}

Done == {"none", "skipped", "succeeded", "already_processed"}

AllDone(r) == \A i \in Items : i[1] = r => item[i] \in Done

\* As long as no user steers, runs are processed and finalized only when
\* their commit is over, and a verdict that was read stays true.
VerdictsHold ==
  /\ step = "final" => Loaded(busy)
  /\ \A w \in Workers : verdict[w] # "none" => pc[w] = "write"
  /\ controls = 0 =>
       /\ \A r \in Runs : phase[r] \in {"processing", "fully_reconstructed"} => Loaded(r)
       /\ \A w \in Workers : pc[w] # "poll" => Loaded(claim[w][1])
       /\ \A i \in Items : item[i] # "cancelled"
       /\ \A r \in Runs : phase[r] = "fully_reconstructed" => AllDone(r)
       /\ \A w \in Workers : verdict[w] = "fully_reconstructed" => AllDone(claim[w][1])

ImportInv ==
  /\ Placed
  /\ ConversationsKept
  /\ CopiesCounted
  /\ RowsRan
  /\ VerdictsHold
-----------------------------------------------------------------------------
(* The worker threads.                                                     *)

\* No row comes into being or changes its identity, none that is done is
\* touched, and no processing run is lost.
RowsStay ==
  /\ \A i \in Items : item[i] = "none" <=> item'[i] = "none"
  /\ \A i \in Items : item[i] \in Done => item'[i] = item[i]
  /\ \A i \in Items : item'[i] = "cancelled" => item[i] = "cancelled"
  /\ conf' = conf
  /\ \A m \in Messages : ran[m] \subseteq ran'[m]
  /\ faults' >= faults
  /\ controls' >= controls

\* Rows are pairs of a run and a message.
LEMMA ItemParts == \A i \in Items : i[1] \in Runs /\ i[2] \in Messages
BY ImportAssumption

\* What release_claim does to the rows.
LEMMA ReleaseStep ==
  ASSUME NEW w \in Workers, ItemTypeOK, claim[w] \in Items, Release(w)
  PROVE  /\ item' \in [Items -> Statuses] /\ owner' \in [Items -> Owners]
         /\ fresh' = fresh /\ tries' = tries /\ conf' = conf
         /\ \A i \in Items : item[i] = "none" <=> item'[i] = "none"
         /\ \A i \in Items : item[i] \in Done => item'[i] = item[i]
         /\ \A i \in Items : item'[i] \in Done \cup {"cancelled"} => item'[i] = item[i]
BY ImportAssumption DEF ItemTypeOK, Release, Statuses, Terminal, Owners, Done

\* What the recovery does to the rows.
LEMMA SweepStep ==
  ASSUME ItemTypeOK, Sweep
  PROVE  /\ item' \in [Items -> Statuses] /\ owner' \in [Items -> Owners]
         /\ \A i \in Items : item[i] = "none" <=> item'[i] = "none"
         /\ \A i \in Items : item[i] \in Done => item'[i] = item[i]
         /\ \A i \in Items : item'[i] \in Done \cup {"cancelled"} => item'[i] = item[i]
BY ImportAssumption
   DEF ItemTypeOK, Sweep, Swept, SweptOwner, Expired, Statuses, Terminal, Owners, Done

\* Every step of a worker thread and of its surroundings keeps the types,
\* places its claims, and counts rows as processed only when they were.
LEMMA ItemStep ==
  ASSUME ItemTypeOK, ClaimsPlaced, RowsRan, ItemNext
  PROVE  ItemTypeOK' /\ ClaimsPlaced' /\ RowsRan' /\ RowsStay
<1> USE ItemParts
<1> DEFINE Goal == ItemTypeOK' /\ ClaimsPlaced' /\ RowsRan' /\ RowsStay
<1>1. ASSUME NEW w \in Workers, NEW i \in Items, Claim(w, i) PROVE Goal
  <2> USE <1>1 DEF Claim, Goto, runVars, boundVars
  <2>1. ItemTypeOK' /\ ClaimsPlaced'
    BY ImportAssumption
       DEF ItemTypeOK, ClaimsPlaced, Swept, SweptOwner, Expired, Statuses, Terminal, Owners
  <2>2. RowsStay
    BY DEF RowsStay, ItemTypeOK, Claimable, Swept, Expired, Done
  <2>3. RowsRan'
    BY <2>2 DEF RowsRan, RowsStay, ClaimsPlaced, ItemTypeOK, Swept, Expired
  <2> QED BY <2>1, <2>2, <2>3
<1>2. ASSUME NEW w \in Workers, PollEmpty(w) PROVE Goal
  <2> USE <1>2 DEF PollEmpty, Goto, runVars, boundVars
  <2>1. \A r \in Runs : (CHOOSE i \in Items : i[1] = r) \in Items
    BY ImportAssumption
  <2>2. Ready \subseteq Runs
    BY DEF Ready
  <2>3. ItemTypeOK' /\ ClaimsPlaced'
    <3>1. claim' \in [Workers -> Items \cup {NoItem}] /\ ClaimsPlaced'
      <4>1. CASE Ready = {}
        BY <4>1 DEF ItemTypeOK, ClaimsPlaced
      <4>2. CASE Ready # {}
        <5>1. PICK r \in Ready : claim' = [claim EXCEPT ![w] = CHOOSE i \in Items : i[1] = r]
          BY <4>2
        <5>2. (CHOOSE i \in Items : i[1] = r) \in Items
          BY <2>1, <2>2
        <5> QED BY <4>2, <5>1, <5>2 DEF ItemTypeOK, ClaimsPlaced
      <4> QED BY <4>1, <4>2
    <3>2. pc' \in [Workers -> {"poll", "recheck", "begin", "prepare", "process", "result", "fail",
                               "final", "write"}]
      BY DEF ItemTypeOK
    <3> QED BY <3>1, <3>2, SweepStep DEF ItemTypeOK
  <2>4. RowsStay
    BY SweepStep DEF RowsStay, ItemTypeOK
  <2>5. RowsRan'
    BY SweepStep DEF RowsRan, ItemTypeOK, Done, ClaimsPlaced
  <2> QED BY <2>3, <2>4, <2>5
<1>3. ASSUME NEW w \in Workers, NEW r \in Runs, ProcessRequest(w, r) PROVE Goal
  <2> USE <1>3 DEF ProcessRequest, Goto, runVars
  <2>1. (CHOOSE i \in Items : i[1] = r) \in Items
    BY ImportAssumption
  <2>2. ItemTypeOK' /\ ClaimsPlaced'
    BY <2>1, SweepStep, ImportAssumption DEF ItemTypeOK, ClaimsPlaced
  <2>3. RowsStay
    BY SweepStep DEF RowsStay, ItemTypeOK
  <2>4. RowsRan'
    BY SweepStep DEF RowsRan, ItemTypeOK, Done, ClaimsPlaced
  <2> QED BY <2>2, <2>3, <2>4
<1>4. ASSUME NEW w \in Workers, Recheck(w) \/ Begin(w) PROVE Goal
  <2> USE <1>4 DEF Recheck, Begin, Lost, Goto, runVars, boundVars, rowVars
  <2>1. claim[w] \in Items
    BY DEF ClaimsPlaced
  <2>2. ItemTypeOK' /\ ClaimsPlaced'
    <3>1. CASE Recheck(w)
      <4>1. item' \in [Items -> Statuses] /\ owner' \in [Items -> Owners]
            /\ fresh' = fresh /\ tries' = tries /\ conf' = conf
        BY <2>1, <3>1, ReleaseStep DEF ItemTypeOK
      <4>2. /\ claim' \in [Workers -> Items \cup {NoItem}]
            /\ pc' \in [Workers -> {"poll", "recheck", "begin", "prepare", "process", "result",
                                    "fail", "final", "write"}]
            /\ ClaimsPlaced'
        BY <3>1 DEF ItemTypeOK, ClaimsPlaced
      <4> QED BY <3>1, <4>1, <4>2 DEF ItemTypeOK
    <3>2. CASE Begin(w)
      BY <2>1, <3>2, ReleaseStep DEF ItemTypeOK, ClaimsPlaced
    <3> QED BY <3>1, <3>2
  <2>3. RowsStay
    BY <2>1, ReleaseStep DEF RowsStay, ItemTypeOK
  <2>4. RowsRan'
    BY <2>1, ReleaseStep DEF RowsRan, ItemTypeOK, Done, ClaimsPlaced
  <2> QED BY <2>2, <2>3, <2>4
<1>5. ASSUME NEW w \in Workers, Prepare(w) PROVE Goal
  <2> USE <1>5 DEF Prepare, Goto, runVars, boundVars, rowVars
  <2>1. ItemTypeOK'
    BY DEF ItemTypeOK
  <2>2. ClaimsPlaced' /\ RowsRan' /\ RowsStay
    BY DEF ItemTypeOK, ClaimsPlaced, RowsRan, RowsStay
  <2> QED BY <2>1, <2>2
<1>6. ASSUME NEW w \in Workers, Process(w) PROVE Goal
  <2> USE <1>6 DEF Process, Lost, Goto, runVars, boundVars, rowVars
  <2>1. claim[w] \in Items /\ conf[claim[w]] \in Configs /\ claim[w][2] \in Messages
    BY DEF ClaimsPlaced, ItemTypeOK
  <2>2. ItemTypeOK' /\ ClaimsPlaced'
    BY <2>1, ReleaseStep DEF ItemTypeOK, ClaimsPlaced
  <2>3. RowsStay
    BY <2>1, ReleaseStep DEF RowsStay, ItemTypeOK
  <2>4. RowsRan'
    BY <2>1, <2>3, ReleaseStep DEF RowsRan, RowsStay, ItemTypeOK, Done, ClaimsPlaced, Passes, FenceIntact
  <2> QED BY <2>2, <2>3, <2>4
<1>7. ASSUME NEW w \in Workers, Result(w) PROVE Goal
  <2> USE <1>7 DEF Result, Lost, Goto, runVars, boundVars, rowVars
  <2>1. claim[w] \in Items
    BY DEF ClaimsPlaced
  <2>2. ItemTypeOK' /\ ClaimsPlaced'
    BY <2>1, ReleaseStep DEF ItemTypeOK, ClaimsPlaced, Statuses, Terminal, Owners
  <2>3. RowsStay
    BY <2>1, ReleaseStep DEF RowsStay, ItemTypeOK, Passes, FenceIntact, Done
  <2>4. RowsRan'
    BY <2>1, <2>3, ReleaseStep DEF RowsRan, RowsStay, ItemTypeOK, Done, ClaimsPlaced
  <2> QED BY <2>2, <2>3, <2>4
<1>8. ASSUME NEW w \in Workers, Fail(w) PROVE Goal
  <2> USE <1>8 DEF Fail, Goto, runVars, boundVars, rowVars
  <2>1. claim[w] \in Items
    BY DEF ClaimsPlaced
  <2>2. ItemTypeOK' /\ ClaimsPlaced'
    BY <2>1 DEF ItemTypeOK, ClaimsPlaced, Statuses, Terminal, Owners, FailureStatus
  <2>3. RowsStay
    BY <2>1 DEF RowsStay, ItemTypeOK, Passes, FenceIntact, Done, FailureStatus
  <2>4. RowsRan'
    BY <2>1, <2>3 DEF RowsRan, RowsStay, ItemTypeOK, Done, ClaimsPlaced, FailureStatus
  <2> QED BY <2>2, <2>3, <2>4
<1>9. ASSUME NEW w \in Workers, FinalRead(w) PROVE Goal
  <2> USE <1>9 DEF FinalRead, Goto, runVars, boundVars, rowVars
  <2>1. Outcome(claim[w][1]) \in Phases \cup {"none"}
    BY DEF Outcome, Phases
  <2>2. ItemTypeOK' /\ ClaimsPlaced'
    BY <2>1 DEF ItemTypeOK, ClaimsPlaced
  <2>3. RowsStay /\ RowsRan'
    BY DEF RowsStay, RowsRan, ItemTypeOK
  <2> QED BY <2>2, <2>3
<1>10. ASSUME NEW w \in Workers, FinalWrite(w) PROVE Goal
  BY <1>10 DEF FinalWrite, Goto, boundVars, rowVars, ItemTypeOK, ClaimsPlaced, RowsRan, RowsStay
<1>11. ASSUME NEW w \in Workers, Crash(w) PROVE Goal
  BY <1>11, ImportAssumption
     DEF Crash, Goto, runVars, ItemTypeOK, ClaimsPlaced, RowsRan, RowsStay, Owners
<1>12. ASSUME NEW i \in Items, Expire(i) PROVE Goal
  BY <1>12, ImportAssumption
     DEF Expire, runVars, threadVars, ItemTypeOK, ClaimsPlaced, RowsRan, RowsStay
<1>13. ASSUME NEW i \in Items, MemoryWorkerRuns(i) PROVE Goal
  <2> USE <1>13 DEF MemoryWorkerRuns, runVars, rowVars, threadVars, boundVars
  <2>1. ItemTypeOK' /\ ClaimsPlaced' /\ RowsStay
    BY DEF ItemTypeOK, ClaimsPlaced, RowsStay
  <2>2. RowsRan'
    BY <2>1 DEF RowsRan, RowsStay, ItemTypeOK, ClaimsPlaced
  <2> QED BY <2>1, <2>2
<1>14. CASE ChangeProfile
  BY <1>14, ImportAssumption
     DEF ChangeProfile, runVars, rowVars, threadVars, ItemTypeOK, ClaimsPlaced, RowsRan, RowsStay
<1> QED BY <1>1, <1>2, <1>3, <1>4, <1>5, <1>6, <1>7, <1>8, <1>9, <1>10, <1>11, <1>12, <1>13, <1>14
        DEF ItemNext, WorkerStep

\* A worker thread that has a row or a run belongs to a commit that is over,
\* and what it reads at the end is still so when it writes.
LEMMA ItemVerdicts ==
  ASSUME ItemTypeOK, ClaimsPlaced, RowsRan, VerdictsHold, ItemNext,
         UNCHANGED <<archiveVars, batchVars, asked>>
  PROVE  VerdictsHold'
<1> USE ItemParts
<1>1. ItemTypeOK' /\ ClaimsPlaced' /\ RowsStay
  BY ItemStep
<1>2. \A r \in Runs : Loaded(r) => Loaded(r)'
  BY DEF Loaded, CommitComplete, archiveVars, batchVars
<1>3. \A r \in Runs : AllDone(r) => AllDone(r)'
  BY <1>1 DEF AllDone, RowsStay
<1>4. controls' = 0 => controls = 0 /\ \A i \in Items : item'[i] # "cancelled"
  BY <1>1 DEF RowsStay, ItemTypeOK, VerdictsHold
<1>5. step' = "final" => Loaded(busy)'
  BY DEF VerdictsHold, Loaded, CommitComplete, archiveVars, batchVars
<1> DEFINE Placement == \A w \in Workers : verdict'[w] # "none" => pc'[w] = "write"
           Commits == /\ \A r \in Runs : phase'[r] \in {"processing", "fully_reconstructed"} => Loaded(r)
                      /\ \A w \in Workers : pc'[w] # "poll" => Loaded(claim'[w][1])
           Reads == /\ \A r \in Runs : phase'[r] = "fully_reconstructed" => AllDone(r)
                    /\ \A w \in Workers : verdict'[w] = "fully_reconstructed" => AllDone(claim'[w][1])
<1>6. SUFFICES Placement /\ (controls' = 0 => Commits /\ Reads)
  <2> SUFFICES ASSUME Placement, controls' = 0 => Commits /\ Reads PROVE VerdictsHold'
    OBVIOUS
  <2>1. \A w \in Workers : verdict'[w] = "fully_reconstructed" => claim'[w] \in Items
    BY <1>1 DEF ClaimsPlaced
  <2>2. \A w \in Workers : pc'[w] # "poll" => claim'[w][1] \in Runs
    BY <1>1 DEF ClaimsPlaced
  <2>3. \A w \in Workers : verdict'[w] = "fully_reconstructed" => claim'[w][1] \in Runs
    BY <2>1
  <2>4. CASE controls' # 0
    BY <1>5, <2>4 DEF VerdictsHold
  <2>5. CASE controls' = 0
    <3>1. \A r \in Runs : phase'[r] \in {"processing", "fully_reconstructed"} => Loaded(r)'
      BY <1>2, <2>5
    <3>2. \A w \in Workers : pc'[w] # "poll" => Loaded(claim[w][1])'
      BY <1>2, <2>2, <2>5 DEF Loaded, CommitComplete, archiveVars, batchVars
    <3>3. \A r \in Runs : phase'[r] = "fully_reconstructed" => AllDone(r)'
      BY <1>3, <2>5
    <3>4. \A w \in Workers : verdict'[w] = "fully_reconstructed" => AllDone(claim[w][1])'
      BY <1>1, <2>3, <2>5 DEF AllDone, RowsStay
    <3> QED BY <1>4, <1>5, <2>5, <3>1, <3>2, <3>3, <3>4 DEF VerdictsHold
  <2> QED BY <2>4, <2>5
<1>7. ASSUME NEW w \in Workers, NEW i \in Items, Claim(w, i)
      PROVE  Placement /\ (controls' = 0 => Commits /\ Reads)
  BY <1>4, <1>7 DEF Claim, Claimable, Goto, runVars, boundVars, ItemTypeOK, VerdictsHold
<1>8. ASSUME NEW w \in Workers, PollEmpty(w)
      PROVE  Placement /\ (controls' = 0 => Commits /\ Reads)
  <2> USE <1>8 DEF PollEmpty, Goto, runVars, boundVars
  <2>1. CASE Ready = {}
    BY <1>4, <2>1 DEF ItemTypeOK, VerdictsHold
  <2>2. CASE Ready # {}
    <3>1. PICK r \in Ready : claim' = [claim EXCEPT ![w] = CHOOSE i \in Items : i[1] = r]
      BY <2>2
    <3>2. r \in Runs /\ phase[r] = "processing"
      BY DEF Ready
    <3>3. (CHOOSE i \in Items : i[1] = r)[1] = r
      BY <3>2, ImportAssumption
    <3> QED BY <1>4, <2>2, <3>1, <3>2, <3>3 DEF ItemTypeOK, VerdictsHold
  <2> QED BY <2>1, <2>2
<1>9. ASSUME NEW w \in Workers, NEW r \in Runs, ProcessRequest(w, r)
      PROVE  Placement /\ (controls' = 0 => Commits /\ Reads)
  BY <1>4, <1>9 DEF ProcessRequest, Goto, runVars, ItemTypeOK, VerdictsHold
<1>10. ASSUME NEW w \in Workers,
              Recheck(w) \/ Begin(w) \/ Prepare(w) \/ Process(w) \/ Result(w) \/ Fail(w)
       PROVE  Placement /\ (controls' = 0 => Commits /\ Reads)
  <2>1. /\ phase' = phase /\ verdict' = verdict
        /\ pc[w] # "poll" /\ pc[w] # "write"
        /\ \E where \in {"poll", "begin", "prepare", "process", "result", "fail", "final"} :
             pc' = [pc EXCEPT ![w] = where]
        /\ claim' = claim \/ (claim' = [claim EXCEPT ![w] = NoItem] /\ pc' = [pc EXCEPT ![w] = "poll"])
    BY <1>10
       DEF Recheck, Begin, Prepare, Process, Result, Fail, Lost, Goto, runVars, boundVars
  <2>2. verdict[w] = "none"
    BY <2>1 DEF VerdictsHold
  <2> QED BY <1>4, <2>1, <2>2 DEF ItemTypeOK, VerdictsHold
<1>11. ASSUME NEW w \in Workers, FinalRead(w)
       PROVE  Placement /\ (controls' = 0 => Commits /\ Reads)
  <2> USE <1>11 DEF FinalRead, Goto, runVars, boundVars
  <2>1. controls' = 0 /\ Outcome(claim[w][1]) = "fully_reconstructed" => AllDone(claim[w][1])
    BY <1>4 DEF Outcome, Report, Rows, AllDone, Done, Terminal, VerdictsHold
  <2> QED BY <1>4, <2>1 DEF ItemTypeOK, VerdictsHold
<1>12. ASSUME NEW w \in Workers, FinalWrite(w)
       PROVE  Placement /\ (controls' = 0 => Commits /\ Reads)
  <2> USE <1>12 DEF FinalWrite, Goto, boundVars
  <2>1. claim[w][1] \in Runs
    BY DEF ClaimsPlaced
  <2> QED BY <1>4, <2>1 DEF ItemTypeOK, VerdictsHold
<1>13. ASSUME NEW w \in Workers, Crash(w)
       PROVE  Placement /\ (controls' = 0 => Commits /\ Reads)
  BY <1>4, <1>13 DEF Crash, Goto, runVars, ItemTypeOK, VerdictsHold
<1>14. ASSUME NEW i \in Items, Expire(i) \/ MemoryWorkerRuns(i)
       PROVE  Placement /\ (controls' = 0 => Commits /\ Reads)
  BY <1>4, <1>14 DEF Expire, MemoryWorkerRuns, runVars, threadVars, boundVars, VerdictsHold
<1>15. CASE ChangeProfile
  BY <1>4, <1>15 DEF ChangeProfile, runVars, threadVars, VerdictsHold
<1> QED BY <1>6, <1>7, <1>8, <1>9, <1>10, <1>11, <1>12, <1>13, <1>14, <1>15 DEF ItemNext, WorkerStep
-----------------------------------------------------------------------------
(* The commit.                                                             *)

\* Steps that leave the commit alone and the rows in being keep what is known
\* of it.
LEMMA CommitFrame ==
  ASSUME Placed, ConversationsKept, CopiesCounted,
         UNCHANGED <<conv, sessions, mapped, copies, torn, batchVars>>,
         \A i \in Items : item[i] = "none" <=> item'[i] = "none",
         faults' \in Nat, faults' >= faults
  PROVE  BatchPlaced' /\ ConversationsKept' /\ CopiesCounted'
<1> USE DEF batchVars
<1>1. BatchPlaced'
  BY DEF Placed, BatchPlaced, Working, Of, Archive
<1>2. ConversationsKept'
  <2>1. \A r \in Runs : \A c \in Convs : Whole(r, c) => Whole(r, c)'
    BY DEF Whole, Of
  <2>2. Working' => \A m \in Of(busy', cur') \ todo' :
                       m \in mapped' /\ (busy' \in Full => item'[<<busy', m>>] # "none")
    BY DEF ConversationsKept, Working, Of
  <2>3. step' = "schedule" => ThisMessage' \in mapped'
    BY DEF ConversationsKept, ThisMessage
  <2>4. ASSUME NEW r \in Runs, NEW c \in Convs, conv'[r][c] \in {"committed", "skipped"}
        PROVE  \/ conv'[r][c] = "skipped" /\ c \in torn'[r] \cup Nameless
               \/ busy' = r /\ cur' = c /\ Working'
               \/ Whole(r, c)'
    BY <2>1, <2>4 DEF ConversationsKept, Working
  <2> QED BY <2>2, <2>3, <2>4 DEF ConversationsKept, Of
<1>3. CopiesCounted'
  <2>1. faults' = 0 => faults = 0
    BY DEF Placed, TypeOK, ItemTypeOK
  <2> QED BY <2>1 DEF CopiesCounted, Working, ThisMessage
<1> QED BY <1>1, <1>2, <1>3

\* A control request writes the run's status and the flags, cancels or queues
\* rows, and leaves the commit alone.
LEMMA ControlStep ==
  ASSUME ImportInv, NEW r \in Runs,
         \/ DryRun(r) \/ Pause(r) \/ Resume(r) \/ Cancel(r) \/ SetFlags(r) \/ RetryFailed(r)
         \/ RecoverInterrupted
  PROVE  ImportInv'
<1> USE DEF ImportInv, Placed
<1>1. UNCHANGED <<conv, sessions, mapped, copies, torn, batchVars, threadVars, conf, ran, config>>
  BY DEF DryRun, Pause, Resume, Cancel, SetFlags, RetryFailed, RecoverInterrupted, Asking,
         KeepReport, archiveVars, rowVars, boundVars
<1>2. /\ phase' \in [Runs -> Phases]
      /\ plan' \in [Runs -> Configs \cup {NoConfig}]
      /\ paused' \in [Runs -> BOOLEAN]
      /\ cancelled' \in [Runs -> BOOLEAN]
      /\ asked' \in [Runs -> {"none", "pause", "resume", "cancel"}]
  <2>1. CASE DryRun(r)
    BY <2>1 DEF DryRun, KeepReport, TypeOK, ItemTypeOK, Phases
  <2>2. CASE Pause(r)
    BY <2>2 DEF Pause, Asking, archiveVars, TypeOK, ItemTypeOK, Phases
  <2>3. CASE Resume(r)
    BY <2>3 DEF Resume, Asking, archiveVars, TypeOK, ItemTypeOK, Phases
  <2>4. CASE Cancel(r)
    BY <2>4 DEF Cancel, Asking, archiveVars, TypeOK, ItemTypeOK, Phases
  <2>5. CASE SetFlags(r)
    BY <2>5 DEF SetFlags, archiveVars, TypeOK, ItemTypeOK
  <2>6. CASE RetryFailed(r)
    BY <2>6 DEF RetryFailed, archiveVars, TypeOK, ItemTypeOK, Phases
  <2>7. CASE RecoverInterrupted
    BY <2>7 DEF RecoverInterrupted, archiveVars, TypeOK, ItemTypeOK, Phases
  <2> QED BY <2>1, <2>2, <2>3, <2>4, <2>5, <2>6, <2>7
<1>3. /\ item' \in [Items -> Statuses]
      /\ owner' \in [Items -> Owners]
      /\ fresh' \in [Items -> BOOLEAN]
      /\ tries' \in [Items -> Nat]
  <2>1. CASE DryRun(r) \/ Pause(r) \/ Resume(r) \/ SetFlags(r) \/ RecoverInterrupted
    BY <2>1 DEF DryRun, Pause, Resume, SetFlags, RecoverInterrupted, rowVars, TypeOK, ItemTypeOK
  <2>2. CASE Cancel(r)
    BY <2>2 DEF Cancel, TypeOK, ItemTypeOK, Statuses, Terminal, Owners
  <2>3. CASE RetryFailed(r)
    BY <2>3 DEF RetryFailed, TypeOK, ItemTypeOK, Statuses, Terminal, Owners
  <2> QED BY <2>1, <2>2, <2>3
<1>4. /\ faults' = faults /\ faults' \in 0..MaxEvents /\ controls' \in 0..MaxEvents
      /\ \/ controls' > 0
         \/ DryRun(r) /\ controls' = controls
         \/ SetFlags(r) /\ controls' = controls
  <2>1. CASE DryRun(r) \/ SetFlags(r)
    BY <2>1 DEF DryRun, SetFlags, boundVars, TypeOK, ItemTypeOK
  <2>2. CASE Pause(r) \/ Resume(r) \/ Cancel(r) \/ RetryFailed(r) \/ RecoverInterrupted
    <3>1. faults' = faults /\ faults + controls < MaxEvents /\ controls' = controls + 1
      BY <2>2 DEF Pause, Resume, Cancel, RetryFailed, RecoverInterrupted, Asking
    <3> QED BY <3>1, ImportAssumption DEF TypeOK, ItemTypeOK
  <2> QED BY <2>1, <2>2
<1>5. \A i \in Items : /\ item[i] = "none" <=> item'[i] = "none"
                       /\ item'[i] \in {"succeeded", "already_processed"} => item'[i] = item[i]
                       /\ item[i] \in Done => item'[i] = item[i]
  <2>1. CASE DryRun(r) \/ Pause(r) \/ Resume(r) \/ SetFlags(r) \/ RecoverInterrupted
    BY <2>1 DEF DryRun, Pause, Resume, SetFlags, RecoverInterrupted, rowVars
  <2>2. CASE Cancel(r)
    BY <2>2 DEF Cancel, StoppedByCancel, Done
  <2>3. CASE RetryFailed(r)
    BY <2>3 DEF RetryFailed, Done
  <2> QED BY <2>1, <2>2, <2>3
<1>6. TypeOK' /\ ClaimsPlaced'
  BY <1>1, <1>2, <1>3, <1>4 DEF TypeOK, ItemTypeOK, ClaimsPlaced, threadVars, batchVars
<1>7. BatchPlaced' /\ ConversationsKept' /\ CopiesCounted'
  BY <1>1, <1>4, <1>5, CommitFrame DEF TypeOK, ItemTypeOK
<1>8. RowsRan'
  BY <1>1, <1>5 DEF RowsRan, ClaimsPlaced, threadVars
<1>9. VerdictsHold'
  <2>1. \A k \in Runs : Loaded(k) => Loaded(k)'
    BY <1>1 DEF Loaded, CommitComplete, batchVars
  <2>2. (step' = "final" => Loaded(busy)') /\ \A w \in Workers : verdict'[w] # "none" => pc'[w] = "write"
    BY <1>1 DEF VerdictsHold, Loaded, CommitComplete, batchVars, threadVars
  <2>3. CASE controls' # 0
    BY <2>2, <2>3 DEF VerdictsHold
  <2>4. CASE controls' = 0
    <3>1. controls = 0 /\ (DryRun(r) \/ SetFlags(r))
      BY <1>4, <2>4
    <3>2. item' = item
      BY <3>1 DEF DryRun, SetFlags, rowVars
    <3>3. \A k \in Runs : phase'[k] \in {"processing", "fully_reconstructed"} => phase'[k] = phase[k]
      BY <3>1 DEF DryRun, KeepReport, SetFlags, TypeOK, ItemTypeOK
    <3> QED BY <1>1, <2>1, <2>2, <2>4, <3>1, <3>2, <3>3
            DEF VerdictsHold, AllDone, Loaded, CommitComplete, batchVars, threadVars
  <2> QED BY <2>3, <2>4
<1> QED BY <1>6, <1>7, <1>8, <1>9

\* Marking a conversation keeps the type of the table.
LEMMA MarkKeepsType ==
  ASSUME TypeOK, NEW r \in Runs, NEW c \in Convs, NEW status \in Settled
  PROVE  [conv EXCEPT ![r][c] = status] \in [Runs -> [Convs -> Settled \cup {"absent", "pending"}]]
<1>1. conv \in [Runs -> [Convs -> Settled \cup {"absent", "pending"}]]
  BY DEF TypeOK
<1>2. [conv[r] EXCEPT ![c] = status] \in [Convs -> Settled \cup {"absent", "pending"}]
  BY <1>1
<1> QED BY <1>1, <1>2

\* A conversation of the archive has a message there.
LEMMA ArchiveHasMessages ==
  ASSUME NEW r \in Runs, NEW c \in Archive(r)
  PROVE  Of(r, c) # {} /\ Of(r, c) \subseteq Messages
<1>1. PICK i \in Items : i[1] = r /\ ConvOf[i[2]] = c
  BY DEF Archive
<1>2. i = <<r, i[2]>> /\ i[2] \in Messages
  BY <1>1, ImportAssumption
<1> QED BY <1>1, <1>2 DEF Of

\* Steps of the service keep the verdicts when they keep what is loaded and
\* done, and write processing or fully_reconstructed only where it is.
LEMMA BatchVerdicts ==
  ASSUME ItemTypeOK, ClaimsPlaced, VerdictsHold, UNCHANGED threadVars,
         controls' = controls \/ controls' > 0,
         \A k \in Runs : Loaded(k) => Loaded(k)' /\ (AllDone(k) => AllDone(k)'),
         \A k \in Runs : phase'[k] \in {"processing", "fully_reconstructed"} =>
           \/ phase'[k] = phase[k]
           \/ Loaded(k)' /\ (controls = 0 /\ phase'[k] = "fully_reconstructed" => AllDone(k)'),
         step' = "final" => Loaded(busy)',
         \A i \in Items : item'[i] = "cancelled" => item[i] = "cancelled"
  PROVE  VerdictsHold'
<1> USE ItemParts DEF threadVars
<1>1. \A w \in Workers : pc[w] # "poll" => claim[w][1] \in Runs
  BY DEF ClaimsPlaced
<1>2. \A w \in Workers : verdict'[w] # "none" => pc'[w] = "write"
  BY DEF VerdictsHold
<1>3. CASE controls' # 0
  BY <1>2, <1>3 DEF VerdictsHold
<1>4. CASE controls' = 0 /\ controls = 0
  <2>1. \A k \in Runs : phase'[k] \in {"processing", "fully_reconstructed"} => Loaded(k)'
    BY <1>4 DEF VerdictsHold
  <2>2. \A k \in Runs : phase'[k] = "fully_reconstructed" => AllDone(k)'
    BY <1>4 DEF VerdictsHold
  <2>3. \A w \in Workers : pc'[w] # "poll" => Loaded(claim[w][1])'
    BY <1>1, <1>4 DEF VerdictsHold, Loaded, CommitComplete
  <2>4. \A w \in Workers : verdict'[w] = "fully_reconstructed" => AllDone(claim[w][1])'
    <3> SUFFICES ASSUME NEW w \in Workers, verdict'[w] = "fully_reconstructed"
                 PROVE  AllDone(claim[w][1])'
      OBVIOUS
    <3> DEFINE k == claim[w][1]
    <3>1. k \in Runs /\ Loaded(k) /\ AllDone(k)
      BY <1>1, <1>4 DEF VerdictsHold
    <3>2. AllDone(k)'
      BY <3>1
    <3> QED BY <3>2 DEF AllDone
  <2> QED BY <1>2, <1>4, <2>1, <2>2, <2>3, <2>4 DEF VerdictsHold
<1>5. controls' = 0 => controls = 0
  OBVIOUS
<1> QED BY <1>3, <1>4, <1>5

\* reconstruct adds pending rows for conversations of the archive.
LEMMA ReconstructStep ==
  ASSUME ImportInv, NEW r \in Runs, Reconstruct(r)
  PROVE  ImportInv'
<1> USE DEF ImportInv, Placed, Reconstruct, rowVars, threadVars, boundVars, batchVars
<1>1. \A k \in Runs : \A c \in Convs :
        \/ conv'[k][c] = conv[k][c]
        \/ conv[k][c] = "absent" /\ conv'[k][c] = "pending" /\ c \in Archive(k)
  BY DEF Upserted, TypeOK
<1>2. conv' \in [Runs -> [Convs -> Settled \cup {"absent", "pending"}]]
  BY DEF Upserted, TypeOK
<1>3. TypeOK' /\ ClaimsPlaced'
  BY <1>2 DEF TypeOK, ItemTypeOK, Phases, ClaimsPlaced
<1>4. BatchPlaced'
  BY <1>1 DEF BatchPlaced, Working, Of, Archive, TypeOK
<1>5. ConversationsKept'
  <2>1. \A k \in Runs : \A c \in Convs : Whole(k, c) => Whole(k, c)'
    BY DEF Whole, Of
  <2>2. Working' => Working
    BY DEF Working
  <2> QED BY <1>1, <2>1, <2>2 DEF ConversationsKept, Working, Of, ThisMessage
<1>6. CopiesCounted'
  <2>1. Working /\ conv'[busy][cur] = "pending" => conv[busy][cur] = "pending"
    BY <1>1 DEF BatchPlaced, TypeOK, Working
  <2> QED BY <2>1 DEF CopiesCounted, Working, ThisMessage
<1>7. RowsRan'
  BY DEF RowsRan
<1>8. VerdictsHold'
  <2>1. \A k \in Runs : Loaded(k) => Loaded(k)' /\ (AllDone(k) => AllDone(k)')
    <3> SUFFICES ASSUME NEW k \in Runs, Loaded(k) PROVE Loaded(k)' /\ (AllDone(k) => AllDone(k)')
      OBVIOUS
    <3>1. \A c \in Archive(k) : c \in Convs
      BY CommitAssumption, ItemParts DEF Archive
    <3>2. CommitComplete(k)'
      BY <1>1, <3>1 DEF CommitComplete, Loaded, Settled
    <3> QED BY <3>2 DEF Loaded, AllDone
  <2>2. \A k \in Runs : phase'[k] \in {"processing", "fully_reconstructed"} => phase'[k] = phase[k]
    BY DEF TypeOK, ItemTypeOK
  <2>3. step' = "final" => Loaded(busy)'
    <3>1. step = "final" => busy \in Runs
      BY DEF BatchPlaced, TypeOK
    <3> QED BY <2>1, <3>1 DEF VerdictsHold, Loaded, CommitComplete
  <2> QED BY <2>1, <2>2, <2>3, BatchVerdicts DEF TypeOK
<1> QED BY <1>3, <1>4, <1>5, <1>6, <1>7, <1>8

\* A commit request only asks for a batch.
LEMMA RequestStep ==
  ASSUME ImportInv, NEW r \in Runs, RequestCommit(r)
  PROVE  ImportInv'
<1> USE DEF ImportInv, Placed, RequestCommit, archiveVars, itemVars, runVars, rowVars, threadVars,
            boundVars
<1>0. controls' \in 0..MaxEvents /\ (controls' = controls \/ controls' > 0)
  BY ImportAssumption DEF TypeOK, ItemTypeOK
<1>1. TypeOK' /\ ClaimsPlaced'
  BY <1>0 DEF TypeOK, ItemTypeOK, ClaimsPlaced
<1>2. BatchPlaced'
  BY DEF BatchPlaced, Working, TypeOK
<1>3. ConversationsKept' /\ CopiesCounted' /\ RowsRan'
  BY DEF ConversationsKept, CopiesCounted, RowsRan, Working, ThisMessage, Whole
<1>4. VerdictsHold'
  <2>1. \A k \in Runs : Loaded(k) => Loaded(k)' /\ (AllDone(k) => AllDone(k)')
    BY DEF Loaded, CommitComplete, AllDone
  <2>2. step' = "final" => Loaded(busy)'
    BY DEF VerdictsHold, Loaded, CommitComplete
  <2>3. UNCHANGED <<threadVars, phase, item>>
    OBVIOUS
  <2> HIDE DEF RequestCommit
  <2> QED BY <1>0, <2>1, <2>2, <2>3, BatchVerdicts DEF TypeOK
<1> QED BY <1>1, <1>2, <1>3, <1>4

\* A batch starts for a run that was asked for, or is refused.
LEMMA StartStep ==
  ASSUME ImportInv, NEW r \in Runs, StartBatch(r)
  PROVE  ImportInv'
<1> USE DEF ImportInv, Placed, StartBatch, EndBatch, archiveVars, rowVars, threadVars, boundVars
<1>1. TypeOK' /\ ClaimsPlaced'
  <2>1. phase' \in [Runs -> Phases]
    BY DEF TypeOK, ItemTypeOK, Phases
  <2> QED BY <2>1 DEF TypeOK, ItemTypeOK, ClaimsPlaced
<1>2. busy = NoRun /\ step = "idle" /\ ~Working /\ ~Working' /\ cur = NoConv /\ cur' = NoConv
  BY CommitAssumption DEF BatchPlaced, Working
<1>3. BatchPlaced'
  BY <1>2, CommitAssumption DEF BatchPlaced, Working, Archive, TypeOK
<1>4. ConversationsKept'
  BY <1>2 DEF ConversationsKept, Working, Whole, Of
<1>5. CopiesCounted' /\ RowsRan'
  BY <1>2 DEF CopiesCounted, RowsRan, Working
<1>6. VerdictsHold'
  <2>1. \A k \in Runs : Loaded(k) => Loaded(k)' /\ (AllDone(k) => AllDone(k)')
    <3> SUFFICES ASSUME NEW k \in Runs, Loaded(k) PROVE Loaded(k)' /\ (AllDone(k) => AllDone(k)')
      OBVIOUS
    <3>1. Pending(k) = {}
      BY DEF Loaded, CommitComplete, Pending, BatchPlaced, Settled
    <3>2. busy' = k => step' \in {"close", "final"}
      BY <3>1, CommitAssumption
    <3> QED BY <3>2 DEF Loaded, CommitComplete, AllDone
  <2>2. \A k \in Runs : phase'[k] \in {"processing", "fully_reconstructed"} => phase'[k] = phase[k]
    BY DEF TypeOK, ItemTypeOK
  <2>3. step' # "final"
    OBVIOUS
  <2> QED BY <2>1, <2>2, <2>3, BatchVerdicts DEF TypeOK
<1> QED BY <1>1, <1>3, <1>4, <1>5, <1>6

\* A batch that ends leaves no conversation in the middle, unless it says so.
LEMMA EndStep ==
  ASSUME ImportInv, NEW again, EndBatch(busy, again), busy \in Runs,
         UNCHANGED <<plan, conv, sessions, mapped, copies, item, conf, ran, threadVars>>,
         \/ ~Working /\ torn' = torn
         \/ /\ faults' > 0 \/ step = "schedule"
            /\ torn' = IF conv[busy][cur] = "skipped"
                         THEN [torn EXCEPT ![busy] = @ \cup {cur}] ELSE torn,
         faults' \in Nat, faults' >= faults
  PROVE  BatchPlaced' /\ ConversationsKept' /\ CopiesCounted' /\ RowsRan'
<1> USE DEF ImportInv, Placed, EndBatch
<1>1. ~Working' /\ step' = "idle" /\ cur' = NoConv
  BY DEF Working
<1>2. BatchPlaced'
  BY <1>1, CommitAssumption DEF BatchPlaced, Working, Archive
<1>3. ConversationsKept'
  <2>1. \A k \in Runs : \A c \in Convs : Whole(k, c) => Whole(k, c)'
    BY DEF Whole, Of
  <2>2. \A k \in Runs : torn[k] \subseteq torn'[k]
    BY DEF TypeOK
  <2>3. Working /\ conv[busy][cur] \in {"committed", "skipped"} =>
          conv[busy][cur] = "skipped" /\ cur \in torn'[busy]
    BY DEF BatchPlaced, TypeOK
  <2> QED BY <1>1, <2>1, <2>2, <2>3 DEF ConversationsKept
<1>4. CopiesCounted'
  <2>1. faults' = 0 => faults = 0 /\ step # "map"
    BY DEF TypeOK, ItemTypeOK, Working
  <2> QED BY <1>1, <2>1 DEF CopiesCounted
<1>5. RowsRan'
  BY DEF RowsRan, threadVars
<1> QED BY <1>2, <1>3, <1>4, <1>5

\* Back-pressure or a flag holds the batch before its next conversation.
LEMMA HoldStep ==
  ASSUME ImportInv, HoldBatch
  PROVE  ImportInv'
<1> USE DEF ImportInv, Placed, HoldBatch, archiveVars, rowVars, boundVars
<1>1. busy \in Runs
  BY CommitAssumption DEF BatchPlaced, TypeOK
<1>2. TypeOK' /\ ClaimsPlaced'
  BY <1>1 DEF EndBatch, TypeOK, ItemTypeOK, Phases, ClaimsPlaced, threadVars
<1>3. BatchPlaced' /\ ConversationsKept' /\ CopiesCounted' /\ RowsRan'
  <2>1. ~Working /\ torn' = torn
    BY DEF Working
  <2>2. faults' \in Nat /\ faults' >= faults
    BY DEF TypeOK, ItemTypeOK
  <2>3. UNCHANGED <<plan, conv, sessions, mapped, copies, item, conf, ran, threadVars>>
    OBVIOUS
  <2> QED BY <1>1, <2>1, <2>2, <2>3, EndStep
<1>4. VerdictsHold'
  <2>1. \A k \in Runs : Loaded(k) => Loaded(k)' /\ (AllDone(k) => AllDone(k)')
    BY <1>1, CommitAssumption DEF EndBatch, Loaded, CommitComplete, AllDone, TypeOK
  <2>2. \A k \in Runs : phase'[k] \in {"processing", "fully_reconstructed"} => phase'[k] = phase[k]
    BY DEF TypeOK, ItemTypeOK
  <2> QED BY <2>1, <2>2, BatchVerdicts DEF EndBatch, TypeOK
<1> QED BY <1>2, <1>3, <1>4

\* The process dies: the conversation it repaired is torn.
LEMMA CrashStep ==
  ASSUME ImportInv, CrashBatch
  PROVE  ImportInv'
<1> USE DEF ImportInv, Placed, CrashBatch, rowVars, runVars
<1>1. busy \in Runs
  BY DEF TypeOK
<1>2. TypeOK' /\ ClaimsPlaced'
  BY <1>1, ImportAssumption DEF EndBatch, TypeOK, ItemTypeOK, ClaimsPlaced, threadVars
<1>3. Working => todo # {} /\ cur # NoConv
  BY CommitAssumption DEF BatchPlaced, TypeOK
<1>4. BatchPlaced' /\ ConversationsKept' /\ CopiesCounted' /\ RowsRan'
  <2>1. faults' > 0 /\ faults' \in Nat /\ faults' >= faults
    BY DEF TypeOK, ItemTypeOK
  <2>2. CASE Working
    <3>1. torn' = IF conv[busy][cur] = "skipped" THEN [torn EXCEPT ![busy] = @ \cup {cur}] ELSE torn
      BY <1>3, <2>2 DEF Repairing
    <3> QED BY <1>1, <2>1, <3>1, EndStep
  <2>3. CASE ~Working
    <3>1. torn' = torn
      BY <2>3 DEF BatchPlaced
    <3> QED BY <1>1, <2>1, <2>3, <3>1, EndStep
  <2> QED BY <2>2, <2>3
<1>5. VerdictsHold'
  <2>1. \A k \in Runs : Loaded(k) => Loaded(k)' /\ (AllDone(k) => AllDone(k)')
    BY <1>1, CommitAssumption DEF EndBatch, Loaded, CommitComplete, AllDone, TypeOK
  <2> QED BY <2>1, BatchVerdicts DEF EndBatch, TypeOK
<1> QED BY <1>2, <1>4, <1>5

\* A call that raises fails a new conversation, or ends the batch and its
\* repair.
LEMMA RaisesStep ==
  ASSUME ImportInv, Raises, Working, faults' > 0 \/ step = "schedule",
         faults' \in 0..MaxEvents, faults' >= faults
  PROVE  ImportInv'
<1> USE DEF ImportInv, Placed, Raises, rowVars, runVars
<1>1. busy \in Runs /\ cur \in Convs
  BY CommitAssumption DEF BatchPlaced, TypeOK, Working
<1>2. step = "map" => faults' > 0
  OBVIOUS
<1>3. ClaimsPlaced'
  BY DEF ClaimsPlaced, threadVars
<1>4. CASE Repairing
  <2>1. TypeOK'
    <3>1. torn' \in [Runs -> SUBSET Convs]
      BY <1>1, <1>4 DEF TypeOK
    <3>2. /\ want' \in [Runs -> BOOLEAN] /\ busy' = NoRun /\ step' = "idle" /\ cur' = NoConv
          /\ todo' = {} /\ target' = target /\ conv' = conv
      BY <1>4 DEF EndBatch, TypeOK
    <3> QED BY <3>1, <3>2 DEF TypeOK, ItemTypeOK, threadVars
  <2>2. BatchPlaced' /\ ConversationsKept' /\ CopiesCounted' /\ RowsRan'
    <3>1. torn' = IF conv[busy][cur] = "skipped" THEN [torn EXCEPT ![busy] = @ \cup {cur}] ELSE torn
      BY <1>4 DEF Repairing
    <3>2. EndBatch(busy, FALSE) /\ UNCHANGED <<plan, conv, sessions, mapped, copies, item, conf, ran, threadVars>>
      BY <1>4
    <3>3. faults' \in Nat
      BY ImportAssumption
    <3> QED BY <1>1, <3>1, <3>2, <3>3, EndStep
  <2>3. VerdictsHold'
    <3>1. \A k \in Runs : Loaded(k) => Loaded(k)' /\ (AllDone(k) => AllDone(k)')
      BY <1>1, <1>4, CommitAssumption DEF EndBatch, Loaded, CommitComplete, AllDone, TypeOK
    <3> QED BY <1>4, <3>1, BatchVerdicts DEF EndBatch, TypeOK
  <2> QED BY <1>3, <2>1, <2>2, <2>3
<1>5. CASE ~Repairing
  <2> USE <1>5 DEF Mark
  <2>1. TypeOK'
    <3>1. conv' \in [Runs -> [Convs -> Settled \cup {"absent", "pending"}]]
      <4>1. conv' = [conv EXCEPT ![busy][cur] = "failed"]
        OBVIOUS
      <4>2. "failed" \in Settled
        BY DEF Settled
      <4> QED BY <1>1, <4>1, <4>2, MarkKeepsType
    <3> QED BY <1>1, <3>1 DEF TypeOK, ItemTypeOK, threadVars
  <2>2. \A k \in Runs : \A c \in Convs :
          conv'[k][c] = conv[k][c] \/ (k = busy /\ c = cur /\ conv'[k][c] = "failed")
    BY <1>1 DEF TypeOK
  <2>3. ~Working'
    BY DEF Working
  <2>4. BatchPlaced'
    BY <1>1, <2>2, <2>3 DEF BatchPlaced, Working, Archive
  <2>5. ConversationsKept'
    <3>1. \A k \in Runs : \A c \in Convs : Whole(k, c) => Whole(k, c)'
      BY DEF Whole, Of
    <3>2. conv'[busy][cur] = "failed"
      BY <1>1 DEF TypeOK
    <3> QED BY <1>1, <2>2, <2>3, <3>1, <3>2 DEF ConversationsKept, Working
  <2>6. CopiesCounted' /\ RowsRan'
    <3>1. faults' = 0 => faults = 0 /\ step # "map"
      BY <1>2 DEF TypeOK, ItemTypeOK
    <3>2. CopiesCounted'
      BY <2>3, <3>1 DEF CopiesCounted
    <3> QED BY <3>2 DEF RowsRan, threadVars
  <2>7. VerdictsHold'
    <3>1. \A k \in Runs : Loaded(k) => Loaded(k)' /\ (AllDone(k) => AllDone(k)')
      <4> SUFFICES ASSUME NEW k \in Runs, Loaded(k) PROVE Loaded(k)' /\ (AllDone(k) => AllDone(k)')
        OBVIOUS
      <4>1. k # busy
        BY DEF Loaded, Working
      <4>2. conv'[k] = conv[k]
        BY <4>1 DEF TypeOK
      <4> QED BY <4>1, <4>2 DEF Loaded, CommitComplete, AllDone
    <3> QED BY <3>1, BatchVerdicts DEF TypeOK
  <2> QED BY <1>3, <2>1, <2>4, <2>5, <2>6, <2>7
<1> QED BY <1>4, <1>5

\* Any call of the loop may raise.
LEMMA ErrorStep ==
  ASSUME ImportInv, BatchError
  PROVE  ImportInv'
<1>1. Raises /\ Working
  BY DEF BatchError, Working
<1>2. faults' > 0 /\ faults' \in 0..MaxEvents /\ faults' >= faults
  BY ImportAssumption DEF BatchError, ImportInv, Placed, TypeOK, ItemTypeOK
<1> QED BY <1>1, <1>2, RaisesStep

\* The insert of a row does when another run's row is active.
LEMMA RefuseStep ==
  ASSUME ImportInv, NEW m \in Messages, RefuseMessage(m)
  PROVE  ImportInv'
<1>1. Raises /\ Working /\ step = "schedule"
  BY DEF RefuseMessage, Working
<1>2. faults' \in 0..MaxEvents /\ faults' >= faults
  BY ImportAssumption DEF RefuseMessage, ImportInv, Placed, TypeOK, ItemTypeOK
<1> QED BY <1>1, <1>2, RaisesStep

\* The end of a batch: the run goes on committing, or its commit is over.
LEMMA CloseStep ==
  ASSUME ImportInv, CloseBatch
  PROVE  ImportInv'
<1> USE DEF ImportInv, Placed, CloseBatch, archiveVars, rowVars, boundVars
<1>1. busy \in Runs /\ ~Working
  BY CommitAssumption DEF BatchPlaced, TypeOK, Working
<1>2. \/ EndBatch(busy, Loops(busy))
      \/ CommitComplete(busy) /\ step' = "final" /\ UNCHANGED <<want, busy, cur, todo, target>>
  OBVIOUS
<1>3. phase' \in [Runs -> Phases] /\ Loops(busy) \in BOOLEAN
  BY DEF TypeOK, ItemTypeOK, Phases, Loops
<1>4. TypeOK' /\ ClaimsPlaced'
  BY <1>1, <1>2, <1>3 DEF EndBatch, TypeOK, ItemTypeOK, ClaimsPlaced, threadVars
<1>5. BatchPlaced' /\ ConversationsKept' /\ CopiesCounted' /\ RowsRan'
  <2>1. CASE EndBatch(busy, Loops(busy))
    <3>1. UNCHANGED <<plan, conv, sessions, mapped, copies, item, conf, ran, threadVars>> /\ torn' = torn
      OBVIOUS
    <3>2. faults' \in Nat /\ faults' >= faults
      BY DEF TypeOK, ItemTypeOK
    <3> HIDE DEF CloseBatch
    <3> QED BY <1>1, <2>1, <3>1, <3>2, EndStep
  <2>2. CASE step' = "final" /\ UNCHANGED <<want, busy, cur, todo, target>>
    <3>1. ~Working' /\ step' # "map" /\ step # "map"
      BY <2>2 DEF Working
    <3>2. BatchPlaced'
      BY <1>1, <2>2, <3>1 DEF BatchPlaced, Working, Archive
    <3>3. ConversationsKept'
      BY <1>1, <2>2, <3>1 DEF ConversationsKept, Working, Whole, Of
    <3>4. CopiesCounted' /\ RowsRan'
      BY <2>2, <3>1 DEF CopiesCounted, RowsRan, threadVars
    <3> QED BY <3>2, <3>3, <3>4
  <2> QED BY <1>2, <2>1, <2>2
<1>6. VerdictsHold'
  <2>1. \A k \in Runs : Loaded(k) => Loaded(k)' /\ (AllDone(k) => AllDone(k)')
    BY <1>1, CommitAssumption DEF EndBatch, Loaded, CommitComplete, AllDone, TypeOK
  <2>2. step' = "final" => Loaded(busy)'
    BY <1>2 DEF EndBatch, Loaded, CommitComplete
  <2>3. phase'[busy] \in {"processing", "fully_reconstructed"} => step' = "final"
    BY <1>1 DEF TypeOK, ItemTypeOK
  <2>4. \A k \in Runs : phase'[k] \in {"processing", "fully_reconstructed"} =>
          phase'[k] = phase[k] \/ (Loaded(k)' /\ phase'[k] = "processing")
    <3> SUFFICES ASSUME NEW k \in Runs, phase'[k] \in {"processing", "fully_reconstructed"},
                        phase'[k] # phase[k]
                 PROVE  Loaded(k)' /\ phase'[k] = "processing"
      OBVIOUS
    <3>1. k = busy
      BY <1>1 DEF TypeOK, ItemTypeOK
    <3>2. step' = "final" /\ busy' = busy
      BY <1>2, <2>3, <3>1 DEF EndBatch
    <3>3. phase'[k] = "processing"
      BY <1>1, <3>1 DEF TypeOK, ItemTypeOK
    <3> QED BY <2>2, <3>1, <3>2, <3>3 DEF Loaded, CommitComplete
  <2> QED BY <2>1, <2>2, <2>4, BatchVerdicts DEF TypeOK
<1> QED BY <1>4, <1>5, <1>6

\* The status at the end of the commit comes from the rows and the flags.
LEMMA FinalizeStep ==
  ASSUME ImportInv, FinalizeCommit
  PROVE  ImportInv'
<1> USE DEF ImportInv, Placed, FinalizeCommit, archiveVars, rowVars, boundVars
<1>1. busy \in Runs /\ ~Working
  BY CommitAssumption DEF BatchPlaced, TypeOK, Working
<1>2. Outcome(busy) \in {"none", "cancelled", "paused", "completed_with_failures", "fully_reconstructed"}
  BY DEF Outcome
<1>3. TypeOK' /\ ClaimsPlaced'
  <2>1. phase' \in [Runs -> Phases]
    BY <1>2 DEF TypeOK, ItemTypeOK, Phases
  <2> QED BY <1>1, <2>1 DEF EndBatch, TypeOK, ItemTypeOK, ClaimsPlaced, threadVars
<1>4. BatchPlaced' /\ ConversationsKept' /\ CopiesCounted' /\ RowsRan'
  <2>1. UNCHANGED <<plan, conv, sessions, mapped, copies, item, conf, ran, threadVars>> /\ torn' = torn
        /\ EndBatch(busy, FALSE)
    OBVIOUS
  <2>2. faults' \in Nat /\ faults' >= faults
    BY DEF TypeOK, ItemTypeOK
  <2> HIDE DEF FinalizeCommit
  <2> QED BY <1>1, <2>1, <2>2, EndStep
<1>5. VerdictsHold'
  <2>1. \A k \in Runs : Loaded(k) => Loaded(k)' /\ (AllDone(k) => AllDone(k)')
    BY <1>1, CommitAssumption DEF EndBatch, Loaded, CommitComplete, AllDone, TypeOK
  <2>2. Loaded(busy)
    BY DEF VerdictsHold
  <2>3. controls = 0 /\ Outcome(busy) = "fully_reconstructed" => AllDone(busy)
    BY DEF Outcome, Report, Rows, AllDone, Done, Terminal, VerdictsHold
  <2>4. \A k \in Runs : phase'[k] # phase[k] => k = busy /\ phase'[k] = Outcome(busy)
    BY <1>1 DEF TypeOK, ItemTypeOK
  <2>5. step' # "final"
    BY DEF EndBatch
  <2> QED BY <2>1, <2>2, <2>3, <2>4, <2>5, BatchVerdicts DEF TypeOK
<1> QED BY <1>3, <1>4, <1>5

\* The batch turns to a pending conversation: a new one is of no earlier
\* batch, and one with a session is repaired.
LEMMA PickStep ==
  ASSUME ImportInv, NEW c \in Convs, PickConversation(c)
  PROVE  ImportInv'
<1> USE DEF ImportInv, Placed, PickConversation, Unrepairable, itemVars, runVars, rowVars, boundVars
<1>1. /\ busy \in Runs /\ ~Working /\ c \in Archive(busy) /\ conv[busy][c] = "pending"
      /\ Working' <=> ~(c \in sessions /\ c \in Nameless)
  BY CommitAssumption DEF BatchPlaced, TypeOK, Working, Pending
<1>2. /\ todo' \subseteq Messages
      /\ IF Working' THEN todo' # {} /\ todo' = Of(busy, c) ELSE todo' = {}
  BY <1>1, ArchiveHasMessages
<1>3. /\ \A k \in Runs : \A d \in Convs :
           conv'[k][d] = conv[k][d] \/ (k = busy /\ d = c /\ conv'[k][d] = "skipped")
      /\ conv'[busy][c] = IF c \in sessions THEN "skipped" ELSE "pending"
  BY <1>1 DEF Mark, TypeOK
<1>4. TypeOK' /\ ClaimsPlaced'
  <2>1. conv' \in [Runs -> [Convs -> Settled \cup {"absent", "pending"}]]
    <3>1. conv' = [conv EXCEPT ![busy][c] = "skipped"] \/ conv' = conv
      BY DEF Mark
    <3>2. conv \in [Runs -> [Convs -> Settled \cup {"absent", "pending"}]] /\ "skipped" \in Settled
      BY DEF TypeOK, Settled
    <3> QED BY <1>1, <3>1, <3>2, MarkKeepsType
  <2> QED BY <1>2, <2>1 DEF TypeOK, ItemTypeOK, ClaimsPlaced, threadVars
<1>5. BatchPlaced'
  BY <1>1, <1>2, <1>3, CommitAssumption DEF BatchPlaced, Working, Archive, Of
<1>6. ConversationsKept'
  <2>1. \A k \in Runs : \A d \in Convs : Whole(k, d) => Whole(k, d)'
    BY DEF Whole, Of
  <2> QED BY <1>1, <1>3, <2>1 DEF ConversationsKept, Working, Of
<1>7. CopiesCounted'
  <2>1. \A m \in todo' : ConvOf[m] = c
    BY <1>2 DEF Of
  <2>2. conv'[busy][c] = "pending" => c \notin sessions
    BY <1>3
  <2> QED BY <1>1, <2>1, <2>2 DEF CopiesCounted, Working
<1>8. RowsRan'
  BY DEF RowsRan, threadVars
<1>9. VerdictsHold'
  <2>1. \A k \in Runs : Loaded(k) => Loaded(k)' /\ (AllDone(k) => AllDone(k)')
    <3> SUFFICES ASSUME NEW k \in Runs, Loaded(k) PROVE Loaded(k)' /\ (AllDone(k) => AllDone(k)')
      OBVIOUS
    <3>1. k # busy
      BY DEF Loaded
    <3>2. \A d \in Archive(k) : d \in Convs
      BY CommitAssumption, ItemParts DEF Archive
    <3>3. \A d \in Archive(k) : conv'[k][d] = conv[k][d]
      BY <1>3, <3>1, <3>2
    <3> QED BY <3>1, <3>3 DEF Loaded, CommitComplete, AllDone
  <2> QED BY <2>1, BatchVerdicts DEF TypeOK
<1> QED BY <1>4, <1>5, <1>6, <1>7, <1>8, <1>9

\* A message row is created, unless the repair finds it mapped.
LEMMA CreateStep ==
  ASSUME ImportInv, NEW m \in Messages, CreateMessage(m)
  PROVE  ImportInv'
<1> USE DEF ImportInv, Placed, CreateMessage, CreateMissing, Repairing, itemVars, runVars, rowVars,
            boundVars
<1>1. busy \in Runs /\ cur \in Convs /\ Working /\ Working' /\ m = ThisMessage /\ m \in todo
  BY CommitAssumption DEF BatchPlaced, TypeOK, Working, ThisMessage
<1>2. TypeOK' /\ ClaimsPlaced'
  <2>1. copies' \in [Messages -> Nat] /\ step' \in {"map", "schedule"}
    <3>1. /\ copies' = copies \/ copies' = [copies EXCEPT ![m] = @ + 1]
          /\ step' \in {"map", "schedule"}
      OBVIOUS
    <3> HIDE DEF CreateMessage
    <3> QED BY <3>1 DEF TypeOK
  <2> QED BY <2>1 DEF TypeOK, ItemTypeOK, ClaimsPlaced, threadVars
<1>3. BatchPlaced'
  BY <1>1 DEF BatchPlaced, Working, Archive, Of
<1>4. ConversationsKept'
  BY <1>1 DEF ConversationsKept, Working, Whole, Of, ThisMessage
<1>5. CopiesCounted'
  <2> SUFFICES ASSUME faults = 0 PROVE CopiesCounted'
    BY DEF CopiesCounted
  <2>1. CASE Repairing /\ m \in mapped
    BY <1>1, <2>1 DEF CopiesCounted, Working, ThisMessage
  <2>2. CASE ~(Repairing /\ m \in mapped)
    <3>1. m \notin mapped
      BY <1>1, <2>2 DEF CopiesCounted, BatchPlaced
    <3>2. copies[m] = 0 /\ \A k \in Messages : k # m => copies'[k] = copies[k]
      BY <2>2, <3>1 DEF CopiesCounted, TypeOK
    <3>3. copies'[m] = 1 /\ step' = "map" /\ ThisMessage' = m
      BY <1>1, <2>2, <3>2 DEF ThisMessage, TypeOK
    <3>4. \A k \in Messages : k # m => copies[k] = IF k \in mapped THEN 1 ELSE 0
      BY DEF CopiesCounted
    <3>5. Working /\ conv[busy][cur] = "pending" => \A k \in todo : k \notin mapped
      BY <1>1 DEF CopiesCounted
    <3> QED BY <1>1, <3>1, <3>2, <3>3, <3>4, <3>5 DEF CopiesCounted, Working
  <2> QED BY <2>1, <2>2
<1>6. RowsRan'
  BY DEF RowsRan, threadVars
<1>7. VerdictsHold'
  <2>1. \A k \in Runs : Loaded(k) => Loaded(k)' /\ (AllDone(k) => AllDone(k)')
    BY DEF Loaded, CommitComplete, AllDone
  <2> QED BY <2>1, BatchVerdicts DEF TypeOK
<1> QED BY <1>2, <1>3, <1>4, <1>5, <1>6, <1>7

\* The row gets its mapping.
LEMMA MapStep ==
  ASSUME ImportInv, NEW m \in Messages, MapMessage(m)
  PROVE  ImportInv'
<1> USE DEF ImportInv, Placed, MapMessage, itemVars, runVars, rowVars, boundVars
<1>1. busy \in Runs /\ cur \in Convs /\ Working /\ Working' /\ m = ThisMessage /\ m \in todo
  BY CommitAssumption DEF BatchPlaced, TypeOK, Working, ThisMessage
<1>2. TypeOK' /\ ClaimsPlaced'
  BY DEF TypeOK, ItemTypeOK, ClaimsPlaced, threadVars
<1>3. BatchPlaced'
  BY <1>1 DEF BatchPlaced, Working, Archive, Of
<1>4. ConversationsKept'
  BY <1>1 DEF ConversationsKept, Working, Whole, Of, ThisMessage
<1>5. CopiesCounted'
  <2>1. ConvOf[m] \in sessions
    BY <1>1 DEF BatchPlaced, Of
  <2> QED BY <1>1, <2>1 DEF CopiesCounted, Working, ThisMessage
<1>6. RowsRan'
  BY DEF RowsRan, threadVars
<1>7. VerdictsHold'
  <2>1. \A k \in Runs : Loaded(k) => Loaded(k)' /\ (AllDone(k) => AllDone(k)')
    BY DEF Loaded, CommitComplete, AllDone
  <2> QED BY <2>1, BatchVerdicts DEF TypeOK
<1> QED BY <1>2, <1>3, <1>4, <1>5, <1>6, <1>7

\* The status a row starts with: it counts as processed only with a run of
\* its identity.
LEMMA StartingStatus ==
  ASSUME TypeOK, NEW m \in Messages
  PROVE  /\ ScheduledStatus(m) \in {"skipped", "already_processed", "queued"}
         /\ ScheduledStatus(m) = "already_processed" => target \in ran[m]
BY DEF ScheduledStatus

\* The message gets its processing row; the last one ends the conversation.
LEMMA ScheduleStep ==
  ASSUME ImportInv, NEW m \in Messages, ScheduleMessage(m)
  PROVE  ImportInv'
<1> DEFINE i == <<busy, m>>
<1> USE DEF ImportInv, Placed, ScheduleMessage, Repairing, runVars, boundVars
<1>1. /\ busy \in Runs /\ cur \in Convs /\ Working /\ m = ThisMessage /\ m \in todo
      /\ i \in Items /\ ConvOf[m] = cur
  BY CommitAssumption DEF BatchPlaced, TypeOK, Working, ThisMessage, Of
<1>2. /\ \A k \in Items : k # i => item'[k] = item[k] /\ conf'[k] = conf[k]
      /\ \/ item' = item /\ conf' = conf
         \/ /\ item[i] = "none"
            /\ item'[i] = ScheduledStatus(m) /\ conf'[i] = target
      /\ busy \in Full => item'[i] # "none"
      /\ item' \in [Items -> Statuses] /\ conf' \in [Items -> Configs]
  <2>1. UpsertStatus(i, ScheduledStatus(m))
    OBVIOUS
  <2> HIDE DEF ScheduleMessage
  <2>2. ScheduledStatus(m) \in Statuses \ {"none"}
    BY StartingStatus DEF Statuses, Terminal
  <2>3. CASE busy \in Full /\ item[i] = "none"
    BY <1>1, <2>1, <2>2, <2>3 DEF UpsertStatus, TypeOK, ItemTypeOK
  <2>4. CASE ~(busy \in Full /\ item[i] = "none")
    BY <1>1, <2>1, <2>4 DEF UpsertStatus, TypeOK, ItemTypeOK
  <2> QED BY <2>3, <2>4
<1>3. \A k \in Items : item[k] # "none" => item'[k] = item[k] /\ conf'[k] = conf[k]
  BY <1>2
<1>4. \/ /\ todo' = {} /\ step' = "close" /\ ~Working'
         /\ \/ conv' = conv /\ conv[busy][cur] = "skipped"
            \/ /\ conv[busy][cur] = "pending"
               /\ conv' = [conv EXCEPT ![busy][cur] = "committed"]
      \/ todo' # {} /\ step' = "create" /\ Working' /\ conv' = conv
  BY <1>1 DEF Mark, Working, BatchPlaced
<1>5. conv' \in [Runs -> [Convs -> Settled \cup {"absent", "pending"}]]
  <2>1. conv' = conv \/ conv' = [conv EXCEPT ![busy][cur] = "committed"]
    BY <1>4
  <2>2. conv \in [Runs -> [Convs -> Settled \cup {"absent", "pending"}]] /\ "committed" \in Settled
    BY DEF TypeOK, Settled
  <2> QED BY <1>1, <2>1, <2>2, MarkKeepsType
<1>6. TypeOK' /\ ClaimsPlaced'
  <2>1. step' \in {"close", "create"} /\ todo' \subseteq Messages
    BY <1>4 DEF TypeOK
  <2> QED BY <1>2, <1>5, <2>1 DEF TypeOK, ItemTypeOK, ClaimsPlaced, threadVars
<1>7. \A k \in Runs : \A d \in Convs :
        conv'[k][d] = conv[k][d] \/ (k = busy /\ d = cur /\ ~Working' /\ conv'[k][d] = "committed")
  <2> HIDE DEF ScheduleMessage
  <2> QED BY <1>1, <1>4 DEF TypeOK
<1>8. BatchPlaced'
  BY <1>1, <1>4, <1>7 DEF BatchPlaced, Working, Archive, Of
<1>9. \A k \in Of(busy, cur) \ todo' :
        k \in mapped' /\ (busy \in Full => item'[<<busy, k>>] # "none")
  <2> SUFFICES ASSUME NEW k \in Of(busy, cur) \ todo'
               PROVE  k \in mapped /\ (busy \in Full => item'[<<busy, k>>] # "none")
    OBVIOUS
  <2>1. CASE k = m
    BY <1>1, <1>2, <2>1 DEF ConversationsKept
  <2>2. CASE k # m
    <3>1. k \in Of(busy, cur) \ todo /\ <<busy, k>> \in Items
      BY <2>2 DEF Of
    <3> QED BY <1>1, <1>3, <3>1 DEF ConversationsKept
  <2> QED BY <2>1, <2>2
<1>10. ConversationsKept'
  <2>1. \A k \in Runs : \A d \in Convs : Whole(k, d) => Whole(k, d)'
    BY <1>3 DEF Whole, Of
  <2>2. ~Working' => Whole(busy, cur)'
    BY <1>4, <1>9 DEF Whole, Of
  <2>3. step' # "schedule"
    BY <1>4
  <2>4. Working' => \A k \in Of(busy, cur)' \ todo' :
                       k \in mapped' /\ (busy' \in Full => item'[<<busy', k>>] # "none")
    BY <1>9 DEF Of
  <2>5. ASSUME NEW k \in Runs, NEW d \in Convs, conv'[k][d] \in {"committed", "skipped"}
        PROVE  \/ conv'[k][d] = "skipped" /\ d \in torn'[k] \cup Nameless
               \/ busy' = k /\ cur' = d /\ Working'
               \/ Whole(k, d)'
    <3>1. CASE k = busy /\ d = cur
      BY <2>2, <3>1 DEF Whole, Of
    <3>2. CASE ~(k = busy /\ d = cur)
      BY <1>7, <2>1, <2>5, <3>2 DEF ConversationsKept
    <3> QED BY <3>1, <3>2
  <2> QED BY <2>3, <2>4, <2>5 DEF ConversationsKept
<1>11. CopiesCounted'
  <2> SUFFICES ASSUME faults = 0 PROVE CopiesCounted'
    BY DEF CopiesCounted
  <2>1. \A k \in Messages : copies[k] = IF k \in mapped THEN 1 ELSE 0
    BY DEF CopiesCounted
  <2>2. Working' /\ conv'[busy][cur] = "pending" => \A k \in todo' : k \notin mapped
    BY <1>1, <1>4 DEF CopiesCounted
  <2>3. step' # "map"
    BY <1>4
  <2>4. \A k \in mapped : ConvOf[k] \in sessions
    BY DEF CopiesCounted
  <2> QED BY <2>1, <2>2, <2>3, <2>4 DEF CopiesCounted
<1>12. RowsRan'
  <2>1. \A k \in Items : item'[k] \in {"succeeded", "already_processed"} => conf'[k] \in ran[k[2]]
    <3>1. i[2] = m
      OBVIOUS
    <3>2. item'[i] \in {"succeeded", "already_processed"} => conf'[i] \in ran[i[2]]
      <4> HIDE DEF ScheduleMessage, i
      <4> QED BY <1>1, <1>2, <3>1, StartingStatus DEF RowsRan
    <3>3. \A k \in Items : k # i /\ item'[k] \in {"succeeded", "already_processed"} =>
            conf'[k] \in ran[k[2]]
      BY <1>2 DEF RowsRan
    <3> QED BY <3>2, <3>3
  <2>2. \A w \in Workers : pc[w] = "result" =>
          item'[claim[w]] # "none" /\ conf'[claim[w]] \in ran[claim[w][2]]
    BY <1>3 DEF RowsRan, ClaimsPlaced
  <2> QED BY <2>1, <2>2 DEF RowsRan, threadVars
<1>13. VerdictsHold'
  <2>1. \A k \in Runs : Loaded(k) => Loaded(k)' /\ (AllDone(k) => AllDone(k)')
    <3> SUFFICES ASSUME NEW k \in Runs, Loaded(k) PROVE Loaded(k)' /\ (AllDone(k) => AllDone(k)')
      OBVIOUS
    <3>1. k # busy
      BY DEF Loaded, Working
    <3>2. \A d \in Archive(k) : d \in Convs
      BY CommitAssumption, ItemParts DEF Archive
    <3>3. \A d \in Archive(k) : conv'[k][d] = conv[k][d]
      BY <1>7, <3>1, <3>2
    <3>4. AllDone(k) => AllDone(k)'
      BY <1>1, <1>2, <3>1 DEF AllDone
    <3> QED BY <3>1, <3>3, <3>4 DEF Loaded, CommitComplete
  <2>2. \A k \in Items : item'[k] = "cancelled" => item[k] = "cancelled"
    BY <1>1, <1>2, StartingStatus
  <2> QED BY <1>4, <2>1, <2>2, BatchVerdicts DEF TypeOK
<1> QED BY <1>6, <1>8, <1>10, <1>11, <1>12, <1>13
-----------------------------------------------------------------------------
(* The theorems.                                                           *)

\* No run has begun.
LEMMA ImportInit == Init => ImportInv
<1> SUFFICES ASSUME Init PROVE ImportInv
  OBVIOUS
<1> USE DEF Init, ItemInit
<1>1. config \in Configs
  BY ImportAssumption
<1>2. TypeOK
  BY <1>1, ImportAssumption
     DEF TypeOK, ItemTypeOK, Phases, Statuses, Terminal, Owners, Settled
<1>3. ClaimsPlaced /\ BatchPlaced
  BY CommitAssumption DEF ClaimsPlaced, BatchPlaced, Working
<1>4. ConversationsKept /\ CopiesCounted /\ RowsRan
  BY DEF ConversationsKept, CopiesCounted, RowsRan, Working
<1>5. VerdictsHold
  BY DEF VerdictsHold
<1> QED BY <1>2, <1>3, <1>4, <1>5 DEF ImportInv, Placed

\* The threads, the batch and the requests keep the invariant.
LEMMA ImportInvariant == Spec => []ImportInv
<1>1. ASSUME ImportInv, [Next]_vars PROVE ImportInv'
  <2>1. CASE ItemNext /\ UNCHANGED <<archiveVars, batchVars, asked>>
    <3> USE <1>1, <2>1 DEF ImportInv, Placed
    <3>1. ItemTypeOK' /\ ClaimsPlaced' /\ RowsRan' /\ RowsStay
      BY ItemStep DEF TypeOK
    <3>2. VerdictsHold'
      BY ItemVerdicts DEF TypeOK
    <3>3. TypeOK'
      BY <3>1 DEF TypeOK, archiveVars, batchVars
    <3>4. BatchPlaced' /\ ConversationsKept' /\ CopiesCounted'
      <4>1. UNCHANGED <<conv, sessions, mapped, copies, torn, batchVars>>
        BY DEF archiveVars
      <4>2. /\ \A i \in Items : item[i] = "none" <=> item'[i] = "none"
            /\ faults' \in Nat /\ faults' >= faults
        BY <3>1 DEF RowsStay, ItemTypeOK
      <4> QED BY <4>1, <4>2, CommitFrame
    <3> QED BY <3>1, <3>2, <3>3, <3>4
  <2>2. CASE ServiceNext
    <3>1. CASE BatchStep
      BY <1>1, <3>1, StartStep, HoldStep, PickStep, CreateStep, MapStep, ScheduleStep, RefuseStep,
         CloseStep, FinalizeStep DEF BatchStep
    <3>2. CASE BatchError \/ CrashBatch
      BY <1>1, <3>2, ErrorStep, CrashStep
    <3>3. CASE RecoverInterrupted
      <4>1. \E r \in Runs : TRUE
        BY <3>3 DEF RecoverInterrupted
      <4> QED BY <1>1, <3>3, <4>1, ControlStep
    <3>4. ASSUME NEW r \in Runs,
                 \/ Reconstruct(r) \/ DryRun(r) \/ RequestCommit(r) \/ Pause(r) \/ Resume(r)
                 \/ Cancel(r) \/ SetFlags(r) \/ RetryFailed(r)
          PROVE  ImportInv'
      BY <1>1, <3>4, ControlStep, ReconstructStep, RequestStep
    <3> QED BY <2>2, <3>1, <3>2, <3>3, <3>4 DEF ServiceNext
  <2>3. CASE UNCHANGED vars
    <3> USE <1>1, <2>3 DEF ImportInv, Placed, vars, itemVars, runVars, rowVars, threadVars,
                           boundVars, archiveVars, batchVars
    <3>1. TypeOK' /\ ClaimsPlaced'
      BY DEF TypeOK, ItemTypeOK, ClaimsPlaced
    <3>2. BatchPlaced' /\ ConversationsKept' /\ CopiesCounted'
      BY CommitFrame DEF TypeOK, ItemTypeOK
    <3>3. RowsRan'
      BY DEF RowsRan
    <3>4. VerdictsHold'
      BY DEF VerdictsHold, Loaded, CommitComplete, AllDone
    <3> QED BY <3>1, <3>2, <3>3, <3>4
  <2> QED BY <1>1, <2>1, <2>2, <2>3 DEF Next
<1> QED BY <1>1, ImportInit, PTL DEF Spec

\* Every variable keeps its type, a thread past its poll has a row, and the
\* batch is where its conversation is.
THEOREM ImportTypeCorrect == Spec => []TypeOK
BY ImportInvariant, PTL DEF ImportInv, Placed

\* A conversation shown as committed is whole, and so is one shown as skipped
\* unless its repair broke off or it has no source id, wherever a crash, an
\* error or the import of another archive cuts in.  In the lite edition, which
\* runs one batch at a time.
THEOREM ImportedConversationsAreWhole == Spec => []ConversationsAreWhole
<1>1. ImportInv => ConversationsAreWhole
  <2>1. \A r \in Runs : Archive(r) \subseteq Convs
    BY CommitAssumption, ItemParts DEF Archive
  <2> QED BY <2>1 DEF ImportInv, ConversationsKept, ConversationsAreWhole, Whole
<1> QED BY <1>1, ImportInvariant, PTL

\* A second message row for one message of the archives takes a batch that
\* was cut short, however often and in how many runs of the lite edition it
\* is imported.
THEOREM CopiesTakeInterruptions == Spec => []OneCopyUnlessInterrupted
<1>1. ImportInv => OneCopyUnlessInterrupted
  <2> SUFFICES ASSUME ImportInv, NEW m \in Messages, copies[m] > 1 PROVE faults > 0
    BY DEF OneCopyUnlessInterrupted
  <2>1. faults = 0 => copies[m] \in {0, 1}
    BY DEF ImportInv, CopiesCounted
  <2>2. faults \in Nat
    BY DEF ImportInv, Placed, TypeOK, ItemTypeOK
  <2> QED BY <2>1, <2>2
<1> QED BY <1>1, ImportInvariant, PTL

\* A run of the lite edition that no user steers is fully_reconstructed only
\* with every conversation settled and every row done, by a processing run of
\* its own identity.
THEOREM ReconstructedRunsAreDone == Spec => []FullyReconstructedMeansDone
<1>1. ImportInv => FullyReconstructedMeansDone
  BY DEF ImportInv, VerdictsHold, RowsRan, AllDone, Done, Loaded, CommitComplete,
         FullyReconstructedMeansDone
<1> QED BY <1>1, ImportInvariant, PTL
=============================================================================
