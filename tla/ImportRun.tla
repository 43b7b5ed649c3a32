------------------------------ MODULE ImportRun ------------------------------
(***************************************************************************)
(* An import of the lite edition, from its archive to the last processed   *)
(* message: the requests ImportService serves (memcore/imports/service.py),*)
(* the bounded commit that the write actor runs one batch at a time        *)
(* (storage/write_commands/import_commands.py), and the rows and threads   *)
(* of ImportItems.  A batch holds one conversation.  Every repository call *)
(* of the commit is a transaction of its own, so each is a step that a     *)
(* crash can follow.                                                       *)
(*                                                                         *)
(* The full edition commits in the request's thread, without the actor and *)
(* without a lock (api/routes_imports.py:270-279): its batches overlap,    *)
(* and what is said below of commits does not hold there.                  *)
(***************************************************************************)
EXTENDS ImportItems

CONSTANTS
  Convs,     \* conversations of the source archives
  ConvOf,    \* ConvOf[m]: the conversation of message m
  Nameless,  \* conversations without a source_conversation_id
  Eligible,  \* messages with visible text of a user or an assistant
  Full,      \* runs with processing_mode full_memory_reconstruction
  NoConfig,  \* no dry-run report
  NoRun,     \* no batch in the write actor
  NoConv     \* no conversation

ASSUME CommitAssumption ==
  /\ ConvOf \in [Messages -> Convs]
  /\ Nameless \subseteq Convs
  \* Nameless conversations are told apart by a hash of their messages.
  /\ \A i, j \in Items :
       ConvOf[i[2]] = ConvOf[j[2]] /\ ConvOf[i[2]] \in Nameless => <<i[1], j[2]>> \in Items
  /\ Eligible \subseteq Messages
  /\ Full \subseteq Runs
  /\ NoConfig \notin Configs /\ NoRun \notin Runs /\ NoConv \notin Convs

VARIABLES
  plan,      \* plan[r]: the target that the dry-run report approved
  conv,      \* conv[r][c]: commit_status, "absent" without a row
  sessions,  \* conversations with a session mapping
  mapped,    \* messages with a message mapping
  copies,    \* copies[m]: message rows created from m
  want,      \* want[r]: a commit request loops while the run is committing
  busy,      \* the run whose batch the write actor executes
  step,      \* where that batch is
  cur,       \* its conversation
  todo,      \* messages of cur it has still to handle
  target,    \* model_target of the batch
  torn,      \* torn[r]: conversations of r whose repair did not end
  asked      \* asked[r]: a control request between its two transactions

archiveVars == <<plan, conv, sessions, mapped, copies, torn>>
batchVars == <<want, busy, step, cur, todo, target>>
vars == <<itemVars, archiveVars, batchVars, asked>>

\* Messages of conversation c in the archive of run r.
Of(r, c) == {m \in Messages : <<r, m>> \in Items /\ ConvOf[m] = c}

\* Conversations in the archive of run r.
Archive(r) == {ConvOf[i[2]] : i \in {j \in Items : j[1] = r}}

Settled == {"committed", "skipped", "failed"}

TypeOK ==
  /\ ItemTypeOK
  /\ plan \in [Runs -> Configs \cup {NoConfig}]
  /\ conv \in [Runs -> [Convs -> Settled \cup {"absent", "pending"}]]
  /\ sessions \subseteq Convs /\ mapped \subseteq Messages
  /\ copies \in [Messages -> Nat]
  /\ want \in [Runs -> BOOLEAN]
  /\ busy \in Runs \cup {NoRun}
  /\ step \in {"idle", "pick", "repair", "create", "map", "schedule", "close", "final"}
  /\ cur \in Convs \cup {NoConv}
  /\ todo \subseteq Messages
  /\ target \in Configs
  /\ torn \in [Runs -> SUBSET Convs]
  /\ asked \in [Runs -> {"none", "pause", "resume", "cancel"}]
-----------------------------------------------------------------------------
(* Preparing a run, from the staged and inspected archive on.              *)

\* _upsert_imported_conversation: a row that exists is kept.
Upserted(r) == [c \in Convs |-> IF c \in Archive(r) /\ conv[r][c] = "absent" THEN "pending"
                                ELSE conv[r][c]]

\* reconstruct: a row for each conversation of the archive.
Reconstruct(r) ==
  /\ phase[r] = "inspected"
  /\ phase' = [phase EXCEPT ![r] = "reconstructed"]
  /\ conv' = [conv EXCEPT ![r] = Upserted(r)]
  /\ UNCHANGED <<paused, cancelled, rowVars, ran, config, threadVars, boundVars, plan, sessions,
                 mapped, copies, torn, batchVars, asked>>

\* INSERT OR REPLACE INTO import_dry_run_reports, and the run's status.
KeepReport(r) ==
  /\ plan' = [plan EXCEPT ![r] = config]
  /\ phase' = [phase EXCEPT ![r] = "dry_run"]

\* dry_run: the report with its target replaces an earlier one.  Here users
\* ask for it before the commit and between two requests of it.
DryRun(r) ==
  /\ phase[r] \in {"reconstructed", "dry_run", "committing", "paused"}
  /\ ~want[r] /\ plan[r] # config
  /\ KeepReport(r)
  /\ UNCHANGED <<paused, cancelled, rowVars, ran, config, threadVars, boundVars, conv,
                 sessions, mapped, copies, torn, batchVars, asked>>
-----------------------------------------------------------------------------
(* The commit.                                                             *)

\* _pending_commit_conversations.
Pending(r) == {c \in Convs : conv[r][c] = "pending"}

\* _mark_imported_conversation, a transaction of its own.
Mark(c, status) == conv' = [conv EXCEPT ![busy][c] = status]

\* A batch of the write actor ends; the request loops while the run says
\* committing (commit_import_via_actor).
EndBatch(r, again) ==
  /\ want' = [want EXCEPT ![r] = again]
  /\ busy' = NoRun
  /\ step' = "idle"
  /\ cur' = NoConv
  /\ todo' = {}
  /\ UNCHANGED target

\* ImportService.commit and its write actor form alike ask for the next batch
\* as long as the last one left the run committing.
Loops(r) == phase'[r] = "committing"

\* The commit of the run is over.
Over == {"processing", "committed", "fully_reconstructed", "completed_with_failures"}

\* POST /imports/{run}/commit.  Without a dry-run report it raises.  A run
\* whose commit is over is committed and finalized once more, which counts
\* as a control request here.
RequestCommit(r) ==
  /\ ~want[r] /\ plan[r] # NoConfig
  /\ want' = [want EXCEPT ![r] = TRUE]
  /\ IF phase[r] \in Over
       THEN faults + controls < MaxEvents /\ controls' = controls + 1
       ELSE UNCHANGED controls
  /\ UNCHANGED <<runVars, rowVars, ran, config, threadVars, faults, archiveVars, busy, step, cur,
                 todo, target, asked>>

\* A run in one of these states is left alone.
Stopped(r) == phase[r] \in {"cancelled", "paused"}

\* commit_next_batch up to the pending list.  The status is written before
\* the target is compared, so a changed target leaves the run committing.
StartBatch(r) ==
  /\ busy = NoRun /\ want[r]
  /\ \/ /\ Stopped(r)
        /\ EndBatch(r, FALSE)
        /\ UNCHANGED phase
     \/ /\ ~Stopped(r)
        /\ phase' = [phase EXCEPT ![r] = "committing"]
        /\ \/ plan[r] # config /\ EndBatch(r, FALSE)
           \/ /\ plan[r] = config
              /\ busy' = r
              /\ target' = config
              /\ step' = IF Pending(r) # {} THEN "pick" ELSE "close"
              /\ UNCHANGED <<want, cur, todo>>
  /\ UNCHANGED <<paused, cancelled, rowVars, ran, config, threadVars, boundVars,
                 archiveVars, asked>>

\* The loop's head: flags, then back-pressure.  Either way the run becomes
\* paused, a cancelled one too.
HoldBatch ==
  /\ step = "pick"
  /\ \/ /\ paused[busy] \/ cancelled[busy]
        /\ UNCHANGED paused
     \/ /\ ~paused[busy] /\ ~cancelled[busy]
        /\ paused' = [paused EXCEPT ![busy] = TRUE]
  /\ phase' = [phase EXCEPT ![busy] = "paused"]
  /\ EndBatch(busy, FALSE)
  /\ UNCHANGED <<cancelled, rowVars, ran, config, threadVars, boundVars, archiveVars,
                 asked>>

\* _record_duplicate_processing looks for the mapping by the source id or by
\* the hash of the whole payload; the mapping holds the source id or the
\* conversation_fingerprint.  Without a source id it finds no session and
\* returns.
Unrepairable(c) == c \in Nameless

\* The next pending conversation.  A new one gets its session and its
\* mapping.  One that is mapped already is skipped first and repaired then.
PickConversation(c) ==
  /\ step = "pick"
  /\ ~paused[busy] /\ ~cancelled[busy]
  /\ c \in Pending(busy)
  /\ cur' = c
  /\ \/ /\ c \notin sessions
        /\ sessions' = sessions \cup {c}
        /\ UNCHANGED conv
     \/ /\ c \in sessions
        /\ Mark(c, "skipped")
        /\ UNCHANGED sessions
  /\ IF c \in sessions /\ Unrepairable(c)
       THEN todo' = {} /\ step' = "close"
       ELSE todo' = Of(busy, c) /\ step' = "create"
  /\ UNCHANGED <<itemVars, plan, mapped, copies, torn, want, busy, target, asked>>

Repairing == conv[busy][cur] = "skipped"

\* Seeded fault: the repair also creates the messages that are mapped.
CreateMissingAlways(m) == copies' = [copies EXCEPT ![m] = @ + 1] /\ step' = "map"

\* create_message for m; a repair keeps the message that is mapped.
CreateMissing(m) ==
  IF Repairing /\ m \in mapped
    THEN step' = "schedule" /\ UNCHANGED copies
    ELSE step' = "map" /\ copies' = [copies EXCEPT ![m] = @ + 1]

CreateMessage(m) ==
  /\ step = "create" /\ m = CHOOSE k \in todo : TRUE
  /\ CreateMissing(m)
  /\ UNCHANGED todo
  /\ UNCHANGED <<itemVars, plan, conv, sessions, mapped, torn, want, busy, cur, target, asked>>

\* add_mapping: one that exists stays.
MapMessage(m) ==
  /\ step = "map" /\ m = CHOOSE k \in todo : TRUE
  /\ mapped' = mapped \cup {m}
  /\ step' = "schedule"
  /\ UNCHANGED <<itemVars, plan, conv, sessions, copies, torn, want, busy, cur, todo, target,
                 asked>>

\* schedule: what the row of message m starts with.
ScheduledStatus(m) ==
  IF m \notin Eligible THEN "skipped"
  ELSE IF target \in ran[m] THEN "already_processed"
  ELSE "queued"

\* Rows of message m, of any run, that are queued or running with identity k.
Active(m, k) == {i \in Items : i[2] = m /\ conf[i] = k /\ item[i] \in {"queued", "running"}}

\* Where such a row exists schedule inserts a copy of it for the run at hand,
\* which idx_import_processing_active_identity refuses.
Refused(m) ==
  /\ busy \in Full /\ item[<<busy, m>>] = "none"
  /\ ScheduledStatus(m) = "queued"
  /\ Active(m, target) # {}

\* _upsert_status: a row that exists stays as it is, and so does a run
\* without processing.
UpsertStatus(i, status) ==
  IF busy \in Full /\ item[i] = "none"
    THEN /\ item' = [item EXCEPT ![i] = status]
         /\ conf' = [conf EXCEPT ![i] = target]
    ELSE UNCHANGED <<item, conf>>

\* The end of the loop over the messages of a conversation.
ScheduleMessage(m) ==
  /\ step = "schedule" /\ m = CHOOSE k \in todo : TRUE
  /\ ~Refused(m)
  /\ UpsertStatus(<<busy, m>>, ScheduledStatus(m))
  /\ todo' = todo \ {m}
  /\ IF todo' = {}
       THEN /\ step' = "close"
            /\ IF Repairing THEN UNCHANGED conv ELSE Mark(cur, "committed")
       ELSE /\ step' = "create"
            /\ UNCHANGED conv
  /\ UNCHANGED <<runVars, owner, fresh, tries, ran, config, threadVars, boundVars, plan,
                 sessions, mapped, copies, torn, want, busy, cur, target, asked>>

\* Seeded fault: the error is logged and the conversation counts as done.
SwallowedBatchError ==
  /\ step \in {"create", "map", "schedule"}
  /\ faults + controls < MaxEvents /\ faults' = faults + 1
  /\ conv' = [conv EXCEPT ![busy][cur] = "committed"]
  /\ step' = "close"
  /\ todo' = {}
  /\ UNCHANGED <<runVars, rowVars, ran, config, threadVars, controls, plan, sessions, mapped,
                 copies, torn, want, busy, cur, target, asked>>

\* A repository call raises.  While a new conversation is committed that is
\* caught and the conversation fails; a repair ends with the whole batch.
Raises ==
  /\ IF Repairing
       THEN /\ torn' = [torn EXCEPT ![busy] = @ \cup {cur}]
            /\ EndBatch(busy, FALSE)
            /\ UNCHANGED conv
       ELSE /\ Mark(cur, "failed")
            /\ step' = "close"
            /\ todo' = {}
            /\ UNCHANGED <<want, busy, cur, target, torn>>
  /\ UNCHANGED <<runVars, rowVars, ran, config, threadVars, controls, plan, sessions,
                 mapped, copies, asked>>

\* Any of them may, for a reason of its own.
BatchError ==
  /\ step \in {"create", "map", "schedule"}
  /\ faults + controls < MaxEvents /\ faults' = faults + 1
  /\ Raises

\* The insert of a row does, while another run processes the message.
RefuseMessage(m) ==
  /\ step = "schedule" /\ m = CHOOSE k \in todo : TRUE
  /\ Refused(m)
  /\ Raises
  /\ UNCHANGED faults

\* The process dies in the middle of a batch.
CrashBatch ==
  /\ busy # NoRun
  /\ faults + controls < MaxEvents /\ faults' = faults + 1
  /\ torn' = IF cur # NoConv /\ Repairing /\ todo # {}
               THEN [torn EXCEPT ![busy] = @ \cup {cur}] ELSE torn
  /\ EndBatch(busy, FALSE)
  /\ UNCHANGED <<runVars, rowVars, ran, config, threadVars, controls, plan, conv,
                 sessions, mapped, copies, asked>>

\* _terminal_counts: no conversation is left.
CommitComplete(r) == \A c \in Archive(r) : conv[r][c] \in Settled

\* The end of the batch and _finalize_commit_if_complete, without a look at
\* the flags or at the status in between.
CloseBatch ==
  /\ step = "close"
  /\ IF CommitComplete(busy)
       THEN /\ phase' = [phase EXCEPT ![busy] =
                           IF busy \in Full THEN "processing" ELSE "committed"]
            /\ IF busy \in Full THEN step' = "final" /\ UNCHANGED <<want, busy, cur, todo, target>>
                                ELSE EndBatch(busy, Loops(busy))
       ELSE /\ phase' = [phase EXCEPT ![busy] = "committing"]
            /\ EndBatch(busy, Loops(busy))
  /\ UNCHANGED <<paused, cancelled, rowVars, ran, config, threadVars, boundVars,
                 archiveVars, asked>>

\* finalize_if_terminal at the end of the commit.
FinalizeCommit ==
  /\ step = "final"
  /\ phase' = IF Outcome(busy) = "none" THEN phase ELSE [phase EXCEPT ![busy] = Outcome(busy)]
  /\ EndBatch(busy, FALSE)
  /\ UNCHANGED <<paused, cancelled, rowVars, ran, config, threadVars, boundVars,
                 archiveVars, asked>>
-----------------------------------------------------------------------------
(* Control requests: the run first, its progress row in a second           *)
(* transaction.                                                            *)

Asking(r, what) ==
  /\ asked[r] = "none"
  /\ asked' = [asked EXCEPT ![r] = what]
  /\ phase[r] \notin {"inspected", "reconstructed"}
  /\ faults + controls < MaxEvents
  /\ controls' = controls + 1

Pause(r) ==
  /\ Asking(r, "pause")
  /\ phase' = [phase EXCEPT ![r] = "paused"]
  /\ UNCHANGED <<paused, cancelled, rowVars, ran, config, threadVars, faults,
                 archiveVars, batchVars>>

Resume(r) ==
  /\ Asking(r, "resume")
  /\ paused[r] \/ cancelled[r]
  /\ phase' = [phase EXCEPT ![r] =
                 IF Rows(r) # {} THEN "processing" ELSE "dry_run"]
  /\ UNCHANGED <<paused, cancelled, rowVars, ran, config, threadVars, faults,
                 archiveVars, batchVars>>

\* The rows that a cancel request settles.
StoppedByCancel(i) == item[i] \in {"queued", "running"}

Cancel(r) ==
  LET hit(i) == i[1] = r /\ StoppedByCancel(i)
  IN  /\ Asking(r, "cancel")
      /\ item' = [i \in Items |-> IF hit(i) THEN "cancelled" ELSE item[i]]
      /\ owner' = [i \in Items |-> IF hit(i) THEN NoOne ELSE owner[i]]
      /\ fresh' = [i \in Items |-> fresh[i] /\ ~hit(i)]
      /\ phase' = [phase EXCEPT ![r] = "cancelled"]
      /\ UNCHANGED <<paused, cancelled, tries, conf, ran, config, threadVars, faults,
                     archiveVars, batchVars>>

\* update_progress, the second transaction of each.
SetFlags(r) ==
  /\ asked[r] # "none"
  /\ asked' = [asked EXCEPT ![r] = "none"]
  /\ paused' = [paused EXCEPT ![r] = CASE asked[r] = "pause" -> TRUE
                                       [] asked[r] = "resume" -> FALSE
                                       [] OTHER -> @]
  /\ cancelled' = [cancelled EXCEPT ![r] = CASE asked[r] = "cancel" -> TRUE
                                             [] asked[r] = "resume" -> FALSE
                                             [] OTHER -> @]
  /\ UNCHANGED <<phase, rowVars, ran, config, threadVars, boundVars, archiveVars,
                 batchVars>>

\* retry_failed: the flags are not looked at and stay as they are.  A row
\* whose identity another run has queued or running makes it raise.
RetryFailed(r) ==
  LET failed == {i \in Items : i[1] = r /\ item[i] = "failed"}
  IN  /\ failed # {}
      /\ \A i \in failed : Active(i[2], conf[i]) = {}
      /\ faults + controls < MaxEvents /\ controls' = controls + 1
      /\ item' = [i \in Items |-> IF i \in failed THEN "queued" ELSE item[i]]
      /\ tries' = [i \in Items |-> IF i \in failed THEN tries[i] + 1 ELSE tries[i]]
      /\ owner' = [i \in Items |-> IF i \in failed THEN NoOne ELSE owner[i]]
      /\ phase' = [phase EXCEPT ![r] = "processing"]
      /\ UNCHANGED <<paused, cancelled, fresh, conf, ran, config, threadVars, faults,
                     archiveVars, batchVars, asked>>

\* recover_interrupted_operations, which an operator applies: committing
\* runs are paused.
RecoverInterrupted ==
  /\ \E r \in Runs : phase[r] = "committing"
  /\ faults + controls < MaxEvents /\ controls' = controls + 1
  /\ phase' = [r \in Runs |-> IF phase[r] = "committing" THEN "paused" ELSE phase[r]]
  /\ paused' = [r \in Runs |-> paused[r] \/ phase'[r] = "paused"]
  /\ UNCHANGED <<cancelled, rowVars, ran, config, threadVars, faults, archiveVars,
                 batchVars, asked>>
-----------------------------------------------------------------------------
Init ==
  /\ ItemInit
  /\ plan = [r \in Runs |-> NoConfig]
  /\ conv = [r \in Runs |-> [c \in Convs |-> "absent"]]
  /\ sessions = {} /\ mapped = {}
  /\ copies = [m \in Messages |-> 0]
  /\ want = [r \in Runs |-> FALSE]
  /\ busy = NoRun /\ step = "idle" /\ cur = NoConv /\ todo = {}
  /\ target = config
  /\ torn = [r \in Runs |-> {}]
  /\ asked = [r \in Runs |-> "none"]

BatchStep ==
  \/ \E r \in Runs : StartBatch(r)
  \/ HoldBatch
  \/ \E c \in Convs : PickConversation(c)
  \/ \E m \in Messages : CreateMessage(m) \/ MapMessage(m) \/ ScheduleMessage(m) \/ RefuseMessage(m)
  \/ CloseBatch
  \/ FinalizeCommit

ServiceNext ==
  \/ \E r \in Runs : \/ Reconstruct(r) \/ DryRun(r)
                     \/ RequestCommit(r) \/ Pause(r) \/ Resume(r) \/ Cancel(r)
                     \/ SetFlags(r) \/ RetryFailed(r)
  \/ BatchStep \/ BatchError \/ CrashBatch \/ RecoverInterrupted

Next ==
  \/ ItemNext /\ UNCHANGED <<archiveVars, batchVars, asked>>
  \/ ServiceNext

\* The worker threads run as long as the service does, a lease that nobody
\* renews runs out, the write actor drains its queue, and a request that has
\* begun ends.
Fairness ==
  /\ \A w \in Workers : WF_vars(WorkerStep(w) /\ UNCHANGED <<archiveVars, batchVars, asked>>)
  /\ \A i \in Items : WF_vars(Expire(i) /\ UNCHANGED <<archiveVars, batchVars, asked>>)
  /\ \A r \in Runs : WF_vars(SetFlags(r))
  /\ WF_vars(BatchStep)

Spec == Init /\ [][Next]_vars /\ Fairness
-----------------------------------------------------------------------------
(* Properties.                                                             *)

\* A conversation that a run shows as committed, or as skipped with its
\* repair at an end, is whole: every message has a mapping to a message row,
\* and in a full reconstruction a processing row.  Each is a transaction of
\* its own, in an order that a crash, an error or another run can cut.  A
\* skipped conversation without a source id is never repaired.
ConversationsAreWhole ==
  \A r \in Runs : \A c \in Archive(r) :
    \/ conv[r][c] \notin {"committed", "skipped"}
    \/ conv[r][c] = "skipped" /\ c \in torn[r] \cup Nameless
    \/ busy = r /\ cur = c
    \/ /\ Of(r, c) \subseteq mapped
       /\ r \in Full => \A m \in Of(r, c) : item[<<r, m>>] # "none"

\* Importing an archive again in the lite edition duplicates no message: a
\* second message row needs a batch that was cut between a row and its
\* mapping.
OneCopyUnlessInterrupted ==
  \A m \in Messages : copies[m] > 1 => faults > 0

\* Unless a user pauses, resumes, cancels, retries or processes by hand,
\* fully_reconstructed is written only when every conversation is settled
\* and every row is done, and then each row that counts as processed has a
\* succeeded processing run of the identity that it was scheduled with.
FullyReconstructedMeansDone ==
  \A r \in Runs : phase[r] = "fully_reconstructed" /\ controls = 0 =>
    /\ \A c \in Archive(r) : conv[r][c] \in Settled
    /\ \A i \in Items : i[1] = r =>
         /\ item[i] \in {"none", "skipped", "succeeded", "already_processed"}
         /\ item[i] \in {"succeeded", "already_processed"} => conf[i] \in ran[i[2]]

\* What docs/reference/import.md says of the status, whatever users do.
FinishedMeansEveryMessage ==
  \A r \in Runs : phase[r] = "fully_reconstructed" =>
    \A i \in Items : i[1] = r => item[i] \in Terminal

\* A run that is being processed settles: it is done, or its flags hold it.
ProcessingSettles ==
  \A r \in Runs : phase[r] = "processing" ~> phase[r] # "processing" \/ paused[r] \/ cancelled[r]
=============================================================================
