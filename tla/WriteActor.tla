----------------------------- MODULE WriteActor -----------------------------
(***************************************************************************)
(* SQLiteWriteActor (memcore/storage/write_actor.py): request threads put  *)
(* write commands on a queue, one writer thread executes them on the only  *)
(* write connection, and each requester waits for its answer.  The command *)
(* is the capture of a chat message (CaptureOpenWebUIMessageCommand), which *)
(* has an idempotency key and writes in three transactions.                *)
(*                                                                         *)
(* The queue's order (priority, then sequence number) is left open: any    *)
(* queued command may be next.  A request may be sent again after it       *)
(* failed or timed out; an envelope is a request together with the number  *)
(* of the try.                                                             *)
(***************************************************************************)
EXTENDS Naturals

CONSTANTS
  Requests,     \* capture requests
  Keys,         \* idempotency keys
  KeyOf,        \* the key of a request
  ContentOf,    \* the fingerprint of a request: session, role, content, ids
  NoContent,    \* the key has no capture row
  NoEnvelope,   \* the writer thread is between two commands
  MaxTries,     \* bound: how often each request is sent
  MaxBusy,      \* attempts of _execute_with_busy_retry (4 in the code)
  MaxFaults     \* bound: busy errors, process deaths and stops together

Contents == {ContentOf[c] : c \in Requests}

ASSUME ActorAssumption ==
  /\ KeyOf \in [Requests -> Keys]
  /\ NoContent \notin Contents
  /\ MaxTries \in [Requests -> Nat \ {0}]
  /\ MaxBusy \in Nat \ {0}
  /\ MaxFaults \in Nat
  /\ NoEnvelope \notin Requests \X Nat

VARIABLES
  thread,       \* the writer thread: "none", "starting" or "running"
  queue,        \* envelopes in the priority queue
  sentinels,    \* stop sentinels in the priority queue
  tracked,      \* envelopes in _queued_submitted_at, the queue metrics
  current,      \* the envelope the writer thread executes
  step,         \* where in _execute_envelope it is
  busy,         \* busy errors met by the current command
  result,       \* the current command's result or error
  pc,           \* pc[c]: where the request's thread is
  tries,        \* tries[c]: how often the request was sent
  answer,       \* answer[c]: the response queue of the request's last try
  capture,      \* capture[k]: openwebui_message_captures, by key
  messages,     \* messages[k]: message rows created under the key
  jobs,         \* jobs[k]: memory_extraction jobs enqueued under the key
  recorded,     \* keys in write_idempotency_records
  interrupted,  \* interrupted[k]: captures cut off after their first transaction
  faults,       \* faults so far, for the bound
  stopped       \* stop_sync was called

threadVars == <<thread, queue, sentinels, tracked, current, step, busy, result>>
requestVars == <<pc, tries, answer>>
tableVars == <<capture, messages, jobs, recorded, interrupted>>
boundVars == <<faults, stopped>>
vars == <<threadVars, requestVars, tableVars, boundVars>>

Envelopes == Requests \X Nat
Answers == {"none", "ok", "conflict", "error"}

TypeOK ==
  /\ thread \in {"none", "starting", "running"}
  /\ queue \subseteq Envelopes
  /\ sentinels \in 0..MaxFaults
  /\ tracked \subseteq Envelopes
  /\ current \in Envelopes \cup {NoEnvelope}
  /\ step \in {"idle", "lookup", "execute", "version", "capture", "record", "reply"}
  /\ busy \in 0..(MaxBusy - 1)
  /\ result \in Answers
  /\ pc \in [Requests -> {"idle", "put", "register", "wait", "done"}]
  /\ \A c \in Requests : tries[c] \in 0..MaxTries[c]
  /\ answer \in [Requests -> Answers]
  /\ capture \in [Keys -> Contents \cup {NoContent}]
  /\ messages \in [Keys -> Nat]
  /\ jobs \in [Keys -> Nat]
  /\ recorded \subseteq Keys
  /\ interrupted \in [Keys -> Nat]
  /\ faults \in 0..MaxFaults
  /\ stopped \in BOOLEAN

Init ==
  /\ thread = "none"
  /\ queue = {} /\ sentinels = 0 /\ tracked = {}
  /\ current = NoEnvelope /\ step = "idle" /\ busy = 0 /\ result = "none"
  /\ pc = [c \in Requests |-> "idle"]
  /\ tries = [c \in Requests |-> 0]
  /\ answer = [c \in Requests |-> "none"]
  /\ capture = [k \in Keys |-> NoContent]
  /\ messages = [k \in Keys |-> 0]
  /\ jobs = [k \in Keys |-> 0]
  /\ recorded = {}
  /\ interrupted = [k \in Keys |-> 0]
  /\ faults = 0 /\ stopped = FALSE
-----------------------------------------------------------------------------
(* submit_sync.                                                             *)

Envelope(c) == <<c, tries[c]>>

\* start_sync: a thread is created unless one is alive.
Submit(c) ==
  /\ pc[c] = "idle"
  /\ tries[c] < MaxTries[c]
  /\ tries' = [tries EXCEPT ![c] = @ + 1]
  /\ pc' = [pc EXCEPT ![c] = "put"]
  /\ thread' = IF thread = "none" THEN "starting" ELSE thread
  /\ UNCHANGED <<queue, sentinels, tracked, current, step, busy, result, answer,
                 tableVars, boundVars>>

Put(c) ==
  /\ pc[c] = "put"
  /\ queue' = queue \cup {Envelope(c)}
  /\ pc' = [pc EXCEPT ![c] = "register"]
  /\ UNCHANGED <<thread, sentinels, tracked, current, step, busy, result, tries, answer,
                 tableVars, boundVars>>

\* The metrics are updated under the lock, after the envelope is in the queue.
Register(c) ==
  /\ pc[c] = "register"
  /\ tracked' = tracked \cup {Envelope(c)}
  /\ pc' = [pc EXCEPT ![c] = "wait"]
  /\ UNCHANGED <<thread, queue, sentinels, current, step, busy, result, tries, answer,
                 tableVars, boundVars>>

\* The answer arrives: "ok" and "conflict" end the request, after an error it
\* may be sent again.
Receive(c) ==
  /\ pc[c] = "wait"
  /\ answer[c] # "none"
  /\ pc' = [pc EXCEPT ![c] = IF answer[c] = "error" THEN "idle" ELSE "done"]
  /\ answer' = IF answer[c] = "error" THEN [answer EXCEPT ![c] = "none"] ELSE answer
  /\ UNCHANGED <<threadVars, tries, tableVars, boundVars>>

\* response.get times out; the envelope stays where it is.
TimeOut(c) ==
  /\ pc[c] = "wait"
  /\ answer[c] = "none"
  /\ pc' = [pc EXCEPT ![c] = "idle"]
  /\ UNCHANGED <<threadVars, tries, answer, tableVars, boundVars>>
-----------------------------------------------------------------------------
(* The writer thread.                                                       *)

\* The thread opens its connection and applies the migrations.
Connect ==
  /\ thread = "starting"
  /\ thread' = "running"
  /\ UNCHANGED <<queue, sentinels, tracked, current, step, busy, result, requestVars,
                 tableVars, boundVars>>

\* The database is locked or missing: the thread ends, the queue stays.  The
\* next submission starts another thread.
ConnectFails ==
  /\ thread = "starting"
  /\ faults < MaxFaults /\ faults' = faults + 1
  /\ thread' = "none"
  /\ UNCHANGED <<queue, sentinels, tracked, current, step, busy, result, requestVars,
                 tableVars, stopped>>

\* The queue metrics forget the envelope in the same step.
Take ==
  /\ thread = "running" /\ current = NoEnvelope
  /\ \E e \in queue :
       /\ current' = e
       /\ queue' = queue \ {e}
       /\ tracked' = tracked \ {e}
  /\ step' = "lookup" /\ busy' = 0 /\ result' = "none"
  /\ UNCHANGED <<thread, sentinels, requestVars, tableVars, boundVars>>

\* The sentinel sorts behind every command, so the queue is drained first.
Exit ==
  /\ thread = "running" /\ current = NoEnvelope
  /\ queue = {} /\ sentinels > 0
  /\ thread' = "none"
  /\ sentinels' = sentinels - 1
  /\ UNCHANGED <<queue, tracked, current, step, busy, result, requestVars, tableVars, boundVars>>

Key == KeyOf[current[1]]
Content == ContentOf[current[1]]

At(s) == current # NoEnvelope /\ step = s
Finish(r) == step' = "reply" /\ result' = r
Go(s) == step' = s /\ UNCHANGED result

\* validate_idempotent_replay: the key's capture row must be the request's.
Replay(next) ==
  \/ capture[Key] = Content /\ next
  \/ capture[Key] # Content /\ Finish("conflict")

\* The end of _execute_envelope: over the time budget, the command fails
\* although everything it wrote is committed.
Finished == Finish("ok") \/ Finish("error")

\* Seeded fault: a recorded result is returned without the replay validator.
LookupUnchecked ==
  /\ At("lookup")
  /\ \/ Key \in recorded /\ Finished
     \/ Key \notin recorded /\ Go("execute")
  /\ UNCHANGED <<thread, queue, sentinels, tracked, current, busy, requestVars, tableVars,
                 boundVars>>

\* The idempotency record is looked up.
Lookup ==
  /\ At("lookup")
  /\ \/ Key \in recorded /\ Replay(Finished)
     \/ Key \notin recorded /\ Go("execute")
  /\ UNCHANGED <<thread, queue, sentinels, tracked, current, busy, requestVars, tableVars,
                 boundVars>>

\* Seeded fault: the command looks for the idempotency record only, not for the
\* capture row that a run without a record has left.
CreateMessageUnchecked ==
  /\ At("execute")
  /\ messages' = [messages EXCEPT ![Key] = @ + 1]
  /\ Go("version")
  /\ UNCHANGED <<thread, queue, sentinels, tracked, current, busy, requestVars,
                 capture, jobs, recorded, interrupted, boundVars>>

\* Seeded fault: an existing capture is replayed only if it is the request's,
\* otherwise it is taken over.
CreateMessageReplacing ==
  /\ At("execute")
  /\ \/ capture[Key] = Content /\ Go("record") /\ UNCHANGED messages
     \/ /\ capture[Key] # Content
        /\ messages' = [messages EXCEPT ![Key] = @ + 1]
        /\ Go("version")
  /\ UNCHANGED <<thread, queue, sentinels, tracked, current, busy, requestVars,
                 capture, jobs, recorded, interrupted, boundVars>>

\* The first transaction: an existing capture is replayed, otherwise the
\* message is created (with its text_unitization job) and committed.
CreateMessage ==
  /\ At("execute")
  /\ \/ /\ capture[Key] # NoContent
        /\ Replay(Go("record"))
        /\ UNCHANGED messages
     \/ /\ capture[Key] = NoContent
        /\ messages' = [messages EXCEPT ![Key] = @ + 1]
        /\ Go("version")
  /\ UNCHANGED <<thread, queue, sentinels, tracked, current, busy, requestVars,
                 capture, jobs, recorded, interrupted, boundVars>>

\* The second transaction: the message's first version.
CreateVersion ==
  /\ At("version")
  /\ Go("capture")
  /\ UNCHANGED <<thread, queue, sentinels, tracked, current, busy, requestVars, tableVars,
                 boundVars>>

\* The third transaction: capture row, dedup row, extraction job, usage event.
InsertCapture ==
  /\ At("capture")
  /\ capture' = [capture EXCEPT ![Key] = Content]
  /\ jobs' = [jobs EXCEPT ![Key] = @ + 1]
  /\ Go("record")
  /\ UNCHANGED <<thread, queue, sentinels, tracked, current, busy, requestVars,
                 messages, recorded, interrupted, boundVars>>

\* _record_idempotency, a transaction of its own.
RecordIdempotency ==
  /\ At("record")
  /\ recorded' = recorded \cup {Key}
  /\ Finished
  /\ UNCHANGED <<thread, queue, sentinels, tracked, current, busy, requestVars,
                 capture, messages, jobs, interrupted, boundVars>>

\* Seeded fault: an error leaves the loop of the writer thread.
BusyEndsThread ==
  /\ current # NoEnvelope
  /\ step \in {"lookup", "execute", "version", "capture", "record"}
  /\ faults < MaxFaults /\ faults' = faults + 1
  /\ thread' = "none"
  /\ current' = NoEnvelope /\ step' = "idle" /\ busy' = 0 /\ result' = "none"
  /\ interrupted' = IF step \in {"version", "capture"}
                    THEN [interrupted EXCEPT ![Key] = @ + 1] ELSE interrupted
  /\ UNCHANGED <<queue, sentinels, tracked, requestVars,
                 capture, messages, jobs, recorded, stopped>>

\* A transaction finds the database locked and is rolled back: the command is
\* executed again from the start, or fails after the last attempt.  The reading
\* and writing of the idempotency record are not retried.
Busy ==
  /\ current # NoEnvelope
  /\ step \in {"lookup", "execute", "version", "capture", "record"}
  /\ faults < MaxFaults /\ faults' = faults + 1
  /\ \/ /\ step \notin {"lookup", "record"} /\ busy < MaxBusy - 1
        /\ busy' = busy + 1
        /\ Go("execute")
     \/ /\ step \in {"lookup", "record"} \/ busy = MaxBusy - 1
        /\ Finish("error")
        /\ UNCHANGED busy
  /\ interrupted' = IF step \in {"version", "capture"}
                    THEN [interrupted EXCEPT ![Key] = @ + 1] ELSE interrupted
  /\ UNCHANGED <<thread, queue, sentinels, tracked, current, requestVars,
                 capture, messages, jobs, recorded, stopped>>

\* The response is put; nobody reads it if the requester gave up on this try.
Reply ==
  /\ At("reply")
  /\ LET c == current[1] IN
       answer' = IF Envelope(c) = current /\ pc[c] \in {"register", "wait"}
                 THEN [answer EXCEPT ![c] = result] ELSE answer
  /\ current' = NoEnvelope /\ step' = "idle" /\ busy' = 0 /\ result' = "none"
  /\ UNCHANGED <<thread, queue, sentinels, tracked, pc, tries, tableVars, boundVars>>
-----------------------------------------------------------------------------
\* stop_sync: the sentinel is queued (the join gives up after two seconds).
Stop ==
  /\ faults < MaxFaults /\ faults' = faults + 1
  /\ stopped' = TRUE
  /\ sentinels' = sentinels + 1
  /\ UNCHANGED <<thread, queue, tracked, current, step, busy, result, requestVars, tableVars>>

\* The process dies: the queue, the thread and all waiting requests are gone,
\* the committed transactions stay.
Crash ==
  /\ faults < MaxFaults /\ faults' = faults + 1
  /\ thread' = "none"
  /\ queue' = {} /\ sentinels' = 0 /\ tracked' = {}
  /\ current' = NoEnvelope /\ step' = "idle" /\ busy' = 0 /\ result' = "none"
  /\ pc' = [c \in Requests |-> IF pc[c] = "done" THEN "done" ELSE "idle"]
  /\ answer' = [c \in Requests |-> IF pc[c] = "done" THEN answer[c] ELSE "none"]
  /\ interrupted' = IF step \in {"version", "capture"}
                    THEN [interrupted EXCEPT ![Key] = @ + 1] ELSE interrupted
  /\ UNCHANGED <<tries, capture, messages, jobs, recorded, stopped>>

Write == \/ Connect \/ ConnectFails \/ Take \/ Exit \/ Lookup \/ CreateMessage \/ CreateVersion \/ InsertCapture
         \/ RecordIdempotency \/ Busy \/ Reply

Request(c) == Submit(c) \/ Put(c) \/ Register(c) \/ Receive(c) \/ TimeOut(c)

Next == Write \/ (\E c \in Requests : Request(c)) \/ Stop \/ Crash

\* The writer thread goes on as long as it is alive, and a request thread goes
\* on to wait for its answer and takes it.  Nothing forces a timeout, a busy
\* database, a stop or a crash, or that a failed request is sent again.
Fairness ==
  /\ WF_vars(Write)
  /\ \A c \in Requests : WF_vars(Put(c) \/ Register(c) \/ Receive(c))

Spec == Init /\ [][Next]_vars /\ Fairness
-----------------------------------------------------------------------------
\* A request that was answered "ok" is the one whose capture row is stored, and
\* its extraction job was enqueued, also when the answer was a replay.
AnsweredMeansStored ==
  \A c \in Requests : answer[c] = "ok" =>
    capture[KeyOf[c]] = ContentOf[c] /\ jobs[KeyOf[c]] = 1

\* A key has an extraction job exactly when it has a capture row, and never
\* more than one, however often the request is sent or the command retried.
OneJobPerCapture ==
  \A k \in Keys : jobs[k] = IF capture[k] = NoContent THEN 0 ELSE 1

\* Surplus messages only come from captures that were cut off between their
\* first and their last transaction, one for each: timeouts, late execution and
\* replays create none.
SurplusOnlyFromInterruption ==
  \A k \in Keys : messages[k] <= interrupted[k] + 1

\* The row that a key's first successful capture wrote is never replaced.
CaptureIsFinal ==
  [][\A k \in Keys : capture[k] # NoContent => capture'[k] = capture[k]]_vars

\* Once the writer thread runs, every waiting request gets its answer (or gives
\* up) unless the actor is stopped: no error of a command ends the thread or
\* loses the response.
RequestsAreAnswered ==
  \A c \in Requests :
    pc[c] = "wait" /\ thread = "running" ~> pc[c] # "wait" \/ stopped

=============================================================================
