-------------------------- MODULE WriteActorProofs --------------------------
(***************************************************************************)
(* Proofs about the capture of messages through the write actor, for any   *)
(* number of requests, keys, resends, busy errors and process deaths.      *)
(***************************************************************************)
EXTENDS WriteActor, TLAPS

(* Types.  The sentinels in the queue are counted by the faults that put    *)
(* them there; the writer thread is between two steps of a command exactly  *)
(* when it has one.                                                         *)

WriterPlaced ==
  /\ sentinels <= faults
  /\ tries \in [Requests -> Nat]
  /\ current = NoEnvelope <=> step = "idle"

ActorTypeInv == TypeOK /\ WriterPlaced

\* Every step keeps the types and the writer's place.
LEMMA ActorTypeStep == ActorTypeInv /\ [Next]_vars => ActorTypeInv'
<1> SUFFICES ASSUME TypeOK, WriterPlaced, [Next]_vars PROVE TypeOK' /\ WriterPlaced'
  BY DEF ActorTypeInv
<1> USE ActorAssumption DEF TypeOK, WriterPlaced, Envelopes, Answers
<1>0. current # NoEnvelope => current[1] \in Requests /\ Key \in Keys /\ Content \in Contents
  BY DEF Key, Content, Contents
<1>1. CASE UNCHANGED vars
  BY <1>1 DEF vars, threadVars, requestVars, tableVars, boundVars
<1>2. ASSUME NEW c \in Requests, Request(c) PROVE TypeOK' /\ WriterPlaced'
  <2> USE DEF tableVars, boundVars, threadVars
  <2>1. CASE Submit(c)
    BY <2>1 DEF Submit
  <2>2. CASE Put(c)
    BY <2>2 DEF Put, Envelope
  <2>3. CASE Register(c)
    BY <2>3 DEF Register, Envelope
  <2>4. CASE Receive(c)
    BY <2>4 DEF Receive
  <2>5. CASE TimeOut(c)
    BY <2>5 DEF TimeOut
  <2> QED
    BY <1>2, <2>1, <2>2, <2>3, <2>4, <2>5 DEF Request
<1>3. CASE Write
  <2> USE DEF tableVars, boundVars, requestVars, At, Go, Finish, Finished, Replay
  <2>1. CASE Connect
    BY <2>1 DEF Connect
  <2>2. CASE ConnectFails
    BY <2>2 DEF ConnectFails
  <2>3. CASE Take
    BY <2>3 DEF Take
  <2>4. CASE Exit
    BY <2>4 DEF Exit
  <2>5. CASE Lookup
    BY <2>5 DEF Lookup
  <2>6. CASE CreateMessage
    BY <1>0, <2>6 DEF CreateMessage
  <2>7. CASE CreateVersion
    BY <2>7 DEF CreateVersion
  <2>8. CASE InsertCapture
    BY <1>0, <2>8 DEF InsertCapture
  <2>9. CASE RecordIdempotency
    BY <1>0, <2>9 DEF RecordIdempotency
  <2>10. CASE Busy
    BY <1>0, <2>10 DEF Busy
  <2>11. CASE Reply
    BY <1>0, <2>11 DEF Reply
  <2> QED
    BY <1>3, <2>1, <2>2, <2>3, <2>4, <2>5, <2>6, <2>7, <2>8, <2>9, <2>10, <2>11 DEF Write
<1>4. CASE Stop
  BY <1>4 DEF Stop, requestVars, tableVars
<1>5. CASE Crash
  BY <1>0, <1>5 DEF Crash
<1> QED
  BY <1>1, <1>2, <1>3, <1>4, <1>5 DEF Next

\* The initial state has the types.
LEMMA ActorInit == Init => ActorTypeInv
<1> SUFFICES ASSUME Init PROVE TypeOK /\ WriterPlaced
  BY DEF ActorTypeInv
<1> USE ActorAssumption DEF Init
<1>1. 0 \in 0..MaxFaults /\ 0 \in 0..(MaxBusy - 1) /\ \A c \in Requests : 0 \in 0..MaxTries[c]
  OBVIOUS
<1>2. WriterPlaced
  BY DEF WriterPlaced
<1>3. /\ pc \in [Requests -> {"idle", "put", "register", "wait", "done"}]
      /\ answer \in [Requests -> Answers]
  BY DEF Answers
<1>4. /\ capture \in [Keys -> Contents \cup {NoContent}]
      /\ messages \in [Keys -> Nat] /\ jobs \in [Keys -> Nat] /\ interrupted \in [Keys -> Nat]
  OBVIOUS
<1> QED
  BY <1>1, <1>2, <1>3, <1>4 DEF TypeOK, Answers

\* Types hold throughout; in particular the busy counter of a command stays
\* below the number of its attempts.
THEOREM ActorTypeCorrect == Spec => []TypeOK
<1>1. ActorTypeInv => TypeOK
  BY DEF ActorTypeInv
<1> QED
  BY <1>1, ActorInit, ActorTypeStep, PTL DEF Spec
-----------------------------------------------------------------------------
(* The capture's three transactions.  AnsweredMeansStored is not inductive:  *)
(* an answer is given several steps after the row was seen, so the invariant *)
(* follows the command from its first transaction to its reply.  A message   *)
(* row is accounted for by the key's capture row, by the command that is     *)
(* between its first and its last transaction, or by one that was cut off    *)
(* there.                                                                    *)

HalfDone == step \in {"version", "capture"}

CommandSeesKey ==
  /\ HalfDone => capture[Key] = NoContent
  /\ step = "record" => capture[Key] = Content
  /\ result = "ok" => step = "reply" /\ capture[Key] = Content

AnswersAreCaptured ==
  \A c \in Requests : answer[c] = "ok" => capture[KeyOf[c]] = ContentOf[c]

MessagesAreAccounted ==
  \A k \in Keys :
    messages[k] <= interrupted[k] + (IF capture[k] = NoContent THEN 0 ELSE 1)
                                  + (IF HalfDone /\ Key = k THEN 1 ELSE 0)

CaptureInv == OneJobPerCapture /\ CommandSeesKey /\ AnswersAreCaptured /\ MessagesAreAccounted

\* A step that changes no table and leaves the command of the writer thread
\* where it is, or takes the next one: what request threads, the start and the
\* stop of the thread do.
TablesKept ==
  /\ UNCHANGED tableVars
  /\ \/ UNCHANGED <<current, step, result>>
     \/ ~HalfDone /\ step' \in {"idle", "lookup", "execute"} /\ result' = "none"
  /\ \A c \in Requests : answer'[c] = "ok" => answer[c] = "ok"

\* Such a step keeps the invariant.
LEMMA TablesKeptKeepsCaptureInv == CaptureInv /\ TablesKept => CaptureInv'
<1> SUFFICES ASSUME CaptureInv, TablesKept PROVE CaptureInv'
  OBVIOUS
<1> USE DEF CaptureInv, TablesKept, tableVars, HalfDone
<1>1. OneJobPerCapture'
  BY DEF OneJobPerCapture
<1>2. CommandSeesKey'
  BY DEF CommandSeesKey, Key, Content
<1>3. AnswersAreCaptured'
  BY DEF AnswersAreCaptured
<1>4. MessagesAreAccounted'
  BY DEF MessagesAreAccounted, Key
<1> QED
  BY <1>1, <1>2, <1>3, <1>4

\* Every step keeps the invariant, and no capture row is replaced.
LEMMA CaptureStep ==
  ASSUME ActorTypeInv, CaptureInv, [Next]_vars
  PROVE  /\ CaptureInv'
         /\ \A k \in Keys : capture[k] # NoContent => capture'[k] = capture[k]
<1> DEFINE Kept == \A k \in Keys : capture[k] # NoContent => capture'[k] = capture[k]
<1> USE ActorAssumption
<1>0. current # NoEnvelope =>
        /\ current[1] \in Requests /\ Key \in Keys /\ Content \in Contents
        /\ Content # NoContent
  BY DEF ActorTypeInv, TypeOK, Key, Content, Contents, Envelopes
<1>00. TablesKept => Kept
  BY DEF TablesKept, tableVars
<1>1. CASE UNCHANGED vars
  <2>1. TablesKept
    BY <1>1 DEF vars, threadVars, requestVars, TablesKept
  <2> QED
    BY <1>00, <2>1, TablesKeptKeepsCaptureInv
<1>2. ASSUME NEW c \in Requests, Request(c) PROVE CaptureInv' /\ Kept
  <2>1. TablesKept
    BY <1>2 DEF Request, Submit, Put, Register, Receive, TimeOut, threadVars, TablesKept,
                ActorTypeInv, TypeOK
  <2> QED
    BY <1>00, <2>1, TablesKeptKeepsCaptureInv
<1>3. CASE Connect \/ ConnectFails \/ Take \/ Exit \/ Stop
  <2>1. TablesKept
    BY <1>3 DEF Connect, ConnectFails, Take, Exit, Stop, requestVars, TablesKept, HalfDone,
                ActorTypeInv, WriterPlaced
  <2> QED
    BY <1>00, <2>1, TablesKeptKeepsCaptureInv
<1>4. CASE Lookup
  BY <1>0, <1>4 DEF Lookup, At, Go, Finish, Finished, Replay, requestVars, tableVars,
    CaptureInv, OneJobPerCapture, CommandSeesKey, AnswersAreCaptured, MessagesAreAccounted,
    HalfDone, Key, Content
<1>5. CASE CreateMessage
  BY <1>0, <1>5 DEF CreateMessage, At, Go, Finish, Replay, requestVars,
    CaptureInv, OneJobPerCapture, CommandSeesKey, AnswersAreCaptured, MessagesAreAccounted,
    HalfDone, Key, Content, ActorTypeInv, TypeOK
<1>6. CASE CreateVersion
  BY <1>6 DEF CreateVersion, At, Go, requestVars, tableVars,
    CaptureInv, OneJobPerCapture, CommandSeesKey, AnswersAreCaptured, MessagesAreAccounted,
    HalfDone, Key, Content
<1>7. CASE InsertCapture
  <2> USE <1>7 DEF InsertCapture, At, Go, requestVars, CaptureInv, HalfDone, ActorTypeInv, TypeOK
  <2>1. /\ Key \in Keys /\ capture[Key] = NoContent /\ jobs[Key] = 0
        /\ Key' = Key /\ Content' = Content
    BY <1>0 DEF CommandSeesKey, OneJobPerCapture, Key, Content
  <2>2. OneJobPerCapture' /\ Kept
    BY <1>0, <2>1 DEF OneJobPerCapture
  <2>3. CommandSeesKey'
    BY <2>1 DEF CommandSeesKey
  <2>4. AnswersAreCaptured'
    BY <1>0, <2>1 DEF AnswersAreCaptured, Contents
  <2>5. MessagesAreAccounted'
    BY <1>0, <2>1 DEF MessagesAreAccounted
  <2> QED
    BY <2>2, <2>3, <2>4, <2>5
<1>8. CASE RecordIdempotency
  BY <1>0, <1>8 DEF RecordIdempotency, At, Finish, Finished, requestVars,
    CaptureInv, OneJobPerCapture, CommandSeesKey, AnswersAreCaptured, MessagesAreAccounted,
    HalfDone, Key, Content
<1>9. CASE Busy
  BY <1>0, <1>9 DEF Busy, Go, Finish, requestVars,
    CaptureInv, OneJobPerCapture, CommandSeesKey, AnswersAreCaptured, MessagesAreAccounted,
    HalfDone, Key, Content, ActorTypeInv, TypeOK
<1>10. CASE Reply
  BY <1>0, <1>10 DEF Reply, At, tableVars,
    CaptureInv, OneJobPerCapture, CommandSeesKey, AnswersAreCaptured, MessagesAreAccounted,
    HalfDone, Key, Content, ActorTypeInv, TypeOK
<1>11. CASE Crash
  BY <1>0, <1>11 DEF Crash,
    CaptureInv, OneJobPerCapture, CommandSeesKey, AnswersAreCaptured, MessagesAreAccounted,
    HalfDone, Key, Content, ActorTypeInv, TypeOK, WriterPlaced
<1> QED
  BY <1>1, <1>2, <1>3, <1>4, <1>5, <1>6, <1>7, <1>8, <1>9, <1>10, <1>11 DEF Next, Write

\* The invariants hold in every reachable state.
LEMMA CaptureInvAlways == Spec => [](ActorTypeInv /\ CaptureInv)
<1>1. Init => ActorTypeInv /\ CaptureInv
  BY ActorInit DEF Init, CaptureInv, OneJobPerCapture, CommandSeesKey, AnswersAreCaptured,
     MessagesAreAccounted, HalfDone
<1>2. ActorTypeInv /\ CaptureInv /\ [Next]_vars => (ActorTypeInv /\ CaptureInv)'
  BY ActorTypeStep, CaptureStep
<1> QED
  BY <1>1, <1>2, PTL DEF Spec

\* An answer "ok" means that the capture row of the request's key is the
\* request's own and that its extraction job was enqueued, once, however many
\* timeouts, resends, busy errors and crashes came before it.
THEOREM AnswersAreStored == Spec => []AnsweredMeansStored
<1>1. ActorTypeInv /\ CaptureInv => AnsweredMeansStored
  BY ActorAssumption
     DEF CaptureInv, AnswersAreCaptured, OneJobPerCapture, AnsweredMeansStored, Contents
<1> QED
  BY <1>1, CaptureInvAlways, PTL

\* A key has one extraction job if it has a capture row, and none otherwise.
THEOREM CapturesHaveOneJob == Spec => []OneJobPerCapture
<1>1. CaptureInv => OneJobPerCapture
  BY DEF CaptureInv
<1> QED
  BY <1>1, CaptureInvAlways, PTL

\* Message rows beyond the first are bounded by the captures that were cut off
\* between their first and their last transaction.
THEOREM SurplusIsAccounted == Spec => []SurplusOnlyFromInterruption
<1>1. ActorTypeInv /\ CaptureInv => SurplusOnlyFromInterruption
  BY DEF ActorTypeInv, TypeOK, CaptureInv, CommandSeesKey, MessagesAreAccounted,
         SurplusOnlyFromInterruption
<1> QED
  BY <1>1, CaptureInvAlways, PTL

\* No step replaces the capture row of a key.
THEOREM CapturesAreFinal == Spec => CaptureIsFinal
<1>1. ActorTypeInv /\ CaptureInv /\ [Next]_vars =>
        [\A k \in Keys : capture[k] # NoContent => capture'[k] = capture[k]]_vars
  BY CaptureStep
<1> QED
  BY <1>1, CaptureInvAlways, PTL DEF Spec, CaptureIsFinal
=============================================================================
