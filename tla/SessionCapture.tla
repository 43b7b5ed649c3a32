--------------------------- MODULE SessionCapture ---------------------------
(***************************************************************************)
(* Session resolution and message capture, as one turn of the chat uses    *)
(* them.  In lite both run in the single writer of the write actor, and    *)
(* the turn contract follows in a transaction of its own.  In full a       *)
(* resolution is a transaction that reads the alias before it writes, so   *)
(* two of them overlap, and a capture holds the session's advisory lock    *)
(* and commits its contract with the message.                              *)
(***************************************************************************)
EXTENDS MemoryControl

CONSTANT Unknown    \* the string "None": a reply without a uuid

ASSUME CaptureAssumption == Unknown \notin Nat

VARIABLES
    sessions,   \* sessions and memorist_session_actors
    alias,      \* openwebui_session_aliases: the session of a user's chat
    messages,   \* messages, their captures and their turn contracts
    queued,     \* messages with an extraction job
    turn        \* what a run of the Filter knows: the metadata of its body

captureVars == <<sessions, alias, messages, queued>>

NoContract == [policy |-> "private", user |-> Nobody, review |-> FALSE]

CaptureTypeOK ==
    /\ \A s \in Ids(sessions) : sessions[s].owner \in Users
    /\ \A u \in Users : alias[u] \in 0 .. Len(sessions)
    /\ \A m \in Ids(messages) :
          /\ messages[m].session \in Ids(sessions)
          /\ messages[m].role \in {"user", "assistant"}
          /\ messages[m].contract.policy \in Policies
    /\ queued \subseteq Ids(messages)

-----------------------------------------------------------------------------
(* A request of a turn and its reply.  The reply reaches the turn only     *)
(* while it still waits for it; what the core did stays done.              *)
ServerOps == {"policy", "session", "capture", "preview", "preflight",
              "cancelled_before_send", "delivered", "complete"}

Waits(c) == c.turn # Nobody /\ turn[c.turn].stage = c.op
                            /\ turn[c.turn].try = c.try

(* The request a turn sends on entering a stage.                           *)
Send(t, r) ==
    IF r.stage \notin ServerOps THEN {}
    ELSE {[Call(r.stage, t, r.user) EXCEPT
             !.try = r.try, !.att = r.att,
             !.to = IF r.stage \in Lifecycle THEN r.stage ELSE "prepared",
             !.key = IF r.approved # 0 THEN "resend" ELSE "filter"]}

(* r, the turn with the reply, goes on to the given stage.                 *)
Reply(c, r, stage) ==
    LET next == [r EXCEPT !.stage = stage] IN
    IF Waits(c)
    THEN /\ turn' = [turn EXCEPT ![c.turn] = next]
         /\ calls' = (calls \ {c}) \cup Send(c.turn, next)
    ELSE /\ UNCHANGED turn
         /\ calls' = calls \ {c}

(* The Filter fails open: the chat request goes to the model as it is.     *)
(* The backend's prepare request is answered with the error instead, and   *)
(* an outlet that fails leaves the answer unrecorded.                      *)
Failed(r) == IF r.stage = "complete" THEN "unrecorded"
             ELSE IF r.kind = "prepare" THEN "done" ELSE "answering"

Refuse(c) == Reply(c, turn[c.turn], Failed(turn[c.turn]))

Working(c, step) == calls' = (calls \ {c}) \cup {[c EXCEPT !.step = step]}

-----------------------------------------------------------------------------
(* Session resolution.                                                     *)

(* create_session: a row without an actor.                                 *)
CreatedSession(c) == [owner |-> Nobody, turn |-> c.turn]

NewSession(c) == Append(sessions, CreatedSession(c))

(* A private turn gets a reply without a session; the client reads it as   *)
(* the string "None" and goes on.                                          *)
ResolveSession(c) ==
    LET r == turn[c.turn] IN
    /\ c.op = "session" /\ c.step = "start"
    /\ IF Resolve(c.user, r.policy, r.review).policy = "private"
       THEN Reply(c, [r EXCEPT !.session = Unknown], "capture")
       ELSE Working(c, "resolved") /\ UNCHANGED turn
    /\ UNCHANGED captureVars

(* The session a resolution ends with: the one its alias names, or a new   *)
(* one.                                                                    *)
Chosen(known) == IF known # 0 THEN known ELSE Len(sessions) + 1

WithChosen(c, known) == IF known # 0 THEN sessions ELSE NewSession(c)

(* The first user of a session becomes its actor.  Another one gets a 404; *)
(* aliases are per user, so none comes here.                               *)
ActorOf(owner, u) == IF owner = Nobody THEN u ELSE owner

BindActor(ss, s, u) == [ss EXCEPT ![s].owner = ActorOf(@, u)]

(* lite: the session of the strongest alias of the chat and its user.      *)
SessionForAlias(u) == alias[u]

(* The alias is unique per chat and user: a second one is dropped and its  *)
(* session stays without.                                                  *)
AttachAlias(u, s) == [alias EXCEPT ![u] = IF @ = 0 THEN s ELSE @]

(* lite: one handler of the write actor finds the alias or creates the     *)
(* session, attaches the alias and binds the actor.                        *)
ResolveSessionLite(c) ==
    LET known == SessionForAlias(c.user)
        s == Chosen(known)
    IN
    /\ c.op = "session" /\ c.step = "resolved" /\ profile = "lite"
    /\ sessions' = BindActor(WithChosen(c, known), s, c.user)
    /\ alias' = AttachAlias(c.user, s)
    /\ Reply(c, [turn[c.turn] EXCEPT !.session = s], "capture")
    /\ UNCHANGED <<messages, queued>>

(* full: the transaction reads the alias first ...                         *)
ReadAliasFull(c) ==
    /\ c.op = "session" /\ c.step = "resolved" /\ profile = "full"
    /\ calls' = (calls \ {c})
                  \cup {[c EXCEPT !.step = "read", !.row = alias[c.user]]}
    /\ UNCHANGED <<captureVars, turn>>

(* full: looked up once more, and inserted with ON CONFLICT DO NOTHING.    *)
AttachAliasFull(u, s) == IF alias[u] # 0 THEN alias ELSE [alias EXCEPT ![u] = s]

(* ... and then creates what it did not find.                              *)
ResolveSessionFull(c) ==
    LET s == Chosen(c.row) IN
    /\ c.op = "session" /\ c.step = "read"
    /\ sessions' = BindActor(WithChosen(c, c.row), s, c.user)
    /\ alias' = AttachAliasFull(c.user, s)
    /\ Reply(c, [turn[c.turn] EXCEPT !.session = s], "capture")
    /\ UNCHANGED <<messages, queued>>

-----------------------------------------------------------------------------
(* Message capture.                                                        *)

(* A resent message and its review prepare share a key; any other capture  *)
(* has a key of its session and message.                                   *)
CaptureKey(r) ==
    [session |-> IF r.kind # "send" \/ r.ui THEN 0 ELSE r.session,
     user |-> r.user, msg |-> r.msg]

Captured(key) == {m \in Ids(messages) : messages[m].key = key}

(* What the capture of a turn does when it finds the key: the same session *)
(* replays it, another one is a conflict.                                  *)
Conflict(r) == \E m \in Captured(CaptureKey(r)) :
                  messages[m].session # r.session

SessionIsMine(r) ==
    /\ r.session \in Ids(sessions)
    /\ sessions[r.session].owner = r.user

Contract(c) == [policy |-> c.policy, user |-> c.user, review |-> c.review]

(* Where the turn goes on after its capture.                               *)
AfterCapture(r) ==
    IF r.kind = "prepare" THEN "preflight"
    ELSE IF r.kind = "without" \/ ~Recalls(r.policy) THEN "answering"
    ELSE IF r.approved # 0 THEN "preview" ELSE "preflight"

(* The handler resolves the policy first, with the turn's policy as its    *)
(* wish; a private turn is skipped.                                        *)
CapturePolicy(c) ==
    LET r == turn[c.turn]
        p == Resolve(c.user, r.policy, r.review)
        skipped == [r EXCEPT !.input = Unknown, !.att = r.approved]
    IN  /\ c.op = "capture" /\ c.step = "start"
        /\ IF p.policy = "private"
           THEN Reply(c, skipped, AfterCapture(skipped))
           ELSE /\ calls' = (calls \ {c}) \cup
                     {[c EXCEPT !.step = "resolved", !.policy = p.policy,
                                !.review = p.review]}
                /\ UNCHANGED turn
        /\ UNCHANGED captureVars

(* create_message: the next message of the session.                        *)
NewMessage(r) ==
    [role |-> "user", session |-> r.session, key |-> CaptureKey(r),
     user |-> r.user, turn |-> r.id, contract |-> NoContract]

(* The message of the turn's key, stored unless it is there.               *)
Stored(r) ==
    IF Captured(CaptureKey(r)) # {} THEN messages
    ELSE Append(messages, NewMessage(r))

(* A contract is written once: ON CONFLICT DO NOTHING.                     *)
WithContract(ms, m, contract) ==
    IF ms[m].contract = NoContract
    THEN [ms EXCEPT ![m].contract = contract] ELSE ms

Enqueued(m) == queued \cup {m}

(* full: message, jobs and contract in one transaction.                    *)
CaptureFull(c) ==
    LET r == turn[c.turn]
        ms == Stored(r)
        m == CHOOSE i \in Ids(ms) : ms[i].key = CaptureKey(r)
        after == [r EXCEPT !.input = m, !.att = r.approved]
    IN  /\ c.op = "capture" /\ c.step = "resolved" /\ profile = "full"
        /\ IF ~SessionIsMine(r) \/ Conflict(r)
           THEN Refuse(c) /\ UNCHANGED captureVars
           ELSE /\ messages' = WithContract(ms, m, Contract(c))
                /\ queued' = Enqueued(m)
                /\ Reply(c, after, AfterCapture(after))
                /\ UNCHANGED <<sessions, alias>>

(* lite: the write actor stores the message and its jobs ...               *)
CaptureLite(c) ==
    LET r == turn[c.turn]
        ms == Stored(r)
        m == CHOOSE i \in Ids(ms) : ms[i].key = CaptureKey(r)
    IN  /\ c.op = "capture" /\ c.step = "resolved" /\ profile = "lite"
        /\ IF ~SessionIsMine(r) \/ Conflict(r)
           THEN Refuse(c) /\ UNCHANGED captureVars
           ELSE /\ messages' = ms
                /\ queued' = Enqueued(m)
                /\ calls' = (calls \ {c})
                              \cup {[c EXCEPT !.step = "stored", !.row = m]}
                /\ UNCHANGED <<sessions, alias, turn>>

(* ... and the handler then writes the contract.                           *)
RecordContract(c) ==
    LET after == [turn[c.turn] EXCEPT !.input = c.row,
                                      !.att = turn[c.turn].approved]
    IN  /\ c.op = "capture" /\ c.step = "stored"
        /\ messages' = WithContract(messages, c.row, Contract(c))
        /\ Reply(c, after, AfterCapture(after))
        /\ UNCHANGED <<sessions, alias, queued>>
=============================================================================
