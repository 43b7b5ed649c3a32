------------------------------ MODULE ChatTurn ------------------------------
(***************************************************************************)
(* A turn of the chat from end to end: the Filter's inlet resolves policy  *)
(* and session, captures the user's message, has context prepared and      *)
(* delivered, and puts it into the chat request; its outlet records the    *)
(* answer.  Next to it work the backend's review prepare, the buttons of   *)
(* the user interface and the governance of the memories quoted.           *)
(*                                                                         *)
(* Every call of the Filter may time out while the core goes on with it;   *)
(* the Filter then fails open.                                             *)
(***************************************************************************)
EXTENDS SessionCapture

VARIABLE links    \* assistant_response_links and their messages

vars == <<profile, controlVars, calls, spent, captureVars, turn, links>>
serverVars == <<defaults, attachments, regenerations, captureVars, links>>

NoTurn(t) ==
    [id |-> t, stage |-> "idle", kind |-> "send", user |-> Nobody,
     msg |-> Nobody, wish |-> Nobody, ui |-> FALSE, approved |-> 0,
     regen |-> 0, policy |-> "private", review |-> FALSE, session |-> 0,
     input |-> 0, att |-> 0, injected |-> 0, fresh |-> TRUE, off |-> FALSE,
     try |-> 0]

TypeOK ==
    /\ ControlTypeOK /\ CaptureTypeOK
    /\ \A t \in Turns :
          /\ turn[t].stage \in ServerOps \cup
                {"idle", "answering", "unrecorded", "done"}
          /\ turn[t].kind \in {"send", "prepare", "resend", "without",
                               "regenerate"}
          /\ turn[t].injected \in 0 .. Len(attachments)
          /\ turn[t].input \in {Unknown} \cup 0 .. Len(messages)
    /\ \A l \in links : /\ l.input \in Ids(messages)
                        /\ l.message \in Ids(messages)
                        /\ l.att \in 0 .. Len(attachments)

OffRow == [policy |-> "private", review |-> FALSE]

Init ==
    /\ profile \in {"lite", "full"}
    /\ \E chat \in {row \in PolicyRows : row.review} \cup {Nobody},
          actor \in {Nobody, OffRow} :
          /\ Nobody \in {chat, actor}
          /\ defaults = [chat |-> chat, user |-> [u \in Users |-> Nobody],
                         actor |-> [u \in Users |-> actor]]
    /\ attachments = <<>> /\ regenerations = <<>>
    /\ calls = {}
    /\ spent = [ui |-> 0, event |-> 0]
    /\ sessions = <<>> /\ alias = [u \in Users |-> 0]
    /\ messages = <<>> /\ queued = {}
    /\ turn = [t \in Turns |-> NoTurn(t)]
    /\ links = {}

Spend == /\ spent.event < MaxEvents
         /\ spent' = [spent EXCEPT !.event = @ + 1]

SpendUi == /\ spent.ui < MaxUi
           /\ spent' = [spent EXCEPT !.ui = @ + 1]

-----------------------------------------------------------------------------
(* A turn begins: the user sends a message (ui: the review interface is    *)
(* there to intercept it), has one prepared for review, sends a reviewed   *)
(* one again with the attachment the interface names, sends it without, or *)
(* has the answer to one regenerated.                                      *)
Begin(t, r) ==
    LET asked == [r EXCEPT !.stage = "policy",
                           !.off = SwitchedOff(r.user)]
    IN  /\ turn[t].stage = "idle"
        /\ turn' = [turn EXCEPT ![t] = asked]
        /\ calls' = calls \cup Send(t, asked)
        /\ UNCHANGED <<profile, serverVars, spent>>

SendMessage(t) ==
    \E u \in Users, m \in Msgs, wish \in {Nobody, "full"}, ui \in BOOLEAN :
        /\ wish = Nobody \/ ~ui
        /\ Begin(t, [NoTurn(t) EXCEPT !.user = u, !.msg = m, !.wish = wish,
                                      !.ui = ui])

PrepareReview(t) ==
    \E u \in Users, m \in Msgs :
        Begin(t, [NoTurn(t) EXCEPT !.user = u, !.msg = m, !.kind = "prepare"])

SendReviewed(t) ==
    \E u \in Users, m \in Msgs, a \in Ids(attachments) :
        Begin(t, [NoTurn(t) EXCEPT !.user = u, !.msg = m, !.kind = "resend",
                                   !.approved = a])

SendWithout(t) ==
    \E u \in Users, m \in Msgs :
        Begin(t, [NoTurn(t) EXCEPT !.user = u, !.msg = m, !.kind = "without",
                                   !.wish = "full"])

SendRegeneration(t) ==
    \E u \in Users, r \in Ids(regenerations) :
        Begin(t, [NoTurn(t) EXCEPT !.user = u, !.kind = "regenerate",
                                   !.wish = "no_recall", !.regen = r,
                                   !.input = regenerations[r].input])

-----------------------------------------------------------------------------
(* The inlet's first call.                                                 *)
AfterPolicy(r) ==
    IF r.kind = "prepare" /\ ~Recalls(r.policy) THEN "done"
    ELSE IF \/ r.policy = "private"
            \/ r.policy = "no_recall" /\ r.regen # 0
         THEN "answering" ELSE "session"

ResolvePolicy(c) ==
    LET r == turn[c.turn]
        p == Resolve(c.user, r.wish, IF r.kind \in {"prepare", "without"} THEN TRUE
                                     ELSE Nobody)
        known == [r EXCEPT !.wish = Nobody, !.policy = p.policy,
                           !.review = p.review,
                           !.approved = IF Recalls(p.policy) THEN @ ELSE 0,
                           !.regen = IF p.policy = "private" THEN 0 ELSE @,
                           !.input = IF p.policy = "private" THEN 0 ELSE @]
    IN  /\ c.op = "policy"
        /\ Reply(c, known, AfterPolicy(known))
        /\ UNCHANGED <<profile, serverVars, spent>>

(* The inlet previews the attachment the interface named before it has the *)
(* delivery recorded.                                                      *)
Preview(c) ==
    LET r == turn[c.turn] a == r.approved IN
    /\ c.op = "preview"
    /\ IF /\ Owned(a, c.user)
          /\ attachments[a].input = r.input
          /\ attachments[a].status = "approved"
          /\ attachments[a].row # "erased"
       THEN Reply(c, [r EXCEPT !.att = a,
                               !.fresh = attachments[a].row = "active"],
                  "delivered")
       ELSE Refuse(c)
    /\ UNCHANGED <<profile, serverVars, spent>>

-----------------------------------------------------------------------------
(* Preflight.                                                              *)

PolicyForInputAsked(input, u, regen) ==
    CASE regen # 0 -> "no_recall"
      [] regen = 0 /\ input \in Ids(messages) -> "full"
      [] OTHER -> "refused"

(* The policy under which a request about an input may act: the turn       *)
(* contract of the input, for its own user; a regeneration never recalls.  *)
PolicyForInput(input, u, regen) ==
    CASE regen # 0 /\ /\ regenerations[regen].input = input
                      /\ regenerations[regen].user = u -> "no_recall"
      [] regen = 0 /\ /\ input \in Ids(messages)
                      /\ messages[input].contract.user = u ->
            messages[input].contract.policy
      [] OTHER -> "refused"

(* What the inlet does with a prepared attachment: it goes straight out,   *)
(* or waits for the review; without a review interface it is cancelled.    *)
AfterPreflight(r, review) ==
    IF r.kind = "prepare" THEN "done"
    ELSE IF ~review THEN "delivered"
    ELSE IF r.ui THEN "answering" ELSE "cancelled_before_send"

(* The reply that nothing is attached.                                     *)
Unattached(c) ==
    Reply(c, turn[c.turn], IF turn[c.turn].kind = "prepare" THEN "done"
                           ELSE "answering")

(* Refused, disabled by the policy, or finished without an attachment:     *)
(* abstained, out of budget or time, under backpressure, failed open.      *)
PreflightNothing(c) ==
    LET p == PolicyForInput(turn[c.turn].input, c.user, 0) IN
    /\ c.op = "preflight" /\ c.step = "start"
    /\ IF p = "refused" THEN Refuse(c) ELSE Unattached(c)
    /\ UNCHANGED <<profile, serverVars, spent>>

Recalling(c) ==
    /\ c.op = "preflight"
    /\ Recalls(PolicyForInput(turn[c.turn].input, c.user, 0))
    /\ Len(attachments) < MaxAttachments

(* full: run, attachment and lifecycle event in one transaction.           *)
PreflightFull(c) ==
    LET r == turn[c.turn]
        a == Len(attachments) + 1
        review == messages[r.input].contract.review
    IN  /\ c.step = "start" /\ profile = "full" /\ Recalling(c)
        /\ attachments' = Append(attachments,
                                 NewAttachment(r.input, c.user, review))
        /\ Reply(c, [r EXCEPT !.att = a, !.fresh = TRUE],
                 AfterPreflight(r, review))
        /\ UNCHANGED <<profile, defaults, regenerations, captureVars, links,
                       spent>>

(* lite: the builder commits the row ...                                   *)
PreflightBuild(c) ==
    LET r == turn[c.turn] IN
    /\ c.step = "start" /\ profile = "lite" /\ Recalling(c)
    /\ attachments' = Append(attachments, BuiltAttachment(r.input))
    /\ calls' = (calls \ {c}) \cup
          {[c EXCEPT !.step = "built", !.att = Len(attachments) + 1]}
    /\ UNCHANGED <<profile, defaults, regenerations, captureVars, turn, links,
                   spent>>

(* ... and the handler writes owner, review and the first event.           *)
PreflightOwn(c) ==
    LET r == turn[c.turn]
        review == messages[r.input].contract.review
    IN  /\ c.op = "preflight" /\ c.step = "built"
        /\ attachments' =
             [attachments EXCEPT ![c.att].owner = c.user,
                                 ![c.att].review = review,
                                 ![c.att].status = "prepared",
                                 ![c.att].log = <<"prepared">>]
        /\ Reply(c, [r EXCEPT !.att = c.att,
                              !.fresh = attachments[c.att].row = "active"],
                 AfterPreflight(r, review))
        /\ UNCHANGED <<profile, defaults, regenerations, captureVars, links,
                       spent>>

-----------------------------------------------------------------------------
(* The transitions of an attachment, for the Filter and for the interface. *)
Injecting(r, c) == [r EXCEPT !.injected =
                       IF c.to = "delivered" THEN c.att ELSE @]

Finish(c) == IF c.turn = Nobody
             THEN calls' = calls \ {c} /\ UNCHANGED turn
             ELSE Reply(c, Injecting(turn[c.turn], c), "answering")

TransitionRead(c) ==
    /\ c.op \in Lifecycle /\ c.step = "start"
    /\ CASE Verdict(c) = "error" -> Refuse(c) /\ UNCHANGED attachments
         [] Verdict(c) = "replay" -> Finish(c) /\ UNCHANGED attachments
         [] Verdict(c) = "reject" -> /\ attachments' = Rejected(c.att, c.key)
                                     /\ Finish(c)
         [] Verdict(c) = "move" ->
               /\ calls' = (calls \ {c}) \cup
                     {[c EXCEPT !.step = "read",
                                !.from = attachments[c.att].status]}
               /\ UNCHANGED <<attachments, turn>>
    /\ UNCHANGED <<profile, defaults, regenerations, captureVars, links, spent>>

TransitionSwap(c) ==
    /\ c.op \in Lifecycle /\ c.step = "read"
    /\ CASE Swapped(c) -> attachments' = Moved(c.att, c.to, c.key) /\ Finish(c)
         [] ~Swapped(c) /\ Concurrent(c) -> Finish(c) /\ UNCHANGED attachments
         [] OTHER -> Refuse(c) /\ UNCHANGED attachments
    /\ UNCHANGED <<profile, defaults, regenerations, captureVars, links, spent>>

-----------------------------------------------------------------------------
(* The outlet: the model has answered.                                     *)
Outlet(t) ==
    LET r == turn[t]
        asked == [r EXCEPT !.stage = "complete", !.try = @ + 1]
    IN  /\ \/ r.stage = "answering"
           \/ r.stage = "unrecorded" /\ r.try < 2
        /\ IF r.policy = "private" \/ r.input = 0
           THEN turn' = [turn EXCEPT ![t].stage = "done"] /\ UNCHANGED calls
           ELSE /\ turn' = [turn EXCEPT ![t] = asked]
                /\ calls' = calls \cup Send(t, asked)
        /\ UNCHANGED <<profile, serverVars, spent>>

(* The attachment a completion names must be the user's, of this input,    *)
(* and delivered, and the policy must allow one.                           *)
AttachmentFits(r, policy) ==
    r.injected # 0 =>
       /\ Recalls(policy)
       /\ Owned(r.injected, r.user)
       /\ attachments[r.injected].input = r.input
       /\ attachments[r.injected].status = "delivered"

RecordedNever(r) == {}

(* The link of the same answer to the same input.                          *)
Recorded(r) == {l \in links : /\ l.input = r.input /\ l.turn = r.id
                              /\ l.regen = 0}

(* The regeneration the answer belongs to has its answer already.          *)
Ended(r) == r.regen # 0 /\ regenerations[r.regen].status = "completed"

(* The answer as a message of its input's session.                         *)
Answer(r, m) ==
    [role |-> "assistant", session |-> messages[r.input].session,
     key |-> [session |-> m, user |-> r.user, msg |-> Nobody], user |-> r.user,
     turn |-> r.id, contract |-> NoContract]

(* An answer uses the attachment it was given ...                          *)
UsedFor(r) == IF r.injected = 0 THEN attachments
              ELSE Moved(r.injected, "used_for_response", "response")

(* ... and ends the regeneration it belongs to.                            *)
Regenerated(r) == IF r.regen = 0 THEN regenerations
                  ELSE [regenerations EXCEPT ![r.regen].status = "completed"]

(* The answer, its link, its extraction job, the use of the attachment and *)
(* the end of the regeneration: one transaction under a lock.              *)
RecordAnswer(c, r) ==
    LET m == Len(messages) + 1 IN
    /\ messages' = Append(messages, Answer(r, m))
    /\ queued' = Enqueued(m)
    /\ links' = links \cup {[input |-> r.input, message |-> m, turn |-> r.id,
                             att |-> r.injected, regen |-> r.regen]}
    /\ attachments' = UsedFor(r)
    /\ regenerations' = Regenerated(r)
    /\ Reply(c, r, "done")

(* The handler of a completed answer, from its first check to its reply.   *)
Complete(c) ==
    LET r == turn[c.turn]
        policy == PolicyForInput(r.input, c.user, r.regen)
        verdict == IF policy = "refused" THEN "refuse"
                   ELSE IF Ended(r) THEN "duplicate"
                   ELSE IF ~AttachmentFits(r, policy) THEN "refuse"
                   ELSE IF r.regen = 0 /\ Recorded(r) # {}
                        THEN IF \A l \in Recorded(r) : l.att = r.injected
                             THEN "duplicate" ELSE "refuse"
                   ELSE "record"
    IN  /\ c.op = "complete"
        /\ \/ verdict = "record" /\ RecordAnswer(c, r)
           \/ /\ \/ verdict = "duplicate" /\ Reply(c, r, "done")
                 \/ verdict = "refuse" /\ Refuse(c)
              /\ UNCHANGED <<attachments, regenerations, messages, queued, links>>
        /\ UNCHANGED <<profile, defaults, sessions, alias, spent>>

-----------------------------------------------------------------------------
(* The user interface.                                                     *)
UiTransition(u, a, to) ==
    /\ SpendUi
    /\ calls' = calls \cup {[Call(to, Nobody, u) EXCEPT !.att = a, !.to = to]}
    /\ UNCHANGED <<profile, serverVars, turn>>

(* A delivered answer is asked for again without recall: once per key.     *)
RequestRegeneration(u, l) ==
    /\ SpendUi
    /\ l.att # 0 /\ Owned(l.att, u)
    /\ attachments[l.att].status \in {"delivered", "used_for_response"}
    /\ attachments[l.att].row = "active"
    /\ \A r \in Ids(regenerations) : regenerations[r].source # l.message
    /\ regenerations' = Append(regenerations,
          [input |-> l.input, att |-> l.att, source |-> l.message, user |-> u,
           status |-> "requested"])
    /\ UNCHANGED <<profile, defaults, attachments, captureVars, links, calls,
                   turn>>

(* The chat's switch: its policy is full or private, its review flag the   *)
(* one that held.  Turns that began while it was off stay so until a       *)
(* switch back on.                                                         *)
UpdateWorkflow(u, on) ==
    /\ Spend
    /\ SetDefault(u, "actor", [policy |-> IF on THEN "full" ELSE "private",
                               review |-> ResolveActorChat(u).review])
    /\ turn' = [t \in Turns |-> [turn[t] EXCEPT
                   !.off = @ /\ ~(on /\ turn[t].user = u)]]
    /\ UNCHANGED <<profile, attachments, regenerations, captureVars, links,
                   calls>>

(* The defaults of the user and, for a user with a session, of the chat.   *)
SetPolicyDefault(u, scope, row) ==
    /\ Spend
    /\ scope = "chat" => alias[u] # 0
    /\ SetDefault(u, scope, row)
    /\ UNCHANGED <<profile, attachments, regenerations, captureVars, links,
                   calls, turn>>

Govern(a) ==
    /\ Spend
    /\ MarkStale(a) \/ Erase(a)
    /\ UNCHANGED <<profile, defaults, regenerations, captureVars, links, calls,
                   turn>>

-----------------------------------------------------------------------------
(* A call times out at the Filter; the core goes on with it.               *)
GiveUp(t) ==
    /\ Spend
    /\ turn[t].stage \in ServerOps
    /\ turn' = [turn EXCEPT ![t].stage = Failed(turn[t])]
    /\ UNCHANGED <<profile, serverVars, calls>>

(* The core dies: what is not committed is gone, every caller sees it.     *)
CrashCore ==
    /\ Spend
    /\ calls # {}
    /\ calls' = {}
    /\ turn' = [t \in Turns |-> IF turn[t].stage \in ServerOps
                   THEN [turn[t] EXCEPT !.stage = Failed(turn[t])]
                   ELSE turn[t]]
    /\ UNCHANGED <<profile, serverVars>>

-----------------------------------------------------------------------------
Handle(c) ==
    \/ ResolvePolicy(c)
    \/ /\ \/ ResolveSession(c) \/ ResolveSessionLite(c)
          \/ ReadAliasFull(c) \/ ResolveSessionFull(c)
          \/ CapturePolicy(c) \/ CaptureFull(c)
          \/ CaptureLite(c) \/ RecordContract(c)
       /\ UNCHANGED <<profile, controlVars, links, spent>>
    \/ Preview(c)
    \/ PreflightNothing(c) \/ PreflightFull(c)
    \/ PreflightBuild(c) \/ PreflightOwn(c)
    \/ TransitionRead(c) \/ TransitionSwap(c)
    \/ Complete(c)

Next ==
    \/ \E t \in Turns : \/ SendMessage(t) \/ PrepareReview(t)
                        \/ SendReviewed(t) \/ SendWithout(t)
                        \/ SendRegeneration(t)
                        \/ Outlet(t) \/ GiveUp(t)
    \/ \E c \in calls : Handle(c)
    \/ \E u \in Users :
          \/ \E a \in Ids(attachments), to \in {"approved", "suppressed",
                          "cancelled_before_send", "user_rejected"} :
                UiTransition(u, a, to)
          \/ \E l \in links : RequestRegeneration(u, l)
          \/ \E on \in BOOLEAN : UpdateWorkflow(u, on)
          \/ \E scope \in {"user", "chat"}, row \in PolicyRows :
                SetPolicyDefault(u, scope, row)
    \/ \E a \in Ids(attachments) : Govern(a)
    \/ CrashCore

Spec == Init /\ [][Next]_vars

-----------------------------------------------------------------------------
(* The private guarantee: a turn that began while the user's switch for    *)
(* the chat was off, and was not switched on since, leaves no session, no  *)
(* message, no answer and no context, whatever the request itself wishes   *)
(* and whichever of its calls were lost.                                   *)
PrivateTurnLeavesNothing ==
    \A t \in Turns : turn[t].off =>
       /\ turn[t].injected = 0
       /\ \A s \in Ids(sessions) : sessions[s].turn # t
       /\ \A m \in Ids(messages) : messages[m].turn # t
       /\ \A l \in links : l.turn # t

(* Context the Filter put into a chat request was recorded as delivered,   *)
(* belongs to the user and to the message of this turn, was approved when  *)
(* the turn's contract asks for review, comes from a turn whose contract   *)
(* allows recall, was neither cancelled nor suppressed, and was not stale  *)
(* when its delivery was asked for.                                        *)
InjectedContextIsCleared ==
    \A t \in Turns : turn[t].injected # 0 =>
       LET a == attachments[turn[t].injected]
           contract == messages[a.input].contract
       IN  /\ a.owner = turn[t].user /\ a.input = turn[t].input
           /\ a.status \in {"delivered", "used_for_response"}
           /\ a.review => Contains(a.log, "approved")
           /\ contract.policy = "full" /\ contract.user = turn[t].user
           /\ contract.review = a.review
           /\ turn[t].fresh

(* The lifecycle events of an attachment tell one legal history, each step *)
(* allowed after the one before and the last one its status, however the   *)
(* Filter and the interface race; the user's rejection follows a delivery. *)
LifecycleLogIsAPath ==
    \A a \in Ids(attachments) : attachments[a].owner # Nobody =>
       LET log == attachments[a].log
           steps == {i \in Ids(log) : log[i] # "user_rejected"}
       IN  /\ 1 \in steps /\ log[1] = "prepared"
           /\ \A i, j \in steps :
                 (i < j /\ ~\E k \in steps : i < k /\ k < j) =>
                    log[j] \in Allowed(log[i])
           /\ \E i \in steps : /\ \A k \in steps : k <= i
                              /\ log[i] = attachments[a].status
           /\ \A j \in Ids(log) \ steps : \E i \in 1 .. j : log[i] = "delivered"

(* An attachment used for a response was used for exactly one, by a turn   *)
(* that had injected it; a regeneration ends with exactly one answer,      *)
(* which used no attachment; and no answer of a turn is recorded twice,    *)
(* however often the outlet reports it.  Every message is queued for       *)
(* extraction.                                                             *)
OneAnswerPerRequest ==
    /\ \A a \in Ids(attachments) :
          LET used == {l \in links : l.att = a} IN
          /\ attachments[a].status = "used_for_response"
                <=> Cardinality(used) = 1
          /\ Cardinality(used) <= 1
          /\ \A l \in used : turn[l.turn].injected = a
    /\ \A r \in Ids(regenerations) :
          LET ends == {l \in links : l.regen = r} IN
          /\ regenerations[r].status = "completed" <=> Cardinality(ends) = 1
          /\ Cardinality(ends) <= 1
          /\ \A l \in ends : l.att = 0
    /\ \A k, l \in links : (k.turn = l.turn /\ k.input = l.input) => k = l
    /\ queued = Ids(messages)
=============================================================================
