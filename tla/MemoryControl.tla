--------------------------- MODULE MemoryControl ---------------------------
(***************************************************************************)
(* Memory control: the policy of a turn and the life of a context          *)
(* attachment.  One workspace, one chat.                                   *)
(*                                                                         *)
(* The policy rows are read by every request that needs one; a request     *)
(* that changes an attachment reads the row and updates it in two steps of *)
(* the database, the update naming the lifecycle status it was decided on. *)
(* Requests in flight are the set calls; turn says which turn of the chat  *)
(* waits for the reply (Nobody: the user interface).                       *)
(***************************************************************************)
EXTENDS Integers, Sequences, FiniteSets, SequencesExt

CONSTANTS
    Turns,          \* runs of the Filter, and of the backend's review prepare
    Users,
    Msgs,           \* messages of the Open WebUI chat
    Nobody,         \* no turn, no user, no policy row
    PolicyRows,     \* bound: the rows a policy default is set to
    MaxUi,          \* bound: requests about attachments of the interface
    MaxEvents,      \* bound: changes of policy or memory, lost replies and
                    \* crashes together
    MaxAttachments  \* bound: attachments built

VARIABLES
    profile,        \* "lite" (SQLite) or "full" (PostgreSQL)
    defaults,       \* memorist_policy_defaults
    attachments,    \* memory_context_attachments and their lifecycle events
    regenerations,  \* memorist_regenerations
    calls,          \* requests the core is working on
    spent           \* how much of MaxUi and of MaxEvents is used

controlVars == <<defaults, attachments, regenerations>>

Policies == {"full", "no_recall", "private"}
Rows == [policy : Policies, review : BOOLEAN]
Lifecycle == {"prepared", "approved", "delivered", "suppressed",
              "cancelled_before_send", "user_rejected", "used_for_response"}
Ids(s) == DOMAIN s

ASSUME ControlAssumption ==
    /\ Nobody \notin Turns \cup Users \cup Msgs \cup Rows \cup Policies \cup BOOLEAN
    /\ PolicyRows \subseteq Rows

(* A request: what it asks for, and what its handler has read so far.      *)
Call(op, t, u) ==
    [op |-> op, turn |-> t, user |-> u, try |-> 0, step |-> "start",
     att |-> 0, to |-> "prepared", from |-> "prepared", key |-> "ui",
     row |-> 0, policy |-> "private", review |-> FALSE]

CallTypeOK(c) ==
    /\ c.turn \in Turns \cup {Nobody}
    /\ c.user \in Users
    /\ c.step \in {"start", "resolved", "read", "stored", "built"}
    /\ c.att \in 0 .. Len(attachments)
    /\ {c.to, c.from} \subseteq Lifecycle
    /\ c.policy \in Policies

ControlTypeOK ==
    /\ profile \in {"lite", "full"}
    /\ defaults.chat \in Rows \cup {Nobody}
    /\ \A u \in Users : {defaults.user[u], defaults.actor[u]}
                           \subseteq Rows \cup {Nobody}
    /\ \A a \in Ids(attachments) :
          /\ attachments[a].owner \in Users \cup {Nobody}
          /\ attachments[a].status \in Lifecycle
          /\ attachments[a].row \in {"active", "stale", "erased"}
          /\ attachments[a].review \in BOOLEAN
    /\ \A r \in Ids(regenerations) :
          regenerations[r].status \in {"requested", "completed"}
    /\ \A c \in calls : CallTypeOK(c)

-----------------------------------------------------------------------------
(* The policy of a turn.  The rows of the system, the user, the chat and   *)
(* the user's own switch for the chat override each other in this order;   *)
(* the turn's own wish overrides them all unless the switch says private.  *)
Recalls(policy) == policy = "full"

(* The user's switch for the chat is off.                                  *)
SwitchedOff(u) == /\ defaults.actor[u] # Nobody
                  /\ defaults.actor[u].policy = "private"

SystemRow == [policy |-> "full", review |-> FALSE]

Overriding(row, below) == IF row = Nobody THEN below ELSE row

DefaultFor(u) ==
    Overriding(defaults.actor[u],
               Overriding(defaults.chat, Overriding(defaults.user[u], SystemRow)))

ResolveOverride(u, wish, review) ==
    LET row == DefaultFor(u)
    IN  [policy |-> IF wish # Nobody THEN wish ELSE row.policy,
         review |-> IF review # Nobody THEN review ELSE row.review]

Resolve(u, wish, review) ==
    LET row == DefaultFor(u)
    IN  [policy |-> IF wish # Nobody /\ ~SwitchedOff(u) THEN wish ELSE row.policy,
         review |-> IF review # Nobody THEN review ELSE row.review]

(* The switch reads the user's rows without the chat's own row.            *)
ResolveActorChat(u) ==
    Overriding(defaults.actor[u], Overriding(defaults.user[u], SystemRow))

(* A change that changes nothing is a stuttering step, left out.           *)
SetDefault(u, scope, row) ==
    /\ defaults' = CASE scope = "chat" -> [defaults EXCEPT !.chat = row]
                     [] scope = "user" -> [defaults EXCEPT !.user[u] = row]
                     [] scope = "actor" -> [defaults EXCEPT !.actor[u] = row]
    /\ defaults' # defaults

-----------------------------------------------------------------------------
(* The life of an attachment.                                              *)
Allowed(from) ==
    CASE from = "prepared" -> {"approved", "delivered", "suppressed",
                               "cancelled_before_send", "user_rejected"}
      [] from = "approved" -> {"delivered", "suppressed",
                               "cancelled_before_send", "user_rejected"}
      [] from = "delivered" -> {"used_for_response"}
      [] OTHER -> {}

Owned(a, u) == a \in Ids(attachments) /\ attachments[a].owner = u

(* What is checked only of a delivery.                                     *)
Deliverable(a) ==
    LET row == attachments[a] IN
    /\ row.row = "active"
    /\ row.review => row.status = "approved"

MovedUnlogged(a, to, key) ==
    [attachments EXCEPT ![a].status = to, ![a].keys = @ \cup {<<to, key>>}]

Moved(a, to, key) ==
    [attachments EXCEPT ![a].status = to, ![a].log = Append(@, to),
                        ![a].keys = @ \cup {<<to, key>>}]

(* The attachment with the user's rejection, which is no lifecycle status. *)
Rejected(a, key) ==
    [attachments EXCEPT ![a].rejected = TRUE,
                        ![a].log = Append(@, "user_rejected"),
                        ![a].keys = @ \cup {<<"user_rejected", key>>}]

(* The verdict of transition_attachment on the row it read: "error",       *)
(* "replay" (the event of this key or of the current status), "reject" or  *)
(* "move".                                                                 *)
Verdict(c) ==
    LET row == attachments[c.att] IN
    IF ~Owned(c.att, c.user) THEN "error"
    ELSE IF c.to = "delivered" /\ ~Deliverable(c.att) THEN "error"
    ELSE IF <<c.to, c.key>> \in row.keys THEN "replay"
    ELSE IF c.to = "user_rejected"
         THEN IF row.status \in {"delivered", "used_for_response"}
              THEN "reject" ELSE "error"
    ELSE IF c.to = row.status THEN "replay"
    ELSE IF c.to \notin Allowed(row.status) THEN "error"
    ELSE "move"

(* The update names the status that was read; when it finds another one    *)
(* the request is answered by an event of its status, if there is one.     *)
Swapped(c) == attachments[c.att].status = c.from

Concurrent(c) == Contains(attachments[c.att].log, c.to)

-----------------------------------------------------------------------------
(* create_attachment: a row with the defaults of its control columns.      *)
CreatedAttachment(input) ==
    [input |-> input, owner |-> Nobody, review |-> FALSE,
     status |-> "prepared", row |-> "active", rejected |-> FALSE,
     keys |-> {}, log |-> <<>>]

(* full: the row of a new attachment with its first lifecycle event.       *)
NewAttachment(input, owner, review) ==
    [CreatedAttachment(input) EXCEPT !.owner = owner, !.review = review,
                                     !.log = <<"prepared">>]

(* In lite the builder leaves owner, review and event to the handler.      *)
BuiltAttachment(input) == CreatedAttachment(input)

-----------------------------------------------------------------------------
(* Correction, quarantine and erasure of a source memory reach the         *)
(* attachments that quote it at any time.                                  *)
MarkStale(a) ==
    /\ attachments[a].row = "active"
    /\ attachments' = [attachments EXCEPT ![a].row = "stale"]

Erase(a) ==
    /\ attachments[a].row # "erased"
    /\ attachments' = [attachments EXCEPT ![a].row = "erased"]
=============================================================================
