--------------------------- MODULE ChatTurnProofs ---------------------------
(***************************************************************************)
(* Proofs about ChatTurn, for any turns, users, messages and bounds: the   *)
(* private guarantee, what clears injected context, the lifecycle log of   *)
(* an attachment, and one answer per request.                              *)
(*                                                                         *)
(* The rows of the core only grow (Grows) and a turn only goes on          *)
(* (Advances): with these two, what is true of the other turns and of the  *)
(* other requests in flight stays true across every handler.               *)
(***************************************************************************)
EXTENDS ChatTurn, SequenceTheorems, FiniteSetTheorems, TLAPS

-----------------------------------------------------------------------------
(* The rows.                                                               *)
Keys == {"ui", "filter", "resend", "response"}
Ops == ServerOps \cup {"approved", "suppressed", "user_rejected"}
Stages == ServerOps \cup {"idle", "answering", "unrecorded", "done"}
Kinds == {"send", "prepare", "resend", "without", "regenerate"}
Default == Rows \cup {Nobody}

ContractRows == [policy : Policies, user : Users \cup {Nobody}, review : BOOLEAN]

KeyRows == [session : Nat, user : Users, msg : Msgs \cup {Nobody}]

SessionRows == [owner : Users, turn : Turns]

MessageRows ==
  [role : {"user", "assistant"}, session : Nat, key : KeyRows, user : Users,
   turn : Turns, contract : ContractRows]

AttachmentRows ==
  [input : Nat, owner : Users \cup {Nobody}, review : BOOLEAN,
   status : Lifecycle, row : {"active", "stale", "erased"},
   rejected : BOOLEAN, keys : SUBSET (Lifecycle \X Keys), log : Seq(Lifecycle)]

RegenRows == [input : Nat, att : Nat, source : Nat, user : Users,
              status : {"requested", "completed"}]

LinkRows == [input : Nat, message : Nat, turn : Turns, att : Nat, regen : Nat]

CallRows ==
  [op : Ops, turn : Turns \cup {Nobody}, user : Users, try : Nat,
   step : {"start", "resolved", "read", "stored", "built"}, att : Nat,
   to : Lifecycle, from : Lifecycle, key : Keys, row : Nat, policy : Policies,
   review : BOOLEAN]

TurnRows ==
  [id : Turns, stage : Stages, kind : Kinds, user : Users \cup {Nobody},
   msg : Msgs \cup {Nobody}, wish : {Nobody, "full", "no_recall"}, ui : BOOLEAN,
   approved : Nat, regen : Nat, policy : Policies, review : BOOLEAN,
   session : Nat \cup {Unknown}, input : Nat \cup {Unknown}, att : Nat,
   injected : Nat, fresh : BOOLEAN, off : BOOLEAN, try : Nat]

TablesTyped ==
  /\ profile \in {"lite", "full"}
  /\ defaults \in [chat : Default, user : [Users -> Default], actor : [Users -> Default]]
  /\ attachments \in Seq(AttachmentRows)
  /\ regenerations \in Seq(RegenRows)
  /\ sessions \in Seq(SessionRows)
  /\ alias \in [Users -> Nat]
  /\ messages \in Seq(MessageRows)
  /\ links \subseteq LinkRows

TurnsTyped == turn \in [Turns -> TurnRows] /\ calls \subseteq CallRows

-----------------------------------------------------------------------------
(* How far a turn is.                                                      *)
AfterOutlet == {"complete", "unrecorded", "done"}
AfterInlet == AfterOutlet \cup {"answering"}
AfterPrepared == AfterInlet \cup {"delivered", "cancelled_before_send"}
AfterCaptured == AfterPrepared \cup {"preview", "preflight"}

Delivered == {"delivered", "used_for_response"}

\* A log tells one legal history that ends with the status.
PathTo(log, status) ==
  LET steps == {i \in Ids(log) : log[i] # "user_rejected"}
  IN  /\ 1 \in steps /\ log[1] = "prepared"
      /\ \A i, j \in steps :
           (i < j /\ ~\E k \in steps : i < k /\ k < j) => log[j] \in Allowed(log[i])
      /\ \E i \in steps : (\A k \in steps : k <= i) /\ log[i] = status
      /\ \A j \in Ids(log) \ steps : \E i \in 1 .. j : log[i] = "delivered"

\* A message belongs to a session, and is queued.
MessagesFit ==
  /\ \A u \in Users : alias[u] \in 0 .. Len(sessions)
  /\ \A m \in Ids(messages) : messages[m].session \in Ids(sessions)
  /\ queued = Ids(messages)

\* An attachment without an owner has no history yet; one with an owner is
\* of a turn contract that allows recall, and its log, its keys and its
\* status agree.
RowFits(row) ==
  /\ row.input \in Ids(messages)
  /\ row.owner = Nobody => row.status = "prepared" /\ row.log = <<>> /\ row.keys = {}
  /\ row.owner # Nobody =>
       /\ PathTo(row.log, row.status)
       /\ messages[row.input].contract
            = [policy |-> "full", user |-> row.owner, review |-> row.review]
       /\ \A k \in Keys : <<"delivered", k>> \in row.keys => Contains(row.log, "delivered")
       /\ Contains(row.log, "delivered") <=> row.status \in Delivered
       /\ row.review /\ row.status \in Delivered => Contains(row.log, "approved")

AttachmentsFit == \A a \in Ids(attachments) : RowFits(attachments[a])

RegensFit == \A r \in Ids(regenerations) : regenerations[r].input \in Ids(messages)

\* The link of an answer is what its turn knew when it reported the answer.
LinkFits(l) ==
  /\ l.input \in Ids(messages) /\ l.message \in Ids(messages)
  /\ l.att \in 0 .. Len(attachments) /\ l.regen \in 0 .. Len(regenerations)
  /\ turn[l.turn].stage \in AfterOutlet
  /\ turn[l.turn].input = l.input
  /\ turn[l.turn].injected = l.att
  /\ turn[l.turn].regen = l.regen
  /\ l.regen # 0 => l.att = 0 /\ regenerations[l.regen].status = "completed"
  /\ l.att # 0 => attachments[l.att].status = "used_for_response"

LinksFit ==
  /\ \A l \in links : LinkFits(l)
  /\ \A k, l \in links :
       (\/ k.turn = l.turn
        \/ (k.att = l.att /\ k.att # 0)
        \/ (k.regen = l.regen /\ k.regen # 0)) => k = l
  /\ \A a \in Ids(attachments) :
       attachments[a].status = "used_for_response" => \E l \in links : l.att = a
  /\ \A r \in Ids(regenerations) :
       regenerations[r].status = "completed" => \E l \in links : l.regen = r

\* Nothing stored comes from turn t.
NoTrace(t) ==
  /\ \A s \in Ids(sessions) : sessions[s].turn # t
  /\ \A m \in Ids(messages) : messages[m].turn # t
  /\ \A l \in links : l.turn # t

\* The attachment a of a turn with this user and input may reach the model.
ClearedFor(a, user, input) ==
  /\ a \in Ids(attachments)
  /\ attachments[a].owner = user
  /\ attachments[a].input = input
  /\ attachments[a].status \in Delivered

\* What a turn knows is true.
TurnFits(t, r) ==
  /\ r.id = t
  /\ r.stage = "idle" \/ r.user \in Users
  /\ r.stage = "idle" \/ r.off => NoTrace(t) /\ r.injected = 0
  /\ r.stage = "idle" => ~r.off
  /\ r.off => /\ SwitchedOff(r.user) /\ r.policy = "private"
              /\ r.stage \in {"policy", "answering", "done"}
  /\ r.injected # 0 => /\ r.stage \in AfterInlet /\ r.fresh
                       /\ ClearedFor(r.injected, r.user, r.input)
  /\ r.stage = "delivered" =>
       /\ r.att \in Ids(attachments)
       /\ attachments[r.att].input = r.input
       /\ attachments[r.att].row = "active" => r.fresh
  /\ r.att \in 0 .. Len(attachments) /\ r.approved \in 0 .. Len(attachments)
  /\ r.regen \in 0 .. Len(regenerations)
  /\ r.input \in 0 .. Len(messages) \cup {Unknown}

TurnsFit == \A t \in Turns : TurnFits(t, turn[t])

\* A request of a turn is one the turn sent, and later stages only follow.
SentBy(c, r) ==
  /\ r.stage # "idle" /\ c.user = r.user
  /\ r.off => c.op = "policy"
  /\ c.op \in {"preview", "preflight"} => r.stage \in AfterCaptured
  /\ c.op = "delivered" => /\ r.stage \in AfterPrepared /\ c.att = r.att
                           /\ c.step = "read" => r.fresh
  /\ c.op = "complete" => r.stage \in AfterOutlet

\* The contract of the input is this user's and allows recall.
Recallable(input, user) ==
  /\ input \in Ids(messages)
  /\ messages[input].contract.policy = "full"
  /\ messages[input].contract.user = user

\* The row a preflight built waits for its owner.
BuiltFits(c, r) ==
  /\ c.att \in Ids(attachments)
  /\ attachments[c.att].owner = Nobody
  /\ attachments[c.att].input = r.input
  /\ Recallable(r.input, c.user)

\* What a handler has read is of the row it is going to change.
CallFits(c) ==
  /\ c.att \in 0 .. Len(attachments)
  /\ c.turn # Nobody => SentBy(c, turn[c.turn])
  /\ c.turn = Nobody => c.op \in Lifecycle /\ c.op # "delivered"
  /\ c.op \in Lifecycle => c.to = c.op
  /\ c.op = "delivered" =>
       /\ c.att \in Ids(attachments)
       /\ attachments[c.att].row = "active" => turn[c.turn].fresh
  /\ c.op = "session" /\ c.step = "read" => c.row \in 0 .. Len(sessions)
  /\ c.op = "capture" /\ c.step = "stored" => c.row \in Ids(messages)
  /\ c.op \in Lifecycle /\ c.step = "read" =>
       /\ Owned(c.att, c.user) /\ c.to \in Allowed(c.from) /\ c.to # "user_rejected"
       /\ c.to = "delivered" /\ attachments[c.att].review => c.from = "approved"
  /\ c.step = "built" => c.op = "preflight" /\ BuiltFits(c, turn[c.turn])

CallsFit ==
  /\ \A c \in calls : CallFits(c)
  /\ \A c, d \in calls :
       c.step = "built" /\ d.step = "built" /\ c.att = d.att => c = d

ChatInv ==
  /\ TablesTyped /\ TurnsTyped
  /\ MessagesFit /\ AttachmentsFit /\ RegensFit /\ LinksFit
  /\ TurnsFit /\ CallsFit

-----------------------------------------------------------------------------
(* Rows and their updates.                                                 *)

\* The rows of a table are numbered from 1.
LEMMA IdsOf == \A S : \A s \in Seq(S) : Ids(s) = 1 .. Len(s) /\ Len(s) \in Nat
BY DEF Ids

\* The rows of a table are of its type.
LEMMA Elements == \A S : \A s \in Seq(S) : \A i \in Ids(s) : s[i] \in S
BY IdsOf

\* Table z is table s with a row more, or with row i replaced.
WithRow(z, s, e) == z = Append(s, e)
WithChange(z, s, i, e) == z = [s EXCEPT ![i] = e]

\* A row added to a table.
LEMMA Added ==
  ASSUME NEW S, NEW s \in Seq(S), NEW e \in S, NEW z, WithRow(z, s, e)
  PROVE  /\ z \in Seq(S)
         /\ Len(z) = Len(s) + 1
         /\ Ids(z) = Ids(s) \cup {Len(s) + 1}
         /\ Len(s) + 1 \notin Ids(s)
         /\ \A i \in Ids(s) : z[i] = s[i]
         /\ z[Len(s) + 1] = e
<1>1. Len(s) \in Nat /\ Ids(s) = 1 .. Len(s)
  BY IdsOf
<1>2. /\ z \in Seq(S) /\ Len(z) = Len(s) + 1
      /\ \A i \in 1 .. Len(s) : z[i] = s[i]
      /\ z[Len(s) + 1] = e
  BY AppendProperties DEF WithRow
<1>3. Ids(z) = 1 .. Len(s) + 1
  BY <1>2, IdsOf
<1> QED
  BY <1>1, <1>2, <1>3

\* A row of a table changed.
LEMMA Changed ==
  ASSUME NEW S, NEW s \in Seq(S), NEW i \in Ids(s), NEW e \in S,
         NEW z, WithChange(z, s, i, e)
  PROVE  /\ z \in Seq(S)
         /\ Len(z) = Len(s)
         /\ Ids(z) = Ids(s)
         /\ \A j \in Ids(s) : z[j] = IF j = i THEN e ELSE s[j]
<1>1. Ids(s) = 1 .. Len(s)
  BY IdsOf
<1>2. /\ z \in Seq(S) /\ Len(z) = Len(s)
      /\ \A j \in 1 .. Len(s) : z[j] = IF j = i THEN e ELSE s[j]
  BY <1>1, ExceptSeq DEF WithChange
<1>3. Ids(z) = 1 .. Len(s)
  BY <1>2, IdsOf
<1> QED
  BY <1>1, <1>2, <1>3

\* A turn that goes on keeps everything but its stage.
LEMMA Staged ==
  ASSUME NEW r \in TurnRows, NEW stage \in Stages, NEW q, q = [r EXCEPT !.stage = stage]
  PROVE  /\ q \in TurnRows /\ q.stage = stage
         /\ q.id = r.id /\ q.kind = r.kind /\ q.user = r.user /\ q.msg = r.msg
         /\ q.wish = r.wish /\ q.ui = r.ui /\ q.approved = r.approved
         /\ q.regen = r.regen /\ q.policy = r.policy /\ q.review = r.review
         /\ q.session = r.session /\ q.input = r.input /\ q.att = r.att
         /\ q.injected = r.injected /\ q.fresh = r.fresh /\ q.off = r.off
         /\ q.try = r.try
BY DEF TurnRows

\* The request a turn sends on entering a stage of the core.
LEMMA SendRow ==
  ASSUME NEW t \in Turns, NEW r \in TurnRows, r.user \in Users, NEW c \in Send(t, r)
  PROVE  /\ c \in CallRows /\ r.stage \in ServerOps /\ c.op = r.stage /\ c.turn = t
         /\ c.user = r.user /\ c.step = "start" /\ c.att = r.att
         /\ c.op \in Lifecycle => c.to = c.op
<1>1. r.stage \in ServerOps
  BY DEF Send
<1> DEFINE k == Call(r.stage, t, r.user)
           to == IF r.stage \in Lifecycle THEN r.stage ELSE "prepared"
           key == IF r.approved # 0 THEN "resend" ELSE "filter"
<1>2. c = [k EXCEPT !.try = r.try, !.att = r.att, !.to = to, !.key = key]
  BY <1>1 DEF Send
<1>3. /\ r.try \in Nat /\ r.att \in Nat
      /\ to \in Lifecycle /\ key \in Keys
  BY DEF TurnRows, Lifecycle, Keys
<1>4. c = [op |-> r.stage, turn |-> t, user |-> r.user, try |-> r.try,
           step |-> "start", att |-> r.att, to |-> to, from |-> "prepared",
           key |-> key, row |-> 0, policy |-> "private", review |-> FALSE]
  BY <1>2 DEF Call
<1> HIDE DEF to, key
<1>5. c \in CallRows
  BY <1>1, <1>3, <1>4 DEF CallRows, Ops, Policies, Lifecycle
<1> QED
  BY <1>1, <1>4, <1>5 DEF to

-----------------------------------------------------------------------------
(* What every step does to the rows and to the turns.                      *)

\* An attachment keeps its input, its owner, and what was said of it.
RowGrows(row, new) ==
  /\ new.input = row.input
  /\ row.owner # Nobody => new.owner = row.owner /\ new.review = row.review
  /\ new.row = "active" => row.row = "active"
  /\ row.status \in Delivered => new.status \in Delivered

\* No row is lost, and a contract that allows recall is final.
Grows ==
  /\ Len(sessions) <= Len(sessions')
  /\ Len(messages) <= Len(messages')
  /\ Len(attachments) <= Len(attachments')
  /\ Len(regenerations) <= Len(regenerations')
  /\ \A m \in Ids(messages) : messages[m].contract.policy = "full" =>
       messages'[m].contract = messages[m].contract
  /\ \A a \in Ids(attachments) : RowGrows(attachments[a], attachments'[a])

\* A turn goes on: what it knows at a stage stays from there on.
Advances(r, q) ==
  /\ r.stage # "idle" => q.stage # "idle" /\ q.user = r.user /\ (q.off => r.off)
  /\ r.stage \in AfterCaptured =>
       q.stage \in AfterCaptured /\ q.input = r.input /\ q.regen = r.regen
  /\ r.stage \in AfterPrepared =>
       q.stage \in AfterPrepared /\ q.att = r.att /\ q.fresh = r.fresh
  /\ r.stage \in AfterOutlet => q.stage \in AfterOutlet /\ q.injected = r.injected

\* The rows are numbered from 1, before a step and after it.
LEMMA TableIds ==
  ASSUME TablesTyped, TablesTyped'
  PROVE  /\ Ids(sessions) = 1 .. Len(sessions) /\ Len(sessions) \in Nat
         /\ Ids(messages) = 1 .. Len(messages) /\ Len(messages) \in Nat
         /\ Ids(attachments) = 1 .. Len(attachments) /\ Len(attachments) \in Nat
         /\ Ids(regenerations) = 1 .. Len(regenerations) /\ Len(regenerations) \in Nat
         /\ Ids(sessions') = 1 .. Len(sessions') /\ Len(sessions') \in Nat
         /\ Ids(messages') = 1 .. Len(messages') /\ Len(messages') \in Nat
         /\ Ids(attachments') = 1 .. Len(attachments') /\ Len(attachments') \in Nat
         /\ Ids(regenerations') = 1 .. Len(regenerations') /\ Len(regenerations') \in Nat
BY IdsOf DEF TablesTyped

\* Rows that are there before a step are there after it.
LEMMA IdsGrow ==
  ASSUME TablesTyped, TablesTyped', Grows
  PROVE  /\ Ids(sessions) \subseteq Ids(sessions')
         /\ Ids(messages) \subseteq Ids(messages')
         /\ Ids(attachments) \subseteq Ids(attachments')
         /\ Ids(regenerations) \subseteq Ids(regenerations')
BY TableIds DEF Grows

\* The rows of the tables are of their types.
LEMMA TableRows ==
  ASSUME TablesTyped
  PROVE  /\ \A s \in Ids(sessions) : sessions[s] \in SessionRows
         /\ \A m \in Ids(messages) : messages[m] \in MessageRows
         /\ \A a \in Ids(attachments) : attachments[a] \in AttachmentRows
         /\ \A r \in Ids(regenerations) : regenerations[r] \in RegenRows
BY IdsOf DEF TablesTyped

\* An attachment that does not change stays true to its contract.
LEMMA RowKept ==
  ASSUME TablesTyped, TablesTyped', Grows, NEW row \in AttachmentRows, RowFits(row)
  PROVE  RowFits(row)'
<1>1. row.input \in Ids(messages')
  BY IdsGrow DEF RowFits
<1>2. row.owner # Nobody =>
        messages'[row.input].contract = messages[row.input].contract
  BY DEF RowFits, Grows
<1> QED
  BY <1>1, <1>2 DEF RowFits

\* What a turn knows stays true while others work.
LEMMA TurnKept ==
  ASSUME TablesTyped, TablesTyped', Grows, NEW t \in Turns, NEW r \in TurnRows,
         TurnFits(t, r), r.off => SwitchedOff(r.user)',
         r.stage = "idle" \/ r.off => NoTrace(t)'
  PROVE  TurnFits(t, r)'
<1> USE IdsGrow, TableIds
<1>1. r.injected # 0 => ClearedFor(r.injected, r.user, r.input)'
  <2> SUFFICES ASSUME r.injected # 0
               PROVE  ClearedFor(r.injected, r.user, r.input)'
    OBVIOUS
  <2>1. /\ r.stage # "idle" /\ r.user # Nobody
        /\ ClearedFor(r.injected, r.user, r.input)
    BY ControlAssumption DEF TurnFits, AfterInlet, AfterOutlet
  <2>2. RowGrows(attachments[r.injected], attachments'[r.injected])
    BY <2>1 DEF Grows, ClearedFor
  <2> QED
    BY <2>1, <2>2 DEF ClearedFor, RowGrows
<1>2. r.stage = "delivered" =>
        /\ r.att \in Ids(attachments')
        /\ attachments'[r.att].input = r.input
        /\ attachments'[r.att].row = "active" => r.fresh
  BY DEF TurnFits, Grows, RowGrows
<1>3. /\ r.att \in 0 .. Len(attachments') /\ r.approved \in 0 .. Len(attachments')
      /\ r.regen \in 0 .. Len(regenerations')
      /\ r.input \in 0 .. Len(messages') \cup {Unknown}
  BY DEF TurnFits, Grows
<1> QED
  BY <1>1, <1>2, <1>3 DEF TurnFits

\* What a request has read stays true while others work.
LEMMA CallKept ==
  ASSUME TablesTyped, TablesTyped', TurnsTyped, Grows, NEW d \in calls, CallFits(d),
         d.turn \in Turns => Advances(turn[d.turn], turn'[d.turn]),
         d.step = "built" => attachments'[d.att].owner = attachments[d.att].owner
  PROVE  CallFits(d)'
<1> USE IdsGrow, TableIds
<1>1. d \in CallRows
  BY DEF TurnsTyped
<1>2. d.turn \in Turns \cup {Nobody} /\ d.user \in Users /\ d.user # Nobody
  BY <1>1, ControlAssumption DEF CallRows
<1>3. d.turn # Nobody => SentBy(d, turn'[d.turn])
  <2> SUFFICES ASSUME d.turn # Nobody PROVE SentBy(d, turn'[d.turn])
    OBVIOUS
  <2>1. SentBy(d, turn[d.turn]) /\ Advances(turn[d.turn], turn'[d.turn])
    BY <1>2 DEF CallFits
  <2> QED
    BY <2>1 DEF SentBy, Advances
<1>4. d.op \in Lifecycle /\ d.step = "read" =>
        /\ Owned(d.att, d.user)' /\ d.to \in Allowed(d.from) /\ d.to # "user_rejected"
        /\ d.to = "delivered" /\ attachments'[d.att].review => d.from = "approved"
  BY <1>2 DEF CallFits, Owned, Grows, RowGrows
<1>5. d.step = "built" => d.op = "preflight" /\ BuiltFits(d, turn[d.turn])'
  <2> SUFFICES ASSUME d.step = "built"
               PROVE  d.op = "preflight" /\ BuiltFits(d, turn[d.turn])'
    OBVIOUS
  <2>1. /\ d.turn # Nobody /\ d.op = "preflight"
        /\ BuiltFits(d, turn[d.turn]) /\ SentBy(d, turn[d.turn])
    BY DEF CallFits, Lifecycle
  <2>2. turn'[d.turn].input = turn[d.turn].input
    BY <1>2, <2>1 DEF SentBy, Advances
  <2>3. Recallable(turn[d.turn].input, d.user)'
    BY <2>1, <2>2 DEF BuiltFits, Recallable, Grows
  <2> QED
    BY <2>1, <2>2, <2>3 DEF BuiltFits, Grows, RowGrows
<1>6. /\ d.att \in 0 .. Len(attachments')
      /\ d.op = "session" /\ d.step = "read" => d.row \in 0 .. Len(sessions')
      /\ d.op = "capture" /\ d.step = "stored" => d.row \in Ids(messages')
  BY DEF CallFits, Grows
<1>7. d.op = "delivered" =>
        /\ d.att \in Ids(attachments')
        /\ attachments'[d.att].row = "active" => turn'[d.turn].fresh
  <2> SUFFICES ASSUME d.op = "delivered"
               PROVE  /\ d.att \in Ids(attachments')
                      /\ attachments'[d.att].row = "active" => turn'[d.turn].fresh
    OBVIOUS
  <2>1. /\ d.att \in Ids(attachments) /\ d.turn # Nobody /\ SentBy(d, turn[d.turn])
        /\ attachments[d.att].row = "active" => turn[d.turn].fresh
    BY DEF CallFits
  <2>2. turn'[d.turn].fresh = turn[d.turn].fresh
    BY <1>2, <2>1 DEF SentBy, Advances
  <2> QED
    BY <2>1, <2>2 DEF Grows, RowGrows
<1> QED
  BY <1>3, <1>4, <1>5, <1>6, <1>7 DEF CallFits

\* Links stay true while the rows they name keep their status.
LEMMA LinksKept ==
  ASSUME TablesTyped, TablesTyped', Grows, LinksFit, links' = links,
         \A t \in Turns : Advances(turn[t], turn'[t]),
         \A a \in Ids(attachments') : attachments'[a].status = "used_for_response" <=>
            (a \in Ids(attachments) /\ attachments[a].status = "used_for_response"),
         \A r \in Ids(regenerations') : regenerations'[r].status = "completed" <=>
            (r \in Ids(regenerations) /\ regenerations[r].status = "completed")
  PROVE  LinksFit'
<1> USE IdsGrow, TableIds
<1>1. ASSUME NEW l \in links PROVE LinkFits(l)'
  <2>1. LinkFits(l) /\ l.turn \in Turns /\ l.att \in Nat /\ l.regen \in Nat
    BY DEF LinksFit, TablesTyped, LinkRows
  <2>2. Advances(turn[l.turn], turn'[l.turn])
    BY <2>1
  <2>3. /\ turn'[l.turn].stage \in AfterOutlet
        /\ turn'[l.turn].input = l.input
        /\ turn'[l.turn].injected = l.att
        /\ turn'[l.turn].regen = l.regen
    BY <2>1, <2>2 DEF LinkFits, Advances, AfterCaptured, AfterPrepared, AfterInlet
  <2>4. /\ l.input \in Ids(messages') /\ l.message \in Ids(messages')
        /\ l.att \in 0 .. Len(attachments') /\ l.regen \in 0 .. Len(regenerations')
    BY <2>1 DEF LinkFits, Grows
  <2>5. l.regen # 0 => l.att = 0 /\ regenerations'[l.regen].status = "completed"
    BY <2>1 DEF LinkFits
  <2>6. l.att # 0 => attachments'[l.att].status = "used_for_response"
    BY <2>1 DEF LinkFits
  <2> QED
    BY <2>3, <2>4, <2>5, <2>6 DEF LinkFits
<1> QED
  BY <1>1 DEF LinksFit

\* A request sent on entering a stage fits the turn that sent it.
LEMMA SendFits ==
  ASSUME TablesTyped', NEW t \in Turns, NEW q \in TurnRows, turn'[t] = q,
         q.stage # "idle", TurnFits(t, q)', NEW d \in Send(t, q)
  PROVE  d \in CallRows /\ d.step = "start" /\ CallFits(d)'
<1>1. q.user \in Users
  BY DEF TurnFits
<1>2. /\ d \in CallRows /\ q.stage \in ServerOps /\ d.op = q.stage /\ d.turn = t
      /\ d.user = q.user /\ d.step = "start" /\ d.att = q.att
      /\ d.op \in Lifecycle => d.to = d.op
  BY <1>1, SendRow
<1>3. SentBy(d, q)
  BY <1>2 DEF SentBy, TurnFits, ServerOps, AfterCaptured, AfterPrepared, AfterInlet, AfterOutlet
<1>4. d.turn # Nobody /\ d.att \in 0 .. Len(attachments')
  BY <1>2, ControlAssumption DEF TurnFits
<1>5. d.op = "delivered" =>
        /\ d.att \in Ids(attachments')
        /\ attachments'[d.att].row = "active" => q.fresh
  BY <1>2 DEF TurnFits
<1> QED
  BY <1>2, <1>3, <1>4, <1>5 DEF CallFits

\* A step fits the calls it leaves when the old ones keep their rows and
\* the new ones fit.
LEMMA CallsStep ==
  ASSUME ChatInv, TablesTyped', Grows,
         \A t \in Turns : Advances(turn[t], turn'[t]),
         turn' \in [Turns -> TurnRows],
         \A d \in calls' :
           \/ d \in calls /\ (d.step = "built" =>
                             attachments'[d.att].owner = attachments[d.att].owner)
           \/ d \in CallRows /\ d.step # "built" /\ CallFits(d)'
  PROVE  TurnsTyped' /\ CallsFit'
<1>1. ASSUME NEW d \in calls' PROVE d \in CallRows /\ CallFits(d)'
  <2>1. CASE d \in calls /\ (d.step = "built" =>
               attachments'[d.att].owner = attachments[d.att].owner)
    BY <2>1, CallKept DEF ChatInv, CallsFit, TurnsTyped
  <2>2. CASE d \in CallRows /\ d.step # "built" /\ CallFits(d)'
    BY <2>2
  <2> QED
    BY <2>1, <2>2
<1>2. ASSUME NEW d \in calls', NEW e \in calls',
             d.step = "built", e.step = "built", d.att = e.att
      PROVE  d = e
  BY <1>2 DEF ChatInv, CallsFit
<1> QED
  BY <1>1, <1>2 DEF TurnsTyped, CallsFit

\* What the rows do in a step that a turn or its request takes.
RowsMove(c) ==
  /\ Grows
  /\ \A t \in Turns : turn[t].stage = "idle" \/ turn[t].off =>
       NoTrace(t)'
  /\ defaults' = defaults
  /\ \A d \in calls \ {c} : d.step = "built" =>
       attachments'[d.att].owner = attachments[d.att].owner

TurnsMove ==
  /\ TurnsTyped' /\ TurnsFit' /\ CallsFit'
  /\ \A t \in Turns : Advances(turn[t], turn'[t])

\* A turn that stays as it is advances.
LEMMA AdvancesSelf == \A r : Advances(r, r)
BY DEF Advances

\* A step in which a turn goes on and sends what its stage asks for.
LEMMA TurnStep ==
  ASSUME ChatInv, TablesTyped', NEW c, RowsMove(c),
         NEW t \in Turns, NEW q \in TurnRows, turn' = [turn EXCEPT ![t] = q],
         calls' \ Send(t, q) \subseteq calls,
         c \in calls' => c.step # "built",
         q.stage # "idle", Advances(turn[t], q), TurnFits(t, q)'
  PROVE  TurnsMove
<1>1. turn \in [Turns -> TurnRows]
  BY DEF ChatInv, TurnsTyped
<1>2. turn' \in [Turns -> TurnRows] /\ turn'[t] = q
  BY <1>1
<1>3. \A x \in Turns : Advances(turn[x], turn'[x])
  BY <1>1, AdvancesSelf
<1>4. ASSUME NEW x \in Turns PROVE TurnFits(x, turn[x])'
  <2>1. CASE x = t
    BY <1>2, <2>1
  <2>2. CASE x # t
    <3>1. turn'[x] = turn[x] /\ turn[x] \in TurnRows /\ TurnFits(x, turn[x])
      BY <1>1, <2>2 DEF ChatInv, TurnsFit
    <3>2. turn[x].off => SwitchedOff(turn[x].user)'
      BY <3>1, <2>2 DEF TurnFits, SwitchedOff, RowsMove
    <3>3. turn[x].stage = "idle" \/ turn[x].off => NoTrace(x)'
      BY DEF RowsMove
    <3> QED
      BY <3>1, <3>2, <3>3, TurnKept DEF ChatInv, RowsMove
  <2> QED
    BY <2>1, <2>2
<1>5. ASSUME NEW d \in calls'
      PROVE  \/ d \in calls /\ (d.step = "built" =>
                               attachments'[d.att].owner = attachments[d.att].owner)
             \/ d \in CallRows /\ d.step # "built" /\ CallFits(d)'
  <2>1. CASE d \in Send(t, q)
    BY <1>2, <2>1, SendFits
  <2>2. CASE d \notin Send(t, q)
    BY <2>2 DEF RowsMove
  <2> QED
    BY <2>1, <2>2
<1>6. TurnsTyped' /\ CallsFit'
  BY <1>2, <1>3, <1>5, CallsStep DEF RowsMove
<1> QED
  BY <1>3, <1>4, <1>6 DEF TurnsMove, TurnsFit

\* A step that leaves the turns alone.
LEMMA QuietStep ==
  ASSUME ChatInv, TablesTyped', NEW c, RowsMove(c), turn' = turn,
         \A d \in calls' :
           \/ d \in calls /\ (d = c => d.step # "built")
           \/ d \in CallRows /\ d.step # "built" /\ CallFits(d)'
  PROVE  TurnsMove
<1>1. turn \in [Turns -> TurnRows]
  BY DEF ChatInv, TurnsTyped
<1>2. \A x \in Turns : Advances(turn[x], turn'[x])
  BY AdvancesSelf
<1>3. ASSUME NEW x \in Turns PROVE TurnFits(x, turn[x])'
  <2>1. turn'[x] = turn[x] /\ turn[x] \in TurnRows /\ TurnFits(x, turn[x])
    BY <1>1 DEF ChatInv, TurnsFit
  <2>2. turn[x].off => SwitchedOff(turn[x].user)'
    BY <2>1 DEF TurnFits, SwitchedOff, RowsMove
  <2>3. turn[x].stage = "idle" \/ turn[x].off => NoTrace(x)'
    BY DEF RowsMove
  <2> QED
    BY <2>1, <2>2, <2>3, TurnKept DEF ChatInv, RowsMove
<1>4. ASSUME NEW d \in calls'
      PROVE  \/ d \in calls /\ (d.step = "built" =>
                               attachments'[d.att].owner = attachments[d.att].owner)
             \/ d \in CallRows /\ d.step # "built" /\ CallFits(d)'
  BY DEF RowsMove
<1>5. TurnsTyped' /\ CallsFit'
  BY <1>1, <1>2, <1>4, CallsStep DEF RowsMove
<1> QED
  BY <1>2, <1>3, <1>5 DEF TurnsMove, TurnsFit

\* A reply: the turn that waits for it goes on, one that does not is left.
LEMMA ReplyStep ==
  ASSUME ChatInv, TablesTyped', NEW c \in calls, RowsMove(c), NEW r, NEW stage, NEW q,
         q = [r EXCEPT !.stage = stage], Reply(c, r, stage),
         Waits(c) => /\ q \in TurnRows /\ q.stage # "idle"
                     /\ Advances(turn[c.turn], q) /\ TurnFits(c.turn, q)'
  PROVE  TurnsMove
<1>1. c \in CallRows
  BY DEF ChatInv, TurnsTyped
<1>2. CASE Waits(c)
  <2>1. c.turn \in Turns
    BY <1>1, <1>2 DEF CallRows, Waits
  <2>2. turn' = [turn EXCEPT ![c.turn] = q] /\ calls' = (calls \ {c}) \cup Send(c.turn, q)
    BY <1>2 DEF Reply
  <2>3. c \in calls' => c.step # "built"
    <3> SUFFICES ASSUME c \in Send(c.turn, q) PROVE c.step # "built"
      BY <2>2
    <3> QED
      BY <2>1, <1>2, SendRow DEF TurnFits
  <2> QED
    BY <1>2, <2>1, <2>2, <2>3, TurnStep
<1>3. CASE ~Waits(c)
  BY <1>3, QuietStep DEF Reply
<1> QED
  BY <1>2, <1>3

\* A request whose turn has sent it: the turn is there and has begun.
LEMMA Sender ==
  ASSUME ChatInv, NEW c \in calls
  PROVE  /\ c \in CallRows /\ CallFits(c) /\ c.user \in Users /\ c.user # Nobody
         /\ Waits(c) => c.turn \in Turns
         /\ c.op \notin Lifecycle \/ c.op = "delivered" => c.turn \in Turns
         /\ c.turn \in Turns =>
              /\ turn[c.turn] \in TurnRows /\ TurnFits(c.turn, turn[c.turn])
              /\ SentBy(c, turn[c.turn]) /\ turn[c.turn].user = c.user
              /\ turn[c.turn].id = c.turn
<1>1. c \in CallRows /\ CallFits(c) /\ c.turn \in Turns \cup {Nobody} /\ c.user \in Users
  BY DEF ChatInv, TurnsTyped, CallsFit, CallRows
<1>2. c.user # Nobody /\ Nobody \notin Turns
  BY <1>1, ControlAssumption
<1>3. c.turn \in Turns =>
         turn[c.turn] \in TurnRows /\ TurnFits(c.turn, turn[c.turn])
  BY DEF ChatInv, TurnsTyped, TurnsFit
<1> QED
  BY <1>1, <1>2, <1>3 DEF Waits, CallFits, SentBy, TurnFits

\* A turn that stops waiting keeps what it knows.
LEMMA SettleFits ==
  ASSUME NEW t \in Turns, NEW r \in TurnRows, TurnFits(t, r)', r.stage # "idle",
         NEW stage \in {"answering", "unrecorded", "done"}, 
         r.stage \in AfterOutlet => stage # "answering",
         stage = "unrecorded" => r.stage = "complete",
         NEW q, q = [r EXCEPT !.stage = stage]
  PROVE  /\ q \in TurnRows /\ q.stage # "idle" /\ Advances(r, q) /\ TurnFits(t, q)'
<1>1. /\ q \in TurnRows /\ q.stage = stage
      /\ q.id = r.id /\ q.user = r.user /\ q.approved = r.approved
      /\ q.regen = r.regen /\ q.policy = r.policy
      /\ q.input = r.input /\ q.att = r.att
      /\ q.injected = r.injected /\ q.fresh = r.fresh /\ q.off = r.off
  BY Staged DEF Stages
<1>2. Advances(r, q)
  BY <1>1 DEF Advances, AfterCaptured, AfterPrepared, AfterInlet, AfterOutlet
<1>3. TurnFits(t, q)'
  BY <1>1 DEF TurnFits, AfterInlet, AfterOutlet
<1> QED
  BY <1>1, <1>2, <1>3

\* A turn whose request is being handled keeps what it knows.
LEMMA OwnTurn ==
  ASSUME ChatInv, TablesTyped', NEW c, RowsMove(c), NEW t \in Turns, NEW r, r = turn[t]
  PROVE  r \in TurnRows /\ TurnFits(t, r) /\ TurnFits(t, r)'
<1>1. r \in TurnRows /\ TurnFits(t, r)
  BY DEF ChatInv, TurnsTyped, TurnsFit
<1>2. r.off => SwitchedOff(r.user)'
  BY <1>1 DEF TurnFits, SwitchedOff, RowsMove
<1> QED
  BY <1>1, <1>2, TurnKept DEF ChatInv, RowsMove

\* A reply that tells the turn nothing new.
LEMMA SettleStep ==
  ASSUME ChatInv, TablesTyped', NEW c \in calls, RowsMove(c),
         NEW stage \in {"answering", "unrecorded", "done"},
         c.op = "complete" => stage # "answering",
         Waits(c) /\ stage = "unrecorded" => c.op = "complete",
         Reply(c, turn[c.turn], stage)
  PROVE  TurnsMove
<1> DEFINE r == turn[c.turn]
<1>1. ASSUME NEW x, x = r, NEW q, q = [x EXCEPT !.stage = stage], Waits(c)
      PROVE  /\ q \in TurnRows /\ q.stage # "idle"
             /\ Advances(x, q) /\ TurnFits(c.turn, q)'
  <2>1. c.turn \in Turns /\ x.stage # "idle" /\ x.stage = c.op /\ c.op \in Ops
    BY <1>1, Sender DEF SentBy, Waits, CallRows
  <2>2. x \in TurnRows /\ TurnFits(c.turn, x)'
    BY <1>1, <2>1, OwnTurn
  <2>3. x.stage \in AfterOutlet => stage # "answering"
    BY <2>1 DEF AfterOutlet, Ops, ServerOps
  <2>4. stage = "unrecorded" => x.stage = "complete"
    BY <1>1, <2>1
  <2> QED
    BY <1>1, <2>1, <2>2, <2>3, <2>4, SettleFits
<1>2. PICK x, q : x = r /\ q = [x EXCEPT !.stage = stage]
  OBVIOUS
<1> QED
  BY <1>1, <1>2, ReplyStep

\* A refused request.
LEMMA RefuseStep ==
  ASSUME ChatInv, TablesTyped', NEW c \in calls, RowsMove(c), Refuse(c)
  PROVE  TurnsMove
<1>1. Failed(turn[c.turn]) \in {"answering", "unrecorded", "done"}
  BY DEF Failed
<1>2. CASE Waits(c)
  <2>1. turn[c.turn].stage = c.op
    BY <1>2 DEF Waits
  <2>2. /\ c.op = "complete" => Failed(turn[c.turn]) # "answering"
        /\ Failed(turn[c.turn]) = "unrecorded" => c.op = "complete"
    BY <2>1 DEF Failed
  <2> QED
    BY <1>1, <2>2, SettleStep DEF Refuse
<1>3. CASE ~Waits(c)
  BY <1>3, QuietStep DEF Refuse, Reply
<1> QED
  BY <1>2, <1>3

\* The rows when none of them changes.
LEMMA StillRows ==
  ASSUME ChatInv, UNCHANGED <<profile, serverVars>>, NEW c
  PROVE  TablesTyped' /\ RowsMove(c)
<1>1. TablesTyped'
  BY DEF ChatInv, TablesTyped, serverVars, captureVars
<1>2. Grows
  BY <1>1, TableIds DEF ChatInv, Grows, RowGrows, serverVars, captureVars
<1>3. ASSUME NEW t \in Turns, turn[t].stage = "idle" \/ turn[t].off
      PROVE  NoTrace(t)'
  BY <1>3 DEF ChatInv, TurnsFit, TurnFits, NoTrace, serverVars, captureVars
<1> QED
  BY <1>1, <1>2, <1>3 DEF RowsMove, serverVars

\* Attachments that do not change still fit.
LEMMA AttachmentsKept ==
  ASSUME TablesTyped, TablesTyped', Grows, AttachmentsFit,
         UNCHANGED attachments
  PROVE  AttachmentsFit'
<1>1. ASSUME NEW a \in Ids(attachments), NEW x, x = attachments[a]
      PROVE  RowFits(x)'
  BY <1>1, RowKept, TableRows DEF AttachmentsFit
<1> QED
  BY <1>1 DEF AttachmentsFit

\* Steps of the turns and their requests alone.
LEMMA StillStep ==
  ASSUME ChatInv, UNCHANGED <<profile, serverVars>>, TurnsMove
  PROVE  ChatInv'
<1>1. TablesTyped' /\ Grows
  BY StillRows DEF RowsMove
<1>2. MessagesFit' /\ RegensFit'
  BY DEF ChatInv, MessagesFit, RegensFit, serverVars, captureVars
<1>3. AttachmentsFit'
  BY <1>1, AttachmentsKept DEF ChatInv, serverVars
<1>4. LinksFit'
  <2>1. UNCHANGED <<links, attachments, regenerations>>
    BY DEF serverVars
  <2> QED
    BY <1>1, <2>1, LinksKept DEF ChatInv, TurnsMove
<1> QED
  BY <1>1, <1>2, <1>3, <1>4 DEF ChatInv, TurnsMove

-----------------------------------------------------------------------------
(* The turns: how they begin, report their answer, and stop waiting.       *)

\* The record a turn begins with.
LEMMA Fresh ==
  ASSUME NEW t \in Turns
  PROVE  NoTurn(t) \in TurnRows
BY DEF NoTurn, TurnRows, Stages, Kinds, Policies

\* A turn begins with the attachment, regeneration or input it names.
LEMMA BeginStep ==
  ASSUME ChatInv, NEW t \in Turns, NEW r \in TurnRows, Begin(t, r),
         r.id = t, r.user \in Users, r.injected = 0, r.policy = "private",
         r.att = 0, r.approved \in 0 .. Len(attachments),
         r.regen \in 0 .. Len(regenerations), r.input \in 0 .. Len(messages)
  PROVE  ChatInv'
<1>1. PICK off : off = SwitchedOff(r.user)
  OBVIOUS
<1>2. off \in BOOLEAN
  BY <1>1 DEF SwitchedOff
<1>3. PICK q : q = [r EXCEPT !.stage = "policy", !.off = off]
  OBVIOUS
<1>4. /\ q \in TurnRows /\ q.stage = "policy" /\ q.off = off
      /\ q.id = r.id /\ q.user = r.user /\ q.approved = r.approved
      /\ q.regen = r.regen /\ q.policy = r.policy
      /\ q.input = r.input /\ q.att = r.att
      /\ q.injected = r.injected
  BY <1>2, <1>3 DEF TurnRows, Stages, ServerOps
<1>5. /\ turn[t].stage = "idle" /\ turn' = [turn EXCEPT ![t] = q]
      /\ calls' = calls \cup Send(t, q)
      /\ UNCHANGED <<profile, serverVars, spent>>
  BY <1>1, <1>3 DEF Begin
<1>6. PICK c : c \notin calls'
  BY NoSetContainsEverything
<1>7. TablesTyped' /\ RowsMove(c)
  BY <1>5, StillRows
<1>8. Advances(turn[t], q)
  BY <1>5 DEF Advances, AfterCaptured, AfterPrepared, AfterInlet, AfterOutlet
<1>9. TurnFits(t, q)'
  <2>1. NoTrace(t)'
    BY <1>5, <1>7 DEF RowsMove
  <2>2. q.off => SwitchedOff(q.user)'
    BY <1>1, <1>4, <1>7 DEF SwitchedOff, RowsMove
  <2>3. /\ attachments' = attachments /\ messages' = messages
        /\ regenerations' = regenerations
    BY <1>5 DEF serverVars, captureVars
  <2>4. q.att \in 0 .. Len(attachments')
    BY <1>4, <2>3, IdsOf DEF ChatInv, TablesTyped
  <2> QED
    BY <1>4, <2>1, <2>2, <2>3, <2>4 DEF TurnFits
<1> QED
  BY <1>4, <1>5, <1>6, <1>7, <1>8, <1>9, TurnStep, StillStep

\* Every way to begin a turn.
LEMMA BeginSteps ==
  ASSUME ChatInv, NEW t \in Turns,
         \/ SendMessage(t) \/ PrepareReview(t) \/ SendReviewed(t)
         \/ SendWithout(t) \/ SendRegeneration(t)
  PROVE  ChatInv'
<1>1. /\ Ids(attachments) = 1 .. Len(attachments) /\ Len(attachments) \in Nat
      /\ Ids(messages) = 1 .. Len(messages) /\ Len(messages) \in Nat
      /\ Ids(regenerations) = 1 .. Len(regenerations) /\ Len(regenerations) \in Nat
  BY IdsOf DEF ChatInv, TablesTyped
<1>2. NoTurn(t) \in TurnRows
  BY Fresh
<1>3. CASE SendMessage(t)
  <2>1. PICK u \in Users, m \in Msgs, wish \in {Nobody, "full"}, ui \in BOOLEAN :
          Begin(t, [NoTurn(t) EXCEPT !.user = u, !.msg = m, !.wish = wish, !.ui = ui])
    BY <1>3 DEF SendMessage
  <2>2. PICK r : r = [NoTurn(t) EXCEPT !.user = u, !.msg = m, !.wish = wish, !.ui = ui]
    OBVIOUS
  <2>3. Begin(t, r)
    BY <2>1, <2>2
  <2>4. r \in TurnRows
    BY <1>2, <2>2 DEF TurnRows
  <2>5. /\ r.id = t /\ r.user = u /\ r.injected = 0 /\ r.policy = "private"
        /\ r.att = 0 /\ r.approved = 0 /\ r.regen = 0 /\ r.input = 0
    BY <2>2 DEF NoTurn
  <2> QED
    BY <1>1, <2>3, <2>4, <2>5, BeginStep
<1>4. CASE PrepareReview(t)
  <2>1. PICK u \in Users, m \in Msgs :
          Begin(t, [NoTurn(t) EXCEPT !.user = u, !.msg = m, !.kind = "prepare"])
    BY <1>4 DEF PrepareReview
  <2>2. PICK r : r = [NoTurn(t) EXCEPT !.user = u, !.msg = m, !.kind = "prepare"]
    OBVIOUS
  <2>3. Begin(t, r)
    BY <2>1, <2>2
  <2>4. r \in TurnRows
    BY <1>2, <2>2 DEF TurnRows, Kinds
  <2>5. /\ r.id = t /\ r.user = u /\ r.injected = 0 /\ r.policy = "private"
        /\ r.att = 0 /\ r.approved = 0 /\ r.regen = 0 /\ r.input = 0
    BY <2>2 DEF NoTurn
  <2> QED
    BY <1>1, <2>3, <2>4, <2>5, BeginStep
<1>5. CASE SendReviewed(t)
  <2>1. PICK u \in Users, m \in Msgs, a \in Ids(attachments) :
          Begin(t, [NoTurn(t) EXCEPT !.user = u, !.msg = m, !.kind = "resend",
                                     !.approved = a])
    BY <1>5 DEF SendReviewed
  <2>2. PICK r : r = [NoTurn(t) EXCEPT !.user = u, !.msg = m, !.kind = "resend",
                                       !.approved = a]
    OBVIOUS
  <2>3. Begin(t, r) /\ a \in Nat
    BY <1>1, <2>1, <2>2
  <2>4. r \in TurnRows
    BY <1>2, <2>2, <2>3 DEF TurnRows, Kinds
  <2>5. /\ r.id = t /\ r.user = u /\ r.injected = 0 /\ r.policy = "private"
        /\ r.att = 0 /\ r.approved = a /\ r.regen = 0 /\ r.input = 0
    BY <2>2 DEF NoTurn
  <2> QED
    BY <1>1, <2>3, <2>4, <2>5, BeginStep
<1>6. CASE SendWithout(t)
  <2>1. PICK u \in Users, m \in Msgs :
          Begin(t, [NoTurn(t) EXCEPT !.user = u, !.msg = m, !.kind = "without",
                                     !.wish = "full"])
    BY <1>6 DEF SendWithout
  <2>2. PICK r : r = [NoTurn(t) EXCEPT !.user = u, !.msg = m, !.kind = "without",
                                       !.wish = "full"]
    OBVIOUS
  <2>3. Begin(t, r)
    BY <2>1, <2>2
  <2>4. r \in TurnRows
    BY <1>2, <2>2 DEF TurnRows, Kinds
  <2>5. /\ r.id = t /\ r.user = u /\ r.injected = 0 /\ r.policy = "private"
        /\ r.att = 0 /\ r.approved = 0 /\ r.regen = 0 /\ r.input = 0
    BY <2>2 DEF NoTurn
  <2> QED
    BY <1>1, <2>3, <2>4, <2>5, BeginStep
<1>7. CASE SendRegeneration(t)
  <2>1. PICK u \in Users, g \in Ids(regenerations) :
          Begin(t, [NoTurn(t) EXCEPT !.user = u, !.kind = "regenerate",
                                     !.wish = "no_recall", !.regen = g,
                                     !.input = regenerations[g].input])
    BY <1>7 DEF SendRegeneration
  <2>2. PICK r : r = [NoTurn(t) EXCEPT !.user = u, !.kind = "regenerate",
                                       !.wish = "no_recall", !.regen = g,
                                       !.input = regenerations[g].input]
    OBVIOUS
  <2>3. regenerations[g].input \in 1 .. Len(messages)
    BY <1>1 DEF ChatInv, RegensFit
  <2>4. Begin(t, r) /\ g \in Nat /\ regenerations[g].input \in Nat
    BY <1>1, <2>1, <2>2, <2>3
  <2>5. r \in TurnRows
    BY <1>2, <2>2, <2>4 DEF TurnRows, Kinds
  <2>6. /\ r.id = t /\ r.user = u /\ r.injected = 0 /\ r.policy = "private"
        /\ r.att = 0 /\ r.approved = 0 /\ r.regen = g
        /\ r.input = regenerations[g].input
    BY <2>2 DEF NoTurn
  <2> QED
    BY <1>1, <2>3, <2>4, <2>5, <2>6, BeginStep
<1> QED
  BY <1>3, <1>4, <1>5, <1>6, <1>7

\* The outlet reports an answer, or has none to report.
LEMMA OutletStep ==
  ASSUME ChatInv, NEW t \in Turns, Outlet(t)
  PROVE  ChatInv'
<1>1. PICK r : r = turn[t]
  OBVIOUS
<1>2. PICK c : c \notin calls'
  BY NoSetContainsEverything
<1>3. UNCHANGED <<profile, serverVars>> /\ TablesTyped' /\ RowsMove(c)
  BY StillRows DEF Outlet
<1>4. r \in TurnRows /\ TurnFits(t, r)'
  BY <1>1, <1>3, OwnTurn
<1>5. r.stage = "answering" \/ r.stage = "unrecorded"
  BY <1>1 DEF Outlet
<1>6. CASE r.policy = "private" \/ r.input = 0
  <2>1. PICK q : q = [r EXCEPT !.stage = "done"]
    OBVIOUS
  <2>2. q \in TurnRows /\ q.stage # "idle" /\ Advances(r, q) /\ TurnFits(t, q)'
    BY <1>4, <1>5, <2>1, SettleFits
  <2>3. turn' = [turn EXCEPT ![t] = q] /\ calls' = calls
    BY <1>1, <1>6, <2>1 DEF Outlet
  <2> QED
    BY <1>1, <1>2, <1>3, <2>2, <2>3, TurnStep, StillStep
<1>7. CASE ~(r.policy = "private" \/ r.input = 0)
  <2>1. PICK q : q = [r EXCEPT !.stage = "complete", !.try = @ + 1]
    OBVIOUS
  <2>2. /\ q \in TurnRows /\ q.stage = "complete"
        /\ q.id = r.id /\ q.user = r.user /\ q.approved = r.approved
        /\ q.regen = r.regen /\ q.policy = r.policy
        /\ q.input = r.input /\ q.att = r.att
        /\ q.injected = r.injected /\ q.fresh = r.fresh /\ q.off = r.off
    <3>1. r.try + 1 \in Nat
      BY <1>4 DEF TurnRows
    <3>2. q = [r EXCEPT !.stage = "complete", !.try = r.try + 1]
      BY <2>1
    <3> QED
      BY <1>4, <3>1, <3>2 DEF TurnRows, Stages, ServerOps
  <2>3. Advances(r, q)
    BY <1>5, <2>2 DEF Advances, AfterCaptured, AfterPrepared, AfterInlet, AfterOutlet
  <2>4. TurnFits(t, q)'
    BY <1>4, <1>5, <1>7, <2>2 DEF TurnFits, AfterInlet, AfterOutlet
  <2>5. turn' = [turn EXCEPT ![t] = q] /\ calls' = calls \cup Send(t, q)
    BY <1>1, <1>7, <2>1 DEF Outlet
  <2> QED
    BY <1>1, <1>2, <1>3, <2>2, <2>3, <2>4, <2>5, TurnStep, StillStep
<1> QED
  BY <1>6, <1>7

\* A turn whose call timed out goes on without the answer.
LEMMA GivesUp ==
  ASSUME NEW t \in Turns, NEW r \in TurnRows, TurnFits(t, r)', r.stage \in ServerOps,
         NEW q, q = [r EXCEPT !.stage = Failed(r)]
  PROVE  /\ q \in TurnRows /\ q.stage # "idle" /\ Advances(r, q) /\ TurnFits(t, q)'
<1>1. /\ r.stage # "idle"
      /\ r.stage \in AfterOutlet => r.stage = "complete"
  BY DEF ServerOps, AfterOutlet
<1>2. /\ Failed(r) \in {"answering", "unrecorded", "done"}
      /\ r.stage = "complete" => Failed(r) # "answering"
      /\ Failed(r) = "unrecorded" => r.stage = "complete"
  BY DEF Failed
<1>3. PICK stage : stage = Failed(r)
  OBVIOUS
<1> QED
  BY <1>1, <1>2, <1>3, SettleFits

\* The turn of a call that timed out.
LEMMA GiveUpStep ==
  ASSUME ChatInv, NEW t \in Turns, GiveUp(t)
  PROVE  ChatInv'
<1>1. PICK r, q : r = turn[t] /\ q = [r EXCEPT !.stage = Failed(r)]
  OBVIOUS
<1>2. PICK c : c \notin calls'
  BY NoSetContainsEverything
<1>3. UNCHANGED <<profile, serverVars>> /\ TablesTyped' /\ RowsMove(c)
  BY StillRows DEF GiveUp
<1>4. q \in TurnRows /\ q.stage # "idle" /\ Advances(r, q) /\ TurnFits(t, q)'
  BY <1>1, <1>3, OwnTurn, GivesUp DEF GiveUp
<1>5. turn' = [turn EXCEPT ![t] = q] /\ calls' = calls
  BY <1>1 DEF GiveUp
<1> QED
  BY <1>1, <1>2, <1>3, <1>4, <1>5, TurnStep, StillStep

\* A crash ends every request; the turns that waited go on without it.
LEMMA CrashStep ==
  ASSUME ChatInv, CrashCore
  PROVE  ChatInv'
<1>1. PICK c : c \notin calls'
  BY NoSetContainsEverything
<1>2. UNCHANGED <<profile, serverVars>> /\ TablesTyped' /\ RowsMove(c)
  BY StillRows DEF CrashCore
<1>3. ASSUME NEW t \in Turns
      PROVE  turn'[t] \in TurnRows /\ Advances(turn[t], turn'[t]) /\ TurnFits(t, turn[t])'
  <2>1. PICK r : r = turn[t]
    OBVIOUS
  <2>2. r \in TurnRows /\ TurnFits(t, r)'
    BY <1>2, <2>1, OwnTurn
  <2>3. CASE r.stage \in ServerOps
    <3>1. PICK q : q = [r EXCEPT !.stage = Failed(r)]
      OBVIOUS
    <3>2. turn'[t] = q
      BY <2>1, <2>3, <3>1 DEF CrashCore
    <3> QED
      BY <2>1, <2>2, <2>3, <3>1, <3>2, GivesUp
  <2>4. CASE r.stage \notin ServerOps
    <3>1. turn'[t] = r
      BY <2>1, <2>4 DEF CrashCore
    <3> QED
      BY <2>1, <2>2, <3>1, AdvancesSelf
  <2> QED
    BY <2>3, <2>4
<1>4. turn' \in [Turns -> TurnRows] /\ calls' = {}
  BY <1>3 DEF CrashCore
<1>5. TurnsMove
  BY <1>3, <1>4 DEF TurnsMove, TurnsTyped, TurnsFit, CallsFit
<1> QED
  BY <1>2, <1>5, StillStep

-----------------------------------------------------------------------------
(* The policy of a turn.                                                   *)

\* The default of a user is a policy row.
LEMMA DefaultRow ==
  ASSUME TablesTyped, NEW u \in Users
  PROVE  /\ DefaultFor(u) \in Rows
         /\ SwitchedOff(u) => DefaultFor(u).policy = "private"
<1>1. /\ defaults.chat \in Default /\ defaults.user[u] \in Default
      /\ defaults.actor[u] \in Default
  BY DEF TablesTyped
<1>2. SystemRow \in Rows
  BY DEF SystemRow, Rows, Policies
<1> QED
  BY <1>1, <1>2 DEF DefaultFor, Overriding, Default, SwitchedOff

\* What a policy resolves to; a switch that is off is never overridden.
LEMMA Resolved ==
  ASSUME TablesTyped, NEW u \in Users, NEW wish \in Policies \cup {Nobody},
         NEW review \in BOOLEAN \cup {Nobody}
  PROVE  /\ Resolve(u, wish, review).policy \in Policies
         /\ Resolve(u, wish, review).review \in BOOLEAN
         /\ SwitchedOff(u) => Resolve(u, wish, review).policy = "private"
<1>1. PICK row \in Rows : row = DefaultFor(u) /\ (SwitchedOff(u) => row.policy = "private")
  BY DefaultRow
<1>2. row.policy \in Policies /\ row.review \in BOOLEAN
  BY DEF Rows
<1> QED
  BY <1>1, <1>2 DEF Resolve

\* The inlet's first call.
LEMMA PolicyStep ==
  ASSUME ChatInv, NEW c \in calls, ResolvePolicy(c)
  PROVE  ChatInv'
<1>1. UNCHANGED <<profile, serverVars>> /\ TablesTyped' /\ RowsMove(c)
  BY StillRows DEF ResolvePolicy
<1>2. c.op = "policy" /\ c.turn \in Turns /\ c.user \in Users
  BY Sender DEF ResolvePolicy, Lifecycle
<1>3. PICK r : r = turn[c.turn]
  OBVIOUS
<1>4. /\ r \in TurnRows /\ TurnFits(c.turn, r) /\ TurnFits(c.turn, r)'
      /\ SentBy(c, r) /\ r.user = c.user
  BY <1>1, <1>2, <1>3, OwnTurn, Sender
<1>5. PICK p : p = Resolve(c.user, r.wish, IF r.kind \in {"prepare", "without"} THEN TRUE
                                           ELSE Nobody)
  OBVIOUS
<1>6. /\ p.policy \in Policies /\ p.review \in BOOLEAN
      /\ SwitchedOff(c.user) => p.policy = "private"
  <2>1. r.wish \in Policies \cup {Nobody}
    BY <1>4 DEF TurnRows, Policies
  <2>2. PICK review \in BOOLEAN \cup {Nobody} :
          p = Resolve(c.user, r.wish, review)
    BY <1>5
  <2> QED
    BY <1>2, <2>1, <2>2, Resolved DEF ChatInv
<1> DEFINE approved == IF Recalls(p.policy) THEN r.approved ELSE 0
           regen == IF p.policy = "private" THEN 0 ELSE r.regen
           input == IF p.policy = "private" THEN 0 ELSE r.input
<1>7. PICK known : known = [r EXCEPT !.wish = Nobody, !.policy = p.policy,
                                     !.review = p.review, !.approved = approved,
                                     !.regen = regen, !.input = input]
  OBVIOUS
<1>8. approved \in Nat /\ regen \in Nat /\ input \in Nat \cup {Unknown}
  BY <1>4 DEF TurnRows
<1>9. /\ known \in TurnRows
      /\ known.id = r.id /\ known.user = r.user /\ known.kind = r.kind
      /\ known.policy = p.policy /\ known.approved = approved
      /\ known.regen = regen /\ known.input = input /\ known.att = r.att
      /\ known.injected = r.injected /\ known.fresh = r.fresh /\ known.off = r.off
  <2> HIDE DEF approved, regen, input
  <2> QED
    BY <1>4, <1>6, <1>7, <1>8 DEF TurnRows
<1>10. AfterPolicy(known) \in {"done", "answering", "session"}
       /\ (known.policy = "private" => AfterPolicy(known) # "session")
  BY DEF AfterPolicy
<1>11. PICK stage, q : stage = AfterPolicy(known) /\ q = [known EXCEPT !.stage = stage]
  OBVIOUS
<1>12. /\ q \in TurnRows /\ q.stage = stage
       /\ q.id = r.id /\ q.user = r.user /\ q.policy = p.policy /\ q.approved = approved
       /\ q.regen = regen /\ q.input = input /\ q.att = r.att
       /\ q.injected = r.injected /\ q.fresh = r.fresh /\ q.off = r.off
  <2>1. stage \in Stages
    BY <1>10, <1>11 DEF Stages, ServerOps
  <2> HIDE DEF approved, regen, input
  <2> QED
    BY <1>9, <1>11, <2>1, Staged
<1>13. Reply(c, known, stage)
  BY <1>3, <1>5, <1>7, <1>11 DEF ResolvePolicy
<1>14. Waits(c) => r.stage = "policy"
  BY <1>2, <1>3 DEF Waits
<1>15. Waits(c) => Advances(r, q)
  BY <1>10, <1>11, <1>12, <1>14
     DEF Advances, AfterCaptured, AfterPrepared, AfterInlet, AfterOutlet
<1>16. Waits(c) => TurnFits(c.turn, q)'
  <2>1. Waits(c) => r.injected = 0
    BY <1>4, <1>14 DEF TurnFits, AfterInlet, AfterOutlet
  <2>2. r.off => p.policy = "private"
    BY <1>4, <1>6 DEF TurnFits
  <2>3. /\ Len(attachments') \in Nat /\ Len(messages') \in Nat /\ Len(regenerations') \in Nat
    BY <1>1, TableIds DEF ChatInv
  <2>4. /\ approved \in 0 .. Len(attachments') /\ regen \in 0 .. Len(regenerations')
        /\ input \in 0 .. Len(messages') \cup {Unknown}
    BY <1>4, <2>3 DEF TurnFits
  <2>5. q.off => SwitchedOff(q.user)'
    BY <1>4, <1>12 DEF TurnFits
  <2> HIDE DEF approved, regen, input
  <2> QED
    BY <1>4, <1>9, <1>10, <1>11, <1>12, <1>14, <2>1, <2>2, <2>4, <2>5 DEF TurnFits
<1>17. TurnsMove
  BY <1>1, <1>3, <1>10, <1>11, <1>12, <1>13, <1>15, <1>16, ReplyStep
<1> QED
  BY <1>1, <1>17, StillStep

\* The preview of the attachment the interface named.
LEMMA PreviewStep ==
  ASSUME ChatInv, NEW c \in calls, Preview(c)
  PROVE  ChatInv'
<1>1. UNCHANGED <<profile, serverVars>> /\ TablesTyped' /\ RowsMove(c)
  BY StillRows DEF Preview
<1>2. c.op = "preview" /\ c.turn \in Turns
  BY Sender DEF Preview, Lifecycle
<1>3. PICK r : r = turn[c.turn]
  OBVIOUS
<1>4. /\ r \in TurnRows /\ TurnFits(c.turn, r)' /\ SentBy(c, r)
  BY <1>1, <1>2, <1>3, OwnTurn, Sender
<1> DEFINE a == r.approved
           good == /\ Owned(a, c.user)
                   /\ attachments[a].input = r.input
                   /\ attachments[a].status = "approved"
                   /\ attachments[a].row # "erased"
<1>5. CASE ~good
  <2>1. Refuse(c)
    BY <1>3, <1>5 DEF Preview
  <2> QED
    BY <1>1, <2>1, RefuseStep, StillStep
<1>6. CASE good
  <2>1. PICK fresh \in BOOLEAN : fresh = (attachments[a].row = "active")
    OBVIOUS
  <2>2. PICK known : known = [r EXCEPT !.att = a, !.fresh = fresh]
    OBVIOUS
  <2>3. PICK q : q = [known EXCEPT !.stage = "delivered"]
    OBVIOUS
  <2>4. a \in Nat
    BY <1>4 DEF TurnRows
  <2>5. known \in TurnRows
    BY <1>4, <2>1, <2>2, <2>4 DEF TurnRows
  <2>6. /\ known.id = r.id /\ known.user = r.user /\ known.approved = a
        /\ known.regen = r.regen /\ known.policy = r.policy /\ known.input = r.input
        /\ known.att = a /\ known.injected = r.injected /\ known.fresh = fresh
        /\ known.off = r.off
    BY <1>4, <2>2 DEF TurnRows
  <2>7. /\ q \in TurnRows /\ q.stage = "delivered"
        /\ q.id = r.id /\ q.user = r.user /\ q.approved = a
        /\ q.regen = r.regen /\ q.policy = r.policy /\ q.input = r.input
        /\ q.att = a /\ q.injected = r.injected /\ q.fresh = fresh
        /\ q.off = r.off
    BY <2>3, <2>5, <2>6, Staged DEF Stages, ServerOps
  <2>8. Reply(c, known, "delivered")
    BY <1>3, <1>6, <2>1, <2>2 DEF Preview
  <2>9. Waits(c) => r.stage = "preview"
    BY <1>2, <1>3 DEF Waits
  <2>10. Waits(c) => Advances(r, q)
    BY <2>7, <2>9 DEF Advances, AfterCaptured, AfterPrepared, AfterInlet, AfterOutlet
  <2>11. /\ a \in Ids(attachments') /\ attachments'[a].input = r.input
         /\ attachments'[a].row = "active" => fresh
    BY <1>1, <1>6, <2>1 DEF Owned, serverVars
  <2>12. Waits(c) => TurnFits(c.turn, q)'
    BY <1>2, <1>4, <2>7, <2>9, <2>11 DEF TurnFits, SentBy, AfterInlet, AfterOutlet
  <2>13. TurnsMove
    BY <1>1, <1>3, <2>3, <2>7, <2>8, <2>10, <2>12, ReplyStep
  <2> QED
    BY <1>1, <2>13, StillStep
<1> QED
  BY <1>5, <1>6

\* A preflight that attaches nothing.
LEMMA NothingStep ==
  ASSUME ChatInv, NEW c \in calls, PreflightNothing(c)
  PROVE  ChatInv'
<1>1. UNCHANGED <<profile, serverVars>> /\ TablesTyped' /\ RowsMove(c)
  BY StillRows DEF PreflightNothing
<1>2. PICK stage \in {"answering", "done"} : Refuse(c) \/ Reply(c, turn[c.turn], stage)
  BY DEF PreflightNothing, Unattached
<1>3. c.op # "complete"
  BY DEF PreflightNothing
<1>4. TurnsMove
  BY <1>1, <1>2, <1>3, RefuseStep, SettleStep
<1> QED
  BY <1>1, <1>4, StillStep

-----------------------------------------------------------------------------
(* Session resolution and capture.                                         *)

\* A sequence whose elements are all of a set.
LEMMA Retyped ==
  ASSUME NEW A, NEW B, NEW s \in Seq(A), \A i \in Ids(s) : s[i] \in B
  PROVE  s \in Seq(B)
<1>1. Ids(s) = 1 .. Len(s) /\ Len(s) \in Nat
  BY IdsOf
<1>2. s \in [1 .. Len(s) -> B]
  BY <1>1
<1> QED
  BY <1>1, <1>2, SeqDef

\* A request that goes on with what it has read so far.
LEMMA ResumeFits ==
  ASSUME ChatInv, TablesTyped', NEW c \in calls, RowsMove(c), turn' = turn,
         c.op \in {"session", "capture"}, NEW d \in CallRows,
         d.op = c.op, d.turn = c.turn, d.user = c.user, d.att = c.att,
         d.step # "built",
         d.op = "session" /\ d.step = "read" => d.row \in 0 .. Len(sessions'),
         d.op = "capture" /\ d.step = "stored" => d.row \in Ids(messages')
  PROVE  CallFits(d)'
<1>1. c.turn \in Turns /\ SentBy(c, turn[c.turn]) /\ CallFits(c)
  BY Sender DEF Lifecycle
<1>2. SentBy(d, turn'[d.turn])
  BY <1>1 DEF SentBy
<1>3. d.att \in 0 .. Len(attachments')
  BY <1>1, TableIds DEF CallFits, RowsMove, Grows, ChatInv
<1>4. d.turn # Nobody
  BY <1>1, ControlAssumption
<1> QED
  BY <1>2, <1>3, <1>4 DEF CallFits, Lifecycle

\* The reply to a session request.
LEMMA SessionReply ==
  ASSUME ChatInv, TablesTyped', NEW c \in calls, RowsMove(c), c.op = "session",
         NEW s \in Nat \cup {Unknown},
         Reply(c, [turn[c.turn] EXCEPT !.session = s], "capture")
  PROVE  TurnsMove
<1>1. c.turn \in Turns
  BY Sender DEF Lifecycle
<1>2. PICK r : r = turn[c.turn]
  OBVIOUS
<1>3. r \in TurnRows /\ TurnFits(c.turn, r)' /\ SentBy(c, r)
  BY <1>1, <1>2, OwnTurn, Sender
<1>4. PICK known : known = [r EXCEPT !.session = s]
  OBVIOUS
<1>5. PICK q : q = [known EXCEPT !.stage = "capture"]
  OBVIOUS
<1>6. known \in TurnRows
  BY <1>3, <1>4 DEF TurnRows
<1>7. /\ known.id = r.id /\ known.user = r.user /\ known.approved = r.approved
      /\ known.regen = r.regen /\ known.policy = r.policy /\ known.input = r.input
      /\ known.att = r.att /\ known.injected = r.injected /\ known.fresh = r.fresh
      /\ known.off = r.off
  BY <1>3, <1>4 DEF TurnRows
<1>8. /\ q \in TurnRows /\ q.stage = "capture"
      /\ q.id = r.id /\ q.user = r.user /\ q.approved = r.approved
      /\ q.regen = r.regen /\ q.policy = r.policy /\ q.input = r.input
      /\ q.att = r.att /\ q.injected = r.injected /\ q.fresh = r.fresh
      /\ q.off = r.off
  <2>1. "capture" \in Stages
    BY DEF Stages, ServerOps
  <2> QED
    BY <1>5, <1>6, <1>7, <2>1, Staged
<1>9. Waits(c) => r.stage = "session"
  BY <1>2 DEF Waits
<1>10. Waits(c) => Advances(r, q)
  BY <1>8, <1>9 DEF Advances, AfterCaptured, AfterPrepared, AfterInlet, AfterOutlet
<1>11. Waits(c) => TurnFits(c.turn, q)'
  BY <1>3, <1>8, <1>9 DEF TurnFits, SentBy, AfterInlet, AfterOutlet
<1> QED
  BY <1>2, <1>4, <1>5, <1>8, <1>10, <1>11, ReplyStep

\* Nothing but the sessions and the aliases changes in a resolution.
LEMMA SessionRowsStep ==
  ASSUME ChatInv, NEW c \in calls, c.op = "session", NEW known \in 0 .. Len(sessions),
         sessions' = BindActor(WithChosen(c, known), Chosen(known), c.user),
         \/ alias' = AttachAlias(c.user, Chosen(known))
         \/ alias' = AttachAliasFull(c.user, Chosen(known)),
         UNCHANGED <<profile, controlVars, links, messages, queued>>
  PROVE  TablesTyped' /\ RowsMove(c) /\ MessagesFit' /\ Chosen(known) \in Nat
<1>1. /\ c.turn \in Turns /\ c.user \in Users /\ Nobody \notin Users
      /\ turn[c.turn].stage # "idle" /\ ~turn[c.turn].off
  BY Sender, ControlAssumption DEF Lifecycle, SentBy
<1>2. sessions \in Seq(SessionRows) /\ Ids(sessions) = 1 .. Len(sessions) /\ Len(sessions) \in Nat
  BY IdsOf DEF ChatInv, TablesTyped
<1> DEFINE s == Chosen(known)
           bare == WithChosen(c, known)
           Bare == [owner : Users \cup {Nobody}, turn : Turns]
<1>3. sessions \in Seq(Bare)
  <2>1. SessionRows \subseteq Bare
    BY DEF SessionRows
  <2>2. \A i \in Ids(sessions) : sessions[i] \in SessionRows
    BY <1>2, Elements
  <2> HIDE DEF Bare
  <2> QED
    BY <1>2, <2>1, <2>2, Retyped
<1>4. /\ bare \in Seq(Bare) /\ s \in Ids(bare) /\ Len(bare) >= Len(sessions)
      /\ \A i \in Ids(bare) :
           \/ i \in Ids(sessions) /\ bare[i] = sessions[i]
           \/ i = s /\ bare[i] = CreatedSession(c)
  <2>1. CASE known # 0
    BY <1>2, <1>3, <2>1 DEF WithChosen, Chosen
  <2>2. CASE known = 0
    <3>1. CreatedSession(c) \in Bare
      BY <1>1 DEF CreatedSession
    <3>2. WithRow(bare, sessions, CreatedSession(c)) /\ s = Len(sessions) + 1
      BY <2>2 DEF WithChosen, NewSession, Chosen, WithRow
    <3> HIDE DEF bare, s, Bare
    <3>3. /\ bare \in Seq(Bare) /\ Len(bare) = Len(sessions) + 1
          /\ Ids(bare) = Ids(sessions) \cup {Len(sessions) + 1}
          /\ \A i \in Ids(sessions) : bare[i] = sessions[i]
          /\ bare[Len(sessions) + 1] = CreatedSession(c)
      BY <1>3, <3>1, <3>2, Added
    <3> QED
      BY <1>2, <3>2, <3>3
  <2> QED
    BY <2>1, <2>2
<1>5. PICK row : row = [bare[s] EXCEPT !.owner = ActorOf(bare[s].owner, c.user)]
  OBVIOUS
<1>6. bare[s] \in Bare
  <2> HIDE DEF bare, s, Bare
  <2> QED
    BY <1>4, Elements
<1>7. /\ row \in SessionRows /\ row.turn = bare[s].turn
  BY <1>1, <1>5, <1>6 DEF ActorOf, SessionRows
<1>8. WithChange(sessions', bare, s, row)
  BY <1>5 DEF BindActor, WithChange
<1>9. /\ sessions' \in Seq(Bare) /\ Len(sessions') = Len(bare) /\ Ids(sessions') = Ids(bare)
      /\ \A i \in Ids(bare) : sessions'[i] = IF i = s THEN row ELSE bare[i]
  <2>1. row \in Bare
    BY <1>7 DEF SessionRows
  <2> HIDE DEF bare, s, Bare
  <2> QED
    BY <1>4, <1>8, <2>1, Changed
<1>10. \A i \in Ids(sessions') : sessions'[i] \in SessionRows
  BY <1>2, <1>4, <1>7, <1>9
<1>11. sessions' \in Seq(SessionRows)
  <2> HIDE DEF Bare
  <2> QED
    BY <1>9, <1>10, Retyped
<1>12. s \in 1 .. Len(sessions') /\ s \in Nat /\ Len(sessions) <= Len(sessions')
  BY <1>2, <1>4, <1>9, <1>11, IdsOf
<1>13. /\ alias' \in [Users -> Nat]
       /\ \A u \in Users : alias'[u] \in 0 .. Len(sessions')
  <2>1. alias \in [Users -> Nat] /\ \A u \in Users : alias[u] \in 0 .. Len(sessions)
    BY DEF ChatInv, TablesTyped, MessagesFit
  <2>2. \A u \in Users : alias'[u] = alias[u] \/ alias'[u] = s
    BY <2>1 DEF AttachAlias, AttachAliasFull
  <2>3. alias' \in [Users -> Nat]
    BY <1>12, <2>1 DEF AttachAlias, AttachAliasFull
  <2>4. Len(sessions') \in Nat
    BY <1>11, IdsOf
  <2> HIDE DEF s
  <2> QED
    BY <1>2, <1>12, <2>1, <2>2, <2>3, <2>4
<1>14. TablesTyped'
  BY <1>11, <1>13 DEF ChatInv, TablesTyped, controlVars
<1>15. \A i \in Ids(sessions') :
         \/ i \in Ids(sessions) /\ sessions'[i].turn = sessions[i].turn
         \/ sessions'[i].turn = c.turn
  BY <1>4, <1>7, <1>9 DEF CreatedSession
<1>16. RowsMove(c)
  <2>1. Grows
    BY <1>12, <1>14, TableIds DEF ChatInv, Grows, RowGrows, controlVars
  <2>2. ASSUME NEW t \in Turns, turn[t].stage = "idle" \/ turn[t].off
        PROVE  NoTrace(t)'
    <3>1. NoTrace(t) /\ t # c.turn
      BY <1>1, <2>2 DEF ChatInv, TurnsFit, TurnFits
    <3> QED
      BY <1>15, <3>1 DEF NoTrace
  <2> QED
    BY <2>1, <2>2 DEF RowsMove, controlVars
<1>17. MessagesFit'
  <2>1. Ids(sessions) \subseteq Ids(sessions')
    BY <1>14, <1>16, IdsGrow DEF ChatInv, RowsMove
  <2> QED
    BY <1>13, <2>1 DEF ChatInv, MessagesFit
<1> QED
  BY <1>12, <1>14, <1>16, <1>17

\* A step of a resolution or a capture that keeps the messages fit.
LEMMA CaptureRest ==
  ASSUME ChatInv, TablesTyped', NEW c, RowsMove(c), TurnsMove, MessagesFit',
         UNCHANGED <<controlVars, links>>
  PROVE  ChatInv'
<1>1. Grows /\ UNCHANGED <<attachments, regenerations, links>>
  BY DEF RowsMove, controlVars
<1>2. AttachmentsFit'
  BY <1>1, AttachmentsKept DEF ChatInv
<1>3. RegensFit'
  BY <1>1, IdsGrow DEF ChatInv, RegensFit
<1>4. LinksFit'
  BY <1>1, LinksKept DEF ChatInv, TurnsMove
<1> QED
  BY <1>2, <1>3, <1>4 DEF ChatInv, TurnsMove

\* A request that has read something more, and changes no row.
LEMMA ResumeStep ==
  ASSUME ChatInv, NEW c \in calls, c.op \in {"session", "capture"},
         UNCHANGED <<profile, serverVars, turn>>, NEW d \in CallRows,
         calls' = (calls \ {c}) \cup {d},
         d.op = c.op, d.turn = c.turn, d.user = c.user, d.att = c.att,
         d.step \in {"resolved", "read"},
         d.op = "session" /\ d.step = "read" => d.row \in 0 .. Len(sessions)
  PROVE  ChatInv'
<1>1. TablesTyped' /\ RowsMove(c) /\ sessions' = sessions
  BY StillRows DEF serverVars, captureVars
<1>2. CallFits(d)'
  BY <1>1, ResumeFits
<1>3. TurnsMove
  BY <1>1, <1>2, QuietStep
<1> QED
  BY <1>3, StillStep

\* The steps of a session resolution.
LEMMA SessionSteps ==
  ASSUME ChatInv, NEW c \in calls, UNCHANGED <<profile, controlVars, links, spent>>,
         \/ ResolveSession(c) \/ ResolveSessionLite(c)
         \/ ReadAliasFull(c) \/ ResolveSessionFull(c)
  PROVE  ChatInv'
<1>1. /\ c \in CallRows /\ CallFits(c) /\ c.user \in Users
      /\ alias[c.user] \in 0 .. Len(sessions) /\ alias[c.user] \in Nat
  BY Sender DEF ChatInv, MessagesFit, TablesTyped
<1>2. CASE ResolveSession(c)
  <2>1. UNCHANGED serverVars /\ c.op = "session"
    BY <1>2 DEF ResolveSession, serverVars, controlVars
  <2>2. TablesTyped' /\ RowsMove(c)
    BY <2>1, StillRows
  <2>3. CASE Reply(c, [turn[c.turn] EXCEPT !.session = Unknown], "capture")
    BY <2>1, <2>2, <2>3, SessionReply, StillStep
  <2>4. CASE Working(c, "resolved") /\ UNCHANGED turn
    <3>1. PICK d : d = [c EXCEPT !.step = "resolved"]
      OBVIOUS
    <3>2. /\ d \in CallRows /\ d.op = c.op /\ d.turn = c.turn /\ d.user = c.user
          /\ d.att = c.att /\ d.step = "resolved"
      BY <1>1, <3>1 DEF CallRows
    <3> QED
      BY <2>1, <2>4, <3>1, <3>2, ResumeStep DEF Working
  <2> QED
    BY <1>2, <2>3, <2>4 DEF ResolveSession
<1>3. CASE ReadAliasFull(c)
  <2>1. UNCHANGED serverVars /\ c.op = "session" /\ UNCHANGED turn
    BY <1>3 DEF ReadAliasFull, serverVars, controlVars
  <2>2. PICK d : d = [c EXCEPT !.step = "read", !.row = alias[c.user]]
    OBVIOUS
  <2>3. /\ d \in CallRows /\ d.op = c.op /\ d.turn = c.turn /\ d.user = c.user
        /\ d.att = c.att /\ d.step = "read" /\ d.row = alias[c.user]
    BY <1>1, <2>2 DEF CallRows
  <2>4. calls' = (calls \ {c}) \cup {d}
    BY <1>3, <2>2 DEF ReadAliasFull
  <2> QED
    BY <1>1, <2>1, <2>3, <2>4, ResumeStep
<1>4. CASE ResolveSessionLite(c) \/ ResolveSessionFull(c)
  <2>1. PICK known \in 0 .. Len(sessions) :
          /\ c.op = "session"
          /\ sessions' = BindActor(WithChosen(c, known), Chosen(known), c.user)
          /\ \/ alias' = AttachAlias(c.user, Chosen(known))
             \/ alias' = AttachAliasFull(c.user, Chosen(known))
          /\ Reply(c, [turn[c.turn] EXCEPT !.session = Chosen(known)], "capture")
          /\ UNCHANGED <<messages, queued>>
    BY <1>1, <1>4
       DEF ResolveSessionLite, ResolveSessionFull, CallFits, SessionForAlias
  <2>2. TablesTyped' /\ RowsMove(c) /\ MessagesFit' /\ Chosen(known) \in Nat
    BY <2>1, SessionRowsStep
  <2>3. TurnsMove
    BY <2>1, <2>2, SessionReply
  <2> QED
    BY <2>2, <2>3, CaptureRest
<1> QED
  BY <1>2, <1>3, <1>4

-----------------------------------------------------------------------------
(* Message capture.                                                        *)

\* A turn that has captured its message m, or skipped it.
HasCaptured(after, t, m) ==
  after = [turn[t] EXCEPT !.input = m, !.att = turn[t].approved]

\* The reply to a capture.
LEMMA CaptureReply ==
  ASSUME ChatInv, TablesTyped', NEW c \in calls, RowsMove(c), c.op = "capture",
         NEW m \in Ids(messages') \cup {Unknown}, NEW after,
         HasCaptured(after, c.turn, m),
         Reply(c, after, AfterCapture(after))
  PROVE  TurnsMove
<1>1. c.turn \in Turns
  BY Sender DEF Lifecycle
<1>2. PICK r : r = turn[c.turn]
  OBVIOUS
<1>3. r \in TurnRows /\ TurnFits(c.turn, r)' /\ SentBy(c, r)
  BY <1>1, <1>2, OwnTurn, Sender
<1>4. r.approved \in Nat /\ m \in Nat \cup {Unknown} /\ m \in 0 .. Len(messages') \cup {Unknown}
  BY <1>3, TableIds DEF TurnRows, ChatInv
<1>5. after = [r EXCEPT !.input = m, !.att = r.approved]
  BY <1>2 DEF HasCaptured
<1>6. after \in TurnRows
  BY <1>3, <1>4, <1>5 DEF TurnRows
<1>7. /\ after.id = r.id /\ after.user = r.user /\ after.approved = r.approved
      /\ after.regen = r.regen /\ after.policy = r.policy /\ after.input = m
      /\ after.att = r.approved /\ after.injected = r.injected /\ after.fresh = r.fresh
      /\ after.off = r.off
  BY <1>3, <1>5 DEF TurnRows
<1>8. PICK stage, q : stage = AfterCapture(after) /\ q = [after EXCEPT !.stage = stage]
  OBVIOUS
<1>9. stage \in {"preview", "preflight", "answering"}
  BY <1>8 DEF AfterCapture
<1>10. stage \in Stages
  BY <1>9 DEF Stages, ServerOps
<1>11. /\ q \in TurnRows /\ q.stage = stage
       /\ q.id = r.id /\ q.user = r.user /\ q.approved = r.approved
       /\ q.regen = r.regen /\ q.policy = r.policy /\ q.input = m
       /\ q.att = r.approved /\ q.injected = r.injected /\ q.fresh = r.fresh
       /\ q.off = r.off
  BY <1>6, <1>7, <1>8, <1>10, Staged
<1>12. Waits(c) => r.stage = "capture"
  BY <1>2 DEF Waits
<1>13. Waits(c) => Advances(r, q)
  BY <1>9, <1>11, <1>12 DEF Advances, AfterCaptured, AfterPrepared, AfterInlet, AfterOutlet
<1>14. Waits(c) => TurnFits(c.turn, q)'
  BY <1>3, <1>4, <1>9, <1>11, <1>12 DEF TurnFits, SentBy, AfterInlet, AfterOutlet
<1> QED
  BY <1>2, <1>8, <1>9, <1>11, <1>13, <1>14, ReplyStep

\* A message stored, or found by its key.
LEMMA StoredFits ==
  ASSUME ChatInv, NEW c \in calls, c.op = "capture", NEW r, r = turn[c.turn],
         SessionIsMine(r), NEW ms, ms = Stored(r), NEW m,
         (\E i \in Ids(ms) : ms[i].key = CaptureKey(r)) =>
           m \in Ids(ms) /\ ms[m].key = CaptureKey(r)
  PROVE  /\ ms \in Seq(MessageRows) /\ Len(messages) <= Len(ms)
         /\ m \in Ids(ms) /\ Ids(ms) = Ids(messages) \cup {m}
         /\ \A i \in Ids(messages) : ms[i] = messages[i]
         /\ \A i \in Ids(ms) : i \notin Ids(messages) =>
              ms[i].turn = c.turn /\ ms[i].session \in Ids(sessions)
<1>1. c.turn \in Turns
  BY Sender DEF Lifecycle
<1>2. /\ r \in TurnRows /\ r.id = c.turn /\ r.user \in Users
  BY <1>1, Sender
<1>3. /\ messages \in Seq(MessageRows) /\ Ids(messages) = 1 .. Len(messages)
      /\ Len(messages) \in Nat
      /\ Ids(sessions) = 1 .. Len(sessions) /\ Len(sessions) \in Nat
  BY IdsOf DEF ChatInv, TablesTyped
<1>4. CASE Captured(CaptureKey(r)) # {}
  <2>1. ms = messages
    BY <1>4 DEF Stored
  <2>2. \E i \in Ids(ms) : ms[i].key = CaptureKey(r)
    BY <1>4, <2>1 DEF Captured
  <2>3. m \in Ids(ms)
    BY <2>2
  <2> QED
    BY <1>3, <2>1, <2>3
<1>5. CASE Captured(CaptureKey(r)) = {}
  <2>1. PICK row : row = NewMessage(r)
    OBVIOUS
  <2>2. WithRow(ms, messages, row)
    BY <1>5, <2>1 DEF Stored, WithRow
  <2>3. r.session \in Ids(sessions) /\ r.session \in Nat
    BY <1>3 DEF SessionIsMine
  <2>4. PICK key \in KeyRows : key = CaptureKey(r)
    BY <1>2, <2>3 DEF CaptureKey, KeyRows, TurnRows
  <2>5. /\ row \in MessageRows /\ row.turn = c.turn /\ row.session = r.session
        /\ row.key = key
    BY <1>1, <1>2, <2>1, <2>3, <2>4
       DEF NewMessage, MessageRows, NoContract, ContractRows, Policies
  <2>6. /\ ms \in Seq(MessageRows) /\ Len(ms) = Len(messages) + 1
        /\ Ids(ms) = Ids(messages) \cup {Len(messages) + 1}
        /\ \A i \in Ids(messages) : ms[i] = messages[i]
        /\ ms[Len(messages) + 1] = row
    BY <1>3, <2>2, <2>5, Added
  <2>7. \A i \in Ids(messages) : messages[i].key # key
    BY <1>5, <2>4 DEF Captured
  <2>8. m = Len(messages) + 1
    BY <2>4, <2>5, <2>6, <2>7
  <2> QED
    BY <1>3, <2>3, <2>5, <2>6, <2>8
<1> QED
  BY <1>4, <1>5

\* A contract is written once.
LEMMA ContractFits ==
  ASSUME NEW ms \in Seq(MessageRows), NEW m \in Ids(ms), NEW contract \in ContractRows,
         NEW z, z = WithContract(ms, m, contract)
  PROVE  /\ z \in Seq(MessageRows) /\ Len(z) = Len(ms) /\ Ids(z) = Ids(ms)
         /\ \A i \in Ids(ms) :
              /\ z[i].session = ms[i].session /\ z[i].turn = ms[i].turn
              /\ ms[i].contract.policy = "full" => z[i].contract = ms[i].contract
<1>1. CASE ms[m].contract = NoContract
  <2>1. PICK row : row = [ms[m] EXCEPT !.contract = contract]
    OBVIOUS
  <2>2. ms[m] \in MessageRows
    BY Elements
  <2>3. row \in MessageRows /\ row.session = ms[m].session /\ row.turn = ms[m].turn
    BY <2>1, <2>2 DEF MessageRows
  <2>4. WithChange(z, ms, m, row)
    BY <1>1, <2>1 DEF WithContract, WithChange
  <2>5. /\ z \in Seq(MessageRows) /\ Len(z) = Len(ms) /\ Ids(z) = Ids(ms)
        /\ \A i \in Ids(ms) : z[i] = IF i = m THEN row ELSE ms[i]
    BY <2>3, <2>4, Changed
  <2>6. ms[m].contract.policy # "full"
    BY <1>1 DEF NoContract
  <2> QED
    BY <2>3, <2>5, <2>6
<1>2. CASE ms[m].contract # NoContract
  BY <1>2 DEF WithContract
<1> QED
  BY <1>1, <1>2

\* Nothing but the messages and their jobs changes in a capture.
LEMMA CaptureRowsStep ==
  ASSUME ChatInv, NEW c \in calls, c.op = "capture",
         messages' \in Seq(MessageRows), Len(messages) <= Len(messages'),
         NEW m \in Ids(messages'), Ids(messages') = Ids(messages) \cup {m},
         queued' = Enqueued(m),
         \A i \in Ids(messages) :
           /\ messages'[i].session = messages[i].session
           /\ messages'[i].turn = messages[i].turn
           /\ messages[i].contract.policy = "full" =>
                messages'[i].contract = messages[i].contract,
         \A i \in Ids(messages') : i \notin Ids(messages) =>
           messages'[i].turn = c.turn /\ messages'[i].session \in Ids(sessions),
         UNCHANGED <<profile, controlVars, links, sessions, alias>>
  PROVE  TablesTyped' /\ RowsMove(c) /\ MessagesFit'
<1>1. /\ c.turn \in Turns /\ turn[c.turn].stage # "idle" /\ ~turn[c.turn].off
  BY Sender DEF Lifecycle, SentBy
<1>2. TablesTyped'
  BY DEF ChatInv, TablesTyped, controlVars
<1>3. Grows
  BY <1>2, TableIds DEF ChatInv, Grows, RowGrows, controlVars
<1>4. ASSUME NEW t \in Turns, turn[t].stage = "idle" \/ turn[t].off
      PROVE  NoTrace(t)'
  <2>1. NoTrace(t) /\ t # c.turn
    BY <1>1, <1>4 DEF ChatInv, TurnsFit, TurnFits
  <2> QED
    BY <2>1 DEF NoTrace
<1>5. MessagesFit'
  BY DEF ChatInv, MessagesFit, Enqueued
<1> QED
  BY <1>2, <1>3, <1>4, <1>5 DEF RowsMove, controlVars

\* The steps of a capture.
LEMMA CaptureSteps ==
  ASSUME ChatInv, NEW c \in calls, UNCHANGED <<profile, controlVars, links, spent>>,
         \/ CapturePolicy(c) \/ CaptureFull(c) \/ CaptureLite(c) \/ RecordContract(c)
  PROVE  ChatInv'
<1>1. c.op = "capture" /\ c.turn \in Turns /\ c.user \in Users /\ c \in CallRows /\ CallFits(c)
  BY Sender DEF CapturePolicy, CaptureFull, CaptureLite, RecordContract, Lifecycle
<1>2. PICK r : r = turn[c.turn]
  OBVIOUS
<1>3. r \in TurnRows
  BY <1>1, <1>2, Sender
<1>4. Contract(c) \in ContractRows
  BY <1>1 DEF Contract, ContractRows, CallRows
<1>5. CASE UNCHANGED captureVars /\ Refuse(c)
  <2>1. UNCHANGED serverVars
    BY <1>5 DEF serverVars, controlVars
  <2> QED
    BY <1>5, <2>1, StillRows, RefuseStep, StillStep
<1>6. CASE CapturePolicy(c)
  <2>1. UNCHANGED serverVars
    BY <1>6 DEF CapturePolicy, serverVars, controlVars
  <2>2. TablesTyped' /\ RowsMove(c)
    BY <2>1, StillRows
  <2>3. PICK p : p = Resolve(c.user, r.policy, r.review)
    OBVIOUS
  <2>4. p.policy \in Policies /\ p.review \in BOOLEAN
    BY <1>1, <1>3, <2>3, Resolved DEF ChatInv, TurnRows
  <2>5. CASE p.policy = "private"
    <3>1. PICK skipped : HasCaptured(skipped, c.turn, Unknown)
      BY DEF HasCaptured
    <3>2. Reply(c, skipped, AfterCapture(skipped))
      BY <1>2, <1>6, <2>3, <2>5, <3>1 DEF CapturePolicy, HasCaptured
    <3> QED
      BY <1>1, <2>1, <2>2, <3>1, <3>2, CaptureReply, StillStep
  <2>6. CASE p.policy # "private"
    <3>1. PICK d : d = [c EXCEPT !.step = "resolved", !.policy = p.policy,
                                 !.review = p.review]
      OBVIOUS
    <3>2. /\ d \in CallRows /\ d.op = c.op /\ d.turn = c.turn /\ d.user = c.user
          /\ d.att = c.att /\ d.step = "resolved"
      BY <1>1, <2>4, <3>1 DEF CallRows
    <3>3. calls' = (calls \ {c}) \cup {d} /\ UNCHANGED turn
      BY <1>2, <1>6, <2>3, <2>6, <3>1 DEF CapturePolicy
    <3> QED
      BY <1>1, <2>1, <3>2, <3>3, ResumeStep
  <2> QED
    BY <2>5, <2>6
<1>7. CASE RecordContract(c)
  <2>1. /\ c.row \in Ids(messages) /\ messages \in Seq(MessageRows)
        /\ queued = Ids(messages) /\ UNCHANGED <<sessions, alias, queued>>
        /\ messages' = WithContract(messages, c.row, Contract(c))
    BY <1>1, <1>7 DEF RecordContract, CallFits, ChatInv, TablesTyped, MessagesFit
  <2>2. /\ messages' \in Seq(MessageRows) /\ Len(messages') = Len(messages)
        /\ Ids(messages') = Ids(messages)
        /\ \A i \in Ids(messages) :
             /\ messages'[i].session = messages[i].session
             /\ messages'[i].turn = messages[i].turn
             /\ messages[i].contract.policy = "full" =>
                  messages'[i].contract = messages[i].contract
    BY <1>4, <2>1, ContractFits
  <2>3. Len(messages) <= Len(messages') /\ queued' = Enqueued(c.row)
        /\ Ids(messages') = Ids(messages) \cup {c.row}
    BY <2>1, <2>2, IdsOf DEF Enqueued
  <2>4. TablesTyped' /\ RowsMove(c) /\ MessagesFit'
    BY <1>1, <2>1, <2>2, <2>3, CaptureRowsStep
  <2>5. PICK after : HasCaptured(after, c.turn, c.row)
    BY DEF HasCaptured
  <2>6. Reply(c, after, AfterCapture(after))
    BY <1>7, <2>5 DEF RecordContract, HasCaptured
  <2>7. TurnsMove
    BY <1>1, <2>1, <2>2, <2>4, <2>5, <2>6, CaptureReply
  <2> QED
    BY <2>4, <2>7, CaptureRest
<1>8. CASE ~(UNCHANGED captureVars /\ Refuse(c)) /\ (CaptureFull(c) \/ CaptureLite(c))
  <2> DEFINE key == CaptureKey(r)
  <2>1. SessionIsMine(r)
    BY <1>2, <1>8 DEF CaptureFull, CaptureLite
  <2>2. PICK ms : ms = Stored(r)
    OBVIOUS
  <2>3. PICK m : m = CHOOSE i \in Ids(ms) : ms[i].key = key
    OBVIOUS
  <2>4. (\E i \in Ids(ms) : ms[i].key = key) => m \in Ids(ms) /\ ms[m].key = key
    BY <2>3
  <2>5. /\ ms \in Seq(MessageRows) /\ Len(messages) <= Len(ms)
        /\ m \in Ids(ms) /\ Ids(ms) = Ids(messages) \cup {m}
        /\ \A i \in Ids(messages) : ms[i] = messages[i]
        /\ \A i \in Ids(ms) : i \notin Ids(messages) =>
             ms[i].turn = c.turn /\ ms[i].session \in Ids(sessions)
    BY <1>1, <1>2, <2>1, <2>2, <2>4, StoredFits
  <2>6. CASE CaptureFull(c)
    <3>1. /\ messages' = WithContract(ms, m, Contract(c)) /\ queued' = Enqueued(m)
          /\ UNCHANGED <<sessions, alias>>
      BY <1>2, <1>8, <2>2, <2>3, <2>6 DEF CaptureFull
    <3>2. /\ messages' \in Seq(MessageRows) /\ Len(messages') = Len(ms)
          /\ Ids(messages') = Ids(ms)
          /\ \A i \in Ids(ms) :
               /\ messages'[i].session = ms[i].session
               /\ messages'[i].turn = ms[i].turn
               /\ ms[i].contract.policy = "full" => messages'[i].contract = ms[i].contract
      BY <1>4, <2>5, <3>1, ContractFits
    <3>3. TablesTyped' /\ RowsMove(c) /\ MessagesFit'
      BY <1>1, <2>5, <3>1, <3>2, CaptureRowsStep
    <3>4. PICK after : HasCaptured(after, c.turn, m)
      BY DEF HasCaptured
    <3>5. Reply(c, after, AfterCapture(after))
      BY <1>2, <1>8, <2>2, <2>3, <2>6, <3>4 DEF CaptureFull, HasCaptured
    <3>6. TurnsMove
      BY <1>1, <2>5, <3>2, <3>3, <3>4, <3>5, CaptureReply
    <3> QED
      BY <3>3, <3>6, CaptureRest
  <2>7. CASE CaptureLite(c)
    <3>1. PICK d : d = [c EXCEPT !.step = "stored", !.row = m]
      OBVIOUS
    <3>2. /\ messages' = ms /\ queued' = Enqueued(m)
          /\ calls' = (calls \ {c}) \cup {d}
          /\ UNCHANGED <<sessions, alias, turn>>
      BY <1>2, <1>8, <2>2, <2>3, <2>7, <3>1 DEF CaptureLite
    <3>3. TablesTyped' /\ RowsMove(c) /\ MessagesFit'
      BY <1>1, <2>5, <3>2, CaptureRowsStep
    <3>4. m \in Nat
      <4>1. ms \in Seq(MessageRows) /\ m \in Ids(ms)
        BY <2>5
      <4>2. Ids(ms) = 1 .. Len(ms)
        BY <4>1, IdsOf
      <4> QED
        BY <4>1, <4>2
    <3>5. /\ d \in CallRows /\ d.op = c.op /\ d.turn = c.turn /\ d.user = c.user
          /\ d.att = c.att /\ d.step = "stored" /\ d.row = m
      BY <1>1, <3>1, <3>4 DEF CallRows
    <3>6. CallFits(d)'
      BY <1>1, <2>5, <3>2, <3>3, <3>5, ResumeFits
    <3>7. TurnsMove
      BY <3>2, <3>3, <3>5, <3>6, QuietStep
    <3> QED
      BY <3>3, <3>7, CaptureRest
  <2> QED
    BY <1>8, <2>6, <2>7
<1> QED
  BY <1>5, <1>6, <1>7, <1>8

-----------------------------------------------------------------------------
(* The lifecycle log.                                                      *)

\* A log begins with the attachment.
LEMMA PathStart ==
  /\ PathTo(<<"prepared">>, "prepared")
  /\ \A s : Contains(<<"prepared">>, s) <=> s = "prepared"
BY DEF PathTo, Ids, Contains

\* A status is the last step of its log.
LEMMA PathHas ==
  ASSUME NEW log \in Seq(Lifecycle), NEW status, PathTo(log, status)
  PROVE  Contains(log, status)
BY IdsOf DEF PathTo, Contains

\* What an event adds to a log.
LEMMA LogGrows ==
  ASSUME NEW log \in Seq(Lifecycle), NEW to \in Lifecycle, NEW z, WithRow(z, log, to)
  PROVE  /\ z \in Seq(Lifecycle)
         /\ \A s : Contains(z, s) <=> Contains(log, s) \/ s = to
<1>1. /\ z \in Seq(Lifecycle) /\ Len(z) = Len(log) + 1
      /\ \A i \in Ids(log) : z[i] = log[i]
      /\ z[Len(log) + 1] = to
  BY Added
<1>2. Ids(log) = 1 .. Len(log) /\ Len(log) \in Nat
  BY IdsOf
<1> QED
  BY <1>1, <1>2 DEF Contains

\* A step that is allowed prolongs the path.
LEMMA PathMoves ==
  ASSUME NEW log \in Seq(Lifecycle), NEW from, PathTo(log, from),
         NEW to \in Lifecycle, to \in Allowed(from), to # "user_rejected",
         NEW z, WithRow(z, log, to)
  PROVE  PathTo(z, to)
<1>1. /\ z \in Seq(Lifecycle) /\ Len(z) = Len(log) + 1
      /\ Ids(z) = Ids(log) \cup {Len(log) + 1}
      /\ \A i \in Ids(log) : z[i] = log[i]
      /\ z[Len(log) + 1] = to
  BY Added
<1>2. Ids(log) = 1 .. Len(log) /\ Len(log) \in Nat
  BY IdsOf
<1> DEFINE old == {i \in Ids(log) : log[i] # "user_rejected"}
           new == {i \in Ids(z) : z[i] # "user_rejected"}
<1>3. new = old \cup {Len(log) + 1} /\ \A i \in old : i \in 1 .. Len(log)
  BY <1>1, <1>2
<1>4. 1 \in new /\ z[1] = "prepared"
  BY <1>1, <1>2, <1>3 DEF PathTo
<1>5. PICK last \in old : (\A k \in old : k <= last) /\ log[last] = from
  BY DEF PathTo
<1>6. ASSUME NEW i \in new, NEW j \in new, i < j, ~\E k \in new : i < k /\ k < j
      PROVE  z[j] \in Allowed(z[i])
  <2>1. CASE j \in old
    <3>1. i \in old
      BY <1>2, <1>3, <1>6, <2>1
    <3>2. log[j] \in Allowed(log[i])
      BY <1>3, <1>6, <2>1, <3>1 DEF PathTo
    <3> QED
      BY <1>1, <2>1, <3>1, <3>2
  <2>2. CASE j = Len(log) + 1
    <3>1. i = last
      BY <1>2, <1>3, <1>5, <1>6, <2>2
    <3> QED
      BY <1>1, <1>5, <2>2, <3>1
  <2> QED
    BY <1>3, <2>1, <2>2
<1>7. \E i \in new : (\A k \in new : k <= i) /\ z[i] = to
  BY <1>1, <1>2, <1>3
<1>8. ASSUME NEW j \in Ids(z) \ new PROVE \E i \in 1 .. j : z[i] = "delivered"
  <2>1. j \in Ids(log) \ old
    BY <1>1, <1>3
  <2>2. PICK i \in 1 .. j : log[i] = "delivered"
    BY <2>1 DEF PathTo
  <2> QED
    BY <1>1, <1>2, <2>1, <2>2
<1> QED
  BY <1>4, <1>6, <1>7, <1>8 DEF PathTo

\* The user's rejection of what was delivered is no step of the path.
LEMMA PathRejects ==
  ASSUME NEW log \in Seq(Lifecycle), NEW status, PathTo(log, status),
         Contains(log, "delivered"), NEW z, WithRow(z, log, "user_rejected")
  PROVE  PathTo(z, status)
<1>1. /\ z \in Seq(Lifecycle) /\ Len(z) = Len(log) + 1
      /\ Ids(z) = Ids(log) \cup {Len(log) + 1}
      /\ \A i \in Ids(log) : z[i] = log[i]
      /\ z[Len(log) + 1] = "user_rejected"
  <2>1. "user_rejected" \in Lifecycle
    BY DEF Lifecycle
  <2> QED
    BY <2>1, Added
<1>2. Ids(log) = 1 .. Len(log) /\ Len(log) \in Nat
  BY IdsOf
<1> DEFINE old == {i \in Ids(log) : log[i] # "user_rejected"}
           new == {i \in Ids(z) : z[i] # "user_rejected"}
<1>3. new = old /\ \A i \in old : i \in 1 .. Len(log) /\ z[i] = log[i]
  BY <1>1, <1>2
<1>4. 1 \in new /\ z[1] = "prepared"
  BY <1>3 DEF PathTo
<1>5. ASSUME NEW i \in new, NEW j \in new, i < j, ~\E k \in new : i < k /\ k < j
      PROVE  z[j] \in Allowed(z[i])
  <2>1. log[j] \in Allowed(log[i])
    BY <1>3, <1>5 DEF PathTo
  <2> QED
    BY <1>3, <2>1
<1>6. \E i \in new : (\A k \in new : k <= i) /\ z[i] = status
  BY <1>3 DEF PathTo
<1>7. ASSUME NEW j \in Ids(z) \ new PROVE \E i \in 1 .. j : z[i] = "delivered"
  <2>1. CASE j \in Ids(log)
    <3>1. PICK i \in 1 .. j : log[i] = "delivered"
      BY <1>3, <1>7, <2>1 DEF PathTo
    <3> QED
      BY <1>1, <1>2, <2>1, <3>1
  <2>2. CASE j = Len(log) + 1
    BY <1>1, <1>2, <2>2 DEF Contains
  <2> QED
    BY <1>1, <2>1, <2>2
<1> QED
  BY <1>4, <1>5, <1>6, <1>7 DEF PathTo

-----------------------------------------------------------------------------
(* Preflight.                                                              *)

\* An attachment added, or changed in a status other than the used one.
LEMMA AttachmentRest ==
  ASSUME ChatInv, TablesTyped', NEW c, RowsMove(c), TurnsMove, AttachmentsFit',
         \A a \in Ids(attachments') : attachments'[a].status = "used_for_response" <=>
            (a \in Ids(attachments) /\ attachments[a].status = "used_for_response"),
         UNCHANGED <<regenerations, captureVars, links>>
  PROVE  ChatInv'
<1>1. Grows
  BY DEF RowsMove
<1>2. MessagesFit' /\ RegensFit'
  BY DEF ChatInv, MessagesFit, RegensFit, captureVars
<1>3. LinksFit'
  BY <1>1, LinksKept DEF ChatInv, TurnsMove
<1> QED
  BY <1>2, <1>3 DEF ChatInv, TurnsMove

\* Only a contract of the user that allows recall lets a preflight recall.
LEMMA RecallableInput ==
  ASSUME NEW input, NEW u, Recalls(PolicyForInput(input, u, 0))
  PROVE  Recallable(input, u)
BY DEF Recalls, PolicyForInput, Recallable

\* The contract of such an input.
LEMMA RecallContract ==
  ASSUME TablesTyped, NEW input, NEW u, Recallable(input, u)
  PROVE  /\ messages[input].contract.review \in BOOLEAN
         /\ messages[input].contract
              = [policy |-> "full", user |-> u, review |-> messages[input].contract.review]
<1>1. messages[input].contract \in ContractRows
  BY TableRows DEF Recallable, MessageRows
<1> QED
  BY <1>1 DEF Recallable, ContractRows

\* The reply to a preflight that prepared attachment a.
LEMMA PreflightReply ==
  ASSUME ChatInv, TablesTyped', NEW c \in calls, RowsMove(c), c.op = "preflight",
         NEW a \in Ids(attachments'), NEW fresh \in BOOLEAN, NEW review \in BOOLEAN,
         attachments'[a].input = turn[c.turn].input,
         attachments'[a].row = "active" => fresh,
         Reply(c, [turn[c.turn] EXCEPT !.att = a, !.fresh = fresh],
               AfterPreflight(turn[c.turn], review))
  PROVE  TurnsMove
<1>1. c.turn \in Turns
  BY Sender DEF Lifecycle
<1>2. PICK r : r = turn[c.turn]
  OBVIOUS
<1>3. r \in TurnRows /\ TurnFits(c.turn, r)' /\ SentBy(c, r)
  BY <1>1, <1>2, OwnTurn, Sender
<1>4. PICK stage : stage = AfterPreflight(r, review)
  OBVIOUS
<1>5. stage \in {"done", "delivered", "answering", "cancelled_before_send"}
  BY <1>4 DEF AfterPreflight
<1>6. stage \in Stages
  BY <1>5 DEF Stages, ServerOps
<1>7. PICK known : known = [r EXCEPT !.att = a, !.fresh = fresh]
  OBVIOUS
<1>8. PICK q : q = [known EXCEPT !.stage = stage]
  OBVIOUS
<1>9. a \in Nat /\ a \in 0 .. Len(attachments')
  BY TableIds DEF ChatInv
<1>10. known \in TurnRows
  BY <1>3, <1>7, <1>9 DEF TurnRows
<1>11. /\ known.id = r.id /\ known.user = r.user /\ known.approved = r.approved
       /\ known.regen = r.regen /\ known.policy = r.policy /\ known.input = r.input
       /\ known.att = a /\ known.injected = r.injected /\ known.fresh = fresh
       /\ known.off = r.off
  BY <1>3, <1>7 DEF TurnRows
<1>12. /\ q \in TurnRows /\ q.stage = stage
       /\ q.id = r.id /\ q.user = r.user /\ q.approved = r.approved
       /\ q.regen = r.regen /\ q.policy = r.policy /\ q.input = r.input
       /\ q.att = a /\ q.injected = r.injected /\ q.fresh = fresh
       /\ q.off = r.off
  BY <1>6, <1>8, <1>10, <1>11, Staged
<1>13. Reply(c, known, stage)
  BY <1>2, <1>4, <1>7
<1>14. Waits(c) => r.stage = "preflight"
  BY <1>2 DEF Waits
<1>15. Waits(c) => Advances(r, q)
  BY <1>5, <1>12, <1>14 DEF Advances, AfterCaptured, AfterPrepared, AfterInlet, AfterOutlet
<1>16. Waits(c) => TurnFits(c.turn, q)'
  BY <1>2, <1>3, <1>5, <1>9, <1>12, <1>14 DEF TurnFits, SentBy, AfterInlet, AfterOutlet
<1> QED
  BY <1>2, <1>5, <1>8, <1>12, <1>13, <1>15, <1>16, ReplyStep

\* A new attachment changes no other row.
LEMMA AttachStep ==
  ASSUME ChatInv, NEW c, NEW row \in AttachmentRows, WithRow(attachments', attachments, row),
         RowFits(row), row.status # "used_for_response",
         UNCHANGED <<profile, defaults, regenerations, captureVars, links>>
  PROVE  /\ TablesTyped' /\ RowsMove(c) /\ AttachmentsFit'
         /\ Len(attachments') = Len(attachments) + 1
         /\ Len(attachments') \in Ids(attachments') /\ attachments'[Len(attachments')] = row
         /\ Len(attachments) \in Nat /\ Len(attachments') \notin Ids(attachments)
         /\ \A a \in Ids(attachments') : attachments'[a].status = "used_for_response" <=>
              (a \in Ids(attachments) /\ attachments[a].status = "used_for_response")
<1>1. /\ attachments \in Seq(AttachmentRows)
      /\ Ids(attachments) = 1 .. Len(attachments) /\ Len(attachments) \in Nat
  BY IdsOf DEF ChatInv, TablesTyped
<1>2. /\ attachments' \in Seq(AttachmentRows) /\ Len(attachments') = Len(attachments) + 1
      /\ Ids(attachments') = Ids(attachments) \cup {Len(attachments) + 1}
      /\ \A a \in Ids(attachments) : attachments'[a] = attachments[a]
      /\ attachments'[Len(attachments) + 1] = row
  BY <1>1, Added
<1>3. TablesTyped'
  BY <1>2 DEF ChatInv, TablesTyped, captureVars
<1>4. Grows
  BY <1>1, <1>2, <1>3, TableIds DEF ChatInv, Grows, RowGrows, captureVars
<1>5. ASSUME NEW t \in Turns, turn[t].stage = "idle" \/ turn[t].off
      PROVE  NoTrace(t)'
  BY <1>5 DEF ChatInv, TurnsFit, TurnFits, NoTrace, captureVars
<1>6. ASSUME NEW d \in calls, d.step = "built"
      PROVE  attachments'[d.att].owner = attachments[d.att].owner
  <2>1. d.att \in Ids(attachments)
    BY <1>6 DEF ChatInv, CallsFit, CallFits, BuiltFits
  <2> QED
    BY <1>2, <2>1
<1>7. ASSUME NEW a \in Ids(attachments), NEW x, x = attachments[a] PROVE RowFits(x)'
  BY <1>3, <1>4, <1>7, <1>1, RowKept, Elements DEF ChatInv, AttachmentsFit
<1>8. RowFits(row)'
  BY <1>3, <1>4, RowKept DEF ChatInv
<1>9. AttachmentsFit'
  BY <1>2, <1>7, <1>8 DEF AttachmentsFit
<1> QED
  BY <1>1, <1>2, <1>3, <1>4, <1>5, <1>6, <1>9 DEF RowsMove

\* A preflight and its turn.
LEMMA Recaller ==
  ASSUME ChatInv, NEW c \in calls, c.op = "preflight", NEW r, r = turn[c.turn],
         Recallable(r.input, c.user)
  PROVE  /\ c \in CallRows /\ c.turn \in Turns /\ c.turn # Nobody
         /\ c.user \in Users /\ c.user # Nobody
         /\ SentBy(c, r) /\ r.input \in Ids(messages) /\ r.input \in Nat
         /\ messages[r.input].contract.review \in BOOLEAN
         /\ messages[r.input].contract
              = [policy |-> "full", user |-> c.user,
                 review |-> messages[r.input].contract.review]
<1>1. /\ c \in CallRows /\ c.turn \in Turns /\ c.user \in Users /\ c.user # Nobody
      /\ SentBy(c, r)
  BY Sender DEF Lifecycle
<1>2. r.input \in Ids(messages) /\ r.input \in Nat
  BY IdsOf DEF Recallable, ChatInv, TablesTyped
<1>3. c.turn # Nobody
  BY <1>1, ControlAssumption
<1> QED
  BY <1>1, <1>2, <1>3, RecallContract DEF ChatInv

\* full: the attachment of a preflight comes with its owner and first event.
LEMMA PreflightFullStep ==
  ASSUME ChatInv, NEW c \in calls, PreflightFull(c)
  PROVE  ChatInv'
<1>1. PICK r : r = turn[c.turn]
  OBVIOUS
<1>2. c.op = "preflight" /\ Recallable(r.input, c.user)
  BY <1>1, RecallableInput DEF PreflightFull, Recalling
<1>3. PICK review : review = messages[r.input].contract.review
  OBVIOUS
<1>4. /\ c.user \in Users /\ c.user # Nobody /\ r.input \in Ids(messages)
      /\ r.input \in Nat /\ review \in BOOLEAN
      /\ messages[r.input].contract
           = [policy |-> "full", user |-> c.user, review |-> review]
  BY <1>1, <1>2, <1>3, Recaller
<1>5. PICK row : row = NewAttachment(r.input, c.user, review)
  OBVIOUS
<1>6. /\ row.input = r.input /\ row.owner = c.user /\ row.review = review
      /\ row.status = "prepared" /\ row.row = "active" /\ row.keys = {}
      /\ row.log = <<"prepared">>
  BY <1>5 DEF NewAttachment, CreatedAttachment
<1>7. row \in AttachmentRows
  <2>1. <<"prepared">> \in Seq(Lifecycle)
    BY DEF Lifecycle
  <2>2. row = [input |-> r.input, owner |-> c.user, review |-> review,
               status |-> "prepared", row |-> "active", rejected |-> FALSE,
               keys |-> {}, log |-> <<"prepared">>]
    BY <1>5 DEF NewAttachment, CreatedAttachment
  <2> QED
    BY <1>4, <2>1, <2>2 DEF AttachmentRows, Lifecycle
<1>8. RowFits(row)
  BY <1>4, <1>6, PathStart DEF RowFits, Delivered
<1>9. /\ WithRow(attachments', attachments, row)
      /\ UNCHANGED <<profile, defaults, regenerations, captureVars, links>>
  BY <1>1, <1>3, <1>5 DEF PreflightFull, WithRow
<1>10. Reply(c, [r EXCEPT !.att = Len(attachments) + 1, !.fresh = TRUE],
             AfterPreflight(r, review))
  BY <1>1, <1>3 DEF PreflightFull
<1>11. /\ TablesTyped' /\ RowsMove(c) /\ AttachmentsFit'
       /\ Len(attachments) + 1 \in Ids(attachments')
       /\ attachments'[Len(attachments) + 1] = row
       /\ \A a \in Ids(attachments') : attachments'[a].status = "used_for_response" <=>
            (a \in Ids(attachments) /\ attachments[a].status = "used_for_response")
  BY <1>6, <1>7, <1>8, <1>9, AttachStep
<1>12. TurnsMove
  BY <1>1, <1>2, <1>4, <1>6, <1>10, <1>11, PreflightReply
<1> QED
  BY <1>9, <1>11, <1>12, AttachmentRest

\* lite: the builder's row waits for its owner.
LEMMA PreflightBuildStep ==
  ASSUME ChatInv, NEW c \in calls, PreflightBuild(c)
  PROVE  ChatInv'
<1>1. PICK r : r = turn[c.turn]
  OBVIOUS
<1>2. c.op = "preflight" /\ c.step = "start" /\ Recallable(r.input, c.user)
  BY <1>1, RecallableInput DEF PreflightBuild, Recalling
<1>3. /\ c \in CallRows /\ c.turn \in Turns /\ c.turn # Nobody /\ SentBy(c, r)
      /\ r.input \in Ids(messages) /\ r.input \in Nat
  BY <1>1, <1>2, Recaller
<1>4. PICK row : row = BuiltAttachment(r.input)
  OBVIOUS
<1>5. /\ row.input = r.input /\ row.owner = Nobody
      /\ row.status = "prepared" /\ row.keys = {} /\ row.log = <<>>
  BY <1>4 DEF BuiltAttachment, CreatedAttachment
<1>6. row \in AttachmentRows
  <2>1. <<>> \in Seq(Lifecycle)
    OBVIOUS
  <2> QED
    BY <1>3, <1>4, <2>1 DEF BuiltAttachment, CreatedAttachment, AttachmentRows, Lifecycle
<1>7. RowFits(row)
  BY <1>3, <1>5 DEF RowFits
<1>8. /\ WithRow(attachments', attachments, row) /\ turn' = turn
      /\ UNCHANGED <<profile, defaults, regenerations, captureVars, links>>
  BY <1>1, <1>4 DEF PreflightBuild, WithRow
<1>9. PICK a : a = Len(attachments')
  OBVIOUS
<1>10. /\ TablesTyped' /\ RowsMove(c) /\ AttachmentsFit' /\ a = Len(attachments) + 1
       /\ a \in Ids(attachments') /\ attachments'[a] = row /\ a \notin Ids(attachments)
       /\ \A b \in Ids(attachments') : attachments'[b].status = "used_for_response" <=>
            (b \in Ids(attachments) /\ attachments[b].status = "used_for_response")
  BY <1>5, <1>6, <1>7, <1>8, <1>9, AttachStep
<1>11. PICK d : d = [c EXCEPT !.step = "built", !.att = a]
  OBVIOUS
<1>12. a \in Nat /\ a \in 0 .. Len(attachments')
  BY <1>10, TableIds DEF ChatInv
<1>13. /\ d \in CallRows /\ d.op = c.op /\ d.turn = c.turn /\ d.user = c.user
       /\ d.att = a /\ d.step = "built"
  BY <1>3, <1>11, <1>12 DEF CallRows
<1>14. calls' = (calls \ {c}) \cup {d}
  BY <1>10, <1>11 DEF PreflightBuild
<1>15. Recallable(r.input, d.user)'
  BY <1>2, <1>8, <1>13 DEF Recallable, captureVars
<1>16. CallFits(d)'
  BY <1>1, <1>2, <1>3, <1>5, <1>8, <1>10, <1>12, <1>13, <1>15
     DEF CallFits, BuiltFits, SentBy, Lifecycle
<1> DEFINE others == calls \ {c}
<1>17. ASSUME NEW e \in calls
       PROVE  e \in CallRows /\ CallFits(e)' /\ (e.step = "built" => e.att # d.att)
  <2>1. e \in CallRows /\ CallFits(e)
    BY Sender
  <2>2. e.step = "built" => e.att \in Ids(attachments)
    BY <2>1 DEF CallFits, BuiltFits
  <2>3. e.step = "built" => attachments'[e.att].owner = attachments[e.att].owner
    BY <1>2, <1>10 DEF RowsMove
  <2>4. \A t \in Turns : Advances(turn[t], turn'[t])
    BY <1>8, AdvancesSelf
  <2>5. CallFits(e)'
    BY <1>10, <2>1, <2>3, <2>4, CallKept DEF ChatInv, RowsMove
  <2> QED
    BY <1>10, <1>13, <2>1, <2>2, <2>5
<1>18. TurnsTyped' /\ CallsFit'
  <2>1. calls' \subseteq CallRows /\ \A e \in calls' : CallFits(e)'
    BY <1>13, <1>14, <1>16, <1>17
  <2>2. \A e, f \in calls' : e.step = "built" /\ f.step = "built" /\ e.att = f.att => e = f
    BY <1>14, <1>17 DEF ChatInv, CallsFit
  <2> QED
    BY <1>8, <2>1, <2>2 DEF ChatInv, TurnsTyped, CallsFit
<1>19. TurnsFit' /\ \A t \in Turns : Advances(turn[t], turn'[t])
  <2>1. ASSUME NEW t \in Turns, NEW x, x = turn[t] PROVE TurnFits(t, x)'
    BY <1>10, <2>1, OwnTurn
  <2> QED
    BY <1>8, <2>1, AdvancesSelf DEF TurnsFit
<1>20. TurnsMove
  BY <1>18, <1>19 DEF TurnsMove
<1> QED
  BY <1>8, <1>10, <1>20, AttachmentRest

\* An attachment that changes, and no other row.
LEMMA ChangeStep ==
  ASSUME ChatInv, NEW c, NEW a \in Ids(attachments), NEW row \in AttachmentRows,
         WithChange(attachments', attachments, a, row),
         RowGrows(attachments[a], row), RowFits(row),
         row.status = "used_for_response" <=> attachments[a].status = "used_for_response",
         row.owner = attachments[a].owner
           \/ \A d \in calls \ {c} : d.step = "built" => d.att # a,
         UNCHANGED <<profile, defaults, regenerations, captureVars, links>>
  PROVE  /\ TablesTyped' /\ RowsMove(c) /\ AttachmentsFit'
         /\ Len(attachments') = Len(attachments) /\ Ids(attachments') = Ids(attachments)
         /\ attachments'[a] = row
         /\ \A b \in Ids(attachments') : attachments'[b].status = "used_for_response" <=>
              (b \in Ids(attachments) /\ attachments[b].status = "used_for_response")
<1>1. /\ attachments \in Seq(AttachmentRows)
      /\ Ids(attachments) = 1 .. Len(attachments) /\ Len(attachments) \in Nat
  BY IdsOf DEF ChatInv, TablesTyped
<1>2. /\ attachments' \in Seq(AttachmentRows) /\ Len(attachments') = Len(attachments)
      /\ Ids(attachments') = Ids(attachments)
      /\ \A b \in Ids(attachments) : attachments'[b] = IF b = a THEN row ELSE attachments[b]
  BY <1>1, Changed
<1>3. TablesTyped'
  BY <1>2 DEF ChatInv, TablesTyped, captureVars
<1>4. Grows
  BY <1>1, <1>2, <1>3, TableIds DEF ChatInv, Grows, RowGrows, captureVars
<1>5. ASSUME NEW t \in Turns, turn[t].stage = "idle" \/ turn[t].off
      PROVE  NoTrace(t)'
  BY <1>5 DEF ChatInv, TurnsFit, TurnFits, NoTrace, captureVars
<1>6. ASSUME NEW d \in calls \ {c}, d.step = "built"
      PROVE  attachments'[d.att].owner = attachments[d.att].owner
  <2>1. d.att \in Ids(attachments)
    BY <1>6 DEF ChatInv, CallsFit, CallFits, BuiltFits
  <2> QED
    BY <1>2, <1>6, <2>1
<1>7. ASSUME NEW b \in Ids(attachments), NEW x, x = attachments[b] PROVE RowFits(x)'
  BY <1>3, <1>4, <1>7, <1>1, RowKept, Elements DEF ChatInv, AttachmentsFit
<1>8. RowFits(row)'
  BY <1>3, <1>4, RowKept DEF ChatInv
<1>9. AttachmentsFit'
  BY <1>2, <1>7, <1>8 DEF AttachmentsFit
<1> QED
  BY <1>2, <1>3, <1>4, <1>5, <1>6, <1>9 DEF RowsMove

\* Several columns of a row updated at once.
LEMMA Updated ==
  ASSUME NEW s, NEW a \in DOMAIN s, NEW owner, NEW review, NEW status, NEW log
  PROVE  [s EXCEPT ![a].owner = owner, ![a].review = review, ![a].status = status,
                   ![a].log = log]
           = [s EXCEPT ![a] = [s[a] EXCEPT !.owner = owner, !.review = review,
                                           !.status = status, !.log = log]]
OBVIOUS

\* lite: the handler gives the built row its owner and first event.
LEMMA PreflightOwnStep ==
  ASSUME ChatInv, NEW c \in calls, PreflightOwn(c)
  PROVE  ChatInv'
<1>1. PICK r : r = turn[c.turn]
  OBVIOUS
<1>2. PICK a : a = c.att
  OBVIOUS
<1>3. PICK old : old = attachments[a]
  OBVIOUS
<1>4. /\ c.op = "preflight" /\ c.step = "built" /\ a \in Ids(attachments)
      /\ old.owner = Nobody /\ old.input = r.input /\ Recallable(r.input, c.user)
  BY <1>1, <1>2, <1>3, Sender DEF PreflightOwn, CallFits, BuiltFits
<1>5. PICK review : review = messages[r.input].contract.review
  OBVIOUS
<1>6. /\ c.user \in Users /\ c.user # Nobody /\ r.input \in Ids(messages)
      /\ review \in BOOLEAN
      /\ messages[r.input].contract
           = [policy |-> "full", user |-> c.user, review |-> review]
  BY <1>1, <1>4, <1>5, Recaller
<1>7. old \in AttachmentRows /\ RowFits(old)
  BY <1>3, <1>4, TableRows DEF ChatInv, AttachmentsFit
<1>8. PICK row : row = [old EXCEPT !.owner = c.user, !.review = review,
                                   !.status = "prepared", !.log = <<"prepared">>]
  OBVIOUS
<1>9. /\ row \in AttachmentRows /\ row.input = old.input /\ row.owner = c.user
      /\ row.review = review /\ row.status = "prepared" /\ row.row = old.row
      /\ row.keys = old.keys /\ row.log = <<"prepared">>
  <2>1. <<"prepared">> \in Seq(Lifecycle) /\ "prepared" \in Lifecycle
    BY DEF Lifecycle
  <2> QED
    BY <1>6, <1>7, <1>8, <2>1 DEF AttachmentRows
<1>10. old.status = "prepared" /\ old.keys = {}
  BY <1>4, <1>7 DEF RowFits
<1>11. RowFits(row)
  BY <1>4, <1>6, <1>9, <1>10, PathStart DEF RowFits, Delivered
<1>12. RowGrows(old, row)
  BY <1>4, <1>9, <1>10 DEF RowGrows, Delivered
<1>13. /\ WithChange(attachments', attachments, a, row)
       /\ UNCHANGED <<profile, defaults, regenerations, captureVars, links>>
  BY <1>1, <1>2, <1>3, <1>4, <1>5, <1>8, Updated DEF PreflightOwn, WithChange, Ids
<1>14. PICK fresh \in BOOLEAN : fresh = (old.row = "active")
  OBVIOUS
<1>15. Reply(c, [r EXCEPT !.att = a, !.fresh = fresh], AfterPreflight(r, review))
  BY <1>1, <1>2, <1>3, <1>5, <1>14 DEF PreflightOwn
<1>16. \A d \in calls \ {c} : d.step = "built" => d.att # a
  BY <1>2, <1>4 DEF ChatInv, CallsFit
<1>17. /\ TablesTyped' /\ RowsMove(c) /\ AttachmentsFit'
       /\ a \in Ids(attachments') /\ attachments'[a] = row
       /\ \A b \in Ids(attachments') : attachments'[b].status = "used_for_response" <=>
            (b \in Ids(attachments) /\ attachments[b].status = "used_for_response")
  BY <1>3, <1>4, <1>9, <1>10, <1>11, <1>12, <1>13, <1>16, ChangeStep
<1>18. TurnsMove
  BY <1>1, <1>4, <1>6, <1>9, <1>14, <1>15, <1>17, PreflightReply
<1> QED
  BY <1>13, <1>17, <1>18, AttachmentRest

-----------------------------------------------------------------------------
(* The transitions of an attachment.                                       *)

\* An attachment that moved: what Moved makes of a row.
LEMMA MovedColumns ==
  ASSUME NEW s, NEW a \in DOMAIN s, NEW to, NEW key
  PROVE  [s EXCEPT ![a].status = to, ![a].log = Append(@, to),
                   ![a].keys = @ \cup {<<to, key>>}]
           = [s EXCEPT ![a] = [s[a] EXCEPT !.status = to, !.log = Append(s[a].log, to),
                                           !.keys = s[a].keys \cup {<<to, key>>}]]
OBVIOUS

\* What Rejected makes of a row.
LEMMA RejectedColumns ==
  ASSUME NEW s, NEW a \in DOMAIN s, NEW key
  PROVE  [s EXCEPT ![a].rejected = TRUE, ![a].log = Append(@, "user_rejected"),
                   ![a].keys = @ \cup {<<"user_rejected", key>>}]
           = [s EXCEPT ![a] = [s[a] EXCEPT !.rejected = TRUE,
                                           !.log = Append(s[a].log, "user_rejected"),
                                           !.keys = s[a].keys \cup {<<"user_rejected", key>>}]]
OBVIOUS

\* The row of an attachment that moved, or was rejected.
MovedRow(row, old, to, key, log) ==
  row = [old EXCEPT !.status = to, !.log = log, !.keys = old.keys \cup {<<to, key>>}]

RejectedRow(row, old, key, log) ==
  row = [old EXCEPT !.rejected = TRUE, !.log = log,
                    !.keys = old.keys \cup {<<"user_rejected", key>>}]

\* An allowed move keeps the log a path, and a delivery approved.
LEMMA MovedFits ==
  ASSUME NEW old \in AttachmentRows, RowFits(old), old.owner # Nobody,
         NEW to \in Lifecycle, to \in Allowed(old.status), to # "user_rejected",
         to = "delivered" /\ old.review => old.status = "approved",
         NEW key \in Keys, NEW log, WithRow(log, old.log, to), NEW row,
         MovedRow(row, old, to, key, log)
  PROVE  /\ row \in AttachmentRows /\ RowFits(row) /\ RowGrows(old, row)
         /\ row.status = to /\ row.owner = old.owner /\ row.input = old.input
         /\ row.row = old.row
<1>1. old.log \in Seq(Lifecycle) /\ old.keys \in SUBSET (Lifecycle \X Keys)
  BY DEF AttachmentRows
<1>2. /\ log \in Seq(Lifecycle)
      /\ \A s : Contains(log, s) <=> Contains(old.log, s) \/ s = to
  BY <1>1, LogGrows
<1>3. old.keys \cup {<<to, key>>} \in SUBSET (Lifecycle \X Keys)
  BY <1>1
<1>4. row \in AttachmentRows
  BY <1>2, <1>3 DEF AttachmentRows, MovedRow
<1>5. /\ row.status = to /\ row.owner = old.owner /\ row.input = old.input
      /\ row.row = old.row /\ row.review = old.review /\ row.log = log
      /\ row.keys = old.keys \cup {<<to, key>>}
  BY DEF AttachmentRows, MovedRow
<1>6. PathTo(old.log, old.status)
  BY DEF RowFits
<1>7. PathTo(log, to)
  BY <1>1, <1>6, PathMoves
<1>8. /\ to = "used_for_response" => old.status = "delivered"
      /\ old.status \in Delivered => to = "used_for_response"
  BY DEF Allowed, Delivered
<1>9. \A k \in Keys : <<"delivered", k>> \in row.keys => Contains(row.log, "delivered")
  BY <1>2, <1>5 DEF RowFits
<1>10. Contains(row.log, "delivered") <=> row.status \in Delivered
  BY <1>2, <1>5, <1>8 DEF RowFits, Delivered
<1>11. row.review /\ row.status \in Delivered => Contains(row.log, "approved")
  <2>1. old.status = "approved" => Contains(old.log, "approved")
    BY <1>1, <1>6, PathHas
  <2> QED
    BY <1>2, <1>5, <1>8, <2>1 DEF RowFits, Delivered
<1>12. RowFits(row)
  BY <1>5, <1>7, <1>9, <1>10, <1>11 DEF RowFits
<1>13. RowGrows(old, row)
  BY <1>5, <1>8 DEF RowGrows, Delivered
<1> QED
  BY <1>4, <1>5, <1>12, <1>13

\* The user's rejection of what was delivered leaves its status.
LEMMA RejectedFits ==
  ASSUME NEW old \in AttachmentRows, RowFits(old), old.owner # Nobody,
         old.status \in Delivered, NEW key \in Keys,
         NEW log, WithRow(log, old.log, "user_rejected"), NEW row,
         RejectedRow(row, old, key, log)
  PROVE  /\ row \in AttachmentRows /\ RowFits(row) /\ RowGrows(old, row)
         /\ row.status = old.status /\ row.owner = old.owner
<1>1. old.log \in Seq(Lifecycle) /\ old.keys \in SUBSET (Lifecycle \X Keys)
  BY DEF AttachmentRows
<1>2. /\ log \in Seq(Lifecycle)
      /\ \A s : Contains(log, s) <=> Contains(old.log, s) \/ s = "user_rejected"
  BY <1>1, LogGrows DEF Lifecycle
<1>3. old.keys \cup {<<"user_rejected", key>>} \in SUBSET (Lifecycle \X Keys)
  BY <1>1 DEF Lifecycle
<1>4. row \in AttachmentRows
  BY <1>2, <1>3 DEF AttachmentRows, RejectedRow
<1>5. /\ row.status = old.status /\ row.owner = old.owner /\ row.input = old.input
      /\ row.row = old.row /\ row.review = old.review /\ row.log = log
      /\ row.keys = old.keys \cup {<<"user_rejected", key>>}
  BY DEF AttachmentRows, RejectedRow
<1>6. PathTo(old.log, old.status) /\ Contains(old.log, "delivered")
  BY DEF RowFits
<1>7. PathTo(log, old.status)
  BY <1>1, <1>6, PathRejects
<1>8. \A k \in Keys : <<"delivered", k>> \in row.keys => Contains(row.log, "delivered")
  BY <1>2, <1>5, <1>6
<1>9. RowFits(row)
  BY <1>2, <1>5, <1>6, <1>7, <1>8 DEF RowFits
<1>10. RowGrows(old, row)
  BY <1>5 DEF RowGrows
<1> QED
  BY <1>4, <1>5, <1>9, <1>10

\* The reply to a transition: the Filter injects what it had delivered.
LEMMA FinishStep ==
  ASSUME ChatInv, TablesTyped', NEW c \in calls, RowsMove(c), c.op \in Lifecycle,
         Finish(c),
         c.op = "delivered" =>
           /\ c.att \in Ids(attachments') /\ attachments'[c.att].owner = c.user
           /\ attachments'[c.att].status \in Delivered
           /\ c.step = "read" \/ attachments'[c.att].row = "active"
  PROVE  TurnsMove
<1>1. c.to = c.op /\ c.turn \in Turns \cup {Nobody} /\ c.op \in Ops
  BY Sender DEF CallFits, CallRows
<1>2. CASE ~Waits(c)
  <2>1. turn' = turn /\ calls' = calls \ {c}
    BY <1>2 DEF Finish, Reply
  <2> QED
    BY <2>1, QuietStep
<1>3. CASE Waits(c)
  <2>1. c.turn \in Turns /\ c.turn # Nobody
    BY <1>3, Sender DEF Waits
  <2>2. PICK r : r = turn[c.turn]
    OBVIOUS
  <2>3. r \in TurnRows /\ TurnFits(c.turn, r) /\ TurnFits(c.turn, r)' /\ SentBy(c, r)
    BY <2>1, <2>2, OwnTurn, Sender
  <2>4. r.stage = c.op /\ r.stage \in {"delivered", "cancelled_before_send"}
    <3>1. r.stage = c.op
      BY <1>3, <2>2 DEF Waits
    <3>2. r.stage \in Stages
      BY <2>3 DEF TurnRows
    <3> QED
      BY <3>1, <3>2 DEF Lifecycle, Stages, ServerOps
  <2> DEFINE injected == IF c.op = "delivered" THEN c.att ELSE r.injected
  <2>5. injected \in Nat
    BY <2>3, Sender DEF TurnRows, CallRows
  <2>6. PICK known : known = [r EXCEPT !.injected = injected]
    OBVIOUS
  <2>7. PICK q : q = [known EXCEPT !.stage = "answering"]
    OBVIOUS
  <2>8. Reply(c, known, "answering")
    BY <1>1, <2>1, <2>2, <2>6 DEF Finish, Injecting
  <2>9. /\ known \in TurnRows /\ known.id = r.id /\ known.user = r.user
        /\ known.approved = r.approved /\ known.regen = r.regen
        /\ known.policy = r.policy /\ known.input = r.input /\ known.att = r.att
        /\ known.injected = injected /\ known.fresh = r.fresh /\ known.off = r.off
    <3> HIDE DEF injected
    <3> QED
      BY <2>3, <2>5, <2>6 DEF TurnRows
  <2>10. /\ q \in TurnRows /\ q.stage = "answering"
         /\ q.id = r.id /\ q.user = r.user /\ q.approved = r.approved
         /\ q.regen = r.regen /\ q.policy = r.policy /\ q.input = r.input
         /\ q.att = r.att /\ q.injected = injected /\ q.fresh = r.fresh
         /\ q.off = r.off
    <3>1. "answering" \in Stages
      BY DEF Stages
    <3> HIDE DEF injected
    <3> QED
      BY <2>7, <2>9, <3>1, Staged
  <2>11. Advances(r, q)
    BY <2>4, <2>10 DEF Advances, AfterCaptured, AfterPrepared, AfterInlet, AfterOutlet
  <2>12. injected # 0 => r.fresh /\ ClearedFor(injected, r.user, r.input)'
    <3> SUFFICES ASSUME injected # 0
                 PROVE  r.fresh /\ ClearedFor(injected, r.user, r.input)'
      OBVIOUS
    <3>1. c.op = "delivered" /\ injected = c.att /\ c.att = r.att /\ c.user = r.user
      BY <2>3, <2>4 DEF TurnFits, AfterInlet, AfterOutlet, SentBy
    <3>2. r.fresh
      BY <2>3, <2>4, <3>1 DEF SentBy, TurnFits
    <3>3. attachments'[c.att].input = r.input
      BY <2>3, <2>4, <3>1 DEF TurnFits
    <3> QED
      BY <3>1, <3>2, <3>3 DEF ClearedFor
  <2>13. TurnFits(c.turn, q)'
    BY <2>3, <2>4, <2>10, <2>12 DEF TurnFits, AfterInlet, AfterOutlet
  <2> QED
    BY <2>2, <2>7, <2>8, <2>10, <2>11, <2>13, ReplyStep
<1> QED
  BY <1>2, <1>3

\* A transition answered without a change.
LEMMA AnswerStep ==
  ASSUME ChatInv, NEW c \in calls, c.op \in Lifecycle, UNCHANGED <<profile, serverVars>>,
         \/ Refuse(c)
         \/ /\ Finish(c)
            /\ c.op = "delivered" =>
                 /\ Owned(c.att, c.user) /\ attachments[c.att].status \in Delivered
                 /\ c.step = "read" \/ attachments[c.att].row = "active"
  PROVE  ChatInv'
<1>1. TablesTyped' /\ RowsMove(c) /\ attachments' = attachments
  BY StillRows DEF serverVars
<1>2. TurnsMove
  BY <1>1, RefuseStep, FinishStep DEF Owned
<1> QED
  BY <1>2, StillStep

\* What the verdict of a transition says of the row.
LEMMA Judged ==
  ASSUME ChatInv, NEW c \in calls, c.op \in Lifecycle, Verdict(c) # "error",
         NEW old, old = attachments[c.att]
  PROVE  /\ c.att \in Ids(attachments) /\ old \in AttachmentRows /\ RowFits(old)
         /\ old.owner = c.user /\ old.owner # Nobody /\ c.to = c.op
         /\ c.to \in Lifecycle /\ c.key \in Keys
         /\ c.to = "delivered" => old.row = "active" /\ (old.review => old.status = "approved")
         /\ c.to = "delivered" /\ Verdict(c) = "replay" => old.status \in Delivered
         /\ Verdict(c) = "reject" => c.to = "user_rejected" /\ old.status \in Delivered
         /\ Verdict(c) = "move" => c.to # "user_rejected" /\ c.to \in Allowed(old.status)
<1>1. /\ c \in CallRows /\ CallFits(c) /\ c.user # Nobody
  BY Sender
<1>2. Owned(c.att, c.user) /\ (c.to = "delivered" => Deliverable(c.att))
  BY DEF Verdict
<1>3. c.att \in Ids(attachments) /\ old.owner = c.user
  BY <1>2 DEF Owned
<1>4. old \in AttachmentRows /\ RowFits(old)
  BY <1>3, TableRows DEF ChatInv, AttachmentsFit
<1>5. c.to = c.op /\ c.to \in Lifecycle /\ c.key \in Keys
  BY <1>1 DEF CallFits, CallRows
<1>6. c.to = "delivered" => old.row = "active" /\ (old.review => old.status = "approved")
  BY <1>2 DEF Deliverable
<1>7. c.to = "delivered" /\ Verdict(c) = "replay" => old.status \in Delivered
  <2>1. c.to = "delivered" /\ Verdict(c) = "replay" =>
          <<c.to, c.key>> \in old.keys \/ old.status = "delivered"
    BY <1>2 DEF Verdict
  <2> QED
    BY <1>1, <1>3, <1>4, <1>5, <2>1 DEF RowFits, Delivered
<1>8. Verdict(c) = "reject" => c.to = "user_rejected" /\ old.status \in Delivered
  BY <1>2 DEF Verdict, Delivered
<1>9. Verdict(c) = "move" => c.to # "user_rejected" /\ c.to \in Allowed(old.status)
  BY <1>2 DEF Verdict
<1> QED
  BY <1>1, <1>3, <1>4, <1>5, <1>6, <1>7, <1>8, <1>9

\* A transition reads the row, and answers or goes on.
LEMMA TransitionReadStep ==
  ASSUME ChatInv, NEW c \in calls, TransitionRead(c)
  PROVE  ChatInv'
<1>1. /\ c.op \in Lifecycle /\ c.step = "start"
      /\ UNCHANGED <<profile, defaults, regenerations, captureVars, links>>
  BY DEF TransitionRead
<1>2. PICK old : old = attachments[c.att]
  OBVIOUS
<1>3. Verdict(c) \in {"error", "replay", "reject", "move"}
  BY DEF Verdict
<1>4. CASE Verdict(c) = "error"
  <2>1. Refuse(c) /\ UNCHANGED <<profile, serverVars>>
    BY <1>1, <1>4 DEF TransitionRead, serverVars
  <2> QED
    BY <1>1, <2>1, AnswerStep
<1>5. CASE Verdict(c) = "replay"
  <2>1. Finish(c) /\ UNCHANGED <<profile, serverVars>>
    BY <1>1, <1>5 DEF TransitionRead, serverVars
  <2>2. c.op = "delivered" =>
          /\ Owned(c.att, c.user) /\ attachments[c.att].status \in Delivered
          /\ attachments[c.att].row = "active"
    BY <1>1, <1>2, <1>5, Judged DEF Owned
  <2> QED
    BY <1>1, <2>1, <2>2, AnswerStep
<1>6. CASE Verdict(c) = "reject"
  <2>1. attachments' = Rejected(c.att, c.key) /\ Finish(c)
    BY <1>6 DEF TransitionRead
  <2>2. /\ c.att \in Ids(attachments) /\ old \in AttachmentRows /\ RowFits(old)
        /\ old.owner # Nobody /\ c.to = c.op /\ c.key \in Keys
        /\ c.to = "user_rejected" /\ old.status \in Delivered
    BY <1>1, <1>2, <1>6, Judged
  <2>3. PICK log : log = Append(old.log, "user_rejected")
    OBVIOUS
  <2>4. PICK row : RejectedRow(row, old, c.key, log)
    BY DEF RejectedRow
  <2>5. /\ row \in AttachmentRows /\ RowFits(row) /\ RowGrows(old, row)
        /\ row.status = old.status /\ row.owner = old.owner
    <3>1. WithRow(log, old.log, "user_rejected")
      BY <2>3 DEF WithRow
    <3> QED
      BY <2>2, <2>4, <3>1, RejectedFits
  <2>6. WithChange(attachments', attachments, c.att, row)
    BY <1>2, <2>1, <2>2, <2>3, <2>4, RejectedColumns
       DEF Rejected, RejectedRow, WithChange, Ids
  <2>7. /\ TablesTyped' /\ RowsMove(c) /\ AttachmentsFit'
        /\ \A b \in Ids(attachments') : attachments'[b].status = "used_for_response" <=>
             (b \in Ids(attachments) /\ attachments[b].status = "used_for_response")
    BY <1>1, <1>2, <2>2, <2>5, <2>6, ChangeStep
  <2>8. TurnsMove
    BY <1>1, <2>1, <2>2, <2>7, FinishStep
  <2> QED
    BY <1>1, <2>7, <2>8, AttachmentRest
<1>7. CASE Verdict(c) = "move"
  <2>1. PICK d : d = [c EXCEPT !.step = "read", !.from = old.status]
    OBVIOUS
  <2>2. /\ calls' = (calls \ {c}) \cup {d} /\ UNCHANGED <<attachments, turn>>
        /\ UNCHANGED <<profile, serverVars>>
    BY <1>1, <1>2, <1>7, <2>1 DEF TransitionRead, serverVars
  <2>3. /\ c.att \in Ids(attachments) /\ old \in AttachmentRows /\ old.owner = c.user
        /\ c.to = c.op
        /\ c.to = "delivered" => old.row = "active" /\ (old.review => old.status = "approved")
        /\ c.to # "user_rejected" /\ c.to \in Allowed(old.status)
    BY <1>1, <1>2, <1>7, Judged
  <2>4. c \in CallRows /\ CallFits(c)
    BY Sender
  <2>5. /\ d \in CallRows /\ d.op = c.op /\ d.turn = c.turn /\ d.user = c.user
        /\ d.att = c.att /\ d.to = c.to /\ d.step = "read" /\ d.from = old.status
    BY <2>1, <2>3, <2>4 DEF CallRows, AttachmentRows
  <2>6. d.turn # Nobody => SentBy(d, turn[d.turn])
    BY <1>1, <1>2, <2>3, <2>4, <2>5 DEF CallFits, SentBy
  <2>7. CallFits(d)
    BY <1>1, <1>2, <2>3, <2>4, <2>5, <2>6 DEF CallFits, Owned, Lifecycle
  <2>8. CallFits(d)'
    BY <2>2, <2>7 DEF CallFits, SentBy, BuiltFits, Recallable, Owned, serverVars, captureVars
  <2>9. TablesTyped' /\ RowsMove(c)
    BY <2>2, StillRows
  <2>10. TurnsMove
    BY <2>2, <2>5, <2>8, <2>9, QuietStep
  <2> QED
    BY <2>2, <2>10, StillStep
<1> QED
  BY <1>3, <1>4, <1>5, <1>6, <1>7

\* A transition updates the row it read, or finds that another one did.
LEMMA TransitionSwapStep ==
  ASSUME ChatInv, NEW c \in calls, TransitionSwap(c)
  PROVE  ChatInv'
<1>1. /\ c.op \in Lifecycle /\ c.step = "read"
      /\ UNCHANGED <<profile, defaults, regenerations, captureVars, links>>
  BY DEF TransitionSwap
<1>2. PICK old : old = attachments[c.att]
  OBVIOUS
<1>3. /\ c.to = c.op /\ c.op \in Ops /\ c.key \in Keys
      /\ c.att \in Ids(attachments) /\ old.owner = c.user /\ c.user # Nobody
      /\ c.to \in Allowed(c.from) /\ c.to # "user_rejected"
      /\ c.to = "delivered" /\ old.review => c.from = "approved"
  BY <1>1, <1>2, Sender DEF CallFits, Owned, CallRows
<1>4. old \in AttachmentRows /\ RowFits(old)
  BY <1>2, <1>3, TableRows DEF ChatInv, AttachmentsFit
<1>5. CASE Swapped(c)
  <2>1. attachments' = Moved(c.att, c.to, c.key) /\ Finish(c) /\ c.from = old.status
    BY <1>2, <1>5 DEF TransitionSwap, Swapped
  <2>2. PICK log : log = Append(old.log, c.to)
    OBVIOUS
  <2>3. PICK row : MovedRow(row, old, c.to, c.key, log)
    BY DEF MovedRow
  <2>4. /\ row \in AttachmentRows /\ RowFits(row) /\ RowGrows(old, row)
        /\ row.status = c.to /\ row.owner = old.owner
    <3>1. WithRow(log, old.log, c.to) /\ old.owner # Nobody /\ c.to \in Lifecycle
      BY <1>1, <1>3, <2>2 DEF WithRow
    <3>2. c.to \in Allowed(old.status) /\ (c.to = "delivered" /\ old.review => old.status = "approved")
      BY <1>3, <2>1
    <3> QED
      BY <1>3, <1>4, <2>3, <3>1, <3>2, MovedFits
  <2>5. WithChange(attachments', attachments, c.att, row)
    BY <1>2, <1>3, <2>1, <2>2, <2>3, MovedColumns
       DEF Moved, MovedRow, WithChange, Ids
  <2>6. old.status # "used_for_response" /\ c.to # "used_for_response"
    BY <1>3, <2>1 DEF Allowed, Ops, ServerOps
  <2>7. /\ TablesTyped' /\ RowsMove(c) /\ AttachmentsFit'
        /\ Ids(attachments') = Ids(attachments) /\ attachments'[c.att] = row
        /\ \A b \in Ids(attachments') : attachments'[b].status = "used_for_response" <=>
             (b \in Ids(attachments) /\ attachments[b].status = "used_for_response")
    BY <1>1, <1>2, <1>3, <2>4, <2>5, <2>6, ChangeStep
  <2>8. TurnsMove
    BY <1>1, <1>3, <2>1, <2>4, <2>7, FinishStep DEF Delivered
  <2> QED
    BY <1>1, <2>7, <2>8, AttachmentRest
<1>6. CASE ~Swapped(c)
  <2>1. /\ (Finish(c) /\ Concurrent(c)) \/ Refuse(c)
        /\ UNCHANGED <<profile, serverVars>>
    BY <1>1, <1>6 DEF TransitionSwap, serverVars
  <2>2. Concurrent(c) /\ c.op = "delivered" =>
          Owned(c.att, c.user) /\ attachments[c.att].status \in Delivered
    BY <1>2, <1>3, <1>4 DEF Concurrent, RowFits, Owned
  <2> QED
    BY <1>1, <2>1, <2>2, AnswerStep
<1> QED
  BY <1>5, <1>6

-----------------------------------------------------------------------------
(* The answer.                                                             *)

\* What is known of a turn whose answer is about to be recorded.
Recordable(t, r) ==
  /\ t \in Turns /\ r \in TurnRows /\ r.id = t /\ r.user \in Users /\ r.user # Nobody
  /\ r.stage \in AfterOutlet /\ ~r.off
  /\ r.input \in Ids(messages)
  /\ r.injected # 0 =>
       /\ r.injected \in Ids(attachments) /\ attachments[r.injected].owner = r.user
       /\ attachments[r.injected].status = "delivered"
  /\ r.regen # 0 => /\ r.injected = 0 /\ r.regen \in Ids(regenerations)
                    /\ regenerations[r.regen].status = "requested"
  /\ \A l \in links : /\ l.turn # t
                      /\ r.injected # 0 => l.att # r.injected
                      /\ r.regen # 0 => l.regen # r.regen

\* The checks of a completion are enough to record its answer.
LEMMA Checked ==
  ASSUME ChatInv, NEW c \in calls, c.op = "complete", NEW r, r = turn[c.turn],
         NEW policy, policy = PolicyForInput(r.input, c.user, r.regen),
         policy # "refused", ~Ended(r), AttachmentFits(r, policy),
         r.regen = 0 => Recorded(r) = {}
  PROVE  Recordable(c.turn, r)
<1>1. /\ c.turn \in Turns /\ r \in TurnRows /\ TurnFits(c.turn, r) /\ SentBy(c, r)
      /\ r.user = c.user /\ c.user \in Users /\ c.user # Nobody /\ r.id = c.turn
  BY Sender DEF Lifecycle
<1>2. r.stage \in AfterOutlet /\ ~r.off
  BY <1>1 DEF SentBy
<1>3. /\ Ids(regenerations) = 1 .. Len(regenerations) /\ Len(regenerations) \in Nat
      /\ \A g \in Ids(regenerations) : regenerations[g] \in RegenRows
  BY IdsOf, TableRows DEF ChatInv, TablesTyped
<1>4. ASSUME r.regen # 0
      PROVE  /\ r.regen \in Ids(regenerations) /\ regenerations[r.regen].input = r.input
             /\ policy = "no_recall" /\ regenerations[r.regen].status = "requested"
  <2>1. r.regen \in Ids(regenerations)
    BY <1>1, <1>3, <1>4 DEF TurnFits
  <2>2. regenerations[r.regen].input = r.input /\ policy = "no_recall"
    BY <1>4 DEF PolicyForInput
  <2>3. regenerations[r.regen].status = "requested"
    BY <1>3, <1>4, <2>1 DEF Ended, RegenRows
  <2> QED
    BY <2>1, <2>2, <2>3
<1>5. r.input \in Ids(messages)
  <2>1. CASE r.regen # 0
    BY <1>4, <2>1 DEF ChatInv, RegensFit
  <2>2. CASE r.regen = 0
    BY <2>2 DEF PolicyForInput
  <2> QED
    BY <2>1, <2>2
<1>6. r.injected # 0 =>
        /\ r.injected \in Ids(attachments) /\ attachments[r.injected].owner = r.user
        /\ attachments[r.injected].status = "delivered" /\ r.regen = 0
  BY <1>4 DEF AttachmentFits, Owned, Recalls
<1>7. ASSUME NEW l \in links
      PROVE  /\ l.turn # c.turn
             /\ r.injected # 0 => l.att # r.injected
             /\ r.regen # 0 => l.regen # r.regen
  <2>1. LinkFits(l)
    BY DEF ChatInv, LinksFit
  <2>2. r.regen # 0 => l.regen # r.regen
    BY <1>4, <2>1 DEF LinkFits
  <2>3. r.injected # 0 => l.att # r.injected
    BY <1>6, <2>1 DEF LinkFits
  <2>4. ASSUME l.turn = c.turn PROVE FALSE
    <3>1. l.input = r.input /\ l.regen = r.regen
      BY <2>1, <2>4 DEF LinkFits
    <3> QED
      BY <1>1, <2>2, <2>4, <3>1 DEF Recorded
  <2> QED
    BY <2>2, <2>3, <2>4
<1> QED
  BY <1>1, <1>2, <1>4, <1>5, <1>6, <1>7 DEF Recordable

\* The attachment that was used moves; the others stay.
LEMMA UsedRows ==
  ASSUME ChatInv, NEW t, NEW r, Recordable(t, r), attachments' = UsedFor(r)
  PROVE  /\ attachments' \in Seq(AttachmentRows) /\ Ids(attachments') = Ids(attachments)
         /\ Len(attachments') = Len(attachments)
         /\ \A a \in Ids(attachments) :
              /\ RowGrows(attachments[a], attachments'[a])
              /\ attachments'[a].owner = attachments[a].owner
              /\ attachments'[a].status = "used_for_response" <=>
                   attachments[a].status = "used_for_response" \/ a = r.injected
         /\ \A a \in Ids(attachments) : \A x : x = attachments'[a] => RowFits(x)
<1>1. attachments \in Seq(AttachmentRows)
  BY DEF ChatInv, TablesTyped
<1>2. \A a \in Ids(attachments) : a # 0 /\ RowFits(attachments[a])
  BY <1>1, IdsOf DEF ChatInv, AttachmentsFit
<1>3. CASE r.injected = 0
  BY <1>1, <1>2, <1>3 DEF UsedFor, RowGrows
<1>4. CASE r.injected # 0
  <2>1. PICK i, old : i = r.injected /\ old = attachments[i]
    OBVIOUS
  <2>2. /\ i \in Ids(attachments) /\ old \in AttachmentRows /\ RowFits(old)
        /\ old.owner # Nobody /\ old.status = "delivered"
    BY <1>1, <1>2, <1>4, <2>1, Elements DEF Recordable
  <2>3. PICK log, row : /\ WithRow(log, old.log, "used_for_response")
                        /\ MovedRow(row, old, "used_for_response", "response", log)
                        /\ log = Append(old.log, "used_for_response")
    BY DEF WithRow, MovedRow
  <2>4. "used_for_response" \in Lifecycle /\ "used_for_response" \in Allowed("delivered")
        /\ "response" \in Keys
    BY DEF Lifecycle, Allowed, Keys
  <2>5. /\ row \in AttachmentRows /\ RowFits(row) /\ RowGrows(old, row)
        /\ row.status = "used_for_response" /\ row.owner = old.owner
    BY <2>2, <2>3, <2>4, MovedFits
  <2>6. WithChange(attachments', attachments, i, row)
    BY <1>4, <2>1, <2>2, <2>3, MovedColumns DEF UsedFor, Moved, MovedRow, WithChange, Ids
  <2>7. /\ attachments' \in Seq(AttachmentRows) /\ Len(attachments') = Len(attachments)
        /\ Ids(attachments') = Ids(attachments)
        /\ \A b \in Ids(attachments) : attachments'[b] = IF b = i THEN row ELSE attachments[b]
    BY <1>1, <2>2, <2>5, <2>6, Changed
  <2> QED
    BY <1>2, <2>1, <2>2, <2>5, <2>7 DEF RowGrows
<1> QED
  BY <1>3, <1>4

\* The regeneration that has its answer is completed; the others stay.
LEMMA EndedRows ==
  ASSUME ChatInv, NEW t, NEW r, Recordable(t, r), regenerations' = Regenerated(r)
  PROVE  /\ regenerations' \in Seq(RegenRows) /\ Ids(regenerations') = Ids(regenerations)
         /\ Len(regenerations') = Len(regenerations)
         /\ \A g \in Ids(regenerations) :
              /\ regenerations'[g].input = regenerations[g].input
              /\ regenerations'[g].status = "completed" <=>
                   regenerations[g].status = "completed" \/ g = r.regen
<1>1. regenerations \in Seq(RegenRows)
  BY DEF ChatInv, TablesTyped
<1>2. \A g \in Ids(regenerations) : g # 0
  BY <1>1, IdsOf
<1>3. CASE r.regen = 0
  BY <1>1, <1>2, <1>3 DEF Regenerated
<1>4. CASE r.regen # 0
  <2>1. PICK i, old : i = r.regen /\ old = regenerations[i]
    OBVIOUS
  <2>2. i \in Ids(regenerations) /\ old \in RegenRows
    BY <1>1, <1>4, <2>1, Elements DEF Recordable
  <2>3. PICK row : row = [old EXCEPT !.status = "completed"]
    OBVIOUS
  <2>4. row \in RegenRows /\ row.input = old.input /\ row.status = "completed"
    BY <2>2, <2>3 DEF RegenRows
  <2>5. WithChange(regenerations', regenerations, i, row)
    BY <1>4, <2>1, <2>2, <2>3 DEF Regenerated, WithChange, Ids
  <2>6. /\ regenerations' \in Seq(RegenRows) /\ Len(regenerations') = Len(regenerations)
        /\ Ids(regenerations') = Ids(regenerations)
        /\ \A b \in Ids(regenerations) :
             regenerations'[b] = IF b = i THEN row ELSE regenerations[b]
    BY <1>1, <2>2, <2>4, <2>5, Changed
  <2> QED
    BY <2>1, <2>2, <2>4, <2>6
<1> QED
  BY <1>3, <1>4

\* The answer as a row of the messages.
LEMMA AnswerRow ==
  ASSUME ChatInv, NEW t, NEW r, Recordable(t, r), NEW m \in Nat, NEW x, x = Answer(r, m)
  PROVE  x \in MessageRows /\ x.turn = t /\ x.session \in Ids(sessions)
<1>1. messages[r.input].session \in Ids(sessions) /\ messages[r.input].session \in Nat
  BY IdsOf DEF ChatInv, MessagesFit, TablesTyped, Recordable
<1>2. NoContract \in ContractRows
  BY DEF NoContract, ContractRows, Policies
<1>3. [session |-> m, user |-> r.user, msg |-> Nobody] \in KeyRows
  BY DEF KeyRows, Recordable
<1> QED
  BY <1>1, <1>2, <1>3 DEF Answer, MessageRows, Recordable

\* The link of an answer.
NewLink(r, m) ==
  [input |-> r.input, message |-> m, turn |-> r.id, att |-> r.injected, regen |-> r.regen]

\* What recording an answer does to the tables.
LEMMA RecordRows ==
  ASSUME ChatInv, NEW c \in calls, NEW r, r = turn[c.turn], Recordable(c.turn, r),
         RecordAnswer(c, r), UNCHANGED <<profile, defaults, sessions, alias>>
  PROVE  /\ TablesTyped' /\ RowsMove(c) /\ MessagesFit' /\ AttachmentsFit' /\ RegensFit'
         /\ Ids(messages') = Ids(messages) \cup {Len(messages) + 1}
<1>1. PICK m : m = Len(messages) + 1
  OBVIOUS
<1>2. messages \in Seq(MessageRows) /\ m \in Nat
  BY <1>1, IdsOf DEF ChatInv, TablesTyped
<1>3. PICK x : x = Answer(r, m)
  OBVIOUS
<1>4. x \in MessageRows /\ x.turn = c.turn /\ x.session \in Ids(sessions)
  BY <1>2, <1>3, AnswerRow
<1>5. WithRow(messages', messages, x) /\ queued' = queued \cup {m}
  BY <1>1, <1>3 DEF RecordAnswer, WithRow, Enqueued
<1>6. /\ messages' \in Seq(MessageRows) /\ Len(messages') = Len(messages) + 1
      /\ Ids(messages') = Ids(messages) \cup {m} /\ m \notin Ids(messages)
      /\ \A i \in Ids(messages) : messages'[i] = messages[i]
      /\ messages'[m] = x
  BY <1>1, <1>2, <1>4, <1>5, Added
<1>7. /\ attachments' \in Seq(AttachmentRows) /\ Ids(attachments') = Ids(attachments)
      /\ Len(attachments') = Len(attachments)
      /\ \A a \in Ids(attachments) :
           /\ RowGrows(attachments[a], attachments'[a])
           /\ attachments'[a].owner = attachments[a].owner
      /\ \A a \in Ids(attachments) : \A y : y = attachments'[a] => RowFits(y)
  BY UsedRows DEF RecordAnswer
<1>8. /\ regenerations' \in Seq(RegenRows) /\ Ids(regenerations') = Ids(regenerations)
      /\ Len(regenerations') = Len(regenerations)
      /\ \A g \in Ids(regenerations) : regenerations'[g].input = regenerations[g].input
  BY EndedRows DEF RecordAnswer
<1>9. links' = links \cup {NewLink(r, m)}
  BY <1>1 DEF RecordAnswer, NewLink
<1>10. NewLink(r, m) \in LinkRows /\ NewLink(r, m).turn = c.turn
  <2>1. /\ r.input \in Nat /\ r.injected \in Nat /\ r.regen \in Nat
    BY <1>2, IdsOf DEF Recordable, TurnRows
  <2> QED
    BY <1>2, <2>1 DEF NewLink, LinkRows, Recordable
<1>11. TablesTyped'
  BY <1>6, <1>7, <1>8, <1>9, <1>10 DEF ChatInv, TablesTyped
<1>12. Grows
  <2>1. Len(sessions) <= Len(sessions')
    BY <1>11, TableIds DEF ChatInv
  <2>2. Len(messages) <= Len(messages')
    BY <1>2, <1>6, IdsOf
  <2>3. /\ Len(attachments) <= Len(attachments')
        /\ Len(regenerations) <= Len(regenerations')
    BY <1>7, <1>8, <1>11, TableIds DEF ChatInv
  <2> QED
    BY <1>6, <1>7, <2>1, <2>2, <2>3 DEF Grows
<1>13. ASSUME NEW t \in Turns, turn[t].stage = "idle" \/ turn[t].off
       PROVE  NoTrace(t)'
  <2>1. t # c.turn
    BY <1>13 DEF Recordable, AfterOutlet
  <2>2. NoTrace(t)
    BY <1>13 DEF ChatInv, TurnsFit, TurnFits
  <2>3. \A l \in links' : l.turn # t
    BY <1>9, <1>10, <2>1, <2>2 DEF NoTrace
  <2>4. \A i \in Ids(messages') : messages'[i].turn # t
    BY <1>4, <1>6, <2>1, <2>2 DEF NoTrace
  <2> QED
    BY <2>2, <2>3, <2>4 DEF NoTrace
<1>14. ASSUME NEW d \in calls, d.step = "built"
       PROVE  attachments'[d.att].owner = attachments[d.att].owner
  BY <1>7, <1>14 DEF ChatInv, CallsFit, CallFits, BuiltFits
<1>15. RowsMove(c)
  BY <1>12, <1>13, <1>14 DEF RowsMove
<1>16. MessagesFit'
  BY <1>4, <1>5, <1>6 DEF ChatInv, MessagesFit
<1>17. RegensFit'
  BY <1>6, <1>8 DEF ChatInv, RegensFit
<1>18. AttachmentsFit'
  <2>1. ASSUME NEW a \in Ids(attachments), NEW y, y = attachments'[a] PROVE RowFits(y)'
    <3>1. y \in AttachmentRows /\ RowFits(y)
      BY <1>7, <2>1, Elements
    <3> QED
      BY <1>11, <1>12, <3>1, RowKept DEF ChatInv
  <2> QED
    BY <1>7, <2>1 DEF AttachmentsFit
<1> QED
  BY <1>1, <1>6, <1>11, <1>15, <1>16, <1>17, <1>18

\* The link of the answer fits, and is the only one of its request.
LEMMA RecordLinks ==
  ASSUME ChatInv, NEW c \in calls, NEW r, r = turn[c.turn], Recordable(c.turn, r),
         RecordAnswer(c, r), TablesTyped', Grows, TurnsMove,
         Ids(messages') = Ids(messages) \cup {Len(messages) + 1}
  PROVE  LinksFit'
<1>1. PICK m : m = Len(messages) + 1
  OBVIOUS
<1>2. PICK n : n = NewLink(r, m)
  OBVIOUS
<1>3. links' = links \cup {n}
  BY <1>1, <1>2 DEF RecordAnswer, NewLink
<1>4. /\ n.input = r.input /\ n.message = m /\ n.turn = c.turn /\ n.att = r.injected
      /\ n.regen = r.regen /\ n.turn \in Turns
  BY <1>2 DEF NewLink, Recordable
<1>5. /\ Ids(attachments') = Ids(attachments)
      /\ Ids(attachments') = 1 .. Len(attachments') /\ Len(attachments') \in Nat
      /\ \A a \in Ids(attachments) :
           attachments'[a].status = "used_for_response" <=>
              attachments[a].status = "used_for_response" \/ a = r.injected
  BY UsedRows, TableIds DEF RecordAnswer, ChatInv
<1>6. /\ Ids(regenerations') = Ids(regenerations)
      /\ Ids(regenerations') = 1 .. Len(regenerations') /\ Len(regenerations') \in Nat
      /\ \A g \in Ids(regenerations) :
           regenerations'[g].status = "completed" <=>
              regenerations[g].status = "completed" \/ g = r.regen
  BY EndedRows, TableIds DEF RecordAnswer, ChatInv
<1>7. \A t \in Turns : Advances(turn[t], turn'[t])
  BY DEF TurnsMove
<1>8. ASSUME NEW l \in links PROVE LinkFits(l)'
  <2>1. LinkFits(l) /\ l \in LinkRows
    BY DEF ChatInv, LinksFit, TablesTyped
  <2>2. l.turn \in Turns /\ l.att \in Nat /\ l.regen \in Nat
    BY <2>1 DEF LinkRows
  <2>3. Advances(turn[l.turn], turn'[l.turn])
    BY <1>7, <2>2
  <2>4. /\ turn'[l.turn].stage \in AfterOutlet
        /\ turn'[l.turn].input = l.input
        /\ turn'[l.turn].injected = l.att
        /\ turn'[l.turn].regen = l.regen
    BY <2>1, <2>3 DEF LinkFits, Advances, AfterCaptured, AfterPrepared, AfterInlet
  <2>5. /\ l.input \in Ids(messages') /\ l.message \in Ids(messages')
        /\ l.att \in 0 .. Len(attachments') /\ l.regen \in 0 .. Len(regenerations')
    BY <2>1, <2>2, TableIds DEF LinkFits, Grows, ChatInv
  <2>6. l.regen # 0 => l.att = 0 /\ regenerations'[l.regen].status = "completed"
    BY <1>6, <2>1, <2>5 DEF LinkFits
  <2>7. l.att # 0 => attachments'[l.att].status = "used_for_response"
    BY <1>5, <2>1, <2>5 DEF LinkFits
  <2> QED
    BY <2>4, <2>5, <2>6, <2>7 DEF LinkFits
<1>9. LinkFits(n)'
  <2>1. Advances(r, turn'[c.turn])
    BY <1>4, <1>7
  <2>2. /\ turn'[n.turn].stage \in AfterOutlet
        /\ turn'[n.turn].input = n.input
        /\ turn'[n.turn].injected = n.att
        /\ turn'[n.turn].regen = n.regen
    BY <1>4, <2>1
       DEF Recordable, Advances, AfterCaptured, AfterPrepared, AfterInlet
  <2>3. n.input \in Ids(messages') /\ n.message \in Ids(messages')
    BY <1>1, <1>4 DEF Recordable
  <2>4. n.att \in 0 .. Len(attachments') /\ n.regen \in 0 .. Len(regenerations')
    BY <1>4, <1>5, <1>6 DEF Recordable
  <2>5. n.regen # 0 => n.att = 0 /\ regenerations'[n.regen].status = "completed"
    BY <1>4, <1>6 DEF Recordable
  <2>6. n.att # 0 => attachments'[n.att].status = "used_for_response"
    BY <1>4, <1>5 DEF Recordable
  <2> QED
    BY <2>2, <2>3, <2>4, <2>5, <2>6 DEF LinkFits
<1> DEFINE Same(k, l) == \/ k.turn = l.turn
                         \/ (k.att = l.att /\ k.att # 0)
                         \/ (k.regen = l.regen /\ k.regen # 0)
<1>10. \A k, l \in links : Same(k, l) => k = l
  BY DEF ChatInv, LinksFit
<1>11. \A l \in links : ~Same(l, n) /\ ~Same(n, l)
  BY <1>4 DEF Recordable
<1>12. \A k, l \in links' : Same(k, l) => k = l
  <2> HIDE DEF Same
  <2> QED
    BY <1>3, <1>10, <1>11
<1>13. ASSUME NEW a \in Ids(attachments'), attachments'[a].status = "used_for_response"
       PROVE  \E l \in links' : l.att = a
  BY <1>3, <1>4, <1>5, <1>13 DEF ChatInv, LinksFit
<1>14. ASSUME NEW g \in Ids(regenerations'), regenerations'[g].status = "completed"
       PROVE  \E l \in links' : l.regen = g
  BY <1>3, <1>4, <1>6, <1>14 DEF ChatInv, LinksFit
<1>15. \A l \in links' : LinkFits(l)'
  BY <1>3, <1>8, <1>9
<1> QED
  BY <1>12, <1>13, <1>14, <1>15 DEF LinksFit

\* The handler of a completed answer.
LEMMA CompleteStep ==
  ASSUME ChatInv, NEW c \in calls, Complete(c)
  PROVE  ChatInv'
<1>1. c.op = "complete" /\ UNCHANGED <<profile, defaults, sessions, alias>>
  BY DEF Complete
<1>2. PICK r : r = turn[c.turn]
  OBVIOUS
<1>3. PICK policy : policy = PolicyForInput(r.input, c.user, r.regen)
  OBVIOUS
<1>4. \/ /\ policy # "refused" /\ ~Ended(r) /\ AttachmentFits(r, policy)
         /\ r.regen = 0 => Recorded(r) = {}
         /\ RecordAnswer(c, r)
      \/ /\ Reply(c, r, "done") \/ Refuse(c)
         /\ UNCHANGED <<attachments, regenerations, messages, queued, links>>
  BY <1>2, <1>3 DEF Complete
<1>5. CASE /\ Reply(c, r, "done") \/ Refuse(c)
           /\ UNCHANGED <<attachments, regenerations, messages, queued, links>>
  <2>1. UNCHANGED <<profile, serverVars>>
    BY <1>1, <1>5 DEF serverVars, captureVars
  <2>2. TablesTyped' /\ RowsMove(c)
    BY <2>1, StillRows
  <2>3. TurnsMove
    BY <1>2, <1>5, <2>2, RefuseStep, SettleStep
  <2> QED
    BY <2>1, <2>3, StillStep
<1>6. CASE /\ policy # "refused" /\ ~Ended(r) /\ AttachmentFits(r, policy)
           /\ r.regen = 0 => Recorded(r) = {}
           /\ RecordAnswer(c, r)
  <2>1. Recordable(c.turn, r)
    BY <1>1, <1>2, <1>3, <1>6, Checked
  <2>2. /\ TablesTyped' /\ RowsMove(c) /\ MessagesFit' /\ AttachmentsFit' /\ RegensFit'
        /\ Ids(messages') = Ids(messages) \cup {Len(messages) + 1}
    BY <1>1, <1>2, <1>6, <2>1, RecordRows
  <2>3. TurnsMove
    BY <1>2, <1>6, <2>2, SettleStep DEF RecordAnswer
  <2>4. LinksFit'
    BY <1>2, <1>6, <2>1, <2>2, <2>3, RecordLinks DEF RowsMove
  <2> QED
    BY <2>2, <2>3, <2>4 DEF ChatInv, TurnsMove
<1> QED
  BY <1>4, <1>5, <1>6

-----------------------------------------------------------------------------
(* The user interface, and the governance of the memories.                 *)

\* A button asks for a transition.
LEMMA UiStep ==
  ASSUME ChatInv, NEW u \in Users, NEW a \in Ids(attachments),
         NEW to \in {"approved", "suppressed", "cancelled_before_send", "user_rejected"},
         UiTransition(u, a, to)
  PROVE  ChatInv'
<1>1. UNCHANGED <<profile, serverVars>> /\ turn' = turn
  BY DEF UiTransition
<1>2. PICK c : c \notin calls'
  BY NoSetContainsEverything
<1>3. TablesTyped' /\ RowsMove(c)
  BY <1>1, StillRows
<1>4. PICK d : d = [Call(to, Nobody, u) EXCEPT !.att = a, !.to = to]
  OBVIOUS
<1>5. a \in Nat /\ a \in 0 .. Len(attachments) /\ a \in 0 .. Len(attachments')
  BY <1>1, IdsOf DEF ChatInv, TablesTyped, serverVars
<1>6. d = [op |-> to, turn |-> Nobody, user |-> u, try |-> 0, step |-> "start",
           att |-> a, to |-> to, from |-> "prepared", key |-> "ui",
           row |-> 0, policy |-> "private", review |-> FALSE]
  BY <1>4 DEF Call
<1>7. to \in Ops /\ to \in Lifecycle /\ to # "delivered"
  BY DEF Ops, ServerOps, Lifecycle
<1>8. d \in CallRows
  BY <1>5, <1>6, <1>7 DEF CallRows, Keys, Policies, Lifecycle
<1>9. CallFits(d)'
  BY <1>5, <1>6, <1>7 DEF CallFits, Lifecycle
<1>10. calls' = calls \cup {d}
  BY <1>4 DEF UiTransition
<1>11. TurnsMove
  <2>1. d.step # "built"
    BY <1>6
  <2>2. ASSUME NEW e \in calls'
        PROVE  \/ e \in calls /\ (e = c => e.step # "built")
               \/ e \in CallRows /\ e.step # "built" /\ CallFits(e)'
    BY <1>2, <1>8, <1>9, <1>10, <2>1
  <2> QED
    BY <1>1, <1>3, <2>2, QuietStep
<1> QED
  BY <1>1, <1>11, StillStep

\* A regeneration is of a message that is there.
LEMMA RegenerationStep ==
  ASSUME ChatInv, NEW u \in Users, NEW l \in links, RequestRegeneration(u, l)
  PROVE  ChatInv'
<1>1. UNCHANGED <<profile, defaults, attachments, captureVars, links, calls, turn>>
  BY DEF RequestRegeneration
<1>2. regenerations \in Seq(RegenRows) /\ l \in LinkRows /\ LinkFits(l)
  BY DEF ChatInv, TablesTyped, LinksFit
<1>3. PICK row : row = [input |-> l.input, att |-> l.att, source |-> l.message, user |-> u,
                        status |-> "requested"]
  OBVIOUS
<1>4. row \in RegenRows /\ row.input \in Ids(messages) /\ row.status = "requested"
  BY <1>2, <1>3 DEF LinkRows, RegenRows, LinkFits
<1>5. WithRow(regenerations', regenerations, row)
  BY <1>3 DEF RequestRegeneration, WithRow
<1>6. /\ regenerations' \in Seq(RegenRows)
      /\ Len(regenerations') = Len(regenerations) + 1 /\ Len(regenerations) \in Nat
      /\ Ids(regenerations') = Ids(regenerations) \cup {Len(regenerations) + 1}
      /\ Len(regenerations) + 1 \notin Ids(regenerations)
      /\ \A g \in Ids(regenerations) : regenerations'[g] = regenerations[g]
      /\ regenerations'[Len(regenerations) + 1] = row
  BY <1>2, <1>4, <1>5, Added, IdsOf
<1>7. TablesTyped'
  BY <1>1, <1>6 DEF ChatInv, TablesTyped, captureVars
<1>8. Grows
  BY <1>1, <1>6, <1>7, TableIds DEF ChatInv, Grows, RowGrows, captureVars
<1>9. PICK c : c \notin calls'
  BY NoSetContainsEverything
<1>10. RowsMove(c)
  <2>1. ASSUME NEW t \in Turns, turn[t].stage = "idle" \/ turn[t].off
        PROVE  NoTrace(t)'
    BY <1>1, <2>1 DEF ChatInv, TurnsFit, TurnFits, NoTrace, captureVars
  <2> QED
    BY <1>1, <1>8, <2>1 DEF RowsMove
<1>11. TurnsMove
  BY <1>1, <1>7, <1>9, <1>10, QuietStep
<1>12. MessagesFit' /\ RegensFit'
  BY <1>1, <1>4, <1>6 DEF ChatInv, MessagesFit, RegensFit, captureVars
<1>13. AttachmentsFit'
  BY <1>1, <1>7, <1>8, AttachmentsKept DEF ChatInv
<1>14. LinksFit'
  <2>1. \A g \in Ids(regenerations') : regenerations'[g].status = "completed" <=>
          (g \in Ids(regenerations) /\ regenerations[g].status = "completed")
    BY <1>4, <1>6
  <2> QED
    BY <1>1, <1>7, <1>8, <1>11, <2>1, LinksKept DEF ChatInv, TurnsMove
<1> QED
  BY <1>7, <1>11, <1>12, <1>13, <1>14 DEF ChatInv, TurnsMove

\* Policy rows that change, with the turns that are switched on again.
LEMMA DefaultsStep ==
  ASSUME ChatInv,
         defaults' \in [chat : Default, user : [Users -> Default],
                        actor : [Users -> Default]],
         UNCHANGED <<profile, attachments, regenerations, captureVars, links, calls>>,
         turn' \in [Turns -> TurnRows],
         \A t \in Turns : /\ Advances(turn[t], turn'[t])
                          /\ TurnFits(t, turn'[t])
                          /\ turn'[t].off => SwitchedOff(turn[t].user)'
                          /\ turn'[t].user = turn[t].user
  PROVE  ChatInv'
<1>1. TablesTyped'
  BY DEF ChatInv, TablesTyped, captureVars
<1>2. Grows
  BY <1>1, TableIds DEF ChatInv, Grows, RowGrows, captureVars
<1>3. ASSUME NEW t \in Turns, NEW q, q = turn'[t] PROVE TurnFits(t, q)'
  <2>1. q \in TurnRows /\ TurnFits(t, q)
    BY <1>3
  <2>2. q.off => SwitchedOff(q.user)'
    BY <1>3
  <2>3. NoTrace(t)' <=> NoTrace(t)
    BY DEF NoTrace, captureVars
  <2>4. q.stage = "idle" \/ q.off => NoTrace(t)'
    BY <2>1, <2>3 DEF TurnFits
  <2> QED
    BY <1>1, <1>2, <2>1, <2>2, <2>4, TurnKept DEF ChatInv
<1>4. TurnsTyped' /\ CallsFit'
  BY <1>1, <1>2, CallsStep
<1>5. TurnsFit'
  BY <1>3 DEF TurnsFit
<1>6. MessagesFit' /\ RegensFit'
  BY DEF ChatInv, MessagesFit, RegensFit, captureVars
<1>7. AttachmentsFit'
  BY <1>1, <1>2, AttachmentsKept DEF ChatInv
<1>8. LinksFit'
  BY <1>1, <1>2, LinksKept DEF ChatInv
<1> QED
  BY <1>1, <1>4, <1>5, <1>6, <1>7, <1>8 DEF ChatInv

\* The chat's switch: switched off, the user's turns stay off.
LEMMA WorkflowStep ==
  ASSUME ChatInv, NEW u \in Users, NEW on \in BOOLEAN, UpdateWorkflow(u, on)
  PROVE  ChatInv'
<1>1. UNCHANGED <<profile, attachments, regenerations, captureVars, links, calls>>
  BY DEF UpdateWorkflow
<1>2. defaults \in [chat : Default, user : [Users -> Default], actor : [Users -> Default]]
  BY DEF ChatInv, TablesTyped
<1>3. ResolveActorChat(u).review \in BOOLEAN
  <2>1. SystemRow \in Rows
    BY DEF SystemRow, Rows, Policies
  <2>2. defaults.user[u] \in Default /\ defaults.actor[u] \in Default
    BY <1>2
  <2>3. ResolveActorChat(u) \in Rows
    BY <2>1, <2>2 DEF ResolveActorChat, Overriding, Default
  <2> QED
    BY <2>3 DEF Rows
<1>4. PICK row : row = [policy |-> IF on THEN "full" ELSE "private",
                        review |-> ResolveActorChat(u).review]
  OBVIOUS
<1>5. row \in Rows /\ row # Nobody /\ (~on => row.policy = "private")
  <2>1. row \in Rows
    BY <1>3, <1>4 DEF Rows, Policies
  <2> QED
    BY <1>4, <2>1, ControlAssumption
<1>6. defaults' = [defaults EXCEPT !.actor[u] = row]
  BY <1>4 DEF UpdateWorkflow, SetDefault
<1>7. /\ defaults' \in [chat : Default, user : [Users -> Default],
                        actor : [Users -> Default]]
      /\ \A v \in Users : defaults'.actor[v] = IF v = u THEN row ELSE defaults.actor[v]
  BY <1>2, <1>5, <1>6 DEF Default
<1>8. ASSUME NEW t \in Turns
      PROVE  /\ turn'[t] \in TurnRows /\ Advances(turn[t], turn'[t])
             /\ TurnFits(t, turn'[t]) /\ turn'[t].user = turn[t].user
             /\ turn'[t].off => SwitchedOff(turn[t].user)'
  <2>1. PICK r : r = turn[t]
    OBVIOUS
  <2>2. r \in TurnRows /\ TurnFits(t, r)
    BY <2>1 DEF ChatInv, TurnsTyped, TurnsFit
  <2>3. PICK off \in BOOLEAN : off = (r.off /\ ~(on /\ r.user = u))
    OBVIOUS
  <2>4. PICK q : q = [r EXCEPT !.off = off]
    OBVIOUS
  <2>5. turn'[t] = q
    BY <2>1, <2>3, <2>4 DEF UpdateWorkflow
  <2>6. /\ q \in TurnRows /\ q.stage = r.stage /\ q.id = r.id /\ q.user = r.user
        /\ q.approved = r.approved /\ q.regen = r.regen /\ q.policy = r.policy
        /\ q.input = r.input /\ q.att = r.att /\ q.injected = r.injected
        /\ q.fresh = r.fresh /\ q.off = off
    BY <2>2, <2>4 DEF TurnRows
  <2>7. off => r.off
    BY <2>3
  <2>8. Advances(r, q) /\ TurnFits(t, q)
    BY <2>2, <2>6, <2>7 DEF Advances, TurnFits
  <2>9. off => SwitchedOff(r.user)'
    <3> SUFFICES ASSUME off PROVE SwitchedOff(r.user)'
      OBVIOUS
    <3>1. SwitchedOff(r.user) /\ r.user \in Users /\ ~(on /\ r.user = u)
      BY <2>2, <2>3 DEF TurnFits
    <3> QED
      BY <1>5, <1>7, <3>1 DEF SwitchedOff
  <2> QED
    BY <2>1, <2>5, <2>6, <2>8, <2>9
<1>9. turn' \in [Turns -> TurnRows]
  BY <1>8 DEF UpdateWorkflow
<1> QED
  BY <1>1, <1>7, <1>8, <1>9, DefaultsStep

\* A default of the user or of the chat: no switch changes.
LEMMA SetPolicyStep ==
  ASSUME ChatInv, NEW u \in Users, NEW scope \in {"user", "chat"}, NEW row \in PolicyRows,
         SetPolicyDefault(u, scope, row)
  PROVE  ChatInv'
<1>1. UNCHANGED <<profile, attachments, regenerations, captureVars, links, calls, turn>>
  BY DEF SetPolicyDefault
<1>2. defaults \in [chat : Default, user : [Users -> Default], actor : [Users -> Default]]
  BY DEF ChatInv, TablesTyped
<1>3. row \in Default
  BY ControlAssumption DEF Default
<1>4. \/ defaults' = [defaults EXCEPT !.chat = row]
      \/ defaults' = [defaults EXCEPT !.user[u] = row]
  BY DEF SetPolicyDefault, SetDefault
<1>5. /\ defaults' \in [chat : Default, user : [Users -> Default],
                        actor : [Users -> Default]]
      /\ defaults'.actor = defaults.actor
  BY <1>2, <1>3, <1>4
<1>6. ASSUME NEW t \in Turns
      PROVE  /\ Advances(turn[t], turn'[t]) /\ TurnFits(t, turn'[t])
             /\ turn'[t].off => SwitchedOff(turn[t].user)'
             /\ turn'[t].user = turn[t].user
  <2>1. TurnFits(t, turn[t]) /\ turn' = turn
    BY <1>1 DEF ChatInv, TurnsFit
  <2>2. turn[t].off => SwitchedOff(turn[t].user)
    BY <2>1 DEF TurnFits
  <2> QED
    BY <1>5, <2>1, <2>2, AdvancesSelf DEF SwitchedOff
<1> QED
  BY <1>1, <1>5, <1>6, DefaultsStep DEF ChatInv, TurnsTyped

\* A source memory is corrected or erased.
LEMMA GovernStep ==
  ASSUME ChatInv, NEW a \in Ids(attachments), Govern(a)
  PROVE  ChatInv'
<1>1. UNCHANGED <<profile, defaults, regenerations, captureVars, links, calls, turn>>
  BY DEF Govern
<1>2. PICK old : old = attachments[a]
  OBVIOUS
<1>3. old \in AttachmentRows /\ RowFits(old)
  BY <1>2, TableRows DEF ChatInv, AttachmentsFit
<1>4. PICK state \in {"stale", "erased"} : attachments' = [attachments EXCEPT ![a].row = state]
  BY DEF Govern, MarkStale, Erase
<1>5. PICK row : row = [old EXCEPT !.row = state]
  OBVIOUS
<1>6. /\ row \in AttachmentRows /\ row.input = old.input /\ row.owner = old.owner
      /\ row.review = old.review /\ row.status = old.status /\ row.row = state
      /\ row.keys = old.keys /\ row.log = old.log
  BY <1>3, <1>5 DEF AttachmentRows
<1>7. RowFits(row) /\ RowGrows(old, row)
  BY <1>3, <1>6 DEF RowFits, RowGrows
<1>8. WithChange(attachments', attachments, a, row)
  BY <1>2, <1>4, <1>5 DEF WithChange, Ids
<1>9. PICK c : c \notin calls'
  BY NoSetContainsEverything
<1>10. /\ TablesTyped' /\ RowsMove(c) /\ AttachmentsFit'
       /\ \A b \in Ids(attachments') : attachments'[b].status = "used_for_response" <=>
            (b \in Ids(attachments) /\ attachments[b].status = "used_for_response")
  BY <1>1, <1>2, <1>6, <1>7, <1>8, ChangeStep
<1>11. TurnsMove
  BY <1>1, <1>9, <1>10, QuietStep
<1> QED
  BY <1>1, <1>10, <1>11, AttachmentRest

-----------------------------------------------------------------------------
(* The invariant.                                                          *)

\* Nothing is stored, and no turn has begun.
LEMMA InitInv ==
  ASSUME Init
  PROVE  ChatInv
<1>1. \A S : <<>> \in Seq(S) /\ Len(<<>>) = 0 /\ Ids(<<>>) = {}
  BY DEF Ids
<1>2. defaults \in [chat : Default, user : [Users -> Default], actor : [Users -> Default]]
  <2>1. OffRow \in Default /\ Nobody \in Default /\ PolicyRows \subseteq Default
    BY ControlAssumption DEF OffRow, Default, Rows, Policies
  <2> QED
    BY <2>1 DEF Init
<1>3. TablesTyped
  BY <1>1, <1>2 DEF Init, TablesTyped
<1>4. turn \in [Turns -> TurnRows] /\ calls = {}
  BY Fresh DEF Init
<1>5. MessagesFit /\ AttachmentsFit /\ RegensFit /\ LinksFit
  BY <1>1 DEF Init, MessagesFit, AttachmentsFit, RegensFit, LinksFit
<1>6. ASSUME NEW t \in Turns, NEW r, r = turn[t] PROVE TurnFits(t, r)
  <2>1. r = NoTurn(t)
    BY <1>6 DEF Init
  <2>2. /\ r.stage = "idle" /\ r.id = t /\ ~r.off /\ r.injected = 0 /\ r.att = 0
        /\ r.approved = 0 /\ r.regen = 0 /\ r.input = 0
    BY <2>1 DEF NoTurn
  <2>3. NoTrace(t)
    BY <1>1 DEF Init, NoTrace
  <2>4. Len(attachments) = 0 /\ Len(messages) = 0 /\ Len(regenerations) = 0
    BY <1>1 DEF Init
  <2> QED
    BY <2>2, <2>3, <2>4 DEF TurnFits
<1>7. TurnsFit
  BY <1>6 DEF TurnsFit
<1> QED
  BY <1>3, <1>4, <1>5, <1>7 DEF ChatInv, TurnsTyped, CallsFit

\* No step of a handler breaks the invariant.
LEMMA HandleInv ==
  ASSUME ChatInv, NEW c \in calls, Handle(c)
  PROVE  ChatInv'
<1>1. CASE ResolvePolicy(c)
  BY <1>1, PolicyStep
<1>2. CASE /\ ResolveSession(c) \/ ResolveSessionLite(c)
              \/ ReadAliasFull(c) \/ ResolveSessionFull(c)
           /\ UNCHANGED <<profile, controlVars, links, spent>>
  BY <1>2, SessionSteps
<1>3. CASE /\ CapturePolicy(c) \/ CaptureFull(c)
              \/ CaptureLite(c) \/ RecordContract(c)
           /\ UNCHANGED <<profile, controlVars, links, spent>>
  BY <1>3, CaptureSteps
<1>4. CASE Preview(c)
  BY <1>4, PreviewStep
<1>5. CASE PreflightNothing(c)
  BY <1>5, NothingStep
<1>6. CASE PreflightFull(c)
  BY <1>6, PreflightFullStep
<1>7. CASE PreflightBuild(c)
  BY <1>7, PreflightBuildStep
<1>8. CASE PreflightOwn(c)
  BY <1>8, PreflightOwnStep
<1>9. CASE TransitionRead(c)
  BY <1>9, TransitionReadStep
<1>10. CASE TransitionSwap(c)
  BY <1>10, TransitionSwapStep
<1>11. CASE Complete(c)
  BY <1>11, CompleteStep
<1> QED
  BY <1>1, <1>2, <1>3, <1>4, <1>5, <1>6, <1>7, <1>8, <1>9, <1>10, <1>11 DEF Handle

\* A step that changes nothing keeps the invariant.
LEMMA StutterInv ==
  ASSUME ChatInv, UNCHANGED vars
  PROVE  ChatInv'
<1>1. UNCHANGED <<profile, serverVars>> /\ turn' = turn /\ calls' = calls
  BY DEF vars, controlVars, serverVars, captureVars
<1>2. PICK c : c \notin calls'
  BY NoSetContainsEverything
<1>3. TablesTyped' /\ RowsMove(c)
  BY <1>1, StillRows
<1>4. TurnsMove
  BY <1>1, <1>2, <1>3, QuietStep
<1> QED
  BY <1>1, <1>4, StillStep

\* Every step keeps the invariant.
LEMMA NextInv ==
  ASSUME ChatInv, [Next]_vars
  PROVE  ChatInv'
<1>1. ASSUME NEW t \in Turns,
             \/ SendMessage(t) \/ PrepareReview(t) \/ SendReviewed(t)
             \/ SendWithout(t) \/ SendRegeneration(t)
      PROVE  ChatInv'
  BY <1>1, BeginSteps
<1>2. ASSUME NEW t \in Turns, Outlet(t) PROVE ChatInv'
  BY <1>2, OutletStep
<1>3. ASSUME NEW t \in Turns, GiveUp(t) PROVE ChatInv'
  BY <1>3, GiveUpStep
<1>4. ASSUME NEW c \in calls, Handle(c) PROVE ChatInv'
  BY <1>4, HandleInv
<1>5. ASSUME NEW u \in Users, NEW a \in Ids(attachments),
             NEW to \in {"approved", "suppressed", "cancelled_before_send",
                         "user_rejected"},
             UiTransition(u, a, to)
      PROVE  ChatInv'
  BY <1>5, UiStep
<1>6. ASSUME NEW u \in Users, NEW l \in links, RequestRegeneration(u, l) PROVE ChatInv'
  BY <1>6, RegenerationStep
<1>7. ASSUME NEW u \in Users, NEW on \in BOOLEAN, UpdateWorkflow(u, on) PROVE ChatInv'
  BY <1>7, WorkflowStep
<1>8. ASSUME NEW u \in Users, NEW scope \in {"user", "chat"}, NEW row \in PolicyRows,
             SetPolicyDefault(u, scope, row)
      PROVE  ChatInv'
  BY <1>8, SetPolicyStep
<1>9. ASSUME NEW a \in Ids(attachments), Govern(a) PROVE ChatInv'
  BY <1>9, GovernStep
<1>10. CASE CrashCore
  BY <1>10, CrashStep
<1>11. CASE UNCHANGED vars
  BY <1>11, StutterInv
<1> QED
  BY <1>1, <1>2, <1>3, <1>4, <1>5, <1>6, <1>7, <1>8, <1>9, <1>10, <1>11 DEF Next

\* The invariant holds throughout.
LEMMA ChatInvHolds == Spec => []ChatInv
<1>1. Init => ChatInv
  BY InitInv
<1>2. ChatInv /\ [Next]_vars => ChatInv'
  BY NextInv
<1> QED
  BY <1>1, <1>2, PTL DEF Spec

-----------------------------------------------------------------------------
(* What the invariant says.                                                *)

\* The variables have their types throughout.
THEOREM ChatTypesHold == Spec => []TypeOK
<1>1. ChatInv => TypeOK
  <2> SUFFICES ASSUME ChatInv PROVE TypeOK
    OBVIOUS
  <2>1. ControlTypeOK
    <3>1. defaults.chat \in Default /\ \A u \in Users : {defaults.user[u], defaults.actor[u]}
                                                          \subseteq Default
      BY DEF ChatInv, TablesTyped
    <3>2. ASSUME NEW a \in Ids(attachments), NEW x, x = attachments[a]
          PROVE  /\ x.owner \in Users \cup {Nobody} /\ x.status \in Lifecycle
                 /\ x.row \in {"active", "stale", "erased"} /\ x.review \in BOOLEAN
      BY <3>2, TableRows DEF ChatInv, AttachmentRows
    <3>3. ASSUME NEW g \in Ids(regenerations), NEW x, x = regenerations[g]
          PROVE  x.status \in {"requested", "completed"}
      BY <3>3, TableRows DEF ChatInv, RegenRows
    <3>4. ASSUME NEW c \in calls PROVE CallTypeOK(c)
      BY Sender DEF CallRows, CallFits, CallTypeOK
    <3> QED
      BY <3>1, <3>2, <3>3, <3>4 DEF ControlTypeOK, ChatInv, TablesTyped, Default
  <2>2. CaptureTypeOK
    <3>1. ASSUME NEW s \in Ids(sessions), NEW x, x = sessions[s] PROVE x.owner \in Users
      BY <3>1, TableRows DEF ChatInv, SessionRows
    <3>2. ASSUME NEW m \in Ids(messages), NEW x, x = messages[m]
          PROVE  x.role \in {"user", "assistant"} /\ x.contract.policy \in Policies
      BY <3>2, TableRows DEF ChatInv, MessageRows, ContractRows
    <3> QED
      BY <3>1, <3>2 DEF CaptureTypeOK, ChatInv, MessagesFit
  <2>3. ASSUME NEW t \in Turns
        PROVE  /\ turn[t].stage \in ServerOps \cup {"idle", "answering", "unrecorded", "done"}
               /\ turn[t].kind \in {"send", "prepare", "resend", "without", "regenerate"}
               /\ turn[t].injected \in 0 .. Len(attachments)
               /\ turn[t].input \in {Unknown} \cup 0 .. Len(messages)
    <3>1. PICK r : r = turn[t]
      OBVIOUS
    <3>2. r \in TurnRows /\ TurnFits(t, r)
      BY <3>1 DEF ChatInv, TurnsTyped, TurnsFit
    <3>3. r.injected \in 0 .. Len(attachments)
      BY <3>2, IdsOf DEF TurnFits, ClearedFor, ChatInv, TablesTyped
    <3> QED
      BY <3>1, <3>2, <3>3 DEF TurnRows, Stages, Kinds, TurnFits
  <2>4. ASSUME NEW l \in links
        PROVE  /\ l.input \in Ids(messages) /\ l.message \in Ids(messages)
               /\ l.att \in 0 .. Len(attachments)
    BY DEF ChatInv, LinksFit, LinkFits
  <2> QED
    BY <2>1, <2>2, <2>3, <2>4 DEF TypeOK
<1> QED
  BY <1>1, ChatInvHolds, PTL

\* The private guarantee: a turn that began while the user's switch was off
\* leaves nothing, whatever its request wishes and whichever call is lost.
THEOREM PrivateTurns == Spec => []PrivateTurnLeavesNothing
<1>1. ChatInv => PrivateTurnLeavesNothing
  BY DEF ChatInv, TurnsFit, TurnFits, NoTrace, PrivateTurnLeavesNothing
<1> QED
  BY <1>1, ChatInvHolds, PTL

\* Context that reached the model was delivered to this user for this
\* message, reviewed where the contract asks for it, under a contract that
\* allows recall, and fresh when its delivery was asked for.
THEOREM InjectedContext == Spec => []InjectedContextIsCleared
<1>1. ChatInv => InjectedContextIsCleared
  <2> SUFFICES ASSUME ChatInv, NEW t \in Turns, turn[t].injected # 0, NEW r, r = turn[t],
                      NEW a, a = attachments[r.injected]
               PROVE  /\ a.owner = r.user /\ a.input = r.input
                      /\ a.status \in {"delivered", "used_for_response"}
                      /\ a.review => Contains(a.log, "approved")
                      /\ messages[a.input].contract.policy = "full"
                      /\ messages[a.input].contract.user = r.user
                      /\ messages[a.input].contract.review = a.review
                      /\ r.fresh
    BY DEF InjectedContextIsCleared
  <2>1. TurnFits(t, r) /\ r.stage # "idle" /\ r.fresh /\ ClearedFor(r.injected, r.user, r.input)
    BY DEF ChatInv, TurnsFit, TurnFits, AfterInlet, AfterOutlet
  <2>2. /\ r.user \in Users /\ r.user # Nobody /\ r.injected \in Ids(attachments)
        /\ a.owner = r.user /\ a.input = r.input /\ a.status \in Delivered
    BY <2>1, ControlAssumption DEF TurnFits, ClearedFor
  <2>3. RowFits(a)
    BY <2>2 DEF ChatInv, AttachmentsFit
  <2> QED
    BY <2>1, <2>2, <2>3 DEF RowFits, Delivered
<1> QED
  BY <1>1, ChatInvHolds, PTL

\* The lifecycle events of an attachment tell one legal history that ends
\* with its status, however the Filter and the interface race.
THEOREM LifecycleLogs == Spec => []LifecycleLogIsAPath
<1>1. ChatInv => LifecycleLogIsAPath
  <2>1. ASSUME ChatInv, NEW a \in Ids(attachments), attachments[a].owner # Nobody
        PROVE  PathTo(attachments[a].log, attachments[a].status)
    BY <2>1 DEF ChatInv, AttachmentsFit, RowFits
  <2> QED
    BY <2>1 DEF LifecycleLogIsAPath, PathTo
<1> QED
  BY <1>1, ChatInvHolds, PTL

\* A set in which any two members are the same has one member, or none.
LEMMA AtMostOne ==
  ASSUME NEW S, \A x, y \in S : x = y
  PROVE  Cardinality(S) <= 1 /\ (Cardinality(S) = 1 <=> S # {})
<1>1. CASE S = {}
  BY <1>1, FS_EmptySet
<1>2. CASE S # {}
  <2>1. PICK x \in S : S = {x}
    BY <1>2
  <2> QED
    BY <1>2, <2>1, FS_Singleton
<1> QED
  BY <1>1, <1>2

\* Every attachment is used for one answer, every regeneration ends with
\* one, and no answer of a turn is recorded twice; every message is queued.
THEOREM RequestsAreAnsweredOnce == Spec => []OneAnswerPerRequest
<1>1. ChatInv => OneAnswerPerRequest
  <2> SUFFICES ASSUME ChatInv PROVE OneAnswerPerRequest
    OBVIOUS
  <2>1. \A l \in links : LinkFits(l) /\ l.turn \in Turns
    BY DEF ChatInv, LinksFit, TablesTyped, LinkRows
  <2>2. ASSUME NEW a \in Ids(attachments), NEW used, used = {l \in links : l.att = a}
        PROVE  /\ attachments[a].status = "used_for_response" <=> Cardinality(used) = 1
               /\ Cardinality(used) <= 1
               /\ \A l \in used : turn[l.turn].injected = a
    <3>1. a # 0
      BY IdsOf DEF ChatInv, TablesTyped
    <3>2. \A k, l \in used : k = l
      BY <2>2, <3>1 DEF ChatInv, LinksFit
    <3>3. attachments[a].status = "used_for_response" <=> used # {}
      BY <2>1, <2>2, <3>1 DEF ChatInv, LinksFit, LinkFits
    <3>4. \A l \in used : turn[l.turn].injected = a
      BY <2>1, <2>2 DEF LinkFits
    <3> QED
      BY <3>2, <3>3, <3>4, AtMostOne
  <2>3. ASSUME NEW g \in Ids(regenerations), NEW ends, ends = {l \in links : l.regen = g}
        PROVE  /\ regenerations[g].status = "completed" <=> Cardinality(ends) = 1
               /\ Cardinality(ends) <= 1
               /\ \A l \in ends : l.att = 0
    <3>1. g # 0
      BY IdsOf DEF ChatInv, TablesTyped
    <3>2. \A k, l \in ends : k = l
      BY <2>3, <3>1 DEF ChatInv, LinksFit
    <3>3. regenerations[g].status = "completed" <=> ends # {}
      BY <2>1, <2>3, <3>1 DEF ChatInv, LinksFit, LinkFits
    <3>4. \A l \in ends : l.att = 0
      BY <2>1, <2>3, <3>1 DEF LinkFits
    <3> QED
      BY <3>2, <3>3, <3>4, AtMostOne
  <2>4. \A k, l \in links : (k.turn = l.turn /\ k.input = l.input) => k = l
    BY DEF ChatInv, LinksFit
  <2>5. queued = Ids(messages)
    BY DEF ChatInv, MessagesFit
  <2> QED
    <3>1. ASSUME NEW a \in Ids(attachments)
          PROVE  LET used == {l \in links : l.att = a} IN
                 /\ attachments[a].status = "used_for_response" <=> Cardinality(used) = 1
                 /\ Cardinality(used) <= 1
                 /\ \A l \in used : turn[l.turn].injected = a
      <4>1. PICK used : used = {l \in links : l.att = a}
        OBVIOUS
      <4> QED
        BY <2>2, <4>1
    <3>2. ASSUME NEW g \in Ids(regenerations)
          PROVE  LET ends == {l \in links : l.regen = g} IN
                 /\ regenerations[g].status = "completed" <=> Cardinality(ends) = 1
                 /\ Cardinality(ends) <= 1
                 /\ \A l \in ends : l.att = 0
      <4>1. PICK ends : ends = {l \in links : l.regen = g}
        OBVIOUS
      <4> QED
        BY <2>3, <4>1
    <3> QED
      BY <2>4, <2>5, <3>1, <3>2, Zenon DEF OneAnswerPerRequest
<1> QED
  BY <1>1, ChatInvHolds, PTL
=============================================================================
