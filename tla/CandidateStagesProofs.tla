------------------------ MODULE CandidateStagesProofs ------------------------
(***************************************************************************)
(* Proofs about CandidateStages and ModelControl, for any profiles,        *)
(* configurations, workers and bounds: the records of a candidate agree, a *)
(* verdict is never loosened, a provider is called only as it was          *)
(* approved, and one edit never mislabels an answer.                       *)
(***************************************************************************)
EXTENDS CandidateStages, WellFoundedInduction, TLAPS

Steps == {"idle", "begin", "resolve", "send", "answer", "persist", "apply", "store", "outbox",
          "project", "finish", "complete"}
Stages == Structured \cup {"embedding"}
Outs == (UNION {Answers[s] : s \in Structured}) \cup {Rules[s] : s \in Structured}
          \cup {"vector", None}
Results == {"ok", "abstained", "failed_open"}
Models == {ModelName[c] : c \in Confs} \cup {"deterministic", "disabled"}
Resolutions == [profile : Profiles \cup {None}, role : Roles, scope : Scope \cup {None},
                kind : {"provider", "deterministic", "disabled"}, model : Models]
Calls == [conf : Confs \cup {None}, approved : BOOLEAN, edited : BOOLEAN]
WorkerStates ==
    [at : Steps, stage : Stages \cup {None}, known : Statuses \cup {None},
     res : Resolutions \cup {None}, seen : Nat, exists : BOOLEAN, attempt : Nat, call : Calls,
     status : Results \cup {None}, out : Outs, by : Confs \cup {None}, edits : Nat]
StageRows ==
    [stage : Stages, res : Resolutions, attempt : Nat, status : Results \cup {None}, out : Outs,
     by : Confs \cup {None}, edits : Nat, execution : Outs, usage : Results \cup {None}]

(* The requests of the administrator in flight.                            *)
Events == [fp : (Roles \X Confs \X BOOLEAN) \cup {None}, probed : Confs \cup {None},
           ok : BOOLEAN, keyed : BOOLEAN]
Tests == [profile : Profiles, row : Rows, keyed : BOOLEAN]
Assignments == [step : {"set", "remove"}, role : Roles, scope : Scope,
                profile : Profiles \cup {None}, previous : Profiles \cup {None}]

RequestsPlaced ==
    /\ health \in [Profiles -> Events]
    /\ tester = NoTest \/ tester \in Tests
    /\ tester # NoTest => profiles[tester.profile] # None /\ changes <= MaxChanges
    /\ assigner = NoAssign \/ assigner \in Assignments
    /\ assigner.step = "set" => assigner.profile # None /\ profiles[assigner.profile] # None

ModelInv == ModelTypeOK /\ RequestsPlaced

(* The stages.                                                             *)
StageTypes ==
    /\ edition \in {"lite", "full"}
    /\ candidate \in [status : Statuses, high : BOOLEAN]
    /\ memory \in BOOLEAN
    /\ outbox \in [status : {"none", "pending", "running", "succeeded", "skipped"}, attempts : Nat]
    /\ vectors \subseteq [model : Models, by : Confs \cup {None}, edits : Nat]
    /\ rows \subseteq StageRows
    /\ facts \in [units : BOOLEAN, gates : BOOLEAN, execution : Extractions \cup {None},
                  stage : Extractions \cup {None}, usage : Results \cup {None},
                  annotations : Extractions \cup {None}, analyses : Extractions \cup {None}]
    /\ run \in {"none", "running", "failed", "succeeded"} /\ job \in {"open", "done"}
    /\ lease \in Workers \cup {None} /\ claims \in 0 .. MaxClaims
    /\ w \in [Workers -> WorkerStates]

(* Before the candidate is stored.                                         *)
Judging(s) ==
    \/ s.at \in {"resolve", "send", "answer", "persist", "apply"} /\ s.stage \in Structured
    \/ s.at = "store"

(* The worker that holds the lease goes by the row as it is.               *)
KnowsTheRow == \A x \in Workers : lease = x /\ Judging(w[x]) => w[x].known = candidate.status

(* An attempt of the job counts at most one attempt of the embedding.      *)
Unprojected(s) == Judging(s) \/ s.at \in {"begin", "outbox", "project"}

AttemptsCounted ==
    /\ outbox.attempts <= claims
    /\ \A x \in Workers : lease = x /\ Unprojected(w[x]) => outbox.attempts < claims

VectorsStay ==
    /\ outbox.status = "succeeded" => vectors # {}
    /\ \A x \in Workers : w[x].exists => vectors # {}

RowsAgree ==
    /\ facts.stage = facts.annotations /\ facts.execution = facts.annotations
    /\ \A r1, r2 \in rows :
          <<r1.stage, r1.res, r1.attempt>> = <<r2.stage, r2.res, r2.attempt>> => r1 = r2

(* Between resolution and answer: without an administrator step since, the *)
(* profile is the one that was resolved, certified and acknowledged; one   *)
(* step that gave it another model has made its certification stale.       *)
Drifts(s) ==
    LET p == s.res.profile
        since == changes - s.seen
    IN  /\ p \in Profiles /\ profiles[p] # None /\ s.seen <= changes
        /\ since = 0 => /\ Certified(p) /\ Acknowledged(profiles[p])
                        /\ ModelName[profiles[p].conf] = s.res.model
        /\ since = 1 /\ ModelName[profiles[p].conf] # s.res.model =>
              SelfCertified(s.res.model, profiles[p].conf) \/ ~Certified(p)

(* The call went to the configuration the profile had at that moment.      *)
Called(s) ==
    LET p == s.res.profile
        since == changes - s.seen
    IN  s.call = NoCall \/
        /\ s.call.conf \in Confs
        /\ s.call.approved \/ s.call.edited
        /\ since = 0 => ModelName[s.call.conf] = s.res.model
        /\ since = 1 /\ ModelName[s.call.conf] # s.res.model => profiles[p].conf = s.call.conf

Faithfully(model, by, edits) ==
    by = None \/ ModelName[by] = model \/ SelfCertified(model, by) \/ edits >= 2

(* A worker in an invocation: it has its stage, a resolution from then on, *)
(* has followed what happens to the profile, and carries a true label.     *)
Fits(s) ==
    /\ s.at \in {"resolve", "send", "answer", "persist", "apply"} => s.stage \in Stages
    /\ s.at \in {"send", "answer", "persist", "apply"} => s.res \in Resolutions
    /\ s.at \notin {"persist", "apply"} => s.by = None
    /\ s.at \in {"send", "answer"} => Drifts(s)
    /\ s.at = "answer" => Called(s)
    /\ s.at \in {"persist", "apply"} => Faithfully(s.res.model, s.by, s.edits)

WorkersFit == \A x \in Workers : Fits(w[x])

LabelsHold ==
    /\ \A r \in rows : Faithfully(r.res.model, r.by, r.edits)
    /\ \A v \in vectors : Faithfully(v.model, v.by, v.edits)

StagesInv ==
    /\ ModelInv /\ StageTypes /\ WorkersFit
    /\ KnowsTheRow /\ AttemptsCounted /\ VectorsStay /\ RowsAgree /\ LabelsHold
-----------------------------------------------------------------------------
(* The administrator.                                                      *)

(* A set of scopes has a most specific one.                                *)
LEMMA SmallestScope ==
    ASSUME NEW T, T \subseteq Scope, T # {}
    PROVE  \E s \in T : \A t \in T : s <= t
<1>1. T \subseteq Nat
  BY ModelControlAssumption DEF Scope
<1>2. PICK s \in T : \A t \in T : ~(<<t, s>> \in OpToRel(<, Nat))
  BY <1>1, NatLessThanWellFounded, WFMin
<1>3. \A t \in T : ~(t < s)
  BY <1>1, <1>2 DEF OpToRel
<1> QED BY <1>1, <1>3

(* The default of a role is a profile that exists, or none.                *)
LEMMA DefaultTyped ==
    ASSUME ModelInv, NEW role \in Roles
    PROVE  /\ ApplyingScope(role) \in Scope \cup {None}
           /\ ResolveDefault(role) \in Profiles \cup {None}
           /\ ResolveDefault(role) # None => profiles[ResolveDefault(role)] # None
<1> DEFINE set == {s \in Scope : defaults[role][s] # None}
<1>1. CASE set = {}
  BY <1>1 DEF ApplyingScope, ResolveDefault
<1>2. CASE set # {}
  <2>1. \E s \in set : \A t \in set : s <= t
    BY <1>2, SmallestScope
  <2>2. ApplyingScope(role) \in set
    BY <1>2, <2>1 DEF ApplyingScope
  <2> QED BY <2>2 DEF ResolveDefault, ModelInv, ModelTypeOK
<1> QED BY <1>1, <1>2

(* What a role resolves to: a usable profile as it is now, or the built-in *)
(* of the role.                                                            *)
LEMMA ResolveTyped ==
    ASSUME ModelInv, NEW role \in Roles
    PROVE  LET res == Resolve(role) p == res.profile IN
           /\ res \in Resolutions
           /\ p # None => /\ p \in Profiles /\ profiles[p] # None /\ profiles[p] \in Rows
                          /\ Certified(p) /\ Acknowledged(profiles[p])
                          /\ res.kind = Kind[profiles[p].conf]
                          /\ res.model = ModelName[profiles[p].conf]
           /\ p = None => res.kind = BuiltIn[role]
<1> DEFINE res == Resolve(role)
<1>1. ASSUME NEW r \in Roles, NEW p \in Profiles, profiles[p] # None, Usable(p, r)
      PROVE  /\ FromProfile(p, r) \in Resolutions
             /\ profiles[p] \in Rows
             /\ FromProfile(p, r).profile = p
             /\ Certified(p) /\ Acknowledged(profiles[p])
             /\ FromProfile(p, r).kind = Kind[profiles[p].conf]
             /\ FromProfile(p, r).model = ModelName[profiles[p].conf]
  <2>1. profiles[p] \in Rows /\ profiles[p].conf \in Confs
    BY <1>1 DEF ModelInv, ModelTypeOK, Rows
  <2>2. ApplyingScope(r) \in Scope \cup {None}
    BY DefaultTyped
  <2>3. Kind[profiles[p].conf] \in {"provider", "deterministic", "disabled"}
        /\ ModelName[profiles[p].conf] \in Models
    BY <2>1, ModelControlAssumption DEF Models
  <2> QED BY <1>1, <2>1, <2>2, <2>3 DEF FromProfile, Resolutions, Usable
<1>2. FromBuiltIn(role) \in Resolutions /\ FromBuiltIn(role).profile = None
      /\ FromBuiltIn(role).kind = BuiltIn[role]
  <2>1. BuiltIn[role] \in {"disabled", "deterministic"}
    BY DEF BuiltIn
  <2> QED BY <2>1 DEF FromBuiltIn, Resolutions, Models
<1>3. Inherited[role] \in Roles \cup {None}
  BY DEF Inherited, Roles
<1>4. ResolveDefault(None) = None
  BY DEF ResolveDefault
<1>5. CASE ResolveDefault(role) # None /\ Usable(ResolveDefault(role), role)
  <2>1. res = FromProfile(ResolveDefault(role), role)
    BY <1>5 DEF Resolve
  <2>2. ResolveDefault(role) \in Profiles /\ profiles[ResolveDefault(role)] # None
    BY <1>5, DefaultTyped
  <2> QED BY <1>1, <1>5, <2>1, <2>2, ModelControlAssumption
<1>6. CASE /\ ~(ResolveDefault(role) # None /\ Usable(ResolveDefault(role), role))
           /\ ResolveDefault(Inherited[role]) # None
           /\ Usable(ResolveDefault(Inherited[role]), Inherited[role])
  <2> DEFINE q == ResolveDefault(Inherited[role])
  <2>1. res = FromProfile(q, Inherited[role])
    BY <1>6 DEF Resolve
  <2>2. Inherited[role] \in Roles
    BY <1>3, <1>4, <1>6
  <2>3. q \in Profiles /\ profiles[q] # None
    BY <1>6, <2>2, DefaultTyped
  <2> QED BY <1>1, <1>6, <2>1, <2>2, <2>3, ModelControlAssumption
<1>7. CASE /\ ~(ResolveDefault(role) # None /\ Usable(ResolveDefault(role), role))
           /\ ~(/\ ResolveDefault(Inherited[role]) # None
                /\ Usable(ResolveDefault(Inherited[role]), Inherited[role]))
  <2>1. res = FromBuiltIn(role)
    BY <1>7 DEF Resolve
  <2> QED BY <1>2, <2>1
<1> QED BY <1>5, <1>6, <1>7

(* A patched row is a row, whatever the request leaves out.                *)
LEMMA PatchedTyped ==
    ASSUME NEW row \in Rows, NEW b \in Creations \cup Patches
    PROVE  Patched(row, b) \in Rows
BY ModelControlAssumption DEF Patched, Given, Rows

(* A request changes profiles or the health events, never both, and counts *)
(* when it does.                                                           *)
LEMMA AdministerStep ==
    ASSUME ModelInv, Administer
    PROVE  /\ ModelInv'
           /\ changes' = changes \/ changes' = changes + 1
           /\ changes' = changes => profiles' = profiles /\ health' = health
           /\ profiles' = profiles \/ health' = health
           /\ \A p \in Profiles : profiles[p] # None => profiles'[p] # None
<1> USE DEF ModelInv
<1> DEFINE Goal == /\ ModelInv'
                   /\ changes' = changes \/ changes' = changes + 1
                   /\ changes' = changes => profiles' = profiles /\ health' = health
                   /\ profiles' = profiles \/ health' = health
                   /\ \A p \in Profiles : profiles[p] # None => profiles'[p] # None
<1>1. changes \in Nat /\ profiles \in [Profiles -> Rows \cup {None}]
  BY ModelControlAssumption DEF ModelTypeOK
<1>2. ASSUME NEW p \in Profiles, NEW row \in Rows, profiles' = [profiles EXCEPT ![p] = row],
             Request, UNCHANGED <<health, defaults, records, tester, assigner>>
      PROVE  Goal
  <2>1. /\ profiles' \in [Profiles -> Rows \cup {None}]
        /\ \A q \in Profiles : profiles[q] # None => profiles'[q] # None
    BY <1>1, <1>2, ModelControlAssumption
  <2>2. changes' = changes + 1 /\ changes' \in 0 .. MaxChanges + 1 /\ changes' <= MaxChanges
    BY <1>1, <1>2, ModelControlAssumption DEF Request
  <2>3. ModelTypeOK'
    BY <1>2, <2>1, <2>2 DEF ModelTypeOK
  <2>4. RequestsPlaced'
    BY <1>2, <2>1, <2>2 DEF RequestsPlaced, Tests, Assignments, NoTest, NoAssign
  <2> QED BY <1>1, <1>2, <2>1, <2>2, <2>3, <2>4
<1>3. ASSUME NEW p \in Profiles, NEW b \in Creations, CreateProfile(p, b) PROVE Goal
  <2>1. NewProfile(b) \in Rows
    BY ModelControlAssumption DEF NewProfile, Rows
  <2>2. profiles[p] # None => Patched(profiles[p], b) \in Rows
    BY <1>1, PatchedTyped
  <2>3. \E row \in Rows : profiles' = [profiles EXCEPT ![p] = row]
    BY <1>1, <1>3, <2>1, <2>2 DEF CreateProfile
  <2> QED BY <1>2, <1>3, <2>3 DEF CreateProfile
<1>4. ASSUME NEW p \in Profiles, NEW b \in Patches, PatchProfile(p, b) PROVE Goal
  <2>1. Patched(profiles[p], b) \in Rows
    BY <1>1, <1>4, PatchedTyped DEF PatchProfile
  <2>2. profiles' = [profiles EXCEPT ![p] = Patched(profiles[p], b)]
    BY <1>1, <1>4 DEF PatchProfile
  <2> QED BY <1>2, <1>4, <2>1, <2>2 DEF PatchProfile
<1>5. ASSUME NEW p \in Profiles, AcknowledgePrivacy(p) PROVE Goal
  <2>1. WithAcknowledgement(profiles[p]) \in Rows
    BY <1>1, <1>5 DEF AcknowledgePrivacy, WithAcknowledgement, Rows
  <2>2. profiles' = [profiles EXCEPT ![p] = WithAcknowledgement(profiles[p])]
    BY <1>1, <1>5 DEF AcknowledgePrivacy
  <2> QED BY <1>2, <1>5, <2>1, <2>2 DEF AcknowledgePrivacy
<1>6. ASSUME NEW p \in Profiles, NEW keyed \in Keyed, StartTest(p, keyed) PROVE Goal
  <2> USE <1>6 DEF StartTest, Request
  <2>1. tester' \in Tests /\ tester'.profile = p /\ profiles[p] # None
    BY <1>1, ModelControlAssumption DEF Tests
  <2>2. changes' = changes + 1 /\ changes' \in 0 .. MaxChanges + 1 /\ changes' <= MaxChanges
    BY <1>1, ModelControlAssumption
  <2>3. ModelTypeOK'
    BY <2>1, <2>2 DEF ModelTypeOK
  <2>4. RequestsPlaced'
    BY <2>1, <2>2 DEF RequestsPlaced
  <2> QED BY <1>1, <2>2, <2>3, <2>4
<1>7. ASSUME NEW p \in Profiles, NEW s \in Scope, CheckDefault(p, s) PROVE Goal
  <2> USE <1>7 DEF CheckDefault, Request
  <2>1. profiles[p] \in Rows /\ profiles[p].role \in Roles
    BY <1>1 DEF Assignable, Rows
  <2>2. assigner' \in Assignments /\ assigner'.profile = p /\ p # None /\ profiles[p] # None
    BY <2>1, DefaultTyped, ModelControlAssumption DEF Assignments, Assignable
  <2>3. changes' = changes + 1 /\ changes' \in 0 .. MaxChanges + 1 /\ changes' <= MaxChanges
    BY <1>1, ModelControlAssumption
  <2>4. ModelTypeOK'
    BY <2>2, <2>3 DEF ModelTypeOK, Assignments
  <2>5. RequestsPlaced'
    BY <2>2, <2>3 DEF RequestsPlaced
  <2> QED BY <1>1, <2>3, <2>4, <2>5
<1>8. ASSUME NEW r \in Declarable, NEW s \in Scope, CheckRemoval(r, s) PROVE Goal
  <2> USE <1>8 DEF CheckRemoval, Request
  <2>1. assigner' \in Assignments /\ assigner'.step = "remove"
    BY DefaultTyped, ModelControlAssumption DEF Assignments
  <2>2. changes' = changes + 1 /\ changes' \in 0 .. MaxChanges + 1 /\ changes' <= MaxChanges
    BY <1>1, ModelControlAssumption
  <2>3. ModelTypeOK'
    BY <2>1, <2>2 DEF ModelTypeOK, Assignments
  <2>4. RequestsPlaced'
    BY <2>1, <2>2 DEF RequestsPlaced
  <2> QED BY <1>1, <2>2, <2>3, <2>4
<1>9. CASE RecordHealthEvent
  <2> USE <1>9 DEF RecordHealthEvent
  <2> DEFINE p == tester.profile
  <2>1. tester \in Tests /\ p \in Profiles /\ profiles[p] \in Rows /\ changes <= MaxChanges
    BY <1>1 DEF RequestsPlaced, NoTest, Tests
  <2>2. health' \in [Profiles -> Events]
    <3>1. \A ok \in BOOLEAN : Event(p, ok) \in Events
      BY <2>1 DEF Event, Events, Fingerprint, Rows, Tests, RequestsPlaced
    <3>2. health' = health \/ \E ok \in BOOLEAN : health' = [health EXCEPT ![p] = Event(p, ok)]
      OBVIOUS
    <3> HIDE DEF RecordHealthEvent
    <3> QED BY <2>1, <3>1, <3>2 DEF RequestsPlaced
  <2>3. changes' = changes + 1 /\ changes' \in 0 .. MaxChanges + 1
    BY <1>1, <2>1, ModelControlAssumption
  <2>4. ModelTypeOK'
    BY <2>2, <2>3 DEF ModelTypeOK, NoTest, Events
  <2>5. RequestsPlaced'
    BY <2>2 DEF RequestsPlaced
  <2> QED BY <1>1, <2>3, <2>4, <2>5
<1>10. CASE WriteDefault
  <2> USE <1>10 DEF WriteDefault
  <2>1. assigner \in Assignments
    BY DEF RequestsPlaced
  <2>2. \E q \in Profiles \cup {None} :
          /\ defaults' = [defaults EXCEPT ![assigner.role][assigner.scope] = q]
          /\ q # None => profiles[q] # None
    BY <2>1 DEF WithDefault, WithoutDefault, RequestsPlaced, Assignments
  <2>3. /\ defaults' \in [Roles -> [Scope -> Profiles \cup {None}]]
        /\ \A r \in Roles, s \in Scope : defaults'[r][s] # None => profiles[defaults'[r][s]] # None
    <3>1. PICK q \in Profiles \cup {None} :
            /\ defaults' = [defaults EXCEPT ![assigner.role][assigner.scope] = q]
            /\ q # None => profiles[q] # None
      BY <2>2
    <3>2. assigner.role \in Roles /\ assigner.scope \in Scope
      BY <2>1 DEF Assignments
    <3>3. defaults \in [Roles -> [Scope -> Profiles \cup {None}]]
      BY DEF ModelTypeOK
    <3>4. [defaults[assigner.role] EXCEPT ![assigner.scope] = q] \in [Scope -> Profiles \cup {None}]
      BY <3>2, <3>3
    <3>5. defaults' = [defaults EXCEPT ![assigner.role] =
                         [defaults[assigner.role] EXCEPT ![assigner.scope] = q]]
      BY <3>1, <3>2, <3>3
    <3>6. defaults' \in [Roles -> [Scope -> Profiles \cup {None}]]
      BY <3>2, <3>3, <3>4, <3>5
    <3>7. \A r \in Roles, s \in Scope : defaults'[r][s] = defaults[r][s] \/ defaults'[r][s] = q
      BY <3>2, <3>3, <3>5
    <3> QED BY <3>1, <3>6, <3>7 DEF ModelTypeOK
  <2>4. records' \in [Profiles -> {"none", "current", "stale"}]
    BY <2>1 DEF Replaces, Removes, MarkedStale, Stale, ModelTypeOK, Assignments
  <2>5. ModelTypeOK'
    BY <2>3, <2>4 DEF ModelTypeOK, NoAssign
  <2>6. RequestsPlaced'
    BY DEF RequestsPlaced, NoAssign
  <2> QED BY <2>5, <2>6
<1> QED BY <1>3, <1>4, <1>5, <1>6, <1>7, <1>8, <1>9, <1>10 DEF Administer, ChangeDefaults
-----------------------------------------------------------------------------
(* The workers.                                                            *)

(* The administrator leaves the stages alone; a worker between resolution  *)
(* and answer sees its steps go by.                                        *)
LEMMA AdministerKeepsStages ==
    ASSUME StagesInv, Administer, UNCHANGED stageVars
    PROVE  StagesInv'
<1> USE DEF StagesInv, stageVars
<1>1. /\ ModelInv'
      /\ changes' = changes \/ changes' = changes + 1
      /\ changes' = changes => profiles' = profiles /\ health' = health
      /\ profiles' = profiles \/ health' = health
      /\ \A p \in Profiles : profiles[p] # None => profiles'[p] # None
  BY AdministerStep
<1>2. StageTypes'
  BY DEF StageTypes
<1>3. KnowsTheRow' /\ AttemptsCounted' /\ VectorsStay' /\ RowsAgree'
  BY DEF KnowsTheRow, AttemptsCounted, VectorsStay, RowsAgree, Judging, Unprojected
<1>4. LabelsHold'
  BY DEF LabelsHold, Faithfully, SelfCertified
<1>5. changes \in Nat /\ \A x \in Workers : w[x].seen \in Nat
  BY ModelControlAssumption DEF ModelInv, ModelTypeOK, StageTypes, WorkerStates
<1>6. ASSUME NEW x \in Workers, Drifts(w[x]) PROVE Drifts(w[x])'
  <2> DEFINE p == w[x].res.profile
  <2>1. p \in Profiles /\ profiles[p] # None /\ profiles'[p] # None /\ w[x].seen <= changes'
    BY <1>1, <1>5, <1>6 DEF Drifts
  <2>2. profiles[p] \in Rows /\ profiles'[p] \in Rows
    BY <1>1, <2>1 DEF ModelInv, ModelTypeOK
  <2>3. CASE changes' = changes
    BY <1>1, <1>6, <2>3 DEF Drifts, Certified, CertifiedBy, NewestEvent, SelfCertified
  <2>4. CASE changes' = changes + 1
    <3>1. changes' - w[x].seen # 0
      BY <1>5, <1>6, <2>4 DEF Drifts
    <3>2. ASSUME changes' - w[x].seen = 1, ModelName[profiles'[p].conf] # w[x].res.model,
                 ~SelfCertified(w[x].res.model, profiles'[p].conf)
          PROVE  ~Certified(p)'
      <4>1. Certified(p) /\ ModelName[profiles[p].conf] = w[x].res.model
        BY <1>5, <1>6, <2>4, <3>2 DEF Drifts
      <4>2. health' = health /\ profiles[p].conf # profiles'[p].conf
        BY <1>1, <3>2, <4>1
      <4>3. Kind[profiles[p].conf] # "deterministic" /\ Kind[profiles'[p].conf] # "deterministic"
        BY <2>2, <3>2, <4>1 DEF SelfCertified, Rows
      <4>4. health[p].fp = <<profiles[p].role, profiles[p].conf, profiles[p].enabled>>
        BY <4>1, <4>3 DEF Certified, CertifiedBy, NewestEvent, Fingerprint
      <4>5. health'[p].fp # <<profiles'[p].role, profiles'[p].conf, profiles'[p].enabled>>
        BY <4>2, <4>4
      <4> QED BY <4>3, <4>5 DEF Certified, CertifiedBy, NewestEvent, Fingerprint
    <3> QED BY <2>1, <3>1, <3>2 DEF Drifts, SelfCertified
  <2> QED BY <1>1, <2>3, <2>4
<1>7. ASSUME NEW x \in Workers, Drifts(w[x]), Called(w[x]) PROVE Called(w[x])'
  <2>1. CASE changes' = changes
    BY <1>1, <1>7, <2>1 DEF Called
  <2>2. CASE changes' = changes + 1
    <3>1. changes' - w[x].seen # 0
      BY <1>5, <1>7, <2>2 DEF Drifts
    <3>2. changes' - w[x].seen = 1 => changes - w[x].seen = 0
      BY <1>5, <2>2
    <3> QED BY <1>7, <3>1, <3>2 DEF Called
  <2> QED BY <1>1, <2>1, <2>2
<1>8. WorkersFit'
  BY <1>6, <1>7 DEF WorkersFit, Fits, Faithfully, SelfCertified
<1> QED BY <1>1, <1>2, <1>3, <1>4, <1>8

(* A lost lease leaves nobody with a claim.                                *)
LEMMA LoseLeaseStep ==
    ASSUME StagesInv, LoseLease
    PROVE  StagesInv'
<1> USE DEF StagesInv, LoseLease, modelVars
<1>1. ModelInv'
  BY DEF ModelInv, ModelTypeOK, RequestsPlaced
<1>2. StageTypes'
  BY DEF StageTypes
<1>3. KnowsTheRow' /\ AttemptsCounted'
  BY CandidateStagesAssumption DEF KnowsTheRow, AttemptsCounted
<1>4. VectorsStay' /\ RowsAgree'
  BY DEF VectorsStay, RowsAgree
<1>5. WorkersFit'
  BY DEF WorkersFit, Fits, Drifts, Called, Certified, CertifiedBy, NewestEvent
<1>6. LabelsHold'
  BY DEF LabelsHold
<1> QED BY <1>1, <1>2, <1>3, <1>4, <1>5, <1>6

(* A step of worker x that leaves the profiles alone: what it must keep to *)
(* keep the invariant for the others, and what must hold of its new state. *)
LEMMA WorkerFrame ==
    ASSUME StagesInv, NEW x \in Workers, NEW s \in WorkerStates,
           w' = [w EXCEPT ![x] = s],
           UNCHANGED <<profiles, health, defaults, tester, assigner, changes>>,
           records' \in [Profiles -> {"none", "current", "stale"}],
           StageTypes',
           lease' \in {lease, x, None}, candidate' = candidate \/ lease' = x,
           claims' >= claims, outbox'.attempts = outbox.attempts \/ lease' = x,
           outbox'.attempts <= claims',
           lease' = x /\ Judging(s) => s.known = candidate'.status,
           lease' = x /\ Unprojected(s) => outbox'.attempts < claims',
           vectors # {} => vectors' # {},
           s.exists => vectors' # {}, outbox'.status = "succeeded" => vectors' # {},
           RowsAgree', LabelsHold', Fits(s)
    PROVE  StagesInv'
<1> USE DEF StagesInv
<1>1. ModelInv'
  BY DEF ModelInv, ModelTypeOK, RequestsPlaced
<1>2. w'[x] = s /\ \A y \in Workers \ {x} : w'[y] = w[y]
  BY DEF StageTypes
<1>3. \A y \in Workers \ {x} : lease' = y => lease = y /\ candidate' = candidate
                                              /\ outbox'.attempts = outbox.attempts
  BY CandidateStagesAssumption
<1>4. KnowsTheRow'
  BY <1>2, <1>3 DEF KnowsTheRow
<1>5. AttemptsCounted'
  <2>1. claims \in Nat /\ claims' \in Nat /\ outbox.attempts \in Nat
    BY CandidateStagesAssumption DEF StageTypes
  <2> QED BY <1>2, <1>3, <2>1 DEF AttemptsCounted
<1>6. VectorsStay'
  BY <1>2 DEF VectorsStay
<1>7. WorkersFit'
  <2>1. \A t : Fits(t)' <=> Fits(t)
    BY DEF Fits, Drifts, Called, Certified, CertifiedBy, NewestEvent, Faithfully, SelfCertified
  <2> QED BY <1>2, <2>1 DEF WorkersFit
<1> QED BY <1>1, <1>4, <1>5, <1>6, <1>7

(* A worker that goes on with what it knows, writing no row.               *)
LEMMA MoveStep ==
    ASSUME StagesInv, NEW x \in Workers, NEW s \in WorkerStates,
           w' = [w EXCEPT ![x] = s],
           UNCHANGED <<modelVars, edition, candidate, outbox, vectors, rows, facts, claims>>,
           memory' \in BOOLEAN, run' \in {"none", "running", "failed", "succeeded"},
           job' \in {"open", "done"}, lease' \in {lease, None},
           Judging(s) => Judging(w[x]) /\ s.known = w[x].known,
           Unprojected(s) => Unprojected(w[x]),
           s.exists => w[x].exists,
           Fits(s)
    PROVE  StagesInv'
<1>1. StageTypes'
  BY DEF StagesInv, StageTypes
<1>2. lease' = x => lease = x
  BY CandidateStagesAssumption
<1>3. records' \in [Profiles -> {"none", "current", "stale"}]
      /\ UNCHANGED <<profiles, health, defaults, tester, assigner, changes>>
  BY DEF StagesInv, ModelInv, ModelTypeOK, modelVars
<1>4. lease' \in {lease, x, None} /\ candidate' = candidate
      /\ outbox'.attempts = outbox.attempts /\ outbox'.attempts <= claims' /\ claims' >= claims
  BY CandidateStagesAssumption DEF StagesInv, StageTypes, AttemptsCounted
<1>5. lease' = x /\ Judging(s) => s.known = candidate'.status
  BY <1>2 DEF StagesInv, KnowsTheRow
<1>6. lease' = x /\ Unprojected(s) => outbox'.attempts < claims'
  BY <1>2 DEF StagesInv, AttemptsCounted
<1>7. /\ vectors # {} => vectors' # {}
      /\ s.exists => vectors' # {}
      /\ outbox'.status = "succeeded" => vectors' # {}
  BY DEF StagesInv, VectorsStay
<1>8. RowsAgree' /\ LabelsHold'
  BY DEF StagesInv, RowsAgree, LabelsHold, Faithfully, SelfCertified
<1> QED BY <1>1, <1>3, <1>4, <1>5, <1>6, <1>7, <1>8, WorkerFrame

(* An idle worker.                                                         *)
LEMMA IdleTyped ==
    /\ Idle \in WorkerStates /\ NoCall \in Calls
    /\ ~Judging(Idle) /\ ~Unprojected(Idle) /\ ~Idle.exists /\ Fits(Idle)
<1>1. NoCall \in Calls
  BY DEF NoCall, Calls
<1>2. Idle \in WorkerStates
  <2>1. None \in Outs
    BY DEF Outs
  <2> QED BY <1>1, <2>1 DEF Idle, WorkerStates, Steps
<1> QED BY <1>1, <1>2 DEF Idle, Judging, Unprojected, Fits

(* The job: claims, failures, rejected fences and completion.              *)
LEMMA JobStep ==
    ASSUME StagesInv, NEW x \in Workers,
           Claim(x) \/ Fail(x) \/ Rejected(x) \/ Complete(x) \/ Finish(x)
    PROVE  StagesInv'
<1>1. w \in [Workers -> WorkerStates] /\ Idle \in WorkerStates
  BY IdleTyped DEF StagesInv, StageTypes
<1>2. CASE Claim(x)
  <2> DEFINE s == [Idle EXCEPT !.at = "begin"]
  <2>1. s \in WorkerStates /\ w' = [w EXCEPT ![x] = s] /\ s.at = "begin" /\ ~s.exists
        /\ s.by = None
    BY <1>1, <1>2 DEF Claim, Idle, WorkerStates, Steps
  <2> HIDE DEF s
  <2>2. lease = None /\ lease' = x /\ claims' = claims + 1 /\ claims' \in 0 .. MaxClaims
        /\ claims \in Nat /\ outbox.attempts \in Nat
    BY <1>2, CandidateStagesAssumption DEF Claim, StagesInv, StageTypes
  <2>3. StageTypes'
    BY <1>1, <1>2, <2>1, <2>2 DEF Claim, StagesInv, StageTypes
  <2>4. Fits(s) /\ ~Judging(s)
    BY <2>1 DEF Fits, Judging
  <2>5. outbox'.attempts < claims' /\ claims' >= claims /\ outbox' = outbox
    BY <1>2, <2>2 DEF Claim, StagesInv, AttemptsCounted
  <2>6. outbox'.attempts <= claims'
    BY <2>2, <2>5
  <2>7. RowsAgree' /\ LabelsHold' /\ vectors' = vectors
    BY <1>2 DEF Claim, StagesInv, RowsAgree, LabelsHold, Faithfully, SelfCertified
  <2>8. outbox'.status = "succeeded" => vectors' # {}
    BY <2>5, <2>7 DEF StagesInv, VectorsStay
  <2>9. records' \in [Profiles -> {"none", "current", "stale"}]
        /\ UNCHANGED <<profiles, health, defaults, tester, assigner, changes>>
        /\ candidate' = candidate
    BY <1>2 DEF Claim, StagesInv, ModelInv, ModelTypeOK, modelVars
  <2> QED BY <2>1, <2>2, <2>3, <2>4, <2>5, <2>6, <2>7, <2>8, <2>9, WorkerFrame
<1>3. CASE Fail(x) \/ Rejected(x) \/ Complete(x)
  <2>1. /\ w' = [w EXCEPT ![x] = Idle]
        /\ UNCHANGED <<modelVars, edition, candidate, outbox, vectors, rows, facts, claims>>
        /\ memory' \in BOOLEAN /\ run' \in {"none", "running", "failed", "succeeded"}
        /\ job' \in {"open", "done"} /\ lease' \in {lease, None}
    BY <1>3 DEF Fail, Rejected, Complete, StagesInv, StageTypes
  <2> QED BY <2>1, IdleTyped, MoveStep
<1>4. CASE Finish(x)
  <2> DEFINE s == [Idle EXCEPT !.at = "complete"]
  <2>1. s \in WorkerStates /\ s.at = "complete" /\ ~s.exists /\ s.by = None
    BY <1>1 DEF Idle, WorkerStates, Steps
  <2>2. /\ w' = [w EXCEPT ![x] = s]
        /\ UNCHANGED <<modelVars, edition, candidate, outbox, vectors, rows, facts, claims>>
        /\ memory' \in BOOLEAN /\ run' \in {"none", "running", "failed", "succeeded"}
        /\ job' \in {"open", "done"} /\ lease' \in {lease, None}
    BY <1>4 DEF Finish, StagesInv, StageTypes
  <2> HIDE DEF s
  <2>3. Fits(s) /\ ~Judging(s) /\ ~Unprojected(s)
    BY <2>1 DEF Fits, Judging, Unprojected
  <2> QED BY <2>1, <2>2, <2>3, MoveStep
<1> QED BY <1>2, <1>3, <1>4

(* The start of an attempt, with the extraction of the full edition.       *)
LEMMA BeginStep ==
    ASSUME StagesInv, NEW x \in Workers, Begin(x)
    PROVE  StagesInv'
<1>1. w \in [Workers -> WorkerStates] /\ w[x] \in WorkerStates
  BY DEF StagesInv, StageTypes
<1>2. /\ UNCHANGED <<modelVars, edition, candidate, memory, outbox, vectors, rows, job, lease,
                     claims>>
      /\ w[x].at = "begin" /\ lease = x
  BY DEF Begin, Fenced
<1>3. CASE run = "succeeded"
  <2> DEFINE s == [w[x] EXCEPT !.at = "complete"]
  <2>1. s \in WorkerStates /\ w' = [w EXCEPT ![x] = s] /\ s.at = "complete"
        /\ s.exists = w[x].exists /\ s.by = w[x].by
    BY <1>1, <1>3 DEF Begin, WorkerStates, Steps
  <2> HIDE DEF s
  <2>2. Fits(s) /\ ~Judging(s) /\ ~Unprojected(s)
    BY <1>2, <2>1 DEF Fits, Judging, Unprojected, StagesInv, WorkersFit
  <2>3. facts' = facts /\ run' = run
    BY <1>3 DEF Begin
  <2>4. memory' \in BOOLEAN /\ run' \in {"none", "running", "failed", "succeeded"}
        /\ job' \in {"open", "done"}
    BY <1>2, <2>3 DEF StagesInv, StageTypes
  <2> QED BY <1>2, <2>1, <2>2, <2>3, <2>4, MoveStep
<1>4. CASE run # "succeeded"
  <2> DEFINE s == [w[x] EXCEPT !.at = "resolve", !.stage = "privacy_sensitivity",
                               !.known = candidate.status]
  <2>0. candidate.status \in Statuses
    BY DEF StagesInv, StageTypes
  <2>1. /\ s \in WorkerStates /\ w' = [w EXCEPT ![x] = s]
        /\ s.at = "resolve" /\ s.stage = "privacy_sensitivity" /\ s.known = candidate.status
        /\ s.exists = w[x].exists /\ s.by = w[x].by
    BY <1>1, <1>4, <2>0 DEF Begin, ReadCandidate, WorkerStates, Steps, Stages, Structured
  <2> HIDE DEF s
  <2>2. Fits(s)
    BY <1>2, <2>1 DEF Fits, StagesInv, WorkersFit, Stages, Structured
  <2>3. /\ facts' \in [units : BOOLEAN, gates : BOOLEAN, execution : Extractions \cup {None},
                       stage : Extractions \cup {None}, usage : Results \cup {None},
                       annotations : Extractions \cup {None}, analyses : Extractions \cup {None}]
        /\ facts'.stage = facts'.annotations /\ facts'.execution = facts'.annotations
    <3>1. facts \in [units : BOOLEAN, gates : BOOLEAN, execution : Extractions \cup {None},
                     stage : Extractions \cup {None}, usage : Results \cup {None},
                     annotations : Extractions \cup {None}, analyses : Extractions \cup {None}]
          /\ facts.stage = facts.annotations /\ facts.execution = facts.annotations
      BY DEF StagesInv, StageTypes, RowsAgree
    <3>2. CASE facts' = facts
      BY <3>1, <3>2
    <3>3. ASSUME NEW out \in Extractions, facts' = Extracted(facts, Prepared(out))
          PROVE  <2>3!1 /\ <2>3!2
      BY <3>1, <3>3
         DEF Extracted, Prepared, Unitized, Executed, WithExtractionStage, Used, Annotated, Gated,
             Analysed, Results, Extractions
    <3>4. facts' = facts \/ \E out \in Extractions : facts' = Extracted(facts, Prepared(out))
      BY <1>4 DEF Begin, PreparedOutputs
    <3> QED BY <3>2, <3>3, <3>4
  <2>4. StageTypes'
    <3>1. run' = "running"
      BY <1>4 DEF Begin
    <3>2. w' \in [Workers -> WorkerStates]
      BY <1>1, <2>1
    <3> QED BY <1>2, <2>3, <3>1, <3>2 DEF StagesInv, StageTypes
  <2>5. RowsAgree' /\ LabelsHold'
    BY <1>2, <2>3 DEF StagesInv, RowsAgree, LabelsHold, Faithfully, SelfCertified
  <2>6. outbox'.attempts < claims' /\ outbox'.attempts <= claims' /\ claims' >= claims
        /\ outbox' = outbox
    <3>1. outbox.attempts < claims /\ outbox.attempts \in Nat /\ claims \in Nat
      BY <1>2, CandidateStagesAssumption DEF StagesInv, StageTypes, AttemptsCounted, Unprojected
    <3> QED BY <1>2, <3>1
  <2>7. /\ vectors' = vectors
        /\ s.exists => vectors' # {}
        /\ outbox'.status = "succeeded" => vectors' # {}
    BY <1>2, <2>1 DEF StagesInv, VectorsStay
  <2>8. records' \in [Profiles -> {"none", "current", "stale"}]
        /\ UNCHANGED <<profiles, health, defaults, tester, assigner, changes>>
        /\ candidate' = candidate /\ lease' = lease
    BY <1>2 DEF StagesInv, ModelInv, ModelTypeOK, modelVars
  <2> QED BY <1>2, <2>1, <2>2, <2>4, <2>5, <2>6, <2>7, <2>8, WorkerFrame
<1> QED BY <1>3, <1>4

(* The resolution of the role, and a stored answer if there is one.        *)
LEMMA ResolveStep ==
    ASSUME StagesInv, NEW x \in Workers, ResolveStage(x)
    PROVE  StagesInv'
<1> DEFINE stage == w[x].stage
           res == Resolve(stage)
<1>1. w \in [Workers -> WorkerStates] /\ w[x] \in WorkerStates /\ rows \subseteq StageRows
  BY DEF StagesInv, StageTypes
<1>2. w[x].at = "resolve" /\ stage \in Stages /\ w[x].by = None
  BY DEF ResolveStage, StagesInv, WorkersFit, Fits
<1>3. stage \in Roles
  BY <1>2 DEF Stages, Structured, Roles
<1>4. /\ res \in Resolutions
      /\ res.profile # None =>
           /\ res.profile \in Profiles /\ profiles[res.profile] # None
           /\ Certified(res.profile) /\ Acknowledged(profiles[res.profile])
           /\ res.model = ModelName[profiles[res.profile].conf]
      /\ res.profile = None => res.kind = BuiltIn[stage]
  BY <1>3, ResolveTyped DEF StagesInv
<1>5. /\ UNCHANGED <<modelVars, edition, candidate, outbox, vectors, rows, facts, claims>>
      /\ memory' \in BOOLEAN /\ run' \in {"none", "running", "failed", "succeeded"}
      /\ job' \in {"open", "done"} /\ lease' \in {lease, None}
  BY DEF ResolveStage, StagesInv, StageTypes
<1> HIDE DEF res, stage
<1>6. ASSUME NEW s \in WorkerStates, w' = [w EXCEPT ![x] = s],
             s.stage = stage, s.known = w[x].known, s.exists = w[x].exists, s.by = None,
             s.at \in {"apply", "persist", "send"}, s.res = res, s.at = "send" => Drifts(s)
      PROVE  StagesInv'
  <2>1. Fits(s)
    BY <1>2, <1>4, <1>6 DEF Fits, Faithfully
  <2>2. /\ Judging(s) => Judging(w[x])
        /\ Unprojected(s) => Unprojected(w[x])
    BY <1>2, <1>6 DEF Judging, Unprojected, stage
  <2> QED BY <1>5, <1>6, <2>1, <2>2, MoveStep
<1>7. ASSUME NEW row \in Existing(x, res), w' = [w EXCEPT ![x] = Replayed(x, res, row)]
      PROVE  StagesInv'
  <2> DEFINE s == Replayed(x, res, row)
  <2>1. row \in StageRows
    BY <1>1 DEF Existing, StageRow
  <2>2. None \in Outs
    BY DEF Outs
  <2> DEFINE out == IF w[x].stage \in Structured THEN row.out ELSE None
  <2>3. row.status \in Results \cup {None} /\ out \in Outs /\ "apply" \in Steps
    BY <2>1, <2>2 DEF StageRows, Steps
  <2>4. s = [w[x] EXCEPT !.at = "apply", !.res = res, !.status = row.status, !.out = out]
    BY DEF Replayed
  <2> HIDE DEF s, out
  <2>5. s \in WorkerStates
    BY <1>1, <1>4, <2>3, <2>4 DEF WorkerStates
  <2>6. /\ s.stage = stage /\ s.known = w[x].known /\ s.exists = w[x].exists /\ s.by = None
        /\ s.at = "apply" /\ s.res = res
    BY <1>1, <1>2, <2>4 DEF WorkerStates, stage
  <2>7. w' = [w EXCEPT ![x] = s]
    BY <1>7 DEF s
  <2> QED BY <1>6, <2>5, <2>6, <2>7
<1>8. ASSUME NEW status \in Results, NEW out \in Outs,
             w' = [w EXCEPT ![x] = Answered(x, res, status, out)]
      PROVE  StagesInv'
  <2> DEFINE s == Answered(x, res, status, out)
  <2>1. /\ s \in WorkerStates
        /\ s.stage = stage /\ s.known = w[x].known /\ s.exists = w[x].exists /\ s.by = None
        /\ s.at = "persist" /\ s.res = res
    BY <1>1, <1>2, <1>4 DEF Answered, WorkerStates, Steps, stage
  <2> QED BY <1>6, <1>8, <2>1
<1>9. ASSUME res.kind = "provider" \/ (res.kind = "deterministic" /\ stage = "embedding"),
             w' = [w EXCEPT ![x].at = "send", ![x].res = res, ![x].seen = changes]
      PROVE  StagesInv'
  <2> DEFINE s == [w[x] EXCEPT !.at = "send", !.res = res, !.seen = changes]
  <2>1. changes \in Nat
    BY ModelControlAssumption DEF StagesInv, ModelInv, ModelTypeOK
  <2>2. /\ s \in WorkerStates
        /\ s.stage = stage /\ s.known = w[x].known /\ s.exists = w[x].exists /\ s.by = None
        /\ s.at = "send" /\ s.res = res /\ s.seen = changes
    BY <1>1, <1>2, <1>4, <2>1 DEF WorkerStates, Steps, stage
  <2>3. w' = [w EXCEPT ![x] = s]
    BY <1>1, <1>9
  <2> HIDE DEF s
  <2>4. res.profile # None
    BY <1>3, <1>4, <1>9 DEF BuiltIn, Roles
  <2>5. Drifts(s)
    BY <1>4, <2>1, <2>2, <2>4 DEF Drifts
  <2> QED BY <1>6, <2>2, <2>3, <2>5
<1>10. "ok" \in Results /\ "abstained" \in Results /\ None \in Outs
       /\ (stage \in Structured => Rules[stage] \in Outs)
  BY DEF Results, Outs
<1>11. \/ \E row \in Existing(x, res) : w' = [w EXCEPT ![x] = Replayed(x, res, row)]
       \/ w' = [w EXCEPT ![x] = Answered(x, res, "abstained", None)]
       \/ stage \in Structured /\ w' = [w EXCEPT ![x] = Answered(x, res, "ok", Rules[stage])]
       \/ /\ res.kind = "provider" \/ (res.kind = "deterministic" /\ stage = "embedding")
          /\ w' = [w EXCEPT ![x].at = "send", ![x].res = res, ![x].seen = changes]
  BY DEF ResolveStage, res, stage
<1> QED BY <1>7, <1>8, <1>9, <1>10, <1>11

(* The call: the profile as it is now.                                     *)
LEMMA SendStep ==
    ASSUME StagesInv, NEW x \in Workers, Send(x)
    PROVE  StagesInv'
<1> DEFINE p == w[x].res.profile
           call == IF ProviderFor(profiles[p]) # "disabled"
                   THEN [conf |-> profiles[p].conf, approved |-> Approved(p),
                         edited |-> changes # w[x].seen]
                   ELSE NoCall
           s == [w[x] EXCEPT !.at = "answer", !.call = call]
<1>1. w \in [Workers -> WorkerStates] /\ w[x] \in WorkerStates /\ changes \in Nat
  BY ModelControlAssumption DEF StagesInv, StageTypes, ModelInv, ModelTypeOK
<1>2. w[x].at = "send" /\ w' = [w EXCEPT ![x] = s]
  BY <1>1 DEF Send
<1>3. Fits(w[x]) /\ Drifts(w[x])
  BY <1>2 DEF StagesInv, WorkersFit, Fits
<1>4. p \in Profiles /\ profiles[p] \in Rows
  BY <1>3 DEF Drifts, StagesInv, ModelInv, ModelTypeOK
<1>5. call \in Calls
  BY <1>4, IdleTyped DEF Calls, Rows, Approved, Certified
<1>6. /\ s \in WorkerStates
      /\ s.at = "answer" /\ s.stage = w[x].stage /\ s.known = w[x].known /\ s.exists = w[x].exists
      /\ s.by = w[x].by /\ s.res = w[x].res /\ s.seen = w[x].seen /\ s.call = call
  BY <1>1, <1>5 DEF WorkerStates, Steps
<1>7. call = NoCall \/
        /\ call.conf = profiles[p].conf
        /\ call.approved = Approved(p)
        /\ call.edited = (changes # w[x].seen)
  OBVIOUS
<1> HIDE DEF s, call
<1>8. Drifts(s)
  BY <1>3, <1>6 DEF Drifts
<1>9. Called(s)
  <2> SUFFICES ASSUME call # NoCall PROVE Called(s)
    BY <1>6 DEF Called
  <2>1. changes - w[x].seen = 0 <=> changes = w[x].seen
    BY <1>1 DEF WorkerStates
  <2>2. changes = w[x].seen => Certified(p) /\ Acknowledged(profiles[p])
                               /\ ModelName[profiles[p].conf] = w[x].res.model
    BY <1>3, <2>1 DEF Drifts
  <2>3. changes = w[x].seen => Approved(p)
    BY <1>4, <2>2
       DEF Approved, Certified, CertifiedBy, NewestEvent, Acknowledged, Requires, Fingerprint
  <2> QED BY <1>4, <1>6, <1>7, <2>1, <2>2, <2>3 DEF Called, Rows
<1>10. Fits(s) /\ (Judging(s) => Judging(w[x])) /\ (Unprojected(s) => Unprojected(w[x]))
  BY <1>2, <1>3, <1>6, <1>8, <1>9 DEF Fits, Judging, Unprojected
<1>11. /\ UNCHANGED <<modelVars, edition, candidate, outbox, vectors, rows, facts, claims>>
       /\ memory' \in BOOLEAN /\ run' \in {"none", "running", "failed", "succeeded"}
       /\ job' \in {"open", "done"} /\ lease' \in {lease, None}
  BY DEF Send, StagesInv, StageTypes
<1> QED BY <1>2, <1>6, <1>10, <1>11, MoveStep

(* The answer: one that would be filed under another model is dropped when *)
(* a single administrator step came between.                               *)
LEMMA ReceiveStep ==
    ASSUME StagesInv, NEW x \in Workers, Receive(x)
    PROVE  StagesInv'
<1> DEFINE stage == w[x].stage
           p == w[x].res.profile
           conf == w[x].call.conf
<1>1. w \in [Workers -> WorkerStates] /\ w[x] \in WorkerStates /\ changes \in Nat
  BY ModelControlAssumption DEF StagesInv, StageTypes, ModelInv, ModelTypeOK
<1>2. /\ w[x].at = "answer" /\ stage \in Stages /\ w[x].res \in Resolutions
      /\ Drifts(w[x]) /\ Called(w[x])
  BY DEF Receive, StagesInv, WorkersFit, Fits
<1>3. /\ UNCHANGED <<modelVars, edition, candidate, outbox, vectors, rows, facts, claims>>
      /\ memory' \in BOOLEAN /\ run' \in {"none", "running", "failed", "succeeded"}
      /\ job' \in {"open", "done"} /\ lease' \in {lease, None}
  BY DEF Receive, StagesInv, StageTypes
<1>4. ASSUME NEW status \in Results, NEW out \in Outs, NEW by \in Confs \cup {None},
             NEW edits \in Nat, w' = [w EXCEPT ![x] = Result(x, status, out, by, edits)],
             Faithfully(w[x].res.model, by, edits)
      PROVE  StagesInv'
  <2> DEFINE s == Result(x, status, out, by, edits)
  <2>1. s \in WorkerStates
    BY <1>1, IdleTyped DEF Result, WorkerStates, Steps
  <2>2. /\ s.at = "persist" /\ s.stage = stage /\ s.known = w[x].known
        /\ s.exists = w[x].exists /\ s.res = w[x].res /\ s.by = by /\ s.edits = edits
    BY <1>1 DEF Result, WorkerStates
  <2>3. w' = [w EXCEPT ![x] = s]
    BY <1>4
  <2> HIDE DEF s
  <2>4. Fits(s) /\ (Judging(s) => Judging(w[x])) /\ (Unprojected(s) => Unprojected(w[x]))
    BY <1>2, <1>4, <2>2 DEF Fits, Judging, Unprojected
  <2> QED BY <1>3, <2>1, <2>2, <2>3, <2>4, MoveStep
<1>5. ASSUME NEW out \in Outputs(stage), w[x].call # NoCall, RequireSameResolution(x),
             w' = [w EXCEPT ![x] = Result(x, "ok", out, conf, Edits(x))]
      PROVE  StagesInv'
  <2>1. out \in Outs /\ "ok" \in Results
    BY <1>2, <1>5 DEF Outputs, Completions, Embeddings, Outs, Stages, Results
  <2>2. conf \in Confs /\ w[x].seen \in Nat /\ w[x].seen <= changes
    BY <1>1, <1>2, <1>5 DEF Called, Drifts, WorkerStates
  <2>3. Edits(x) \in Nat
    BY <1>1, <2>2 DEF Edits
  <2>4. Certified(p)
    <3>1. Resolve(stage).profile = p /\ p \in Profiles /\ p # None
      BY <1>2, <1>5, ModelControlAssumption DEF RequireSameResolution, SameResolution, Drifts
    <3>2. stage \in Roles
      BY <1>2 DEF Stages, Structured, Roles
    <3> QED BY <3>1, <3>2, ResolveTyped DEF StagesInv
  <2>5. ASSUME ModelName[conf] # w[x].res.model, ~SelfCertified(w[x].res.model, conf)
        PROVE  Edits(x) >= 2
    <3>1. changes - w[x].seen # 0
      BY <1>2, <1>5, <2>5 DEF Called
    <3>2. changes - w[x].seen # 1
      <4> SUFFICES ASSUME changes - w[x].seen = 1 PROVE FALSE
        OBVIOUS
      <4>1. profiles[p].conf = conf
        BY <1>2, <1>5, <2>5 DEF Called
      <4> QED BY <1>2, <2>4, <2>5, <4>1 DEF Drifts
    <3> QED BY <1>1, <2>2, <2>5, <3>1, <3>2 DEF Edits
  <2>6. Faithfully(w[x].res.model, conf, Edits(x))
    BY <2>5 DEF Faithfully
  <2> QED BY <1>4, <1>5, <2>1, <2>2, <2>3, <2>6
<1>6. CASE w' = [w EXCEPT ![x] = Idle]
  BY <1>3, <1>6, IdleTyped, MoveStep
<1>7. CASE w' = [w EXCEPT ![x] = Result(x, "failed_open",
                   IF stage \in Structured THEN Rules[stage] ELSE None, None, 0)]
  <2>1. "failed_open" \in Results /\ (IF stage \in Structured THEN Rules[stage] ELSE None) \in Outs
    BY DEF Results, Outs
  <2>2. Faithfully(w[x].res.model, None, 0)
    BY DEF Faithfully
  <2> QED BY <1>4, <1>7, <2>1, <2>2
<1> QED BY <1>5, <1>6, <1>7 DEF Receive

(* The stored row: the first of an invocation.                             *)
LEMMA PersistStep ==
    ASSUME StagesInv, NEW x \in Workers, PersistResult(x)
    PROVE  StagesInv'
<1> DEFINE existing == Existing(x, w[x].res)
<1>1. w \in [Workers -> WorkerStates] /\ w[x] \in WorkerStates /\ rows \subseteq StageRows
  BY DEF StagesInv, StageTypes
<1>2. /\ w[x].at = "persist" /\ w[x].stage \in Stages /\ w[x].res \in Resolutions /\ Fits(w[x])
      /\ lease = x
  BY DEF PersistResult, Fenced, StagesInv, WorkersFit, Fits
<1>3. /\ UNCHANGED <<modelVars, edition, candidate, outbox, vectors, facts, claims, lease>>
      /\ memory' \in BOOLEAN /\ run' \in {"none", "running", "failed", "succeeded"}
      /\ job' \in {"open", "done"}
  BY DEF PersistResult, StagesInv, StageTypes
<1>4. ASSUME NEW s \in WorkerStates, s.at = "apply", s.stage = w[x].stage, s.known = w[x].known,
             s.exists = w[x].exists, s.res = w[x].res, s.by = w[x].by, s.edits = w[x].edits
      PROVE  Fits(s) /\ (Judging(s) => Judging(w[x])) /\ (Unprojected(s) => Unprojected(w[x]))
  BY <1>2, <1>4 DEF Fits, Judging, Unprojected
<1>5. CASE existing # {}
  <2>1. PICK row \in existing :
          w' = [w EXCEPT ![x].at = "apply",
                   ![x].status = IF MayReplay(x) THEN row.status ELSE @,
                   ![x].out = IF w[x].stage \in Structured THEN row.out ELSE @]
    BY <1>5 DEF PersistResult
  <2> DEFINE status == IF MayReplay(x) THEN row.status ELSE w[x].status
             out == IF w[x].stage \in Structured THEN row.out ELSE w[x].out
             s == [w[x] EXCEPT !.at = "apply", !.status = status, !.out = out]
  <2>2. row \in StageRows
    BY <1>1 DEF Existing, StageRow
  <2>3. status \in Results \cup {None} /\ out \in Outs /\ "apply" \in Steps
    BY <1>1, <2>2 DEF StageRows, WorkerStates, Steps
  <2>4. w' = [w EXCEPT ![x] = s]
    BY <1>1, <2>1
  <2> HIDE DEF status, out
  <2>5. s \in WorkerStates
    BY <1>1, <2>3 DEF WorkerStates
  <2>6. /\ s.at = "apply" /\ s.stage = w[x].stage /\ s.known = w[x].known
        /\ s.exists = w[x].exists /\ s.res = w[x].res /\ s.by = w[x].by /\ s.edits = w[x].edits
    BY <1>1 DEF WorkerStates
  <2>7. rows' = rows
    BY <1>5 DEF PersistResult
  <2> HIDE DEF s
  <2> QED BY <1>3, <1>4, <2>4, <2>5, <2>6, <2>7, MoveStep
<1>6. CASE existing = {}
  <2> DEFINE s == [w[x] EXCEPT !.at = "apply"]
             new == StageResult(x)
  <2>1. rows' = rows \cup {new} /\ w' = [w EXCEPT ![x] = s]
    BY <1>1, <1>6 DEF PersistResult
  <2>2. s \in WorkerStates
    BY <1>1 DEF WorkerStates, Steps
  <2>3. /\ s.at = "apply" /\ s.stage = w[x].stage /\ s.known = w[x].known
        /\ s.exists = w[x].exists /\ s.res = w[x].res /\ s.by = w[x].by /\ s.edits = w[x].edits
    BY <1>1 DEF WorkerStates
  <2> DEFINE filed == [w[x].res EXCEPT !.scope = None]
  <2>4. filed \in Resolutions /\ filed.model = w[x].res.model
    BY <1>2 DEF Resolutions
  <2>5. Execution(x) \in Outs /\ Usage(x) \in Results \cup {None}
    BY <1>1 DEF Execution, Usage, WorkerStates, Outs
  <2>6. /\ new.stage = w[x].stage /\ new.res = filed /\ new.attempt = w[x].attempt
        /\ new.by = w[x].by /\ new.edits = w[x].edits
    BY DEF StageResult
  <2>7. new \in StageRows
    <3> HIDE DEF filed
    <3>1. filed = [w[x].res EXCEPT !.scope = None]
      BY DEF filed
    <3> QED BY <1>1, <1>2, <2>4, <2>5, <3>1 DEF StageResult, StageRows, WorkerStates
  <2>8. \A r \in rows : <<r.stage, r.res, r.attempt>> # <<new.stage, new.res, new.attempt>>
    BY <1>6, <2>6 DEF Existing, StageRow
  <2>9. Faithfully(new.res.model, new.by, new.edits)
    BY <1>2, <2>4, <2>6 DEF Fits
  <2> HIDE DEF s, new, filed
  <2>10. RowsAgree'
    BY <1>3, <2>1, <2>8 DEF RowsAgree, StagesInv
  <2>11. LabelsHold'
    BY <1>3, <2>1, <2>9 DEF LabelsHold, StagesInv, Faithfully, SelfCertified
  <2>12. StageTypes'
    <3>1. w' \in [Workers -> WorkerStates] /\ rows' \subseteq StageRows
      BY <1>1, <2>1, <2>2, <2>7
    <3> QED BY <1>3, <3>1 DEF StagesInv, StageTypes
  <2>13. records' \in [Profiles -> {"none", "current", "stale"}]
         /\ UNCHANGED <<profiles, health, defaults, tester, assigner, changes>>
    BY <1>3 DEF StagesInv, ModelInv, ModelTypeOK, modelVars
  <2>14. Fits(s) /\ (Judging(s) => Judging(w[x])) /\ (Unprojected(s) => Unprojected(w[x]))
    BY <1>4, <2>2, <2>3
  <2>15. /\ Judging(s) => s.known = candidate'.status
         /\ Unprojected(s) => outbox'.attempts < claims'
         /\ outbox'.attempts <= claims' /\ claims' >= claims
    BY <1>2, <1>3, <2>3, <2>14, CandidateStagesAssumption
       DEF StagesInv, StageTypes, KnowsTheRow, AttemptsCounted
  <2>16. /\ s.exists => vectors' # {}
         /\ outbox'.status = "succeeded" => vectors' # {}
    BY <1>3, <2>3 DEF StagesInv, VectorsStay
  <2> QED BY <1>2, <1>3, <2>1, <2>2, <2>10, <2>11, <2>12, <2>13, <2>14, <2>15, <2>16, WorkerFrame
<1> QED BY <1>5, <1>6

(* A verdict is a status, and never a looser one.                          *)
LEMMA VerdictTightens ==
    ASSUME NEW status \in Statuses, NEW answer
    PROVE  /\ AfterPrivacy(status, answer) \in Statuses
           /\ AfterHighConfidence(status, answer) \in Statuses
           /\ status = "rejected" => /\ AfterPrivacy(status, answer) = "rejected"
                                     /\ AfterHighConfidence(status, answer) = "rejected"
           /\ status = "needs_review" => /\ AfterPrivacy(status, answer) # "ready"
                                         /\ AfterHighConfidence(status, answer) # "ready"
BY DEF AfterPrivacy, AfterHighConfidence, Statuses

(* The classification and the second pass write the candidate.             *)
LEMMA ApplyStep ==
    ASSUME StagesInv, NEW x \in Workers, ApplyPrivacy(x) \/ ApplyHighConfidence(x)
    PROVE  StagesInv'
<1>1. w \in [Workers -> WorkerStates] /\ w[x] \in WorkerStates
      /\ candidate \in [status : Statuses, high : BOOLEAN]
  BY DEF StagesInv, StageTypes
<1>2. /\ w[x].at = "apply" /\ w[x].stage \in Structured /\ lease = x /\ Judging(w[x])
      /\ UNCHANGED <<modelVars, edition, memory, outbox, vectors, rows, facts, run, job, lease,
                     claims>>
  BY DEF ApplyPrivacy, ApplyHighConfidence, Fenced, Structured, Judging
<1>3. w[x].known = candidate.status
  BY <1>2 DEF StagesInv, KnowsTheRow
<1>4. ASSUME NEW status \in Statuses, NEW s \in WorkerStates,
             candidate' = [candidate EXCEPT !.status = status], w' = [w EXCEPT ![x] = s],
             s.at \in {"resolve", "store"}, s.at = "resolve" => s.stage \in Structured,
             s.known = status, ~s.exists, s.by = None
      PROVE  StagesInv'
  <2>1. Fits(s)
    BY <1>4 DEF Fits, Stages
  <2>2. candidate' \in [status : Statuses, high : BOOLEAN] /\ candidate'.status = status
    BY <1>1, <1>4
  <2>3. StageTypes'
    <3>1. w' \in [Workers -> WorkerStates]
      BY <1>1, <1>4
    <3> QED BY <1>2, <2>2, <3>1 DEF StagesInv, StageTypes
  <2>4. RowsAgree' /\ LabelsHold'
    BY <1>2 DEF StagesInv, RowsAgree, LabelsHold, Faithfully, SelfCertified
  <2>5. outbox'.attempts < claims' /\ outbox'.attempts <= claims' /\ claims' >= claims
        /\ outbox' = outbox
    <3>1. outbox.attempts < claims /\ outbox.attempts \in Nat /\ claims \in Nat
      BY <1>2, CandidateStagesAssumption DEF StagesInv, StageTypes, AttemptsCounted, Unprojected
    <3> QED BY <1>2, <3>1
  <2>6. vectors' = vectors /\ (outbox'.status = "succeeded" => vectors' # {})
    BY <1>2 DEF StagesInv, VectorsStay
  <2>7. records' \in [Profiles -> {"none", "current", "stale"}]
        /\ UNCHANGED <<profiles, health, defaults, tester, assigner, changes>> /\ lease' = x
    BY <1>2 DEF StagesInv, ModelInv, ModelTypeOK, modelVars
  <2> QED BY <1>4, <2>1, <2>2, <2>3, <2>4, <2>5, <2>6, <2>7, WorkerFrame
<1>5. CASE ApplyPrivacy(x)
  <2> DEFINE status == AfterPrivacy(w[x].known, w[x].out)
             at == IF candidate.high THEN "resolve" ELSE "store"
             stage == IF candidate.high THEN "high_confidence_extraction" ELSE None
             s == [Idle EXCEPT !.known = status, !.at = at, !.stage = stage]
  <2>1. status \in Statuses
    BY <1>1, <1>3, VerdictTightens
  <2>2. at \in {"resolve", "store"} /\ stage \in Structured \cup {None}
        /\ (at = "resolve" => stage \in Structured)
    BY DEF Structured
  <2>3. candidate' = [candidate EXCEPT !.status = status] /\ w' = [w EXCEPT ![x] = s]
    BY <1>5 DEF ApplyPrivacy
  <2> HIDE DEF status, at, stage
  <2>4. s \in WorkerStates
    BY <2>1, <2>2, IdleTyped DEF WorkerStates, Steps, Stages
  <2>5. s.at = at /\ s.stage = stage /\ s.known = status /\ ~s.exists /\ s.by = None
    BY DEF Idle
  <2> HIDE DEF s
  <2> QED BY <1>4, <2>1, <2>2, <2>3, <2>4, <2>5
<1>6. CASE ApplyHighConfidence(x)
  <2> DEFINE status == AfterHighConfidence(
                          IF edition = "lite" THEN candidate.status ELSE w[x].known, w[x].out)
             s == [Idle EXCEPT !.at = "store", !.known = status]
  <2>1. status \in Statuses
    BY <1>1, <1>3, VerdictTightens
  <2>2. candidate' = [candidate EXCEPT !.status = status] /\ w' = [w EXCEPT ![x] = s]
    BY <1>6 DEF ApplyHighConfidence
  <2> HIDE DEF status
  <2>3. s \in WorkerStates
    BY <2>1, IdleTyped DEF WorkerStates, Steps
  <2>4. s.at = "store" /\ s.known = status /\ ~s.exists /\ s.by = None
    BY DEF Idle
  <2> HIDE DEF s
  <2> QED BY <1>4, <2>1, <2>2, <2>3, <2>4
<1> QED BY <1>5, <1>6

(* The memory of an accepted candidate.                                    *)
LEMMA StoreStep ==
    ASSUME StagesInv, NEW x \in Workers, Store(x)
    PROVE  StagesInv'
<1> DEFINE at == IF memory' THEN "outbox" ELSE "finish"
           s == [w[x] EXCEPT !.at = at]
<1>1. w \in [Workers -> WorkerStates] /\ w[x] \in WorkerStates
  BY DEF StagesInv, StageTypes
<1>2. w[x].at = "store" /\ w[x].by = None /\ w' = [w EXCEPT ![x] = s]
  BY <1>1 DEF Store, StagesInv, WorkersFit, Fits
<1>3. at \in {"outbox", "finish"}
  OBVIOUS
<1> HIDE DEF at
<1>4. s \in WorkerStates /\ s.at = at /\ s.exists = w[x].exists /\ s.by = w[x].by
  BY <1>1, <1>3 DEF WorkerStates, Steps
<1>5. /\ UNCHANGED <<modelVars, edition, candidate, outbox, vectors, rows, facts, claims>>
      /\ memory' \in BOOLEAN /\ run' \in {"none", "running", "failed", "succeeded"}
      /\ job' \in {"open", "done"} /\ lease' \in {lease, None}
  BY DEF Store, StagesInv, StageTypes, Accepted
<1> HIDE DEF s
<1>6. Fits(s) /\ ~Judging(s) /\ Unprojected(w[x])
  BY <1>2, <1>3, <1>4 DEF Fits, Judging, Unprojected
<1> QED BY <1>2, <1>4, <1>5, <1>6, MoveStep

(* The outbox row and the count of its attempts.                           *)
LEMMA OutboxStep ==
    ASSUME StagesInv, NEW x \in Workers, OpenOutbox(x) \/ StartProjection(x)
    PROVE  StagesInv'
<1>1. w \in [Workers -> WorkerStates] /\ w[x] \in WorkerStates /\ claims \in Nat
      /\ outbox \in [status : {"none", "pending", "running", "succeeded", "skipped"}, attempts : Nat]
  BY CandidateStagesAssumption DEF StagesInv, StageTypes
<1>2. /\ w[x].at \in {"outbox", "project"} /\ Unprojected(w[x]) /\ w[x].by = None
      /\ UNCHANGED <<modelVars, edition, candidate, memory, vectors, rows, facts, run, job, lease,
                     claims>>
  BY DEF OpenOutbox, StartProjection, Unprojected, StagesInv, WorkersFit, Fits
<1>3. outbox.attempts <= claims /\ (lease = x => outbox.attempts < claims)
  BY <1>2 DEF StagesInv, AttemptsCounted
<1>4. ASSUME NEW s \in WorkerStates, w' = [w EXCEPT ![x] = s], Fits(s), ~Judging(s),
             outbox' \in [status : {"none", "pending", "running", "succeeded", "skipped"},
                          attempts : Nat],
             outbox'.status # outbox.status => outbox'.status # "succeeded",
             outbox'.attempts \in {outbox.attempts, outbox.attempts + 1},
             outbox'.attempts = outbox.attempts \/ lease = x,
             Unprojected(s) => outbox'.attempts = outbox.attempts,
             s.exists => vectors # {}
      PROVE  StagesInv'
  <2>1. StageTypes'
    <3>1. w' \in [Workers -> WorkerStates]
      BY <1>1, <1>4
    <3> QED BY <1>2, <1>4, <3>1 DEF StagesInv, StageTypes
  <2>2. RowsAgree' /\ LabelsHold'
    BY <1>2 DEF StagesInv, RowsAgree, LabelsHold, Faithfully, SelfCertified
  <2>3. /\ outbox'.attempts <= claims' /\ claims' >= claims
        /\ outbox'.attempts = outbox.attempts \/ lease' = x
        /\ lease' = x /\ Unprojected(s) => outbox'.attempts < claims'
    BY <1>1, <1>2, <1>3, <1>4
  <2>4. vectors' = vectors /\ (outbox'.status = "succeeded" => vectors' # {})
    BY <1>2, <1>4 DEF StagesInv, VectorsStay
  <2>5. records' \in [Profiles -> {"none", "current", "stale"}]
        /\ UNCHANGED <<profiles, health, defaults, tester, assigner, changes>>
        /\ lease' = lease /\ candidate' = candidate
    BY <1>2 DEF StagesInv, ModelInv, ModelTypeOK, modelVars
  <2> QED BY <1>4, <2>1, <2>2, <2>3, <2>4, <2>5, WorkerFrame
<1>5. CASE OpenOutbox(x)
  <2> DEFINE s == [w[x] EXCEPT !.at = "project"]
  <2>1. w' = [w EXCEPT ![x] = s]
    BY <1>1, <1>5 DEF OpenOutbox
  <2>2. s \in WorkerStates /\ s.at = "project" /\ s.exists = w[x].exists /\ s.by = None
    BY <1>1, <1>2 DEF WorkerStates, Steps
  <2> HIDE DEF s
  <2>3. Fits(s) /\ ~Judging(s) /\ (s.exists => vectors # {})
    BY <2>2 DEF Fits, Judging, StagesInv, VectorsStay
  <2>4. /\ outbox' \in [status : {"none", "pending", "running", "succeeded", "skipped"},
                        attempts : Nat]
        /\ outbox'.status # outbox.status => outbox'.status # "succeeded"
        /\ outbox'.attempts = outbox.attempts
    BY <1>1, <1>5 DEF OpenOutbox, Enqueued
  <2> QED BY <1>4, <2>1, <2>2, <2>3, <2>4
<1>6. CASE StartProjection(x)
  <2> DEFINE found == HasVector(EmbeddingTarget)
             s == [w[x] EXCEPT !.at = "resolve", !.stage = "embedding", !.exists = found,
                               !.attempt = outbox'.attempts]
  <2>1. /\ found \/ lease = x
        /\ outbox' = IF found THEN outbox ELSE Attempted
        /\ w' = [w EXCEPT ![x].at = "resolve", ![x].stage = "embedding", ![x].exists = found,
                          ![x].attempt = outbox'.attempts]
    BY <1>6 DEF StartProjection, Fenced
  <2>2. found \in BOOLEAN /\ (found => vectors # {})
    BY DEF HasVector
  <2> HIDE DEF found
  <2>3. /\ outbox' \in [status : {"none", "pending", "running", "succeeded", "skipped"},
                        attempts : Nat]
        /\ outbox'.status # outbox.status => outbox'.status # "succeeded"
        /\ outbox'.attempts \in {outbox.attempts, outbox.attempts + 1}
        /\ outbox'.attempts = outbox.attempts \/ lease = x
    <3>1. CASE found
      <4>1. outbox' = outbox
        BY <2>1, <3>1
      <4> QED BY <1>1, <4>1
    <3>2. CASE ~found
      <4>1. outbox' = [status |-> "running", attempts |-> outbox.attempts + 1] /\ lease = x
        BY <2>1, <3>2 DEF Attempted
      <4> QED BY <1>1, <4>1
    <3> QED BY <3>1, <3>2
  <2>4. w' = [w EXCEPT ![x] = s]
    BY <1>1, <2>1
  <2>5. s \in WorkerStates
    BY <1>1, <2>2, <2>3 DEF WorkerStates, Steps, Stages
  <2>6. s.at = "resolve" /\ s.stage = "embedding" /\ s.exists = found /\ s.by = None
    BY <1>1, <1>2 DEF WorkerStates
  <2> HIDE DEF s
  <2>7. Fits(s) /\ ~Judging(s) /\ ~Unprojected(s)
    BY <2>6 DEF Fits, Judging, Unprojected, Stages, Structured
  <2> QED BY <1>4, <2>2, <2>3, <2>4, <2>5, <2>6, <2>7
<1> QED BY <1>5, <1>6

(* The vector, or what the outbox row says without one.                    *)
LEMMA EmbeddingStep ==
    ASSUME StagesInv, NEW x \in Workers, ApplyEmbedding(x)
    PROVE  StagesInv'
<1> DEFINE res == w[x].res
           s == [Idle EXCEPT !.at = "finish"]
           new == [model |-> res.model, by |-> w[x].by, edits |-> w[x].edits]
<1>1. /\ w \in [Workers -> WorkerStates] /\ w[x] \in WorkerStates
      /\ outbox \in [status : {"none", "pending", "running", "succeeded", "skipped"}, attempts : Nat]
      /\ vectors \subseteq [model : Models, by : Confs \cup {None}, edits : Nat]
      /\ records \in [Profiles -> {"none", "current", "stale"}]
  BY DEF StagesInv, StageTypes, ModelInv, ModelTypeOK
<1>2. /\ w[x].at = "apply" /\ lease = x /\ lease' = x /\ w' = [w EXCEPT ![x] = s]
      /\ res \in Resolutions /\ Faithfully(res.model, w[x].by, w[x].edits)
      /\ UNCHANGED <<profiles, health, defaults, tester, assigner, changes, edition, candidate,
                     memory, rows, facts, run, job, lease, claims>>
  BY DEF ApplyEmbedding, Fenced, StagesInv, WorkersFit, Fits
<1>3. s \in WorkerStates /\ s.at = "finish" /\ ~s.exists /\ s.by = None
  BY IdleTyped DEF Idle, WorkerStates, Steps
<1> HIDE DEF s
<1>4. Fits(s) /\ ~Judging(s) /\ ~Unprojected(s)
  BY <1>3 DEF Fits, Judging, Unprojected
<1>5. /\ vectors' \subseteq [model : Models, by : Confs \cup {None}, edits : Nat]
      /\ vectors # {} => vectors' # {}
      /\ \A v \in vectors' : v \in vectors \/ v = new
      /\ records' \in [Profiles -> {"none", "current", "stale"}]
      /\ outbox' \in [status : {"none", "pending", "running", "succeeded", "skipped"},
                      attempts : Nat]
      /\ outbox'.attempts = outbox.attempts
      /\ outbox'.status = "succeeded" => vectors' # {}
  <2>1. CASE w[x].out # None /\ res.profile # None
    <3>1. /\ vectors' = {v \in vectors : v.model # res.model} \cup {new}
          /\ records' = Recorded(res.profile)
          /\ outbox' = [outbox EXCEPT !.status = "succeeded"]
      BY <2>1 DEF ApplyEmbedding
    <3>2. new \in [model : Models, by : Confs \cup {None}, edits : Nat] /\ res.profile \in Profiles
      BY <1>1, <1>2, <2>1 DEF Resolutions, WorkerStates
    <3> HIDE DEF new
    <3>3. records' \in [Profiles -> {"none", "current", "stale"}]
      BY <1>1, <3>1, <3>2 DEF Recorded, Current
    <3>4. /\ vectors' \subseteq [model : Models, by : Confs \cup {None}, edits : Nat]
          /\ vectors' # {}
          /\ \A v \in vectors' : v \in vectors \/ v = new
      BY <1>1, <3>1, <3>2
    <3>5. /\ outbox' \in [status : {"none", "pending", "running", "succeeded", "skipped"},
                          attempts : Nat]
          /\ outbox'.attempts = outbox.attempts
      BY <1>1, <3>1
    <3> QED BY <3>3, <3>4, <3>5
  <2>2. CASE ~(w[x].out # None /\ res.profile # None)
    <3>1. vectors' = vectors /\ records' = records
          /\ outbox' = [outbox EXCEPT !.status = Settled(x)]
      BY <2>2 DEF ApplyEmbedding
    <3>2. Settled(x) \in {"succeeded", "skipped", "pending"}
          /\ (Settled(x) = "succeeded" => vectors # {})
      BY DEF Settled, StagesInv, VectorsStay
    <3>3. /\ outbox' \in [status : {"none", "pending", "running", "succeeded", "skipped"},
                          attempts : Nat]
          /\ outbox'.attempts = outbox.attempts /\ outbox'.status = Settled(x)
      BY <1>1, <3>1, <3>2
    <3> QED BY <1>1, <3>1, <3>2, <3>3
  <2> QED BY <2>1, <2>2
<1>6. StageTypes'
  <2>1. w' \in [Workers -> WorkerStates]
    BY <1>1, <1>2, <1>3
  <2> QED BY <1>2, <1>5, <2>1 DEF StagesInv, StageTypes
<1>7. RowsAgree'
  BY <1>2 DEF StagesInv, RowsAgree
<1>8. LabelsHold'
  <2>1. \A v \in vectors' : Faithfully(v.model, v.by, v.edits)
    BY <1>2, <1>5 DEF StagesInv, LabelsHold
  <2> QED BY <1>2, <2>1 DEF StagesInv, LabelsHold, Faithfully, SelfCertified
<1>9. outbox'.attempts <= claims' /\ claims' >= claims /\ candidate' = candidate
  BY <1>2, <1>5, CandidateStagesAssumption DEF StagesInv, StageTypes, AttemptsCounted
<1> QED BY <1>2, <1>3, <1>4, <1>5, <1>6, <1>7, <1>8, <1>9, WorkerFrame
-----------------------------------------------------------------------------
(* The theorems.                                                           *)

(* The installation, empty or set up.                                      *)
LEMMA ModelStart ==
    ASSUME ModelInit
    PROVE  ModelInv
<1>1. /\ records \in [Profiles -> {"none", "current", "stale"}]
      /\ tester = NoTest /\ assigner = NoAssign /\ changes = 0
      /\ tester.profile = None /\ assigner.step = "idle"
      /\ changes \in 0 .. MaxChanges + 1
  BY ModelControlAssumption DEF ModelInit, NoTest, NoAssign
<1>2. /\ profiles \in [Profiles -> Rows \cup {None}]
      /\ health \in [Profiles -> Events]
      /\ defaults \in [Roles -> [Scope -> Profiles \cup {None}]]
      /\ \A r \in Roles, s \in Scope : defaults[r][s] # None => profiles[defaults[r][s]] # None
  <2>1. CASE /\ profiles = [p \in Profiles |-> None]
             /\ health = [p \in Profiles |-> NoHealth]
             /\ defaults = [r \in Roles |-> [s \in Scope |-> None]]
    BY <2>1 DEF NoHealth, Events
  <2>2. ASSUME NEW c \in Installed, NEW roles \in [Profiles -> Declarable],
               profiles = [p \in Profiles |-> [role |-> roles[p], conf |-> c,
                 requires |-> c \in Remote, ack |-> c \in Remote, enabled |-> TRUE]],
               health = [p \in Profiles |->
                 [fp |-> <<roles[p], c, TRUE>>, probed |-> c, ok |-> TRUE, keyed |-> FALSE]],
               defaults = [r \in Roles |-> [s \in Scope |->
                 IF s = Len(Scopes) /\ \E p \in Profiles : roles[p] = r
                 THEN CHOOSE p \in Profiles : roles[p] = r ELSE None]]
        PROVE  <1>2!1 /\ <1>2!2 /\ <1>2!3 /\ <1>2!4
    <3>1. c \in Confs /\ \A p \in Profiles : roles[p] \in Roles
      BY ModelControlAssumption
    <3>2. profiles \in [Profiles -> Rows]
      BY <2>2, <3>1 DEF Rows
    <3>3. health \in [Profiles -> Events]
      BY <2>2, <3>1 DEF Events
    <3>4. \A r \in Roles, s \in Scope : defaults[r][s] \in Profiles \cup {None}
      BY <2>2
    <3>5. defaults \in [Roles -> [Scope -> Profiles \cup {None}]]
      BY <2>2, <3>4
    <3> QED BY <3>2, <3>3, <3>4, <3>5, ModelControlAssumption
  <2> QED BY <2>1, <2>2 DEF ModelInit
<1> QED BY <1>1, <1>2 DEF ModelInv, ModelTypeOK, RequestsPlaced, Events, NoAssign

(* The first attempt has not begun.                                        *)
LEMMA StagesStart == Init => StagesInv
<1> SUFFICES ASSUME Init PROVE StagesInv
  OBVIOUS
<1>1. ModelInv
  BY ModelStart DEF Init
<1>2. StageTypes
  <2>1. facts \in [units : BOOLEAN, gates : BOOLEAN, execution : Extractions \cup {None},
                   stage : Extractions \cup {None}, usage : Results \cup {None},
                   annotations : Extractions \cup {None}, analyses : Extractions \cup {None}]
    BY DEF Init, NoFacts
  <2>2. outbox \in [status : {"none", "pending", "running", "succeeded", "skipped"},
                    attempts : Nat]
    BY DEF Init
  <2>3. w \in [Workers -> WorkerStates] /\ candidate \in [status : Statuses, high : BOOLEAN]
        /\ claims \in 0 .. MaxClaims
    BY CandidateStagesAssumption, IdleTyped DEF Init
  <2> QED BY <2>1, <2>2, <2>3 DEF Init, StageTypes
<1>3. /\ \A x \in Workers : w[x] = Idle
      /\ lease = None /\ outbox.attempts = 0 /\ outbox.status = "none" /\ claims = 0
      /\ rows = {} /\ vectors = {}
      /\ facts.stage = None /\ facts.annotations = None /\ facts.execution = None
  BY DEF Init, NoFacts
<1>4. WorkersFit /\ KnowsTheRow
  BY <1>3, IdleTyped DEF WorkersFit, KnowsTheRow
<1>5. AttemptsCounted /\ VectorsStay
  BY <1>3, IdleTyped, CandidateStagesAssumption DEF AttemptsCounted, VectorsStay
<1>6. RowsAgree /\ LabelsHold
  BY <1>3 DEF RowsAgree, LabelsHold
<1> QED BY <1>1, <1>2, <1>4, <1>5, <1>6 DEF StagesInv

(* Every step keeps the invariant.                                         *)
LEMMA StagesStep == StagesInv /\ [Next]_vars => StagesInv'
<1> SUFFICES ASSUME StagesInv, [Next]_vars PROVE StagesInv'
  OBVIOUS
<1>1. CASE Administer /\ UNCHANGED stageVars
  BY <1>1, AdministerKeepsStages
<1>2. ASSUME NEW x \in Workers, Work(x) PROVE StagesInv'
  BY <1>2, JobStep, BeginStep, ResolveStep, SendStep, ReceiveStep, PersistStep, ApplyStep,
     StoreStep, OutboxStep, EmbeddingStep DEF Work
<1>3. CASE LoseLease
  BY <1>3, LoseLeaseStep
<1>4. CASE UNCHANGED vars
  <2> USE <1>4 DEF vars, modelVars, stageVars, StagesInv
  <2>1. ModelInv'
    BY DEF ModelInv, ModelTypeOK, RequestsPlaced
  <2>2. StageTypes'
    BY DEF StageTypes
  <2>3. WorkersFit'
    BY DEF WorkersFit, Fits, Drifts, Called, Certified, CertifiedBy, NewestEvent
  <2>4. KnowsTheRow' /\ AttemptsCounted' /\ VectorsStay' /\ RowsAgree' /\ LabelsHold'
    BY DEF KnowsTheRow, AttemptsCounted, VectorsStay, RowsAgree, LabelsHold
  <2> QED BY <2>1, <2>2, <2>3, <2>4
<1> QED BY <1>1, <1>2, <1>3, <1>4 DEF Next

(* The invariant holds throughout.                                         *)
LEMMA StagesInvariant == Spec => []StagesInv
BY StagesStart, StagesStep, PTL DEF Spec

(* After every crash and retry the records of a candidate agree            *)
(* (_record_extraction_stage, _persist_result, the embedding outbox), and  *)
(* the outbox never counts more attempts than the job had.                 *)
THEOREM CandidateRecordsAgree == Spec => []RecordsAgree
<1>1. StagesInv => RecordsAgree
  <2> SUFFICES ASSUME StagesInv PROVE RecordsAgree
    OBVIOUS
  <2>1. outbox.attempts \in 0 .. MaxClaims
    BY CandidateStagesAssumption DEF StagesInv, StageTypes, AttemptsCounted
  <2>2. TypeOK
    BY <2>1 DEF StagesInv, StageTypes, ModelInv, TypeOK
  <2> QED BY <2>2 DEF StagesInv, RowsAgree, VectorsStay, RecordsAgree
<1> QED BY <1>1, StagesInvariant, PTL

(* A provider is called as the administrator approved it, unless the       *)
(* profile was edited since the resolution (StageInvoker,                  *)
(* _provider_profile).  Approved is the configuration that passed its      *)
(* probe, and also one that was put in its place while the probe ran and   *)
(* certified by it (repository.py:466).                                    *)
THEOREM CallsAreApproved == Spec => []CallsWhatWasApproved
<1>1. StagesInv => CallsWhatWasApproved
  BY DEF StagesInv, WorkersFit, Fits, Called, CallsWhatWasApproved, NoCall
<1> QED BY <1>1, StagesInvariant, PTL

(* An answer dropped by _require_same_resolution is never filed: one edit  *)
(* in a call never leaves a row or a vector under a model that did not     *)
(* produce it.                                                             *)
THEOREM LabelsSurviveOneEdit == Spec => []OneEditNeverMislabels
<1>1. StagesInv => OneEditNeverMislabels
  BY DEF StagesInv, LabelsHold, Faithfully, OneEditNeverMislabels
<1> QED BY <1>1, StagesInvariant, PTL

(* No stage, retry or replayed answer loosens a verdict, and a memory is   *)
(* made only of a candidate accepted at that moment                        *)
(* (_apply_privacy_result, _apply_high_confidence_result,                  *)
(* _record_memories): the worker under the fence knows the row as it is.   *)
THEOREM VerdictsTighten == Spec => VerdictsOnlyTighten
<1> DEFINE Tight == /\ candidate.status = "rejected" => candidate'.status = "rejected"
                    /\ candidate.status = "needs_review" => candidate'.status # "ready"
                    /\ memory' /\ ~memory => candidate.status = "ready"
<1>1. StagesInv /\ [Next]_vars => [Tight]_vars
  <2> SUFFICES ASSUME StagesInv, [Next]_vars PROVE Tight
    OBVIOUS
  <2>1. CASE UNCHANGED <<candidate, memory>>
    BY <2>1 DEF StagesInv, StageTypes
  <2>2. ASSUME NEW x \in Workers, ApplyPrivacy(x) \/ ApplyHighConfidence(x) PROVE Tight
    <3>1. w[x].known = candidate.status /\ memory' = memory
      BY <2>2 DEF ApplyPrivacy, ApplyHighConfidence, Fenced, StagesInv, KnowsTheRow, Judging,
                  Structured
    <3>2. candidate.status \in Statuses /\ candidate \in [status : Statuses, high : BOOLEAN]
      BY DEF StagesInv, StageTypes
    <3>3. candidate'.status \in {AfterPrivacy(candidate.status, w[x].out),
                                 AfterHighConfidence(candidate.status, w[x].out)}
      <4>1. CASE ApplyPrivacy(x)
        BY <3>1, <3>2, <4>1 DEF ApplyPrivacy
      <4>2. CASE ApplyHighConfidence(x)
        BY <3>1, <3>2, <4>2 DEF ApplyHighConfidence
      <4> QED BY <2>2, <4>1, <4>2
    <3> QED BY <3>1, <3>2, <3>3, VerdictTightens
  <2>3. ASSUME NEW x \in Workers, Store(x) PROVE Tight
    BY <2>3 DEF Store, Fenced, Accepted, StagesInv, KnowsTheRow, Judging
  <2>4. ASSUME NEW x \in Workers, Work(x) PROVE Tight
    <3>1. \/ UNCHANGED <<candidate, memory>>
          \/ ApplyPrivacy(x) \/ ApplyHighConfidence(x) \/ Store(x)
      BY <2>4 DEF Work, Claim, Fail, Rejected, Begin, ResolveStage, Send, Receive, PersistResult,
                  OpenOutbox, StartProjection, ApplyEmbedding, Finish, Complete
    <3> QED BY <2>1, <2>2, <2>3, <3>1
  <2>5. CASE (Administer /\ UNCHANGED stageVars) \/ LoseLease \/ UNCHANGED vars
    BY <2>1, <2>5 DEF LoseLease, vars, stageVars
  <2> QED BY <2>4, <2>5 DEF Next
<1> QED BY <1>1, StagesInvariant, PTL DEF Spec, VerdictsOnlyTighten
=============================================================================
