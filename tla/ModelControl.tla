---------------------------- MODULE ModelControl ----------------------------
(***************************************************************************)
(* Model profiles, their certification, the defaults of the roles, and the *)
(* resolution of a role to the profile a stage calls.                      *)
(*                                                                         *)
(* An administrator's requests run beside the memory workers.  Testing a   *)
(* profile and assigning a default read the profile first and write in a   *)
(* later transaction, with the probe of the provider or any other request  *)
(* in between.                                                             *)
(*                                                                         *)
(* A configuration (conf) stands for everything the certification          *)
(* fingerprint covers except the enabled flag: provider type, endpoint,    *)
(* model name, capabilities and secret reference.                          *)
(***************************************************************************)
EXTENDS Integers, Sequences, FiniteSets

CONSTANTS
    Declarable,     \* the roles profiles are declared for
    Profiles,       \* the profiles an administrator may create
    Confs,          \* configurations
    Remote,         \* those whose endpoint is not local
    Kind,           \* "provider", "deterministic" or "disabled"
    ModelName,      \* the model a configuration names
    Reachable,      \* those whose endpoint answers the connectivity check
    Works,          \* those that can pass the probe of each role
    Incapable,      \* those without the capability their role needs
    Scopes,         \* the scopes of a default, most specific first
    Installed,      \* the configurations an installation may start with
    Creations,      \* the bodies of create requests
    Patches,        \* the bodies of patch requests
    Keyed,          \* whether a test request carries an idempotency key
    MaxChanges,     \* bound: administrator requests in one behaviour
    None, Unset     \* no value; a field a request leaves out

VARIABLES
    profiles,   \* model_profiles: the row of each profile
    health,     \* model_health_events: the newest event, and the keyed one
    defaults,   \* model_role_defaults
    records,    \* embedding_records of the version, per profile
    tester,     \* the test_profile request in flight
    assigner,   \* the set_default or remove_default request in flight
    changes     \* administrator requests and test results so far

modelVars == <<profiles, health, defaults, records, tester, assigner, changes>>

Roles == {"memory_extraction", "privacy_sensitivity",
          "high_confidence_extraction", "embedding"}
Rows == [role : Roles, conf : Confs, requires : BOOLEAN, ack : BOOLEAN, enabled : BOOLEAN]
Scope == 1 .. Len(Scopes)

(* The roles that borrow another role's default.                           *)
Inherited == [r \in Roles |->
    IF r \in {"privacy_sensitivity", "high_confidence_extraction"}
    THEN "memory_extraction" ELSE None]

(* What a role without a usable default runs.                              *)
BuiltIn == [r \in Roles |-> IF r = "embedding" THEN "disabled" ELSE "deterministic"]

NoHealth == [fp |-> None, probed |-> None, ok |-> FALSE, keyed |-> FALSE]

ASSUME ModelControlAssumption ==
    /\ Declarable \subseteq Roles /\ Keyed \subseteq BOOLEAN
    /\ Kind \in [Confs -> {"provider", "deterministic", "disabled"}]
    /\ ModelName \in [Confs -> STRING]
    /\ Remote \subseteq Confs /\ Reachable \subseteq Confs /\ Incapable \subseteq Confs
    /\ Works \in [Roles -> SUBSET Confs]
    /\ \A r \in Declarable : Installed \subseteq Works[r]
    /\ Installed \subseteq Confs /\ Scopes \in Seq(STRING)
    /\ Creations \subseteq [role : Roles, conf : Confs, risk : BOOLEAN, ack : BOOLEAN,
                            enabled : BOOLEAN]
    /\ Patches \subseteq [role : Roles \cup {Unset}, conf : Confs \cup {Unset},
                          risk : BOOLEAN \cup {Unset}, ack : BOOLEAN,
                          enabled : BOOLEAN \cup {Unset}]
    /\ None \notin Profiles \cup Confs \cup Rows /\ MaxChanges \in Nat

(***************************************************************************)
(* Certification and resolution.                                           *)
(***************************************************************************)
Fingerprint(row) == <<row.role, row.conf, row.enabled>>

Requires(row) == row.requires \/ row.conf \in Remote

(* Deterministic providers certify themselves, except for extraction.      *)
CertifiedBy(row, event) ==
    \/ Kind[row.conf] = "deterministic" /\ row.role # "memory_extraction"
    \/ event.ok /\ event.fp = Fingerprint(row)

NewestEvent(p) == health[p]

Certified(p) == CertifiedBy(profiles[p], NewestEvent(p))

Acknowledged(row) == Requires(row) => row.ack

Capable(row) == row.conf \notin Incapable

UsableUnacknowledged(p, expected) ==
    profiles[p].role = expected /\ profiles[p].enabled /\ Certified(p) /\ Capable(profiles[p])

Usable(p, expected) ==
    /\ profiles[p].role = expected
    /\ profiles[p].enabled
    /\ Acknowledged(profiles[p])
    /\ Certified(p)
    /\ Capable(profiles[p])

(* The scope of the default that applies: the most specific that is set.   *)
ApplyingScope(role) ==
    LET set == {s \in Scope : defaults[role][s] # None}
    IN  IF set = {} THEN None ELSE CHOOSE s \in set : \A t \in set : s <= t

ResolveDefault(role) ==
    IF role = None \/ ApplyingScope(role) = None THEN None
    ELSE defaults[role][ApplyingScope(role)]

FromProfile(p, effective) ==
    [profile |-> p, role |-> effective, scope |-> ApplyingScope(effective),
     kind |-> Kind[profiles[p].conf], model |-> ModelName[profiles[p].conf]]

FromBuiltIn(role) ==
    [profile |-> None, role |-> role, scope |-> None,
     kind |-> BuiltIn[role], model |-> BuiltIn[role]]

(* The role's own default, else the default of the role it inherits from,  *)
(* else the built-in; an unusable default is passed over.                  *)
Resolve(role) ==
    LET own == ResolveDefault(role)
        inherited == ResolveDefault(Inherited[role])
    IN  IF own # None /\ Usable(own, role) THEN FromProfile(own, role)
        ELSE IF inherited # None /\ Usable(inherited, Inherited[role])
             THEN FromProfile(inherited, Inherited[role])
             ELSE FromBuiltIn(role)

(* What the resolution fingerprint tells apart: the row of the profile is  *)
(* read anew for both sides of the comparison.                             *)
SameResolution(r1, r2) ==
    r1.profile = r2.profile /\ r1.role = r2.role /\ r1.scope = r2.scope

(***************************************************************************)
(* Probing a provider.                                                     *)
(***************************************************************************)
(* The provider built for a row: a disabled profile only raises.           *)
ProviderFor(row) == IF row.enabled THEN Kind[row.conf] ELSE "disabled"

(* Connectivity and the marker of a chat model.                            *)
ChatCheck(row) == row.conf \in Reachable

(* One vector of the declared dimension.                                   *)
EmbeddingCheck(row) == row.conf \in Reachable \cap Works["embedding"]

(* Both extraction contracts, without fallback.                            *)
ExtractionProbe(row) == row.conf \in Works["memory_extraction"]

(* The contract of any other structured role.                              *)
StructuredProbe(row) == row.conf \in Works[row.role]

(* What the test of a profile can find at best; a provider may always fail.*)
MayPass(row) ==
    /\ ProviderFor(row) # "disabled"
    /\ CASE row.role = "embedding" -> EmbeddingCheck(row)
         [] row.role = "memory_extraction" -> ChatCheck(row) /\ ExtractionProbe(row)
         [] OTHER -> ChatCheck(row) /\ (Kind[row.conf] = "deterministic" \/ StructuredProbe(row))

(***************************************************************************)
(* The administrator's requests.                                           *)
(***************************************************************************)
ModelTypeOK ==
    /\ profiles \in [Profiles -> Rows \cup {None}]
    /\ \A p \in Profiles : health[p].fp \in (Roles \X Confs \X BOOLEAN) \cup {None}
    /\ defaults \in [Roles -> [Scope -> Profiles \cup {None}]]
    /\ \A r \in Roles, s \in Scope :
          defaults[r][s] # None => profiles[defaults[r][s]] # None
    /\ records \in [Profiles -> {"none", "current", "stale"}]
    /\ tester.profile \in Profiles \cup {None}
    /\ assigner.step \in {"idle", "set", "remove"}
    /\ changes \in 0 .. MaxChanges + 1

NoTest == [profile |-> None, row |-> None, keyed |-> FALSE]
NoAssign == [step |-> "idle", role |-> None, scope |-> 0, profile |-> None, previous |-> None]

(* Nothing configured, or every profile created, tested and assigned for   *)
(* all scopes: a state the requests below reach.                           *)
ModelInit ==
    /\ records = [p \in Profiles |-> "none"]
    /\ tester = NoTest /\ assigner = NoAssign /\ changes = 0
    /\ \/ /\ profiles = [p \in Profiles |-> None]
          /\ health = [p \in Profiles |-> NoHealth]
          /\ defaults = [r \in Roles |-> [s \in Scope |-> None]]
       \/ \E c \in Installed, roles \in [Profiles -> Declarable] :
          /\ profiles = [p \in Profiles |-> [role |-> roles[p], conf |-> c,
                requires |-> c \in Remote, ack |-> c \in Remote, enabled |-> TRUE]]
          /\ health = [p \in Profiles |->
                [fp |-> <<roles[p], c, TRUE>>, probed |-> c, ok |-> TRUE, keyed |-> FALSE]]
          /\ defaults = [r \in Roles |-> [s \in Scope |->
                IF s = Len(Scopes) /\ \E p \in Profiles : roles[p] = r
                THEN CHOOSE p \in Profiles : roles[p] = r ELSE None]]

Given(value, old) == IF value = Unset THEN old ELSE value

(* One request of the administrator.  Those that leave every row as it was *)
(* are left out: they take no part in what the workers see.                *)
Request == changes < MaxChanges /\ changes' = changes + 1

(* An acknowledgement once given is kept, whatever the patch changes.      *)
Patched(row, b) ==
    [role     |-> Given(b.role, row.role),
     conf     |-> Given(b.conf, row.conf),
     requires |-> \/ b.conf # Unset /\ b.conf \in Remote
                  \/ Given(b.risk, row.requires),
     ack      |-> row.ack \/ b.ack,
     enabled  |-> Given(b.enabled, row.enabled)]

PatchProfile(p, body) ==
    /\ Request /\ profiles[p] # None
    /\ profiles' = [profiles EXCEPT ![p] = Patched(@, body)] /\ profiles' # profiles
    /\ UNCHANGED <<health, defaults, records, tester, assigner>>

NewProfile(body) ==
    [role |-> body.role, conf |-> body.conf, requires |-> body.risk \/ body.conf \in Remote,
     ack |-> body.ack, enabled |-> body.enabled]

(* A create request whose setup key is known patches the existing profile. *)
CreateProfile(p, body) ==
    /\ Request
    /\ profiles' = [profiles EXCEPT ![p] = IF @ = None THEN NewProfile(body) ELSE Patched(@, body)]
    /\ profiles' # profiles
    /\ UNCHANGED <<health, defaults, records, tester, assigner>>

WithAcknowledgement(row) == [row EXCEPT !.ack = TRUE, !.requires = TRUE]

AcknowledgePrivacy(p) ==
    /\ Request /\ profiles[p] # None
    /\ profiles' = [profiles EXCEPT ![p] = WithAcknowledgement(@)] /\ profiles' # profiles
    /\ UNCHANGED <<health, defaults, records, tester, assigner>>

(* test_profile reads the row and probes the provider it names.            *)
StartTest(p, keyed) ==
    /\ Request /\ tester = NoTest /\ profiles[p] # None
    /\ tester' = [profile |-> p, row |-> profiles[p], keyed |-> keyed]
    /\ UNCHANGED <<profiles, health, defaults, records, assigner>>

(* The event carries the result of the probe and the fingerprint of the    *)
(* row as it is when the probe ends; a repeated key leaves the first event *)
(* in place.                                                               *)
Event(p, ok) ==
    [fp |-> Fingerprint(profiles[p]), probed |-> tester.row.conf, ok |-> ok,
     keyed |-> tester.keyed \/ health[p].keyed]

RecordHealthEvent ==
    LET p == tester.profile IN
    /\ p # None
    /\ \E ok \in BOOLEAN :
          /\ ok => MayPass(tester.row)
          /\ health' = IF tester.keyed /\ health[p].keyed THEN health
                       ELSE [health EXCEPT ![p] = Event(p, ok)]
    /\ tester' = NoTest
    /\ changes' = changes + 1
    /\ UNCHANGED <<profiles, defaults, records, assigner>>

Assignable(p) ==
    profiles[p] # None /\ profiles[p].enabled /\ Acknowledged(profiles[p]) /\ Certified(p)

(* set_default checks the profile and reads the default it replaces.       *)
CheckDefault(p, s) ==
    /\ Request /\ assigner = NoAssign /\ Assignable(p)
    /\ assigner' = [step |-> "set", role |-> profiles[p].role, scope |-> s, profile |-> p,
                    previous |-> ResolveDefault(profiles[p].role)]
    /\ UNCHANGED <<profiles, health, defaults, records, tester>>

CheckRemoval(role, s) ==
    /\ Request /\ assigner = NoAssign
    /\ assigner' = [step |-> "remove", role |-> role, scope |-> s, profile |-> None,
                    previous |-> ResolveDefault(role)]
    /\ UNCHANGED <<profiles, health, defaults, records, tester>>

(* A record is current until it is marked stale; it stays stale.           *)
Stale(state) == IF state = "current" THEN "stale" ELSE state
Current(state) == IF state = "none" THEN "current" ELSE state

MarkedStale(p) == [records EXCEPT ![p] = Stale(@)]

(* A new embedding default, or the removal of one, makes the records of    *)
(* the default read before stale.                                          *)
Replaces ==
    /\ assigner.step = "set" /\ assigner.role = "embedding"
    /\ assigner.previous \notin {None, assigner.profile}

Removes ==
    /\ assigner.step = "remove" /\ assigner.role = "embedding"
    /\ assigner.previous # None /\ defaults["embedding"][assigner.scope] # None

(* The default of the scope is replaced, or only deleted.                  *)
WithDefault == [defaults EXCEPT ![assigner.role][assigner.scope] = assigner.profile]
WithoutDefault == [defaults EXCEPT ![assigner.role][assigner.scope] = None]

WriteDefault ==
    /\ assigner # NoAssign
    /\ defaults' = IF assigner.step = "set" THEN WithDefault ELSE WithoutDefault
    /\ records' = IF Replaces \/ Removes THEN MarkedStale(assigner.previous) ELSE records
    /\ assigner' = NoAssign
    /\ UNCHANGED <<profiles, health, tester, changes>>

(* Removing a default that is not set changes nothing and is left out.     *)
ChangeDefaults ==
    \/ \E p \in Profiles, s \in Scope : CheckDefault(p, s)
    \/ \E r \in Declarable, s \in Scope : defaults[r][s] # None /\ CheckRemoval(r, s)

Administer ==
    \/ \E p \in Profiles :
          \/ \E b \in Creations : CreateProfile(p, b)
          \/ \E b \in Patches : PatchProfile(p, b)
          \/ AcknowledgePrivacy(p)
          \/ \E keyed \in Keyed : StartTest(p, keyed)
    \/ ChangeDefaults
    \/ RecordHealthEvent
    \/ WriteDefault
=============================================================================
