--------------------------- MODULE MCModelControl ---------------------------
(* A profile for extraction or for embedding, two workers.                 *)
EXTENDS CandidateStages, TLC

Body(role, conf, risk, ack, enabled) ==
    [role |-> role, conf |-> conf, risk |-> risk, ack |-> ack, enabled |-> enabled]

MCKind == [c \in Confs |-> IF c = "rules" THEN "deterministic" ELSE "provider"]
MCModelName == [c \in Confs |-> c]
MCWorks == [r \in Roles |-> Confs]
MCScopes == <<"global">>
MCCreations == {Body("embedding", "cloud", FALSE, TRUE, TRUE)}
MCPatches == {Body(Unset, "cloud", Unset, FALSE, Unset), Body(Unset, Unset, Unset, FALSE, FALSE)}
MCAnswers == [s \in Structured |->
    IF s = "privacy_sensitivity" THEN {"secret"} ELSE {"needs_review"}]
MCRules == [s \in Structured |-> IF s = "privacy_sensitivity" THEN "normal" ELSE "approved"]
MCPlanned == {[status |-> "ready", high |-> TRUE], [status |-> "needs_review", high |-> FALSE]}
Symmetry == Permutations(Workers)
=============================================================================
