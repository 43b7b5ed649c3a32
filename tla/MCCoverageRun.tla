--------------------------- MODULE MCCoverageRun ----------------------------
(* Messages of four words in two sentences, after three earlier units, one   *)
(* of them by the assistant; outputs that follow the sentences, cut across   *)
(* them, refer back with and without ratification, or are invalid.           *)
EXTENDS CoverageRun

Word(tok, mark) == [tok |-> tok, mark |-> mark]

Earlier(id, role, words) ==
  [id |-> id, role |-> role, words |-> words, shown |-> TRUE, versioned |-> TRUE]

Turns == <<Earlier("c0", "user", {Word("hello", "low")}),
           Earlier("c1", "assistant", {Word("ship", "plain"), Word("friday", "plain")}),
           Earlier("c2", "user", {Word("later", "plain")})>>

Sentence(first, last, dominant, context) ==
  [first |-> first, last |-> last, dominant |-> dominant, secondary |-> {},
   receiver |-> "ai", context |-> context]

Message(role, imported, words, hints, actor, one, two) ==
  [role |-> role, imported |-> imported, words |-> words, hints |-> hints, actor |-> actor,
   prior |-> Turns,
   sentences |-> {Sentence(1, 3, one, "process"), Sentence(4, 4, two, "emotive")}]

Plain == <<Word("yes", "ack"), Word("we", "strong"), Word("do", "firm"), Word("tea", "plain")>>
Private == <<Word("yes", "ack"), Word("we", "strong"), Word("do", "plain"),
             Word("pin", "secret")>>

MCMessages ==
  {Message("user", FALSE, Plain, {}, TRUE, "conative", "emotive"),
   Message("user", FALSE, Plain, {3}, TRUE, "referential", "phatic"),
   Message("user", FALSE, Private, {}, TRUE, "referential", "emotive"),
   Message("assistant", FALSE, Plain, {}, TRUE, "referential", "emotive"),
   Message("tool", TRUE, Plain, {}, FALSE, "metalingual", "poetic")}

Unit(id, first, last, memory, type, says) ==
  [id |-> id, first |-> first, last |-> last, memory |-> memory, type |-> type,
   durability |-> "durable", epistemic |-> "asserted", says |-> says]

Back == {Word("ship", "plain"), Word("friday", "plain")}
Own == {Word("do", "firm")}

Refer == [unit |-> "u1", first |-> 3, last |-> 3, status |-> "resolved",
          offered |-> {"c1"}, chosen |-> "c1"]
Ratify == [unit |-> "u1", first |-> 1, last |-> 3, type |-> "ratifies", target |-> "c1"]

MCOutputs ==
  {[units |-> <<Unit("u1", 1, 3, "FactClaim", "statement", Own),
                Unit("u2", 4, 4, "Preference", "statement", {Word("tea", "plain")})>>,
    refs |-> {}, rels |-> {}],
   [units |-> <<Unit("u1", 2, 4, "FactClaim", "statement", Own)>>, refs |-> {}, rels |-> {}],
   [units |-> <<Unit("u1", 2, 2, "none", "statement", Own)>>, refs |-> {}, rels |-> {}],
   [units |-> <<Unit("u1", 1, 3, "Decision", "statement", Back)>>,
    refs |-> {Refer}, rels |-> {Ratify}],
   [units |-> <<Unit("u1", 1, 3, "Decision", "statement", Back)>>, refs |-> {}, rels |-> {}],
   [units |-> <<Unit("u1", 1, 2, "none", "question", Own),
                Unit("u2", 2, 4, "Need", "statement", Own)>>, refs |-> {}, rels |-> {}]}
=============================================================================
