------------------------- MODULE MCRevivedBlock -------------------------
(* Two memories that one block shows, a request to erase each, and one      *)
(* thread that builds the block, compacts it or rolls it back.              *)
EXTENDS Governance, TLC

CONSTANTS m1, m2, c1, c2, r1, r2

MCMemories == {m1, m2}
MCCandidates == {c1, c2}
MCKeyOf == c1 :> m1 @@ c2 :> m2
MCTextOf == c1 :> 1 @@ c2 :> 2
MCPolarityOf == [c \in MCCandidates |-> "affirmed"]
MCAnswersOf == [c \in MCCandidates |-> {<<"public", "approved">>}]
MCTargetOf == r1 :> m1 @@ r2 :> m2
MCOperationsOf == << >>
=============================================================================
