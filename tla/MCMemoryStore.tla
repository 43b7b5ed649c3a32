--------------------------- MODULE MCMemoryStore ---------------------------
(* Two candidates of one canonical key, the second denying the first.  The *)
(* change corrects the memory to what the second says; the privacy request *)
(* erases it.                                                              *)
EXTENDS Governance, TLC

CONSTANTS m1, m2, c1, c2, x1, r1

Symmetry == Permutations(Threads) \cup Permutations(Rebuilders)

MCMemories == {m1, m2}
MCCandidates == {c1, c2}
MCKeyOf == [c \in MCCandidates |-> m1]
MCOwnKey == c1 :> m1 @@ c2 :> m2
MCTextOf == c1 :> 1 @@ c2 :> 2 @@ x1 :> 2
MCPolarityOf == c1 :> "affirmed" @@ c2 :> "negated"
MCAnswersOf == c1 :> {<<"public", "approved">>}
            @@ c2 :> {<<"public", "approved">>, <<"sensitive", "rejected">>}
MCTargetOf == x1 :> m1 @@ r1 :> m1
MCOperationsOf == x1 :> {"correct", "retract"}
=============================================================================
