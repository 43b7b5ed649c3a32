----------------------------- MODULE MCChatTurn -----------------------------
(* Two turns of a chat.                                                    *)
EXTENDS ChatTurn, TLC

Symmetry == Permutations(Turns)
MCUnknown == -1
MCPolicyRows == {[policy |-> "full", review |-> TRUE],
                 [policy |-> "no_recall", review |-> FALSE]}
=============================================================================
