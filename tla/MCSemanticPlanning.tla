------------------------- MODULE MCSemanticPlanning -------------------------
(* One message with one job of two attempts, two workers; the profile may   *)
(* switch between remote, local and a remote one above the privacy ceiling. *)
EXTENDS SemanticPlanning, TLC

CONSTANTS j1

MCPriority == j1 :> 1
MCMaxAttempts == j1 :> 2
=============================================================================
