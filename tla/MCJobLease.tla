----------------------------- MODULE MCJobLease -----------------------------
(* Two worker processes, three jobs of two priorities: one of them has the  *)
(* single attempt of an imported message, the others may be retried.        *)
EXTENDS JobLease, TLC

CONSTANTS j1, j2, j3

MCPriority == (j1 :> 2) @@ (j2 :> 1) @@ (j3 :> 1)
MCMaxAttempts == (j1 :> 2) @@ (j2 :> 2) @@ (j3 :> 1)
=============================================================================
