--------------------------- MODULE MCMemoryWorker ---------------------------
(* One message with one job of two attempts, two worker processes, and the  *)
(* identities the message may take: with a remote provider, without one,    *)
(* and disabled.                                                            *)
EXTENDS MemoryWorker, TLC

CONSTANTS j1, m1, remote, local, off

MCPriority == j1 :> 1
MCMaxAttempts == j1 :> 2
MCMessageOf == j1 :> m1
MCFirstSource == m1 :> remote
=============================================================================
