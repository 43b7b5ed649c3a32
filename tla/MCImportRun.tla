---- MODULE MCImportRun ----
(***************************************************************************)
(* Two imports of the same archive, of two conversations with a message    *)
(* each: c1 has no source id and its message no visible text.              *)
(***************************************************************************)
EXTENDS ImportRun

CONSTANTS r1, r2, m1, m2, c1, c2

MCItems == Runs \X Messages

MCConvOf == [m \in Messages |-> IF m = m1 THEN c1 ELSE c2]
====
