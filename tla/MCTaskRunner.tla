---------------------------- MODULE MCTaskRunner ----------------------------
(* Small instances of TaskRunner for TLC. *)
EXTENDS TaskRunner, TLC

CONSTANTS r1, r2, t1, t2, h1, h2, wd

\* Runs and handlers are only ever compared for equality.
RunSymmetry == Permutations(Runs) \cup Permutations(Handlers)
=============================================================================
