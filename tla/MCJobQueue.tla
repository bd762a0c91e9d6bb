----------------------------- MODULE MCJobQueue -----------------------------
(* JobQueue on the small instances the configurations give.                  *)
EXTENDS JobQueue, TLC

CONSTANTS r1, r2, r3, w1, w2

Symmetry == Permutations({w1, w2}) \cup Permutations({r2, r3})
=============================================================================
