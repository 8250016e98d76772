------------------------- MODULE MCActionLifecycle -------------------------
(* Small instances of ActionLifecycle for TLC. *)
EXTENDS LifecycleDocs, TLC

CONSTANTS a1, a2, w1, w2

WorkerSymmetry == Permutations({w1, w2})
=============================================================================
