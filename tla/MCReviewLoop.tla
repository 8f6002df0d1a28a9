---------------------------- MODULE MCReviewLoop ----------------------------
(* Bounds for ReviewLoop. *)
EXTENDS ReviewLoop, TLC

ProcSymmetry == Permutations(Procs)
=============================================================================
