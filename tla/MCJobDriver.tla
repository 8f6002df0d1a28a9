----------------------------- MODULE MCJobDriver -----------------------------
(* Bounds for JobDriver. *)
EXTENDS JobDriver, TLC

ProcSymmetry == Permutations(Procs)
=============================================================================
