---------------------------- MODULE MCRunLedger ----------------------------
(* Model values and small bounds for RunLedger. *)
EXTENDS RunLedger, TLC

\* Request payloads are only compared for equality.
RequestSymmetry == Permutations(Requests)
=============================================================================
