--------------------------- MODULE MCRelayWriters ---------------------------
(* Model values and bounds for RelayWriters. *)
EXTENDS RelayWriters, TLC

\* Processes, and the events named after them, are only compared for equality.
ProcSymmetry == Permutations(Procs)
=============================================================================
