------------------------- MODULE MCRunOrchestration -------------------------
(* Model values and small bounds for RunOrchestration. *)
EXTENDS RunOrchestration, TLC

MCKinds == {"REGISTER_WEB_PACK", "EXECUTE_REGISTERED_PACK", "PUBLISH",
  "OPEN_DRAFT_PR", "PACKAGE_RESULT", "WAIT_WEB_VERDICT", "REVISE"}
MCRequests == Payload
PackSymmetry == Permutations(Packs)
=============================================================================
