---------------------------- MODULE RunLifecycle ----------------------------
(***************************************************************************)
(* The lifecycle a run promises, as its operator sees it: which transition *)
(* the evidence calls for next (orchestration/planner.ts).  The stage moves*)
(* along the edges below and along no other, however often the processes   *)
(* that produce the evidence crash, retry or are overtaken.                *)
(***************************************************************************)

VARIABLE stage

\* The only way back is an executor that rejects the pack: Web authority then
\* registers another one.  Nothing leads back from a published commit.
Edge ==
  {<<"REGISTER_WEB_PACK", "EXECUTE_REGISTERED_PACK">>,
   <<"EXECUTE_REGISTERED_PACK", "REGISTER_WEB_PACK">>,
   <<"EXECUTE_REGISTERED_PACK", "PUBLISH">>,
   <<"EXECUTE_REGISTERED_PACK", "WAIT_HUMAN">>,
   <<"PUBLISH", "OPEN_DRAFT_PR">>,
   <<"OPEN_DRAFT_PR", "PACKAGE_RESULT">>,
   <<"PACKAGE_RESULT", "WAIT_WEB_VERDICT">>,
   <<"WAIT_WEB_VERDICT", "REVISE">>,
   <<"WAIT_WEB_VERDICT", "WAIT_HUMAN">>,
   <<"REVISE", "WAIT_WEB_VERDICT">>}

Init == stage = "REGISTER_WEB_PACK"

Next == <<stage, stage'>> \in Edge

Spec == Init /\ [][Next]_stage
=============================================================================
