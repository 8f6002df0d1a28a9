--------------------------- MODULE ExecutionGates ---------------------------
(***************************************************************************)
(* The receipt of an agent execution, the table of its states, the budget  *)
(* and the gates a reviewed change must pass.  A change-set digest stands  *)
(* for the content of the worktree it was computed from.                   *)
(***************************************************************************)
EXTENDS Naturals

CONSTANTS
  Trees,           \* contents the worktree can have
  Base,            \* the content of the base commit
  MaxIterations,   \* implementation turns
  MaxReviews,      \* rounds of each reviewer
  MaxTurns,        \* turns of every kind
  None             \* absent: a receipt, a digest, a verdict

ASSUME TreesAssumption == Base \in Trees /\ None \notin Trees
ASSUME LimitsAssumption ==
  MaxIterations \in Nat \ {0} /\ MaxReviews \in Nat \ {0} /\ MaxTurns \in Nat \ {0}

\* "both" is a run without a selected reviewer: Terra first, then Sol.
Reviewers == {"terra", "sol"}
Modes == Reviewers \cup {"both"}
Required(mode) == IF mode = "both" THEN Reviewers ELSE {mode}

Working == {"READY_FOR_CODEX", "CODEX_PREFLIGHT", "TERRA_ASSESSING", "TERRA_IMPLEMENTING",
  "POLICY_CHECKING", "VERIFYING", "TERRA_FIXING", "TERRA_REVIEWING", "SOL_REVIEWING"}
Settled == {"READY_FOR_PUBLISH", "REPLAN_REQUIRED", "WEB_REVIEW_REQUIRED", "HUMAN_REQUIRED",
  "POLICY_BLOCKED", "BUDGET_EXHAUSTED", "FAILED"}
Resumable == {"VERIFICATION_FAILED", "AGENT_FAILED", "INTERRUPTED"}
States == Working \cup Settled \cup Resumable

Successors ==
  [s \in States |->
    CASE s = "READY_FOR_CODEX" -> {"CODEX_PREFLIGHT", "INTERRUPTED", "FAILED"}
      [] s = "CODEX_PREFLIGHT" ->
           {"TERRA_ASSESSING", "POLICY_BLOCKED", "HUMAN_REQUIRED", "FAILED", "INTERRUPTED"}
      [] s = "TERRA_ASSESSING" ->
           {"TERRA_IMPLEMENTING", "REPLAN_REQUIRED", "HUMAN_REQUIRED", "POLICY_BLOCKED",
            "AGENT_FAILED", "BUDGET_EXHAUSTED", "FAILED", "INTERRUPTED"}
      [] s = "TERRA_IMPLEMENTING" ->
           {"POLICY_CHECKING", "TERRA_FIXING", "REPLAN_REQUIRED", "HUMAN_REQUIRED",
            "POLICY_BLOCKED", "AGENT_FAILED", "BUDGET_EXHAUSTED", "FAILED", "INTERRUPTED"}
      [] s = "POLICY_CHECKING" ->
           {"VERIFYING", "TERRA_FIXING", "POLICY_BLOCKED", "FAILED", "INTERRUPTED"}
      [] s = "VERIFYING" ->
           {"TERRA_REVIEWING", "SOL_REVIEWING", "TERRA_FIXING", "VERIFICATION_FAILED",
            "BUDGET_EXHAUSTED", "FAILED", "INTERRUPTED"}
      [] s = "TERRA_FIXING" ->
           {"TERRA_IMPLEMENTING", "BUDGET_EXHAUSTED", "AGENT_FAILED", "FAILED", "INTERRUPTED"}
      [] s \in {"TERRA_REVIEWING", "SOL_REVIEWING"} ->
           {"READY_FOR_PUBLISH", "TERRA_FIXING", "WEB_REVIEW_REQUIRED", "HUMAN_REQUIRED",
            "AGENT_FAILED", "BUDGET_EXHAUSTED", "FAILED", "INTERRUPTED"}
           \cup (IF s = "TERRA_REVIEWING" THEN {"SOL_REVIEWING"} ELSE {})
      [] s \in {"VERIFICATION_FAILED", "AGENT_FAILED"} -> {"TERRA_FIXING", "FAILED"}
      [] s = "INTERRUPTED" -> {"CODEX_PREFLIGHT", "TERRA_FIXING"}
      [] OTHER -> {}]

Review == [rounds : 0..MaxReviews, verdict : {None, "APPROVE", "REVISE", "REPLAN", "ESCALATE"},
           tree : Trees \cup {None}]
Receipt == [state : States, mode : Modes, digest : Trees \cup {None},
            passed : BOOLEAN, verified : Trees \cup {None}, by : [Reviewers -> Review],
            iterations : 0..MaxIterations, turns : 0..MaxTurns]
ASSUME ReceiptAssumption == None \notin Receipt
ASSUME VerdictAssumption == None \notin {"APPROVE", "REVISE", "REPLAN", "ESCALATE"}

Initial(mode) ==
  [state |-> "READY_FOR_CODEX", mode |-> mode, digest |-> None, passed |-> FALSE,
   verified |-> None, by |-> [r \in Reviewers |-> [rounds |-> 0, verdict |-> None, tree |-> None]],
   iterations |-> 0, turns |-> 0]

Invalidated(m) ==
  [m EXCEPT !.passed = FALSE, !.verified = None,
            !.by = [r \in Reviewers |-> [@[r] EXCEPT !.verdict = None, !.tree = None]]]

TurnLeft(m) == m.turns < MaxTurns
ReviewLeft(m, r) == m.by[r].rounds < MaxReviews /\ TurnLeft(m)
ImplementationLeft(m) == m.iterations < MaxIterations /\ TurnLeft(m)

Verified(m) == m.passed /\ m.verified = m.digest
ApprovedBy(m, r) == m.by[r].rounds > 0 /\ m.by[r].verdict = "APPROVE" /\ m.by[r].tree = m.digest

\* What a completed receipt has to show for itself.
Complete(m) == m.digest # None /\ Verified(m) /\ \A r \in Required(m.mode) : ApprovedBy(m, r)

\* Publication asks both reviewers, whichever one the run selected.
ExactlyApproved(m) ==
  m.state = "READY_FOR_PUBLISH" /\ Verified(m) /\ \A r \in Reviewers : ApprovedBy(m, r)

\* A call without a selection, or with another one, may not go on with the run.
Admits(m, caller) ==
  \/ caller = m.mode
  \/ caller # "both" /\ m.mode = "both" /\ m.state # "READY_FOR_PUBLISH"
     /\ \A r \in Reviewers : m.by[r].rounds = 0
=============================================================================
