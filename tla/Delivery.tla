------------------------------ MODULE Delivery ------------------------------
(***************************************************************************)
(* Delivery of one run: publication, Draft pull request and Result Bundle, *)
(* one process at a time (the runner holds the TRANSITION_EXECUTION lock), *)
(* which may die or fail at every step, while others use the worktree, the *)
(* branch and the pull requests.                                           *)
(***************************************************************************)
EXTENDS ResultBundle

CONSTANTS
  MaxFaults,       \* crashes, errors, unanswered or denied requests, early packaging
  MaxInterference  \* steps of others

ASSUME BoundsAssumption == MaxFaults \in Nat /\ MaxInterference \in Nat

VARIABLES faults, interference

vars == <<repository, remote, receipt, pushing, pc, github, draft, sealing, faults, interference>>

Init ==
  /\ PublishInit /\ DraftInit /\ BundleInit
  /\ faults = 0 /\ interference = 0

publishVars == <<repository, remote, receipt, pushing>>

Continue ==
  /\ \/ PublishStep /\ UNCHANGED <<github, draft, sealing>>
     \/ DraftStep /\ UNCHANGED sealing
     \/ BundleStep
     \/ TakeLock /\ draft.state = "OPEN"
  /\ UNCHANGED <<faults, interference>>

\* Recovery repeats `openDraftPr` although the receipt is OPEN.
Repeat == Recheck /\ UNCHANGED <<sealing, faults, interference>>

Fault == faults < MaxFaults /\ faults' = faults + 1 /\ UNCHANGED interference

\* An exception: every service leaves its files as they are and its lock free.
Fail ==
  /\ pc # "idle" /\ pc' = "idle"
  /\ lock' = IF lock = "held" THEN "free" ELSE lock
  /\ UNCHANGED <<publishVars, github, draft, bundle, archive>>
  /\ Fault

\* A push in progress goes on without the process that started it.
Crash ==
  /\ pc # "idle" /\ pc' = "idle"
  /\ lock' = IF lock = "held" THEN "orphan" ELSE lock
  /\ pushing' = (pushing \/ pc = "push")
  /\ UNCHANGED <<repository, remote, receipt, github, draft, bundle, archive>>
  /\ Fault

\* A command packages the result before its time.
PackageEarly == TakeLock /\ draft.state # "OPEN" /\ Fault

Unanswered == NoAnswer /\ UNCHANGED sealing /\ Fault
Denial == Deny /\ UNCHANGED sealing /\ Fault

\* What is under way at GitHub.
Arrive ==
  /\ CarryOut \/ (PushLands /\ UNCHANGED <<github, draft>>)
  /\ UNCHANGED <<sealing, faults, interference>>

Operate == RemoveLock /\ UNCHANGED <<faults, interference>>

Interfere ==
  /\ interference < MaxInterference /\ interference' = interference + 1
  /\ \/ OthersPublish /\ UNCHANGED <<github, draft>>
     \/ OthersUsePulls
     \/ DeleteBranch
  /\ UNCHANGED <<sealing, faults>>

Next ==
  \/ Continue \/ Repeat \/ Fail \/ Crash \/ PackageEarly \/ Unanswered \/ Denial
  \/ Arrive \/ Operate \/ Interfere

Spec == Init /\ [][Next]_vars

-----------------------------------------------------------------------------
\* Every variable has its type.
TypeOK ==
  /\ worktree \in Trees /\ index \in Trees /\ head \in Commit /\ made \in 0..MaxCommits
  /\ remote \in Commit \cup {NoCommit} /\ receipt \in Receipt /\ pushing \in BOOLEAN
  /\ pc \in {"idle"} \cup PublishPc \cup DraftPc \cup BundlePc
  /\ pulls \in Seq(Pull) /\ Len(pulls) <= MaxPulls
  /\ flying \in 0..1 /\ answer \in {"none", "created", "rejected", "denied"}
  /\ draft \in DraftReceipt /\ bundle \in BundleReceipt
  /\ archive \in Titles \cup {"none"} /\ lock \in {"free", "held", "orphan"}
  /\ faults \in 0..MaxFaults /\ interference \in 0..MaxInterference

\* Only the approved change set leaves the machine: the commit that stands on
\* the remote with our message is the approved tree on the locked base, however
\* the worktree, the index and HEAD were changed between the checks.
OnlyApprovedLeaves ==
  remote # NoCommit /\ remote.own => remote.onBase /\ remote.tree = "approved"

\* A delivery step never moves a branch somebody else has pushed or deleted
\* since it was looked at: it creates the branch, or leaves it.
BranchNeverOverwritten ==
  [][remote # NoCommit /\ interference' = interference => remote' = remote]_vars

\* At most one create request is ever under way or carried out: a request
\* whose answer was lost is looked for, not repeated.
OneRequest ==
  LET ours == {n \in DOMAIN pulls : pulls[n].own}
  IN  /\ flying > 0 => flying = 1 /\ ours = {}
      /\ \A m, n \in ours : m = n

\* A sealed bundle describes the publication of the run: its commit and its
\* pull request are those of the other two receipts, and the archive is the one
\* it was sealed with.
SealedAsPublished ==
  bundle.state = "READY_FOR_WEB_REVIEW" =>
    /\ receipt.state = "PUSHED" /\ bundle.commit = receipt.commit
    /\ bundle.number # 0 /\ bundle.number = draft.number
    /\ archive = bundle.title

\* Nothing said is taken back: commit, publication, pull request and seal are
\* each named once and in this order.
Promise == INSTANCE DeliveryPromise WITH
  Approved <- {c \in Commit : c.own /\ c.onBase /\ c.tree = "approved"},
  Nothing <- NoCommit, Pulls <- Numbers,
  commit <- receipt.commit, published <- receipt.state = "PUSHED",
  number <- draft.number,
  sealed <- IF bundle.state = "READY_FOR_WEB_REVIEW" THEN bundle.number ELSE 0
KeepsPromise == Promise!Spec

-----------------------------------------------------------------------------
\* The runner comes back as long as something is planned, and a live service
\* takes its next step; sent requests are answered, landing pushes land.
Fairness == WF_vars(Continue) /\ WF_vars(Arrive)
FairSpec == Spec /\ Fairness

\* Where a delivery may stop for good although nobody interfered: the fate of
\* its create request is unknown and nothing came of it, or a crash has left
\* the build lock.
Stuck == (draft.state = "CREATE_UNCERTAIN" /\ pulls = <<>>) \/ lock = "orphan"

\* Crash recovery is complete: whatever crashes, an undisturbed delivery ends
\* sealed unless it is stuck in one of those two ways.
Delivered ==
  <>[](bundle.state = "READY_FOR_WEB_REVIEW" \/ Stuck \/ interference > 0)

=============================================================================
