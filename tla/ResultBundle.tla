---------------------------- MODULE ResultBundle ----------------------------
(***************************************************************************)
(* Sealing the Result Bundle of a published run                            *)
(* (result-bundle/result-bundle-service.ts behind                          *)
(* orchestration/package-result.ts).  The archive is a function of the     *)
(* published commit and of the pull request, whose title it holds; its     *)
(* file is named after the commit and is never replaced.  A build that was *)
(* cut off starts again from the beginning, if the lock file it left is    *)
(* removed by hand.                                                        *)
(***************************************************************************)
EXTENDS DraftPullRequest

VARIABLES
  bundle,   \* Result Bundle receipt
  archive,  \* the title in the archive file of the commit, "none" without one
  lock      \* the build lock; "orphan" once its holder has died

sealing == <<bundle, archive, lock>>

BundleReceipt ==
  [state : {"NONE", "BUILDING", "BUILT", "VERIFIED", "READY_FOR_WEB_REVIEW"},
   commit : Commit \cup {NoCommit}, number : 0..MaxPulls, title : Titles \cup {"none"}]

BundlePc == {"locked", "building", "verifying", "sealing", "unlocking"}

BundleInit ==
  /\ bundle = [state |-> "NONE", commit |-> NoCommit, number |-> 0, title |-> "none"]
  /\ archive = "none" /\ lock = "free"

delivered == <<repository, remote, receipt, pushing, github, draft>>

\* Mutant: a sealed bundle is built again.
TakeLockAnyway ==
  /\ pc = "idle" /\ ReadyAttested /\ lock = "free"
  /\ lock' = "held"
  /\ GoTo("locked")
  /\ UNCHANGED <<delivered, bundle, archive>>

\* A sealed bundle is only verified and attested again, without the lock.
TakeLock ==
  /\ pc = "idle" /\ ReadyAttested
  /\ bundle.state # "READY_FOR_WEB_REVIEW" /\ lock = "free"
  /\ lock' = "held"
  /\ GoTo("locked")
  /\ UNCHANGED <<delivered, bundle, archive>>

\* PUSHED and OPEN receipts of one another, and attestGitHubPullRequest.
InputsAttested ==
  /\ receipt.state = "PUSHED" /\ draft.state = "OPEN"
  /\ Exact(draft.number)

\* Mutant: the pull request is looked up instead of read from its receipt.
StartBuildOnFoundPull ==
  /\ pc = "locked"
  /\ \E n \in DOMAIN pulls :
       /\ Exact(n)
       /\ bundle' = [state |-> "BUILDING", commit |-> receipt.commit,
                     number |-> n, title |-> pulls[n].title]
  /\ GoTo("building")
  /\ UNCHANGED <<delivered, archive, lock>>

\* READY_TO_BUILD, then BUILDING, with everything the archive will say.
StartBuild ==
  /\ pc = "locked" /\ InputsAttested
  /\ bundle' = [state |-> "BUILDING", commit |-> receipt.commit,
                number |-> draft.number, title |-> pulls[draft.number].title]
  /\ GoTo("building")
  /\ UNCHANGED <<delivered, archive, lock>>

Reaches(state) == bundle' = [bundle EXCEPT !.state = state]

\* buildDeterministicZip: the file is linked into place or found identical.
Build ==
  /\ pc = "building" /\ archive \in {"none", bundle.title}
  /\ archive' = bundle.title
  /\ Reaches("BUILT")
  /\ GoTo("verifying")
  /\ UNCHANGED <<delivered, lock>>

\* verifyResultBundleZip
Verify ==
  /\ pc = "verifying" /\ archive = bundle.title
  /\ Reaches("VERIFIED")
  /\ GoTo("sealing")
  /\ UNCHANGED <<delivered, archive, lock>>

Seal ==
  /\ pc = "sealing"
  /\ Reaches("READY_FOR_WEB_REVIEW")
  /\ GoTo("unlocking")
  /\ UNCHANGED <<delivered, archive, lock>>

\* The lock is released on every way out but a crash.
Unlock ==
  /\ \/ pc = "unlocking"
     \/ pc = "locked" /\ ~InputsAttested
     \/ pc \in {"building", "verifying"} /\ archive \notin {"none", bundle.title}
  /\ lock' = "free"
  /\ GoTo("idle")
  /\ UNCHANGED <<delivered, bundle, archive>>

BundleStep == StartBuild \/ Build \/ Verify \/ Seal \/ Unlock

\* An operator removes the lock file of a build that died.
RemoveLock ==
  /\ lock = "orphan" /\ lock' = "free"
  /\ UNCHANGED <<delivered, bundle, archive, pc>>

=============================================================================
