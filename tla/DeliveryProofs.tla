--------------------------- MODULE DeliveryProofs ---------------------------
(***************************************************************************)
(* The safety of delivery, for every bound on commits, pull requests,      *)
(* faults and interference: an inductive invariant that says what each     *)
(* stage of the three services may rely on, the invariants of the run      *)
(* that follow from it, and the refinement of DeliveryPromise.             *)
(***************************************************************************)
EXTENDS Delivery, TLAPS

ApprovedCommits == {c \in Commit : c.own /\ c.onBase /\ c.tree = "approved"}
Committed == receipt.state \in {"COMMITTED", "PUSHED"}
NoneOurs == flying = 0 /\ \A n \in DOMAIN pulls : ~pulls[n].own

\* What the publish receipt stands for at each stage.
PublishInv ==
  /\ receipt.state \in {"NONE", "READY_FOR_COMMIT"} => receipt.commit = NoCommit
  /\ receipt.state # "NONE" => receipt.snapshot = "approved"
  /\ Committed => receipt.commit \in ApprovedCommits
  /\ pc = "publishing" => receipt.state # "PUSHED"
  /\ pc \in {"adding", "added", "committing", "made"} => receipt.state = "READY_FOR_COMMIT"
  /\ pc \in {"committed", "push", "pushed"} => receipt.state = "COMMITTED"
  /\ pushing => Committed

\* What the Draft receipt stands for at each stage.
DraftInv ==
  /\ draft.state # "NONE" => receipt.state = "PUSHED"
  /\ draft.state = "NONE" => ~draft.attempted
  /\ draft.state \in {"NONE", "READY_FOR_CREATE", "CREATE_UNCERTAIN"} => draft.number = 0
  /\ draft.state = "OPEN" => draft.number \in DOMAIN pulls
  /\ pc \in DraftPc => draft.state = "READY_FOR_CREATE"
  /\ pc = "drafting" => ~draft.attempted
  /\ pc \in {"requesting", "waiting", "confirming"} => draft.attempted

\* When the create request may still be sent, or sent again.
RequestInv ==
  /\ draft.state = "NONE" => NoneOurs
  /\ draft.state = "READY_FOR_CREATE" /\ ~draft.attempted => NoneOurs
  /\ pc = "requesting" => NoneOurs
  /\ pc = "waiting" /\ answer \in {"rejected", "denied"} => NoneOurs

\* What a build has read, and what it has made of it.
BundleInv ==
  /\ pc \in {"building", "verifying", "sealing"} =>
       /\ receipt.state = "PUSHED" /\ draft.state = "OPEN"
       /\ bundle.commit = receipt.commit /\ bundle.number = draft.number
       /\ bundle.state # "READY_FOR_WEB_REVIEW"
  /\ pc = "locked" => bundle.state # "READY_FOR_WEB_REVIEW"
  /\ pc = "sealing" => archive = bundle.title
  /\ bundle.state = "READY_FOR_WEB_REVIEW" => draft.state \in {"OPEN", "CONFLICT"}

IInv ==
  /\ TypeOK /\ PublishInv /\ OnlyApprovedLeaves
  /\ DraftInv /\ RequestInv /\ OneRequest
  /\ BundleInv /\ SealedAsPublished

-----------------------------------------------------------------------------
(* Types.                                                                  *)

DraftStates == {"NONE", "READY_FOR_CREATE", "CREATE_UNCERTAIN", "OPEN", "CONFLICT"}

\* What the services write into a Draft receipt leaves it a Draft receipt.
LEMMA DraftUpdates ==
  ASSUME NEW r \in DraftReceipt
  PROVE  /\ \A state \in DraftStates : [r EXCEPT !.state = state] \in DraftReceipt
         /\ \A n \in Numbers : [r EXCEPT !.state = "OPEN", !.number = n] \in DraftReceipt
         /\ [r EXCEPT !.attempted = TRUE] \in DraftReceipt
         /\ [r EXCEPT !.attempted = FALSE] \in DraftReceipt
<1>1. \A state \in DraftStates : [r EXCEPT !.state = state] \in DraftReceipt
  BY Zenon DEF DraftReceipt, DraftStates
<1>2. \A n \in Numbers : n \in 0..MaxPulls
  BY MaxPullsAssumption DEF Numbers
<1>3. \A n \in Numbers : [r EXCEPT !.state = "OPEN", !.number = n] \in DraftReceipt
  BY <1>2, Zenon DEF DraftReceipt
<1>4. [r EXCEPT !.attempted = TRUE] \in DraftReceipt
  BY TRUE \in BOOLEAN, Zenon DEF DraftReceipt
<1>5. [r EXCEPT !.attempted = FALSE] \in DraftReceipt
  BY FALSE \in BOOLEAN, Zenon DEF DraftReceipt
<1> QED
  BY <1>1, <1>3, <1>4, <1>5

\* What the pieces of a step put together are of their type.
LEMMA Pieces ==
  ASSUME TypeOK
  PROVE  /\ NoCommit \notin Commit /\ Base \in Commit /\ Stranger \in Commit
         /\ \A r \in DraftReceipt : Classified(r) \in DraftReceipt
         /\ \A n \in DOMAIN pulls : ClassifiedOne(n) \in DraftReceipt /\ n \in Numbers
         /\ Uncertain \in DraftReceipt /\ NotAttempted \in DraftReceipt
<1>1. NoCommit \notin Commit /\ Base \in Commit /\ Stranger \in Commit
  BY NoCommitAssumption, MaxCommitsAssumption DEF Base, Stranger, Commit, Trees
<1>3. pulls \in Seq(Pull) /\ Len(pulls) \in Nat /\ DOMAIN pulls \subseteq Numbers /\ 1 \in Numbers
  BY MaxPullsAssumption DEF TypeOK, Numbers
<1>4. \A r \in DraftReceipt : Classified(r) \in DraftReceipt
  BY <1>3, DraftUpdates DEF TypeOK, DraftStates, Classified
<1>5. \A n \in DOMAIN pulls : ClassifiedOne(n) \in DraftReceipt /\ n \in Numbers
  BY <1>3, DraftUpdates DEF TypeOK, DraftStates, ClassifiedOne
<1>6. Uncertain \in DraftReceipt /\ NotAttempted \in DraftReceipt
  BY DraftUpdates DEF TypeOK, DraftStates, Uncertain, NotAttempted
<1> QED
  BY <1>1, <1>3, <1>4, <1>5, <1>6

\* Whoever commits makes a commit.
LEMMA NewCommit ==
  ASSUME TypeOK, MakeCommit \/ CommitByHand
  PROVE  head' \in Commit /\ made' \in 0..MaxCommits
<1>1. made' = made + 1 /\ made < MaxCommits
  BY DEF MakeCommit, CommitByHand
<1>2. made + 1 \in 0..MaxCommits
  BY <1>1, MaxCommitsAssumption DEF TypeOK
<1>3. index \in Trees
  BY DEF TypeOK
<1>4. \A author \in BOOLEAN : CommitOf(author) \in Commit
  BY <1>2, <1>3, Zenon DEF CommitOf, Commit
<1>5. \E author \in BOOLEAN : head' = CommitOf(author)
  BY TRUE \in BOOLEAN, FALSE \in BOOLEAN, Zenon DEF MakeCommit, CommitByHand
<1>6. head' \in Commit
  BY <1>4, <1>5, Zenon
<1> QED
  BY <1>1, <1>2, <1>6

\* What others do to pull requests: they stay what they are, in number and in
\* authorship, but for pull requests others open.
LEMMA OthersKeepPulls ==
  ASSUME TypeOK, OthersUsePulls \/ DeleteBranch
  PROVE  /\ pulls' \in Seq(Pull) /\ Len(pulls') <= MaxPulls
         /\ DOMAIN pulls \subseteq DOMAIN pulls'
         /\ \A n \in DOMAIN pulls : pulls'[n].own = pulls[n].own
         /\ \A n \in DOMAIN pulls' \ DOMAIN pulls : pulls'[n].own = FALSE
<1> DEFINE Kept == /\ pulls' \in Seq(Pull) /\ Len(pulls') <= MaxPulls
                   /\ DOMAIN pulls \subseteq DOMAIN pulls'
                   /\ \A n \in DOMAIN pulls : pulls'[n].own = pulls[n].own
                   /\ \A n \in DOMAIN pulls' \ DOMAIN pulls : pulls'[n].own = FALSE
<1>1. \A pull \in Pull :
        /\ [pull EXCEPT !.open = FALSE] \in Pull /\ [pull EXCEPT !.open = FALSE].own = pull.own
        /\ [pull EXCEPT !.draft = FALSE] \in Pull /\ [pull EXCEPT !.draft = FALSE].own = pull.own
        /\ [pull EXCEPT !.title = "edited"] \in Pull /\ [pull EXCEPT !.title = "edited"].own = pull.own
  BY FALSE \in BOOLEAN, Zenon DEF Pull, Titles
<1>2. ASSUME NEW n \in OpenPulls, NEW pull \in Pull, pull.own = pulls[n].own, Change(n, pull)
      PROVE  Kept
  BY <1>2 DEF Change, OpenPulls, TypeOK
<1>3. ASSUME NEW isDraft \in BOOLEAN, NewPull(FALSE, isDraft)
      PROVE  Kept
  <2> DEFINE new == [open |-> TRUE, draft |-> isDraft, title |-> "given", own |-> FALSE]
  <2>1. new \in Pull
    BY TRUE \in BOOLEAN, FALSE \in BOOLEAN, Zenon DEF Pull, Titles
  <2>2. new.own = FALSE
    BY Zenon
  <2>3. pulls' = Append(pulls, new) /\ Len(pulls) < MaxPulls
    BY <1>3 DEF NewPull
  <2> HIDE DEF new
  <2> QED
    BY <2>1, <2>2, <2>3, MaxPullsAssumption DEF TypeOK
<1>4. CASE DeleteBranch
  <2>1. \A n \in DOMAIN pulls : pulls[n] \in Pull
    BY DEF TypeOK
  <2>2. pulls' = [n \in DOMAIN pulls |-> [pulls[n] EXCEPT !.open = FALSE]]
    BY <1>4 DEF DeleteBranch
  <2>3. \A n \in DOMAIN pulls : pulls'[n] \in Pull /\ pulls'[n].own = pulls[n].own
    BY <1>1, <2>1, <2>2
  <2> QED
    BY <2>2, <2>3, MaxPullsAssumption DEF TypeOK
<1>5. CASE OthersUsePulls
  <2>1. \A n \in OpenPulls : pulls[n] \in Pull
    BY DEF TypeOK, OpenPulls
  <2> QED
    BY <1>1, <1>2, <1>3, <1>5, <2>1, Zenon DEF OthersUsePulls
<1> QED
  BY <1>4, <1>5

LEMMA TypeStep == IInv /\ [Next]_vars => TypeOK'
<1> SUFFICES ASSUME IInv, [Next]_vars PROVE TypeOK'
  OBVIOUS
<1> TypeOK
  BY DEF IInv
<1> USE Pieces
<1>1. ASSUME PublishStep, UNCHANGED <<github, draft, sealing, faults, interference>>
      PROVE  TypeOK'
  <2>1. CASE BeginPublish
    BY <1>1, <2>1 DEF BeginPublish, TypeOK, PublishPc, Receipt, Trees, Records, GoTo, repository, github, sealing, MayStage, Resumes, PushAttested
  <2>2. CASE WriteIntent
    BY <1>1, <2>2 DEF WriteIntent, TypeOK, PublishPc, Receipt, Trees, Records, GoTo, repository, github, sealing, MayStage, Resumes, PushAttested
  <2>3. CASE AdoptCommit
    BY <1>1, <2>3 DEF AdoptCommit, TypeOK, PublishPc, Receipt, Trees, Records, GoTo, repository, github, sealing, MayStage, Resumes, PushAttested
  <2>4. CASE Preflight
    BY <1>1, <2>4 DEF Preflight, TypeOK, PublishPc, Receipt, Trees, Records, GoTo, repository, github, sealing, MayStage, Resumes, PushAttested
  <2>5. CASE Add
    BY <1>1, <2>5 DEF Add, TypeOK, PublishPc, Receipt, Trees, Records, GoTo, repository, github, sealing, MayStage, Resumes, PushAttested
  <2>6. CASE CheckStaged
    BY <1>1, <2>6 DEF CheckStaged, TypeOK, PublishPc, Receipt, Trees, Records, GoTo, repository, github, sealing, MayStage, Resumes, PushAttested
  <2>7. CASE MakeCommit
    <3>1. head' \in Commit /\ made' \in 0..MaxCommits
      BY <2>7, NewCommit
    <3> QED
      BY <1>1, <2>7, <3>1 DEF MakeCommit, TypeOK, PublishPc, GoTo, github, sealing
  <2>8. CASE RecordCommit
    BY <1>1, <2>8 DEF RecordCommit, TypeOK, PublishPc, Receipt, Trees, Records, GoTo, repository, github, sealing, MayStage, Resumes, PushAttested
  <2>9. CASE CheckRemote
    BY <1>1, <2>9 DEF CheckRemote, TypeOK, PublishPc, Receipt, Trees, Records, GoTo, repository, github, sealing, MayStage, Resumes, PushAttested
  <2>10. CASE Push
    BY <1>1, <2>10 DEF Push, TypeOK, PublishPc, Receipt, Trees, Records, GoTo, repository, github, sealing, MayStage, Resumes, PushAttested
  <2>11. CASE RecordPush
    BY <1>1, <2>11 DEF RecordPush, TypeOK, PublishPc, Receipt, Trees, Records, GoTo, repository, github, sealing, MayStage, Resumes, PushAttested
  <2>12. CASE PublishRefused
    BY <1>1, <2>12 DEF PublishRefused, TypeOK, PublishPc, Receipt, Trees, Records, GoTo, repository, github, sealing, MayStage, Resumes, PushAttested
  <2> QED
    BY <1>1, <2>1, <2>2, <2>3, <2>4, <2>5, <2>6, <2>7, <2>8, <2>9, <2>10, <2>11, <2>12 DEF PublishStep
<1>2. ASSUME DraftStep, UNCHANGED <<sealing, faults, interference>>
      PROVE  TypeOK'
  <2>1. CASE BeginDraft
    BY <1>2, <2>1, DraftUpdates DEF BeginDraft, TypeOK, DraftPc, DraftStates, Settled, GoTo, repository, github, sealing
  <2>2. CASE ResumeDraft
    BY <1>2, <2>2, DraftUpdates DEF ResumeDraft, TypeOK, DraftPc, DraftStates, Settled, GoTo, repository, github, sealing
  <2>3. CASE Rediscover
    BY <1>2, <2>3, DraftUpdates DEF Rediscover, TypeOK, DraftPc, DraftStates, Settled, GoTo, repository, github, sealing
  <2>4. CASE AnnounceRequest
    BY <1>2, <2>4, DraftUpdates DEF AnnounceRequest, TypeOK, DraftPc, DraftStates, Settled, GoTo, repository, github, sealing
  <2>5. CASE SendRequest
    BY <1>2, <2>5 DEF SendRequest, TypeOK, DraftPc, GoTo, IInv, RequestInv, NoneOurs, repository, sealing
  <2>6. CASE Created
    BY <1>2, <2>6, DraftUpdates DEF Created, TypeOK, DraftPc, DraftStates, Settled, GoTo, repository, github, sealing
  <2>7. CASE VerifyCreated
    BY <1>2, <2>7, DraftUpdates DEF VerifyCreated, TypeOK, DraftPc, DraftStates, Settled, GoTo, repository, github, sealing
  <2>8. CASE Rejected
    BY <1>2, <2>8, DraftUpdates DEF Rejected, TypeOK, DraftPc, DraftStates, Settled, GoTo, repository, github, sealing
  <2>9. CASE Denied
    BY <1>2, <2>9, DraftUpdates DEF Denied, TypeOK, DraftPc, DraftStates, Settled, GoTo, repository, github, sealing
  <2> QED
    BY <1>2, <2>1, <2>2, <2>3, <2>4, <2>5, <2>6, <2>7, <2>8, <2>9 DEF DraftStep
<1>3. ASSUME BundleStep \/ TakeLock, UNCHANGED <<faults, interference>>
      PROVE  TypeOK'
  <2>1. CASE StartBuild
    <3>1. draft.number \in DOMAIN pulls /\ draft.number \in 0..MaxPulls
      BY <2>1, MaxPullsAssumption DEF StartBuild, InputsAttested, IInv, DraftInv, Numbers
    <3>2. pulls[draft.number].title \in Titles
      <4>1. pulls[draft.number] \in Pull
        BY <3>1 DEF TypeOK
      <4> QED
        BY <4>1, Zenon DEF Pull
    <3> QED
      BY <1>3, <2>1, <3>1, <3>2 DEF StartBuild, TypeOK, BundlePc, BundleReceipt, Receipt, GoTo, delivered, repository, github
  <2>2. CASE Build
    BY <1>3, <2>2 DEF Build, TypeOK, BundlePc, BundleReceipt, Reaches, GoTo, delivered, repository, github, sealing
  <2>3. CASE Verify
    BY <1>3, <2>3 DEF Verify, TypeOK, BundlePc, BundleReceipt, Reaches, GoTo, delivered, repository, github, sealing
  <2>4. CASE Seal
    BY <1>3, <2>4 DEF Seal, TypeOK, BundlePc, BundleReceipt, Reaches, GoTo, delivered, repository, github, sealing
  <2>5. CASE Unlock
    BY <1>3, <2>5 DEF Unlock, TypeOK, BundlePc, BundleReceipt, Reaches, GoTo, delivered, repository, github, sealing
  <2>6. CASE TakeLock
    BY <1>3, <2>6 DEF TakeLock, TypeOK, BundlePc, BundleReceipt, Reaches, GoTo, delivered, repository, github, sealing
  <2> QED
    BY <1>3, <2>1, <2>2, <2>3, <2>4, <2>5, <2>6 DEF BundleStep
<1>4. CASE Repeat
  BY <1>4, DraftUpdates DEF Repeat, Recheck, IInv, DraftInv, TypeOK, repository, github, sealing
<1>5. CASE Fail
  BY <1>5, BoundsAssumption DEF Fail, Fault, TypeOK, publishVars, repository, github
<1>6. CASE Crash
  <2>1. pushing' \in BOOLEAN
    BY <1>6, Zenon DEF Crash, TypeOK
  <2> QED
    BY <1>6, <2>1, BoundsAssumption DEF Crash, Fault, TypeOK, repository, github
<1>7. CASE Unanswered
  <2>1. draft' \in DraftReceipt
    BY <1>7 DEF Unanswered, NoAnswer, Settled
  <2>2. pc' = "idle" /\ UNCHANGED <<repository, remote, receipt, pushing, github, sealing>> /\ Fault
    BY <1>7 DEF Unanswered, NoAnswer, Settled, GoTo
  <2> QED
    BY <2>1, <2>2, BoundsAssumption DEF Fault, TypeOK, repository, github, sealing
<1>8. CASE Denial
  BY <1>8, BoundsAssumption DEF Denial, Fault, Deny, TypeOK, repository, sealing
<1>9. CASE Arrive
  <2>1. CASE CarryOut
    <3>1. ASSUME NewPull(TRUE, TRUE) PROVE pulls' \in Seq(Pull) /\ Len(pulls') <= MaxPulls
      <4>1. [open |-> TRUE, draft |-> TRUE, title |-> "given", own |-> TRUE] \in Pull
        BY TRUE \in BOOLEAN, Zenon DEF Pull, Titles
      <4> QED
        BY <3>1, <4>1, MaxPullsAssumption DEF NewPull, TypeOK
    <3>2. pulls' \in Seq(Pull) /\ Len(pulls') <= MaxPulls
      <4>1. NewPull(TRUE, TRUE) \/ pulls' = pulls
        BY <2>1 DEF CarryOut
      <4> QED
        BY <3>1, <4>1 DEF TypeOK
    <3>3. flying' \in 0..1 /\ answer' \in {"created", "rejected"}
      <4>1. flying' = flying - 1 /\ flying > 0 /\ answer' \in {"created", "rejected"}
        BY <2>1, Zenon DEF CarryOut
      <4> QED
        BY <4>1 DEF TypeOK
    <3>4. UNCHANGED <<repository, remote, receipt, pushing, draft, pc, sealing, faults, interference>>
      BY <1>9, <2>1 DEF Arrive, CarryOut
    <3> QED
      BY <3>2, <3>3, <3>4 DEF TypeOK, repository, sealing
  <2>2. CASE PushLands /\ UNCHANGED <<github, draft>>
    BY <1>9, <2>2, FALSE \in BOOLEAN DEF Arrive, PushLands, TypeOK, Receipt, repository, github, sealing
  <2> QED
    BY <1>9, <2>1, <2>2 DEF Arrive
<1>10. CASE Operate
  BY <1>10 DEF Operate, RemoveLock, TypeOK, delivered, repository, github
<1>11. CASE Interfere
  <2> UNCHANGED sealing /\ UNCHANGED faults /\ interference' \in 0..MaxInterference
    BY <1>11, BoundsAssumption DEF Interfere, TypeOK
  <2>1. CASE OthersPublish /\ UNCHANGED <<github, draft>>
    <3> UNCHANGED <<pulls, flying, answer, draft>>
      BY <2>1 DEF github
    <3>1. CASE CommitByHand
      <4>1. head' \in Commit /\ made' \in 0..MaxCommits
        BY <3>1, NewCommit
      <4> QED
        BY <3>1, <4>1 DEF CommitByHand, TypeOK, sealing
    <3>2. CASE EditWorktree \/ StageByHand \/ ResetByHand \/ PushByOthers
      BY <3>2 DEF EditWorktree, StageByHand, ResetByHand, PushByOthers, TypeOK, Trees, repository, sealing
    <3> QED
      BY <2>1, <3>1, <3>2 DEF OthersPublish
  <2>2. CASE OthersUsePulls
    <3> UNCHANGED <<worktree, index, head, made, remote, receipt, pushing, flying, answer, draft, pc>>
      BY <2>2 DEF OthersUsePulls, Change, repository
    <3>1. pulls' \in Seq(Pull) /\ Len(pulls') <= MaxPulls
      BY <2>2, OthersKeepPulls
    <3> QED
      BY <3>1 DEF TypeOK, sealing
  <2>3. CASE DeleteBranch
    <3>1. pulls' \in Seq(Pull) /\ Len(pulls') <= MaxPulls
      BY <2>3, OthersKeepPulls
    <3> QED
      BY <2>3, <3>1 DEF DeleteBranch, TypeOK, repository, sealing
  <2> QED
    BY <1>11, <2>1, <2>2, <2>3 DEF Interfere
<1>12. CASE UNCHANGED vars
  BY <1>12 DEF vars, TypeOK, repository, github, sealing
<1>13. CASE Continue
  BY <1>13, <1>1, <1>2, <1>3 DEF Continue
<1>14. CASE PackageEarly
  BY <1>14, BoundsAssumption DEF PackageEarly, TakeLock, GoTo, Fault, TypeOK, BundlePc, delivered, repository, github
<1> QED
  BY <1>4, <1>5, <1>6, <1>7, <1>8, <1>9, <1>10, <1>11, <1>12, <1>13, <1>14 DEF Next

-----------------------------------------------------------------------------
(* The kinds of steps.                                                     *)

PublishMove ==
  /\ PublishStep /\ pc' \in {"idle"} \cup PublishPc
  /\ UNCHANGED <<pulls, flying, answer, draft, bundle, archive>>

DraftMove ==
  /\ DraftStep \/ Recheck \/ NoAnswer
  /\ pc' \in {"idle"} \cup DraftPc
  /\ UNCHANGED <<remote, receipt, pushing, pulls, bundle, archive>>

BundleMove ==
  /\ BundleStep \/ TakeLock
  /\ pc' \in {"idle"} \cup BundlePc
  /\ UNCHANGED <<remote, receipt, pushing, pulls, flying, answer, draft>>

\* Our pull requests are the ones they were.
SameAuthors ==
  /\ DOMAIN pulls \subseteq DOMAIN pulls'
  /\ \A n \in DOMAIN pulls : pulls'[n].own = pulls[n].own
  /\ \A n \in DOMAIN pulls' \ DOMAIN pulls : pulls'[n].own = FALSE

\* Crashes, errors, the network, GitHub and others: no receipt changes, and
\* the process stops or stays where it is.
Elsewhere ==
  /\ pc' \in {pc, "idle"}
  /\ UNCHANGED <<receipt, draft, bundle, archive>>
  /\ pushing' => pushing \/ pc = "push"
  /\ \/ remote' \in {remote, NoCommit, Stranger}
     \/ pushing /\ remote' = receipt.commit
  /\ \/ SameAuthors /\ UNCHANGED <<flying, answer>>
     \/ Deny
     \/ CarryOut

LEMMA StepKinds ==
  ASSUME TypeOK, [Next]_vars
  PROVE  PublishMove \/ DraftMove \/ BundleMove \/ Elsewhere
<1>1. CASE PublishStep /\ UNCHANGED <<github, draft, sealing>>
  BY <1>1 DEF PublishStep, PublishMove, PublishPc, github, sealing, BeginPublish, WriteIntent, AdoptCommit, Preflight, Add, CheckStaged, MakeCommit, RecordCommit, CheckRemote, Push, RecordPush, PublishRefused, GoTo, MayStage
<1>2. CASE (DraftStep \/ Recheck \/ NoAnswer) /\ UNCHANGED sealing
  BY <1>2 DEF DraftStep, DraftMove, DraftPc, github, sealing, BeginDraft, ResumeDraft, Rediscover, AnnounceRequest, SendRequest, Created, VerifyCreated, Rejected, Denied, Recheck, NoAnswer, MayDraft, Settled, GoTo
<1>3. CASE BundleStep \/ TakeLock
  BY <1>3 DEF BundleStep, BundleMove, BundlePc, delivered, github, TakeLock, StartBuild, Build, Verify, Seal, Unlock, GoTo
<1>4. CASE Fail \/ Crash
  <2>1. SameAuthors
    BY <1>4 DEF Fail, Crash, github, SameAuthors
  <2> QED
    BY <1>4, <2>1, Zenon DEF Fail, Crash, Elsewhere, github, publishVars
<1>5. CASE Denial
  BY <1>5, Zenon DEF Denial, Deny, Elsewhere, sealing
<1>6. CASE CarryOut /\ UNCHANGED sealing
  BY <1>6, Zenon DEF CarryOut, Elsewhere, sealing
<1>7. CASE PushLands /\ UNCHANGED <<github, draft, sealing>>
  <2>1. SameAuthors
    BY <1>7 DEF github, SameAuthors
  <2> QED
    BY <1>7, <2>1, Zenon DEF PushLands, Elsewhere, github, sealing
<1>8. CASE Operate
  <2>1. SameAuthors
    BY <1>8 DEF Operate, RemoveLock, delivered, github, SameAuthors
  <2> QED
    BY <1>8, <2>1, Zenon DEF Operate, RemoveLock, delivered, github, Elsewhere
<1>9. CASE UNCHANGED vars
  <2>1. SameAuthors
    BY <1>9 DEF vars, github, SameAuthors
  <2> QED
    BY <1>9, <2>1, Zenon DEF vars, github, sealing, Elsewhere
<1>10. CASE Interfere
  <2>1. CASE OthersPublish /\ UNCHANGED <<github, draft>>
    <3>1. SameAuthors
      BY <2>1 DEF github, SameAuthors
    <3>2. /\ UNCHANGED <<pc, receipt, draft, pushing, flying, answer>>
          /\ remote' \in {remote, Stranger}
      BY <2>1, Zenon DEF OthersPublish, EditWorktree, StageByHand, CommitByHand, ResetByHand, PushByOthers, github
    <3> QED
      BY <1>10, <3>1, <3>2, Zenon DEF Interfere, Elsewhere, sealing
  <2>2. CASE OthersUsePulls \/ DeleteBranch
    <3>1. SameAuthors
      BY <2>2, OthersKeepPulls, Zenon DEF SameAuthors
    <3>2. /\ UNCHANGED <<pc, receipt, draft, pushing, flying, answer>>
          /\ remote' \in {remote, NoCommit}
      BY <2>2, Zenon DEF OthersUsePulls, Change, DeleteBranch
    <3> QED
      BY <1>10, <3>1, <3>2, Zenon DEF Interfere, Elsewhere, sealing
  <2> QED
    BY <1>10, <2>1, <2>2 DEF Interfere
<1> QED
  BY <1>1, <1>2, <1>3, <1>4, <1>5, <1>6, <1>7, <1>8, <1>9, <1>10
  DEF Next, Continue, Repeat, PackageEarly, Unanswered, Arrive

-----------------------------------------------------------------------------
(* The publication.                                                        *)

LEMMA PublishStepInv ==
  ASSUME IInv, PublishMove
  PROVE  PublishInv' /\ OnlyApprovedLeaves'
<1> TypeOK /\ PublishInv /\ OnlyApprovedLeaves
  BY DEF IInv
<1> USE DEF PublishInv, Committed
<1>0. \A c \in Commit : CommitAttested(c) /\ receipt.snapshot = "approved" => c \in ApprovedCommits
  BY Zenon DEF CommitAttested, ApprovedCommits
<1>a. head \in Commit /\ receipt \in Receipt
  BY DEF TypeOK
<1>1. CASE BeginPublish \/ Preflight \/ Add \/ CheckStaged \/ MakeCommit \/ CheckRemote \/ PublishRefused
  <2>1. UNCHANGED <<receipt, remote, pushing>>
    BY <1>1 DEF BeginPublish, Preflight, Add, CheckStaged, MakeCommit, CheckRemote, PublishRefused
  <2>2. OnlyApprovedLeaves'
    BY <2>1 DEF OnlyApprovedLeaves
  <2>3. PublishInv'
    BY <1>1, <2>1 DEF BeginPublish, Preflight, Add, CheckStaged, MakeCommit, CheckRemote, PublishRefused, GoTo, MayStage, Resumes
  <2> QED
    BY <2>2, <2>3
<1>2. CASE WriteIntent
  <2>1. OnlyApprovedLeaves'
    BY <1>2 DEF WriteIntent, OnlyApprovedLeaves
  <2>2. PublishInv'
    BY <1>2 DEF WriteIntent, WorktreeAttested
  <2> QED
    BY <2>1, <2>2
<1>3. CASE AdoptCommit \/ RecordCommit
  <2>1. OnlyApprovedLeaves'
    BY <1>3 DEF AdoptCommit, RecordCommit, OnlyApprovedLeaves
  <2>2. receipt.state = "READY_FOR_COMMIT" /\ CommitAttested(head)
    BY <1>3 DEF AdoptCommit, RecordCommit
  <2>3. head \in ApprovedCommits
    BY <1>0, <1>a, <2>2
  <2>4. PublishInv'
    BY <1>3, <1>a, <2>2, <2>3 DEF AdoptCommit, RecordCommit, Records, GoTo, Receipt
  <2> QED
    BY <2>1, <2>4
<1>4. CASE Push
  <2>1. receipt.state = "COMMITTED" /\ remote' = receipt.commit /\ UNCHANGED <<receipt, pushing>> /\ pc' = "pushed"
    BY <1>4 DEF Push, GoTo
  <2>2. OnlyApprovedLeaves'
    BY <2>1, Zenon DEF OnlyApprovedLeaves, ApprovedCommits
  <2>3. PublishInv'
    BY <2>1
  <2> QED
    BY <2>2, <2>3
<1>5. CASE RecordPush
  <2>1. OnlyApprovedLeaves'
    BY <1>5 DEF RecordPush, OnlyApprovedLeaves
  <2>2. PublishInv'
    BY <1>5, <1>a DEF RecordPush, Records, GoTo, Receipt
  <2> QED
    BY <2>1, <2>2
<1> QED
  BY <1>1, <1>2, <1>3, <1>4, <1>5
  DEF PublishMove, PublishStep

LEMMA PublishFrame ==
  ASSUME IInv, DraftMove \/ BundleMove \/ Elsewhere
  PROVE  PublishInv' /\ OnlyApprovedLeaves'
<1> TypeOK /\ PublishInv /\ OnlyApprovedLeaves
  BY DEF IInv
<1>1. UNCHANGED receipt
  BY Zenon DEF DraftMove, BundleMove, Elsewhere
<1>2. pushing' => pushing \/ pc = "push"
  BY Zenon DEF DraftMove, BundleMove, Elsewhere
<1>3. pc' \in {pc, "idle"} \cup DraftPc \cup BundlePc
  BY Zenon DEF DraftMove, BundleMove, Elsewhere
<1>4. PublishInv'
  <2>1. (receipt.state = "COMMITTED") \/ ~(pc = "push")
    BY DEF PublishInv
  <2>2. (pushing => Committed)'
    BY <1>1, <1>2, <2>1, Zenon DEF PublishInv, Committed
  <2> QED
    BY <1>1, <1>3, <2>2 DEF PublishInv, Committed, DraftPc, BundlePc
<1>5. remote' \in {remote, NoCommit, Stranger} \/ (pushing /\ remote' = receipt.commit)
  BY Zenon DEF DraftMove, BundleMove, Elsewhere
<1>6. OnlyApprovedLeaves'
  <2>1. Stranger.own = FALSE
    BY Zenon DEF Stranger
  <2>2. pushing => receipt.commit \in ApprovedCommits
    BY Zenon DEF PublishInv
  <2> QED
    BY <1>5, <2>1, <2>2, Zenon DEF OnlyApprovedLeaves, ApprovedCommits
<1> QED
  BY <1>4, <1>6

-----------------------------------------------------------------------------
(* The Draft pull request.                                                 *)

RequestsInv == DraftInv /\ RequestInv /\ OneRequest

\* A step of the publisher finds the Draft receipt unwritten.
LEMMA PublishBeforeDraft ==
  ASSUME IInv, PublishMove
  PROVE  receipt.state # "PUSHED" /\ draft.state = "NONE"
<1>1. receipt.state # "PUSHED"
  BY DEF PublishMove, PublishStep, IInv, PublishInv, PublishPc, BeginPublish, WriteIntent, AdoptCommit, Preflight, Add, CheckStaged, MakeCommit, RecordCommit, CheckRemote, Push, RecordPush, PublishRefused, MayStage, Resumes
<1> QED
  BY <1>1 DEF IInv, DraftInv

LEMMA DraftFrame ==
  ASSUME IInv, PublishMove \/ BundleMove
  PROVE  RequestsInv'
<1> DraftInv /\ RequestInv /\ OneRequest
  BY DEF IInv
<1>1. UNCHANGED <<pulls, flying, answer, draft>>
  BY Zenon DEF PublishMove, BundleMove
<1>2. pc' \in {"idle"} \cup PublishPc \cup BundlePc
  BY Zenon DEF PublishMove, BundleMove
<1>3. pc' \notin DraftPc
  BY <1>2 DEF PublishPc, BundlePc, DraftPc
<1>4. (draft.state # "NONE" => receipt.state = "PUSHED")'
  BY <1>1, PublishBeforeDraft, Zenon DEF BundleMove, DraftInv
<1>5. DraftInv'
  BY <1>1, <1>3, <1>4, Zenon DEF DraftInv, DraftPc
<1>6. RequestInv'
  BY <1>1, <1>3, Zenon DEF RequestInv, NoneOurs, DraftPc
<1>7. OneRequest'
  BY <1>1, Zenon DEF OneRequest
<1> QED
  BY <1>5, <1>6, <1>7 DEF RequestsInv

\* What a look at GitHub can do to the receipt.
Finds(r) ==
  \/ draft' = r
  \/ draft'.state = "CONFLICT" /\ draft'.number = draft.number
  \/ draft'.state = "OPEN" /\ draft'.number \in DOMAIN pulls

LEMMA Looks ==
  ASSUME TypeOK
  PROVE  /\ \A r : draft' = Classified(r) => Finds(r)
         /\ \A n \in DOMAIN pulls : draft' = ClassifiedOne(n) => Finds(draft')
         /\ \A n \in DOMAIN pulls : draft' = ClassifiedOne(n) => draft'.state \in {"OPEN", "CONFLICT"}
<1> draft \in DraftReceipt /\ pulls \in Seq(Pull)
  BY DEF TypeOK
<1>1. \A s \in DraftStates : /\ [draft EXCEPT !.state = s].state = s
                             /\ [draft EXCEPT !.state = s].number = draft.number
  BY DEF DraftReceipt
<1>2. \A n \in DOMAIN pulls : /\ [draft EXCEPT !.state = "OPEN", !.number = n].state = "OPEN"
                              /\ [draft EXCEPT !.state = "OPEN", !.number = n].number = n
  BY DEF DraftReceipt
<1>3. Len(pulls) = 1 => 1 \in DOMAIN pulls
  OBVIOUS
<1>4. "OPEN" \in DraftStates /\ "CONFLICT" \in DraftStates
  BY DEF DraftStates
<1>5. \A r : draft' = Classified(r) => Finds(r)
  BY <1>1, <1>2, <1>3, <1>4, Zenon DEF Classified, Finds
<1>6. \A n \in DOMAIN pulls : draft' = ClassifiedOne(n) => draft'.state \in {"OPEN", "CONFLICT"}
  BY <1>1, <1>2, <1>4, Zenon DEF ClassifiedOne
<1> QED
  BY <1>5, <1>6, Zenon DEF Finds

LEMMA DraftStepInv ==
  ASSUME IInv, DraftMove
  PROVE  RequestsInv'
<1> TypeOK /\ DraftInv /\ RequestInv /\ OneRequest
  BY DEF IInv
<1> draft \in DraftReceipt
  BY DEF TypeOK
<1>0. UNCHANGED <<receipt, pulls>>
  BY DEF DraftMove
<1>a. /\ [draft EXCEPT !.state = "READY_FOR_CREATE"].state = "READY_FOR_CREATE"
      /\ [draft EXCEPT !.state = "READY_FOR_CREATE"].number = draft.number
      /\ [draft EXCEPT !.state = "READY_FOR_CREATE"].attempted = draft.attempted
      /\ Uncertain.state = "CREATE_UNCERTAIN" /\ Uncertain.number = draft.number
      /\ NotAttempted.state = draft.state /\ NotAttempted.number = draft.number
  BY DEF DraftReceipt, Uncertain, NotAttempted
<1>b. NotAttempted.attempted = FALSE /\ [draft EXCEPT !.attempted = TRUE].attempted = TRUE
  BY Zenon DEF DraftReceipt, NotAttempted
<1>c. /\ [draft EXCEPT !.attempted = TRUE].state = draft.state
      /\ [draft EXCEPT !.attempted = TRUE].number = draft.number
  BY DEF DraftReceipt
<1>1. CASE BeginDraft
  <2> DEFINE new == [draft EXCEPT !.state = "READY_FOR_CREATE"]
  <2>1. draft.state = "NONE" /\ receipt.state = "PUSHED" /\ NoneOurs /\ draft.number = 0 /\ ~draft.attempted
    BY <1>1 DEF BeginDraft, MayDraft, DraftInv, RequestInv
  <2>2. UNCHANGED <<flying, answer>> /\ pc' \in {"drafting", "idle"}
    BY <1>1 DEF BeginDraft, GoTo, github
  <2>3. Finds(new)
    BY <1>1, Looks DEF BeginDraft
  <2>4. pc' = "drafting" => draft' = new
    BY <1>1 DEF BeginDraft, GoTo, Classified
  <2>5. DraftInv'
    BY <1>0, <1>a, <2>1, <2>2, <2>3, <2>4 DEF DraftInv, Finds, DraftPc
  <2>6. RequestInv' /\ OneRequest'
    BY <1>0, <2>1, <2>2 DEF RequestInv, NoneOurs, OneRequest
  <2> QED
    BY <2>5, <2>6 DEF RequestsInv
<1>2. CASE ResumeDraft
  <2>1. /\ draft.state = "READY_FOR_CREATE" /\ ~draft.attempted
        /\ UNCHANGED <<draft, flying, answer>> /\ pc' = "drafting"
    BY <1>2 DEF ResumeDraft, GoTo, github
  <2> QED
    BY <1>0, <2>1 DEF RequestsInv, DraftInv, RequestInv, NoneOurs, OneRequest, DraftPc
<1>3. CASE Rediscover
  <2>1. draft.state \in {"READY_FOR_CREATE", "CREATE_UNCERTAIN"} /\ pc = "idle"
    BY <1>3 DEF Rediscover, FateUnknown, MayDraft
  <2>2. UNCHANGED <<pc, flying, answer>> /\ Finds(Uncertain)
    BY <1>3, Looks DEF Rediscover, github
  <2>3. draft'.state \in {"CREATE_UNCERTAIN", "OPEN", "CONFLICT"}
    BY <1>a, <2>2 DEF Finds
  <2>4. DraftInv'
    BY <1>0, <1>a, <2>1, <2>2, <2>3 DEF DraftInv, Finds, DraftPc
  <2> QED
    BY <1>0, <2>1, <2>2, <2>3, <2>4 DEF RequestsInv, RequestInv, NoneOurs, OneRequest
<1>4. CASE Recheck
  <2>1. draft.state = "OPEN" /\ pc = "idle" /\ draft.number \in DOMAIN pulls
    BY <1>4 DEF Recheck, MayDraft, DraftInv
  <2>2. UNCHANGED <<pc, flying, answer>> /\ draft' = ClassifiedOne(draft.number)
    BY <1>4 DEF Recheck, github
  <2>3. draft'.state \in {"OPEN", "CONFLICT"} /\ Finds(draft')
    BY <2>1, <2>2, Looks
  <2>4. draft'.number \in DOMAIN pulls
    BY <2>1, <2>2 DEF ClassifiedOne, DraftReceipt
  <2>5. DraftInv'
    BY <1>0, <2>1, <2>2, <2>3, <2>4 DEF DraftInv, DraftPc
  <2> QED
    BY <1>0, <2>1, <2>2, <2>3, <2>5 DEF RequestsInv, RequestInv, NoneOurs, OneRequest
<1>5. CASE AnnounceRequest
  <2>1. pc = "drafting" /\ UNCHANGED <<flying, answer>>
    BY <1>5 DEF AnnounceRequest, github
  <2>2. draft.state = "READY_FOR_CREATE" /\ ~draft.attempted /\ NoneOurs /\ receipt.state = "PUSHED"
    BY <2>1 DEF DraftInv, RequestInv, DraftPc
  <2>3. CASE draft' = [draft EXCEPT !.attempted = TRUE] /\ pc' = "requesting"
    <3>1. draft'.state = "READY_FOR_CREATE" /\ draft'.number = draft.number /\ draft'.attempted
      BY <1>b, <1>c, <2>2, <2>3
    <3> QED
      BY <1>0, <2>1, <2>2, <2>3, <3>1 DEF RequestsInv, DraftInv, RequestInv, NoneOurs, OneRequest, DraftPc
  <2>4. CASE UNCHANGED draft /\ pc' = "idle"
    BY <1>0, <2>1, <2>2, <2>4 DEF RequestsInv, DraftInv, RequestInv, NoneOurs, OneRequest, DraftPc
  <2>5. CASE draft' = Classified(draft) /\ pc' = "idle"
    <3>1. Finds(draft)
      BY <2>5, Looks
    <3>2. DraftInv'
      BY <1>0, <2>2, <2>5, <3>1 DEF DraftInv, Finds, DraftPc
    <3> QED
      BY <1>0, <2>1, <2>2, <2>5, <3>2 DEF RequestsInv, RequestInv, NoneOurs, OneRequest
  <2> QED
    BY <1>5, <2>3, <2>4, <2>5 DEF AnnounceRequest, Settled, GoTo
<1>6. CASE SendRequest
  <2>1. pc = "requesting" /\ pc' = "waiting" /\ answer' = "none" /\ flying' = flying + 1 /\ UNCHANGED draft
    BY <1>6 DEF SendRequest, GoTo
  <2>2. NoneOurs /\ draft.attempted /\ draft.state = "READY_FOR_CREATE"
    BY <2>1 DEF RequestInv, DraftInv, DraftPc
  <2>3. DraftInv'
    BY <1>0, <2>1, <2>2 DEF DraftInv, DraftPc
  <2>4. RequestInv'
    BY <2>1, <2>2 DEF RequestInv
  <2>5. OneRequest'
    BY <1>0, <2>1, <2>2 DEF OneRequest, NoneOurs
  <2> QED
    BY <2>3, <2>4, <2>5 DEF RequestsInv
<1>7. CASE Created
  <2>1. pc = "waiting" /\ pc' = "confirming" /\ UNCHANGED <<draft, flying, answer>>
    BY <1>7 DEF Created, GoTo, github
  <2>2. draft.attempted /\ draft.state = "READY_FOR_CREATE"
    BY <2>1 DEF DraftInv, DraftPc
  <2> QED
    BY <1>0, <2>1, <2>2 DEF RequestsInv, DraftInv, RequestInv, NoneOurs, OneRequest, DraftPc
<1>8. CASE VerifyCreated \/ NoAnswer
  <2>1. pc \in DraftPc /\ pc' = "idle" /\ UNCHANGED <<flying, answer>>
    BY <1>8 DEF VerifyCreated, NoAnswer, Settled, GoTo, DraftPc, github
  <2>2. draft.state = "READY_FOR_CREATE" /\ receipt.state = "PUSHED" /\ draft.number = 0
    BY <2>1 DEF DraftInv
  <2>3. \/ \E n \in DOMAIN pulls : draft' = ClassifiedOne(n)
        \/ draft' = Classified(Uncertain)
        \/ draft' = Uncertain
    BY <1>8 DEF VerifyCreated, NoAnswer, Settled
  <2>4. draft'.state \in {"CREATE_UNCERTAIN", "OPEN", "CONFLICT"} /\ (Finds(Uncertain) \/ Finds(draft'))
    BY <1>a, <2>3, Looks DEF Finds
  <2>5. draft'.state = "OPEN" => draft'.number \in DOMAIN pulls
    <3>1. ASSUME NEW n \in DOMAIN pulls, draft' = ClassifiedOne(n), draft'.state = "OPEN" PROVE draft'.number = n
      BY <3>1 DEF ClassifiedOne, DraftReceipt
    <3> QED
      BY <1>a, <2>3, <3>1, Looks DEF Finds
  <2>6. draft'.state = "CREATE_UNCERTAIN" => draft'.number = 0
    BY <1>a, <2>2, <2>3, Looks DEF Finds
  <2>7. DraftInv'
    BY <1>0, <2>1, <2>2, <2>4, <2>5, <2>6 DEF DraftInv, DraftPc
  <2> QED
    BY <1>0, <2>1, <2>4, <2>7 DEF RequestsInv, RequestInv, NoneOurs, OneRequest
<1>9. CASE Rejected \/ Denied
  <2>1. pc = "waiting" /\ pc' = "idle" /\ answer \in {"rejected", "denied"} /\ UNCHANGED <<flying, answer>>
    BY <1>9 DEF Rejected, Denied, Settled, GoTo, github
  <2>2. NoneOurs /\ draft.state = "READY_FOR_CREATE" /\ receipt.state = "PUSHED" /\ draft.number = 0
    BY <2>1 DEF DraftInv, RequestInv, DraftPc
  <2>3. Finds(NotAttempted)
    BY <1>9, Looks DEF Rejected, Denied, Settled, Finds
  <2>4. DraftInv'
    BY <1>0, <1>a, <2>1, <2>2, <2>3 DEF DraftInv, Finds, DraftPc
  <2> QED
    BY <1>0, <2>1, <2>2, <2>4 DEF RequestsInv, RequestInv, NoneOurs, OneRequest
<1> QED
  BY <1>1, <1>2, <1>3, <1>4, <1>5, <1>6, <1>7, <1>8, <1>9 DEF DraftMove, DraftStep

LEMMA RequestsElsewhere ==
  ASSUME IInv, Elsewhere
  PROVE  RequestsInv'
<1> TypeOK /\ DraftInv /\ RequestInv /\ OneRequest
  BY DEF IInv
<1>0. UNCHANGED <<receipt, draft>> /\ pc' \in {pc, "idle"}
  BY Zenon DEF Elsewhere
<1>1. pulls \in Seq(Pull) /\ flying \in 0..1
  BY DEF TypeOK
<1>2. CASE SameAuthors /\ UNCHANGED <<flying, answer>>
  <2>1. NoneOurs => NoneOurs'
    BY <1>2, Zenon DEF SameAuthors, NoneOurs
  <2>2. DraftInv'
    BY <1>0, <1>2 DEF SameAuthors, DraftInv, DraftPc
  <2>3. RequestInv'
    BY <1>0, <1>2, <2>1 DEF RequestInv
  <2>4. \A n \in DOMAIN pulls' : pulls'[n].own => n \in DOMAIN pulls /\ pulls[n].own
    BY <1>2, Zenon DEF SameAuthors
  <2>5. OneRequest'
    BY <1>2, <2>4 DEF OneRequest
  <2> QED
    BY <2>2, <2>3, <2>5 DEF RequestsInv
<1>3. CASE Deny
  <2>1. flying > 0 /\ flying' = flying - 1 /\ answer' = "denied" /\ UNCHANGED <<pulls, pc>>
    BY <1>3 DEF Deny
  <2>2. flying = 1 /\ \A n \in DOMAIN pulls : ~pulls[n].own
    BY <2>1 DEF OneRequest
  <2>3. ~NoneOurs /\ NoneOurs' /\ flying' = 0
    BY <2>1, <2>2 DEF NoneOurs
  <2>4. DraftInv'
    BY <1>0, <2>1 DEF DraftInv
  <2>5. RequestInv'
    BY <2>3 DEF RequestInv
  <2>6. OneRequest'
    BY <2>3 DEF OneRequest, NoneOurs
  <2> QED
    BY <2>4, <2>5, <2>6 DEF RequestsInv
<1>4. CASE CarryOut
  <2>1. flying > 0 /\ flying' = flying - 1 /\ UNCHANGED pc
    BY <1>4 DEF CarryOut
  <2>2. flying = 1 /\ flying' = 0 /\ \A n \in DOMAIN pulls : ~pulls[n].own
    BY <1>1, <2>1 DEF OneRequest
  <2>3. ~NoneOurs
    BY <2>2 DEF NoneOurs
  <2>4. \/ UNCHANGED pulls /\ answer' = "rejected"
        \/ answer' = "created" /\ \E pull : pulls' = Append(pulls, pull)
    BY <1>4, Zenon DEF CarryOut, NewPull
  <2>5. /\ DOMAIN pulls \subseteq DOMAIN pulls'
        /\ \A n \in DOMAIN pulls' : (n \in DOMAIN pulls /\ pulls'[n] = pulls[n]) \/ n = Len(pulls) + 1
    BY <1>1, <2>4
  <2>6. DraftInv'
    BY <1>0, <2>1, <2>5 DEF DraftInv
  <2>7. answer' = "rejected" => NoneOurs'
    BY <2>2, <2>4 DEF NoneOurs
  <2>8. (draft.state = "NONE" \/ (draft.state = "READY_FOR_CREATE" /\ ~draft.attempted) => NoneOurs) /\ (pc = "requesting" => NoneOurs)
    BY DEF RequestInv
  <2>9. RequestInv'
    BY <1>0, <2>1, <2>3, <2>4, <2>7, <2>8 DEF RequestInv
  <2>10. OneRequest'
    BY <2>2, <2>5 DEF OneRequest
  <2> QED
    BY <2>6, <2>9, <2>10 DEF RequestsInv
<1> QED
  BY <1>2, <1>3, <1>4 DEF Elsewhere

-----------------------------------------------------------------------------
(* The Result Bundle.                                                      *)

LEMMA BundleFrame ==
  ASSUME IInv, PublishMove \/ DraftMove \/ Elsewhere
  PROVE  BundleInv' /\ SealedAsPublished'
<1> TypeOK /\ BundleInv /\ SealedAsPublished /\ DraftInv
  BY DEF IInv
<1>1. CASE PublishMove
  <2>1. draft.state = "NONE" /\ bundle.state # "READY_FOR_WEB_REVIEW"
    BY <1>1, PublishBeforeDraft DEF BundleInv
  <2>2. UNCHANGED <<bundle, archive, draft>> /\ pc' \in {"idle"} \cup PublishPc
    BY <1>1 DEF PublishMove
  <2> QED
    BY <2>1, <2>2 DEF BundleInv, SealedAsPublished, PublishPc
<1>2. CASE DraftMove
  <2>1. UNCHANGED <<receipt, bundle, archive>> /\ pc' \in {"idle"} \cup DraftPc
    BY <1>2 DEF DraftMove
  <2>2. pc' \notin {"locked", "building", "verifying", "sealing"}
    BY <2>1 DEF DraftPc
  <2>3. CASE bundle.state = "READY_FOR_WEB_REVIEW"
    <3>1. draft.state \in {"OPEN", "CONFLICT"}
      BY <2>3 DEF BundleInv
    <3>2. Recheck
      BY <1>2, <3>1 DEF DraftMove, DraftStep, DraftInv, DraftPc, BeginDraft, ResumeDraft, Rediscover, FateUnknown, AnnounceRequest, SendRequest, Created, VerifyCreated, Rejected, Denied, NoAnswer
    <3>3. draft.number \in DOMAIN pulls /\ draft' = ClassifiedOne(draft.number)
      BY <3>2 DEF Recheck, DraftInv
    <3>4. draft'.state \in {"OPEN", "CONFLICT"}
      BY <3>3, Looks
    <3>5. draft'.number = draft.number
      BY <3>3 DEF ClassifiedOne, TypeOK, DraftReceipt
    <3> QED
      BY <2>1, <2>2, <3>4, <3>5 DEF BundleInv, SealedAsPublished
  <2>4. CASE bundle.state # "READY_FOR_WEB_REVIEW"
    BY <2>1, <2>2, <2>4 DEF BundleInv, SealedAsPublished
  <2> QED
    BY <2>3, <2>4
<1>3. CASE Elsewhere
  <2>1. UNCHANGED <<receipt, draft, bundle, archive>> /\ pc' \in {pc, "idle"}
    BY <1>3, Zenon DEF Elsewhere
  <2> QED
    BY <2>1 DEF BundleInv, SealedAsPublished
<1> QED
  BY <1>1, <1>2, <1>3

LEMMA BundleStepInv ==
  ASSUME IInv, BundleMove
  PROVE  BundleInv' /\ SealedAsPublished'
<1> TypeOK /\ BundleInv /\ SealedAsPublished /\ DraftInv
  BY DEF IInv
<1> bundle \in BundleReceipt /\ draft \in DraftReceipt
  BY DEF TypeOK
<1>0. UNCHANGED <<receipt, draft>>
  BY DEF BundleMove
<1>1. CASE TakeLock
  BY <1>0, <1>1 DEF TakeLock, GoTo, BundleInv, SealedAsPublished
<1>2. CASE StartBuild
  <2>1. receipt.state = "PUSHED" /\ draft.state = "OPEN" /\ pc' = "building"
    BY <1>2 DEF StartBuild, InputsAttested, GoTo
  <2>2. /\ bundle'.state = "BUILDING" /\ bundle'.commit = receipt.commit
        /\ bundle'.number = draft.number
    BY <1>2 DEF StartBuild
  <2> QED
    BY <1>0, <2>1, <2>2 DEF BundleInv, SealedAsPublished
<1>3. CASE Build
  <2>1. /\ bundle'.state = "BUILT" /\ bundle'.commit = bundle.commit
        /\ bundle'.number = bundle.number
    BY <1>3 DEF Build, Reaches, BundleReceipt
  <2> QED
    BY <1>0, <1>3, <2>1 DEF Build, GoTo, BundleInv, SealedAsPublished
<1>4. CASE Verify
  <2>1. /\ bundle'.state = "VERIFIED" /\ bundle'.commit = bundle.commit
        /\ bundle'.number = bundle.number /\ bundle'.title = bundle.title
    BY <1>4 DEF Verify, Reaches, BundleReceipt
  <2> QED
    BY <1>0, <1>4, <2>1 DEF Verify, GoTo, delivered, BundleInv, SealedAsPublished
<1>5. CASE Seal
  <2>1. /\ bundle'.state = "READY_FOR_WEB_REVIEW" /\ bundle'.commit = bundle.commit
        /\ bundle'.number = bundle.number /\ bundle'.title = bundle.title
    BY <1>5 DEF Seal, Reaches, BundleReceipt
  <2>2. draft.number # 0
    BY <1>5 DEF Seal, BundleInv, DraftInv, TypeOK
  <2> QED
    BY <1>0, <1>5, <2>1, <2>2 DEF Seal, GoTo, BundleInv, SealedAsPublished
<1>6. CASE Unlock
  BY <1>0, <1>6 DEF Unlock, GoTo, BundleInv, SealedAsPublished
<1> QED
  BY <1>1, <1>2, <1>3, <1>4, <1>5, <1>6 DEF BundleMove, BundleStep

-----------------------------------------------------------------------------
(* The invariant, and what follows from it.                                *)

LEMMA InitInv == Init => IInv
<1> SUFFICES ASSUME Init PROVE IInv
  OBVIOUS
<1> USE DEF Init, PublishInit, DraftInit, BundleInit
<1>1. TypeOK
  <2>1. pushing \in BOOLEAN /\ head \in Commit
    <3>1. 0 \in 0..MaxCommits
      BY MaxCommitsAssumption
    <3> QED
      BY <3>1, FALSE \in BOOLEAN, Zenon DEF Base, Commit, Trees
  <2>2. draft \in DraftReceipt
    BY FALSE \in BOOLEAN, MaxPullsAssumption DEF DraftReceipt
  <2>3. pulls \in Seq(Pull) /\ Len(pulls) <= MaxPulls
    BY MaxPullsAssumption
  <2> QED
    BY <2>1, <2>2, <2>3, MaxCommitsAssumption, MaxPullsAssumption, BoundsAssumption
    DEF TypeOK, Trees, Receipt, BundleReceipt
<1>2. PublishInv /\ OnlyApprovedLeaves
  BY DEF PublishInv, Committed, OnlyApprovedLeaves
<1>3. NoneOurs
  BY DEF NoneOurs
<1>4. ~draft.attempted
  BY Zenon
<1>5. DraftInv /\ RequestInv /\ OneRequest
  BY <1>3, <1>4 DEF DraftInv, DraftPc, RequestInv, OneRequest
<1>6. BundleInv /\ SealedAsPublished
  BY DEF BundleInv, SealedAsPublished
<1> QED
  BY <1>1, <1>2, <1>5, <1>6 DEF IInv

LEMMA NextInv == IInv /\ [Next]_vars => IInv'
<1> SUFFICES ASSUME IInv, [Next]_vars PROVE IInv'
  OBVIOUS
<1>1. TypeOK'
  BY TypeStep
<1>2. PublishMove \/ DraftMove \/ BundleMove \/ Elsewhere
  BY StepKinds DEF IInv
<1>3. PublishInv' /\ OnlyApprovedLeaves'
  BY <1>2, PublishStepInv, PublishFrame
<1>4. RequestsInv'
  BY <1>2, DraftFrame, DraftStepInv, RequestsElsewhere
<1>5. BundleInv' /\ SealedAsPublished'
  BY <1>2, BundleFrame, BundleStepInv
<1> QED
  BY <1>1, <1>3, <1>4, <1>5 DEF IInv, RequestsInv

LEMMA Invariance == Spec => []IInv
  BY InitInv, NextInv, PTL DEF Spec

\* Every variable has its type.
THEOREM TypeCorrect == Spec => []TypeOK
<1>1. IInv => TypeOK
  BY DEF IInv
<1> QED
  BY <1>1, Invariance, PTL

\* Only the approved tree, on the locked base, leaves the machine under our
\* message: assertCommitAttestation, run on the commit and again before the
\* push, holds against every change of worktree, index and HEAD in between.
THEOREM ApprovedOnly == Spec => []OnlyApprovedLeaves
<1>1. IInv => OnlyApprovedLeaves
  BY DEF IInv
<1> QED
  BY <1>1, Invariance, PTL

\* create_post_attempted, written before the request is sent and cleared only
\* when GitHub has refused it, keeps the request from being repeated.
THEOREM RequestedOnce == Spec => []OneRequest
<1>1. IInv => OneRequest
  BY DEF IInv
<1> QED
  BY <1>1, Invariance, PTL

\* A sealed bundle names the commit and the pull request of the two receipts
\* it was built from, which no later step changes.
THEOREM SealedRight == Spec => []SealedAsPublished
<1>1. IInv => SealedAsPublished
  BY DEF IInv
<1> QED
  BY <1>1, Invariance, PTL

\* A branch that exists is left alone by every step of the delivery: the push
\* asks for an absent branch.
THEOREM NeverOverwrites == Spec => BranchNeverOverwritten
<1> DEFINE Leaves == remote # NoCommit /\ interference' = interference => remote' = remote
<1>1. ASSUME IInv, [Next]_vars PROVE Leaves
  <2> SUFFICES ASSUME remote # NoCommit, interference' = interference PROVE remote' = remote
    OBVIOUS
  <2>1. ~Interfere
    <3>1. interference \in Nat
      BY <1>1, BoundsAssumption DEF IInv, TypeOK
    <3> QED
      BY <3>1 DEF Interfere
  <2>2. CASE PublishStep
    BY <2>2 DEF PublishStep, BeginPublish, WriteIntent, AdoptCommit, Preflight, Add, CheckStaged, MakeCommit, RecordCommit, CheckRemote, Push, RecordPush, PublishRefused
  <2>3. CASE DraftStep \/ Recheck \/ NoAnswer
    BY <2>3 DEF DraftStep, BeginDraft, ResumeDraft, Rediscover, AnnounceRequest, SendRequest, Created, VerifyCreated, Rejected, Denied, Recheck, NoAnswer
  <2>4. CASE BundleStep \/ TakeLock
    BY <2>4 DEF BundleStep, delivered, TakeLock, StartBuild, Build, Verify, Seal, Unlock
  <2>5. CASE Fail \/ Crash \/ Denial \/ Arrive \/ Operate \/ UNCHANGED vars
    BY <2>5, Zenon DEF Fail, Crash, Denial, Deny, Arrive, CarryOut, PushLands, Operate, RemoveLock, delivered, publishVars, vars
  <2>6. Continue => PublishStep \/ DraftStep \/ BundleStep \/ TakeLock
    BY Zenon DEF Continue
  <2>7. (Repeat => Recheck) /\ (PackageEarly => TakeLock) /\ (Unanswered => NoAnswer)
    BY Zenon DEF Repeat, PackageEarly, Unanswered
  <2> QED
    BY <1>1, <2>1, <2>2, <2>3, <2>4, <2>5, <2>6, <2>7, Zenon DEF Next
<1>2. ASSUME IInv, [Next]_vars PROVE [Leaves]_vars
  BY <1>1, <1>2
<1> QED
  BY <1>2, Invariance, PTL DEF Spec, BranchNeverOverwritten

-----------------------------------------------------------------------------
(* The refinement.                                                         *)

LEMMA PromiseFrame == Elsewhere => UNCHANGED Promise!promise
  BY DEF Elsewhere, Promise!promise

LEMMA PublishPromise ==
  ASSUME IInv, PublishMove
  PROVE  [Promise!Next]_(Promise!promise)
<1> TypeOK /\ PublishInv /\ BundleInv
  BY DEF IInv
<1> receipt \in Receipt /\ head \in Commit
  BY DEF TypeOK
<1>1. receipt.state # "PUSHED" /\ UNCHANGED <<draft, bundle>>
  BY PublishBeforeDraft DEF PublishMove
<1>2. CASE AdoptCommit \/ RecordCommit
  <2>1. receipt.state = "READY_FOR_COMMIT" /\ CommitAttested(head) /\ Records("COMMITTED", head)
    BY <1>2 DEF AdoptCommit, RecordCommit, PublishInv
  <2>2. head \in ApprovedCommits
    BY <2>1, Zenon DEF CommitAttested, PublishInv, ApprovedCommits
  <2>3. receipt.commit = NoCommit /\ receipt'.commit = head /\ receipt'.state = "COMMITTED"
    BY <2>1 DEF PublishInv, Records, Receipt
  <2>4. Promise!NameCommit
    BY <1>1, <2>1, <2>2, <2>3 DEF Promise!NameCommit, ApprovedCommits
  <2> QED
    BY <2>4 DEF Promise!Next
<1>3. CASE RecordPush
  <2>1. receipt.state = "COMMITTED" /\ receipt.commit # NoCommit
    BY <1>3, NoCommitAssumption DEF RecordPush, PublishInv, Committed, ApprovedCommits
  <2>2. receipt'.commit = receipt.commit /\ receipt'.state = "PUSHED"
    BY <1>3 DEF RecordPush, Records, Receipt
  <2>3. Promise!Publish
    BY <1>1, <2>1, <2>2 DEF Promise!Publish
  <2> QED
    BY <2>3 DEF Promise!Next
<1>4. CASE WriteIntent
  <2>1. receipt'.commit = receipt.commit /\ receipt'.state # "PUSHED"
    BY <1>4 DEF WriteIntent, PublishInv
  <2> QED
    BY <1>1, <2>1 DEF Promise!promise
<1>5. CASE UNCHANGED receipt
  BY <1>1, <1>5 DEF Promise!promise
<1> QED
  BY <1>2, <1>3, <1>4, <1>5
  DEF PublishMove, PublishStep, BeginPublish, Preflight, Add, CheckStaged, MakeCommit, CheckRemote, Push, PublishRefused

\* The number is named at most once, and then it is that of a pull request.
LEMMA DraftMoveNumber ==
  ASSUME IInv, DraftMove
  PROVE  \/ draft'.number = draft.number
         \/ draft.number = 0 /\ draft'.number \in Numbers /\ receipt.state = "PUSHED"
<1> TypeOK /\ DraftInv
  BY DEF IInv
<1> draft \in DraftReceipt
  BY DEF TypeOK
<1> DEFINE Named == draft'.number = draft.number \/ draft'.number \in DOMAIN pulls
<1>1. \A n \in DOMAIN pulls : draft' = ClassifiedOne(n) => draft'.number \in {draft.number, n}
  BY DEF ClassifiedOne, DraftReceipt
<1>2. CASE Recheck
  BY <1>1, <1>2 DEF Recheck, DraftInv
<1>3. CASE DraftStep \/ NoAnswer
  <2>1. draft.number = 0 /\ receipt.state = "PUSHED"
    BY <1>3 DEF DraftStep, DraftInv, DraftPc, MayDraft, BeginDraft, ResumeDraft, Rediscover, FateUnknown, AnnounceRequest, SendRequest, Created, VerifyCreated, Rejected, Denied, NoAnswer
  <2>2. DOMAIN pulls \subseteq Numbers
    BY Pieces
  <2>3. \A r : r.number = draft.number => (Finds(r) => Named)
    BY DEF Finds
  <2>4. /\ [draft EXCEPT !.state = "READY_FOR_CREATE"].number = draft.number
        /\ [draft EXCEPT !.attempted = TRUE].number = draft.number
        /\ Uncertain.number = draft.number /\ NotAttempted.number = draft.number
    BY DEF Uncertain, NotAttempted, DraftReceipt
  <2>5. \A r : draft' = Classified(r) \/ draft' = r => Finds(r)
    BY Looks DEF Finds
  <2>6. CASE BeginDraft
    BY <2>3, <2>4, <2>5, <2>6, <2>1, <2>2 DEF BeginDraft
  <2>7. CASE ResumeDraft \/ SendRequest \/ Created
    BY <2>7 DEF ResumeDraft, SendRequest, Created
  <2>8. CASE Rediscover
    BY <2>3, <2>4, <2>5, <2>8, <2>1, <2>2 DEF Rediscover
  <2>9. CASE AnnounceRequest
    <3>1. \/ draft' \in {draft, [draft EXCEPT !.attempted = TRUE]}
          \/ draft' = Classified(draft)
      BY <2>9 DEF AnnounceRequest, Settled
    <3> QED
      BY <3>1, <2>3, <2>4, <2>5, <2>1, <2>2
  <2>10. CASE VerifyCreated \/ NoAnswer
    <3>1. \/ \E n \in DOMAIN pulls : draft' = ClassifiedOne(n)
          \/ draft' \in {Uncertain, Classified(Uncertain)}
      BY <2>10 DEF VerifyCreated, NoAnswer, Settled
    <3> QED
      BY <3>1, <1>1, <2>3, <2>4, <2>5, <2>1, <2>2
  <2>11. CASE Rejected \/ Denied
    <3>1. draft' \in {NotAttempted, Classified(NotAttempted)}
      BY <2>11 DEF Rejected, Denied, Settled
    <3> QED
      BY <3>1, <2>3, <2>4, <2>5, <2>1, <2>2
  <2> QED
    BY <1>3, <2>6, <2>7, <2>8, <2>9, <2>10, <2>11 DEF DraftStep
<1> QED
  BY <1>2, <1>3 DEF DraftMove

LEMMA DraftPromise ==
  ASSUME IInv, DraftMove
  PROVE  [Promise!Next]_(Promise!promise)
<1>1. UNCHANGED <<receipt, bundle>>
  BY DEF DraftMove
<1>2. CASE draft'.number = draft.number
  BY <1>1, <1>2 DEF Promise!promise
<1>3. CASE draft.number = 0 /\ draft'.number \in Numbers /\ receipt.state = "PUSHED"
  <2>1. Promise!NamePull
    BY <1>1, <1>3 DEF Promise!NamePull
  <2> QED
    BY <2>1 DEF Promise!Next
<1> QED
  BY <1>2, <1>3, DraftMoveNumber

LEMMA BundlePromise ==
  ASSUME IInv, BundleMove
  PROVE  [Promise!Next]_(Promise!promise)
<1> TypeOK /\ BundleInv /\ DraftInv
  BY DEF IInv
<1> bundle \in BundleReceipt /\ draft \in DraftReceipt
  BY DEF TypeOK
<1>1. UNCHANGED <<receipt, draft>>
  BY DEF BundleMove
<1>2. CASE Seal
  <2>1. /\ bundle'.state = "READY_FOR_WEB_REVIEW" /\ bundle'.number = bundle.number
        /\ bundle.state # "READY_FOR_WEB_REVIEW" /\ bundle.number = draft.number
    BY <1>2 DEF Seal, Reaches, BundleReceipt, BundleInv
  <2>2. draft.number # 0
    BY <1>2 DEF Seal, BundleInv, DraftInv, TypeOK
  <2>3. Promise!Seal
    BY <1>1, <2>1, <2>2 DEF Promise!Seal
  <2> QED
    BY <2>3 DEF Promise!Next
<1>3. CASE StartBuild \/ Build \/ Verify
  <2>1. bundle.state # "READY_FOR_WEB_REVIEW"
    BY <1>3 DEF StartBuild, Build, Verify, BundleInv
  <2>2. bundle'.state # "READY_FOR_WEB_REVIEW"
    BY <1>3 DEF StartBuild, Build, Verify, Reaches, BundleReceipt
  <2> QED
    BY <1>1, <2>1, <2>2 DEF Promise!promise
<1>4. CASE TakeLock \/ Unlock
  BY <1>1, <1>4 DEF TakeLock, Unlock, Promise!promise
<1> QED
  BY <1>2, <1>3, <1>4 DEF BundleMove, BundleStep

\* Delivery implements DeliveryPromise: whatever crashes and whoever interferes,
\* commit, publication, pull request and seal are named once, in this order.
THEOREM Refinement == Spec => KeepsPromise
<1>1. Init => Promise!Init
  BY DEF Init, PublishInit, DraftInit, BundleInit, Promise!Init
<1>2. IInv /\ [Next]_vars => [Promise!Next]_(Promise!promise)
  <2> SUFFICES ASSUME IInv, [Next]_vars PROVE [Promise!Next]_(Promise!promise)
    OBVIOUS
  <2>1. PublishMove \/ DraftMove \/ BundleMove \/ Elsewhere
    BY StepKinds DEF IInv
  <2> QED
    BY <2>1, PublishPromise, DraftPromise, BundlePromise, PromiseFrame
<1> QED
  BY <1>1, <1>2, Invariance, PTL DEF Spec, KeepsPromise, Promise!Spec

=============================================================================
