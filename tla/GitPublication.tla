--------------------------- MODULE GitPublication ---------------------------
(***************************************************************************)
(* Publication of one READY executor snapshot (publish/git-publisher.ts    *)
(* behind orchestration/p10-publish.ts): write the intent, stage, commit,  *)
(* push, and a receipt after each so that a crash can be resumed.  The     *)
(* publisher owns neither the worktree nor the remote: between any two of  *)
(* its steps somebody may edit, stage, commit, reset or push.              *)
(*                                                                         *)
(* A tree is one of three: the base, the approved change set on it, or     *)
(* something else with the same paths.  A commit is known by a serial      *)
(* number (its hash), its tree, whether its only parent is the base and    *)
(* whether it bears the approved message.                                  *)
(***************************************************************************)
EXTENDS Naturals

CONSTANTS
  MaxCommits,  \* commits that may be made in the worktree
  NoCommit     \* no commit recorded; no such branch on the remote

ASSUME MaxCommitsAssumption == MaxCommits \in Nat \ {0}

Trees == {"base", "approved", "other"}
Commit ==
  [serial : 0..MaxCommits, tree : Trees, onBase : BOOLEAN, own : BOOLEAN]

ASSUME NoCommitAssumption == NoCommit \notin Commit

\* The locked base commit, and what somebody else pushes to our branch name.
Base == [serial |-> 0, tree |-> "base", onBase |-> FALSE, own |-> FALSE]
Stranger == [serial |-> 0, tree |-> "other", onBase |-> TRUE, own |-> FALSE]

VARIABLES
  worktree,  \* the tree of the files in the worktree
  index,     \* the tree of the Git index
  head,      \* HEAD of the delivery branch
  made,      \* commits made in the worktree so far
  remote,    \* the delivery branch on the remote
  receipt,   \* publish receipt
  pushing,   \* a `git push` that outlived its publisher
  pc         \* where the delivery process is

repository == <<worktree, index, head, made>>

Receipt ==
  [state : {"NONE", "READY_FOR_COMMIT", "COMMITTED", "PUSHED"},
   commit : Commit \cup {NoCommit}, snapshot : Trees]

PublishPc ==
  {"publishing", "adding", "added", "committing", "made", "committed", "push", "pushed"}

PublishInit ==
  /\ worktree = "approved" /\ index = "base" /\ head = Base /\ made = 0
  /\ remote = NoCommit
  /\ receipt = [state |-> "NONE", commit |-> NoCommit, snapshot |-> "base"]
  /\ pushing = FALSE
  /\ pc = "idle"

-----------------------------------------------------------------------------
(* Attestations.                                                           *)

\* The commit that may stand at HEAD instead of the base: a commit found under
\* a READY_FOR_COMMIT receipt is taken for the one the receipt announced.
Published ==
  IF receipt.state = "READY_FOR_COMMIT" /\ head # Base THEN head ELSE receipt.commit

\* attestReadyExecutorSnapshot
ReadyAttested ==
  /\ worktree = "approved"
  /\ IF Published = NoCommit THEN head = Base
     ELSE /\ head = Published /\ index = head.tree /\ worktree = head.tree
          /\ head.onBase /\ head.tree = receipt.snapshot

\* Mutant: the committed tree is not compared with the approved snapshot.
AttestedByShape(c) == c.onBase /\ c.own

\* assertCommitAttestation: sole parent, paths, message and tree.
CommitAttested(c) == c.onBase /\ c.own /\ c.tree = receipt.snapshot

\* attestCurrentWorktree against the receipt
WorktreeAttested == head = Base /\ worktree = "approved"
StillApproved == WorktreeAttested /\ worktree = receipt.snapshot

\* The staged paths and the staged snapshot, whoever staged them.
StagedAttested == index # head.tree /\ index = receipt.snapshot

PushAttested ==
  /\ head = receipt.commit /\ CommitAttested(head)
  /\ remote \in {NoCommit, receipt.commit}

-----------------------------------------------------------------------------
(* The publisher.                                                          *)

GoTo(stage) == pc' = stage
Records(state, commit) ==
  receipt' = [receipt EXCEPT !.state = state, !.commit = commit]

BeginPublish ==
  /\ pc = "idle" /\ receipt.state # "PUSHED" /\ ReadyAttested
  /\ GoTo("publishing")
  /\ UNCHANGED <<repository, remote, receipt, pushing>>

WriteIntent ==
  /\ pc = "publishing" /\ receipt.state = "NONE" /\ WorktreeAttested
  /\ receipt' = [state |-> "READY_FOR_COMMIT", commit |-> NoCommit, snapshot |-> worktree]
  /\ UNCHANGED <<repository, remote, pushing, pc>>

\* Mutant: a commit without its receipt is never adopted.
NeverAdoptCommit == FALSE /\ UNCHANGED <<repository, remote, pushing, pc, receipt>>

\* recoverCommittedReceipt: the crash came after the commit.
AdoptCommit ==
  /\ pc = "publishing" /\ receipt.state = "READY_FOR_COMMIT"
  /\ head # Base /\ CommitAttested(head)
  /\ Records("COMMITTED", head)
  /\ GoTo("committed")
  /\ UNCHANGED <<repository, remote, pushing>>

MayStage ==
  /\ pc = "publishing" /\ receipt.state = "READY_FOR_COMMIT"
  /\ head = Base /\ remote = NoCommit

\* Nothing is staged yet: attest once more and try the push dry.
Preflight ==
  /\ MayStage /\ index = head.tree /\ StillApproved
  /\ GoTo("adding")
  /\ UNCHANGED <<repository, remote, receipt, pushing>>

Add ==
  /\ pc = "adding"
  /\ index' = worktree
  /\ GoTo("added")
  /\ UNCHANGED <<worktree, head, made, remote, receipt, pushing>>

CheckStaged ==
  /\ pc = "added" \/ MayStage
  /\ StagedAttested
  /\ GoTo("committing")
  /\ UNCHANGED <<repository, remote, receipt, pushing>>

CommitOf(author) ==
  [serial |-> made + 1, tree |-> index, onBase |-> head = Base, own |-> author]

MakeCommit ==
  /\ pc = "committing" /\ index # head.tree /\ made < MaxCommits
  /\ head' = CommitOf(TRUE) /\ made' = made + 1
  /\ GoTo("made")
  /\ UNCHANGED <<worktree, index, remote, receipt, pushing>>

RecordCommit ==
  /\ pc = "made" /\ CommitAttested(head)
  /\ Records("COMMITTED", head)
  /\ GoTo("committed")
  /\ UNCHANGED <<repository, remote, pushing>>

Resumes == pc = "publishing" /\ receipt.state = "COMMITTED"

CheckRemote ==
  /\ pc = "committed" \/ Resumes
  /\ PushAttested
  /\ GoTo(IF remote = NoCommit THEN "push" ELSE "pushed")
  /\ UNCHANGED <<repository, remote, receipt, pushing>>

\* Mutant: a push that replaces whatever is there.
PushWithoutLease ==
  /\ pc = "push"
  /\ remote' = receipt.commit
  /\ GoTo("pushed")
  /\ UNCHANGED <<repository, receipt, pushing>>

\* The lease asks for an absent branch; a refused push is forgiven when the
\* branch is found at our commit.
Push ==
  /\ pc = "push" /\ remote \in {NoCommit, receipt.commit}
  /\ remote' = receipt.commit
  /\ GoTo("pushed")
  /\ UNCHANGED <<repository, receipt, pushing>>

RecordPush ==
  /\ pc = "pushed" /\ remote = receipt.commit
  /\ Records("PUSHED", receipt.commit)
  /\ GoTo("idle")
  /\ UNCHANGED <<repository, remote, pushing>>

\* What the publisher checks where it stands.
Passes ==
  CASE pc = "publishing" ->
         (CASE receipt.state = "NONE" -> WorktreeAttested
            [] receipt.state = "COMMITTED" -> PushAttested
            [] head # Base -> CommitAttested(head)
            [] OTHER -> /\ remote = NoCommit
                        /\ IF index = head.tree THEN StillApproved ELSE StagedAttested)
    [] pc = "added" -> StagedAttested
    [] pc = "committing" -> index # head.tree
    [] pc = "made" -> CommitAttested(head)
    [] pc = "committed" -> PushAttested
    [] pc = "push" -> remote \in {NoCommit, receipt.commit}
    [] pc = "pushed" -> remote = receipt.commit
    [] OTHER -> TRUE

\* A check throws; the files stay as they are.
PublishRefused ==
  /\ pc \in PublishPc /\ ~Passes
  /\ GoTo("idle")
  /\ UNCHANGED <<repository, remote, receipt, pushing>>

\* The push of a publisher that died reaches the remote, or never does.
PushLands ==
  /\ pushing
  /\ remote' = IF remote = NoCommit THEN receipt.commit ELSE remote
  /\ pushing' = FALSE
  /\ UNCHANGED <<repository, receipt, pc>>

PublishStep ==
  \/ BeginPublish \/ WriteIntent \/ AdoptCommit \/ Preflight \/ Add \/ CheckStaged
  \/ MakeCommit \/ RecordCommit \/ CheckRemote \/ Push \/ RecordPush \/ PublishRefused

-----------------------------------------------------------------------------
(* What others do to the worktree and the branch.                          *)

EditWorktree ==
  /\ worktree' \in {"approved", "other"} \ {worktree}
  /\ UNCHANGED <<index, head, made, remote, receipt, pushing, pc>>

StageByHand ==
  /\ index # worktree /\ index' = worktree
  /\ UNCHANGED <<worktree, head, made, remote, receipt, pushing, pc>>

CommitByHand ==
  /\ index # head.tree /\ made < MaxCommits
  /\ head' = CommitOf(FALSE) /\ made' = made + 1
  /\ UNCHANGED <<worktree, index, remote, receipt, pushing, pc>>

ResetByHand ==
  /\ head # Base /\ head' = Base /\ index' = "base"
  /\ UNCHANGED <<worktree, made, remote, receipt, pushing, pc>>

PushByOthers ==
  /\ remote # Stranger /\ remote' = Stranger
  /\ UNCHANGED <<repository, receipt, pushing, pc>>

OthersPublish ==
  EditWorktree \/ StageByHand \/ CommitByHand \/ ResetByHand \/ PushByOthers

=============================================================================
