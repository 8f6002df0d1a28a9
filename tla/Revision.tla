------------------------------ MODULE Revision ------------------------------
(***************************************************************************)
(* Revision: a REVISION_REQUESTED round is answered by a new commit on the *)
(* reviewed head, implemented by a model, verified, reviewed, committed,   *)
(* pushed to the same pull request and sealed as the bundle of the next    *)
(* round.  Each stage is a state of the receipt; a process may fail or die *)
(* at every step, and the next one resumes from the receipt.               *)
(***************************************************************************)
EXTENDS WebReview

CONSTANTS
  Passing,    \* trees the deterministic verifier passes
  Acceptable, \* trees the reviewer may approve
  MaxTurns    \* model turns a revision may reserve

ASSUME RevisionAssumption == Passing \subseteq Trees /\ Acceptable \subseteq Trees /\ MaxTurns \in Nat

Revisions == 1..(MaxRound - 1)

Resumable == {"READY_TO_REVISE", "IMPLEMENTING", "POLICY_CHECKING", "VERIFYING", "REVIEWING",
  "READY_FOR_PUBLISH", "COMMITTED", "PUSHED"}
Ambiguous == {"IMPLEMENTING", "VERIFYING", "REVIEWING"}

\* Where a revision reads the worktree and compares it with nothing: after the last
\* command of the verifier, for the reviewer, and for the snapshot.
Blind == {"measure", "review", "snapshot"}

RevisionReceipt ==
  [state : Resumable \cup {"NONE", "RESULT_READY", "RETRYABLE", "BLOCKED"},
   resume : Resumable \cup {"none"},
   head : Commit, turns : 0..MaxTurns,
   verified : Trees \cup {"none"}, reviewed : Trees \cup {"none"},
   approved : Trees \cup {"none"}, commit : Commit]

VARIABLES
  revision, \* receipt of each revision
  lost,     \* revisions with a model turn whose outcome nobody recorded
  slipped   \* revisions whose worktree somebody edited, and where the revision was

RevisionInit ==
  /\ revision = [r \in Revisions |->
       [state |-> "NONE", resume |-> "none", head |-> None, turns |-> 0, verified |-> "none",
        reviewed |-> "none", approved |-> "none", commit |-> None]]
  /\ lost = {} /\ slipped = {}

rest == <<reviewing, bundle, world, lost, slipped>>

Mine(p) == revision[job[p].round]
Keep(p, changed) == revision' = [revision EXCEPT ![job[p].round] = changed]
Reach(p, state) == Keep(p, [Mine(p) EXCEPT !.state = state])

\* The exception handler: interruptions, trouble and failed pushes may be
\* retried from where the receipt stands, everything else blocks.
Retry(p) == Keep(p, [Mine(p) EXCEPT !.state = "RETRYABLE", !.resume = Mine(p).state])
Block(p) == Keep(p, [Mine(p) EXCEPT !.state = "BLOCKED", !.resume = "none"])
Leave(p) == Release(p) /\ GoTo(p, "idle")
Stop(p) == Block(p) /\ Leave(p)
Proceed(p, pc) == GoTo(p, pc) /\ UNCHANGED locks

-----------------------------------------------------------------------------
Revise(p, r) ==
  /\ Idle(p) /\ review[r].state = "REVISION_REQUESTED"
  /\ job' = [job EXCEPT ![p].pc = "revise", ![p].round = r]
  /\ UNCHANGED <<rest, revision, locks>>

TakeRevisionLock(p) ==
  /\ job[p].pc = "revise" /\ Take(p, <<"revision", job[p].round>>) /\ GoTo(p, "source")
  /\ UNCHANGED <<rest, revision>>

RevisionLocked(p) ==
  /\ job[p].pc = "revise" /\ locks[<<"revision", job[p].round>>] # "free" /\ GoTo(p, "idle")
  /\ UNCHANGED <<rest, revision, locks>>

\* Only a sealed round authorises a revision: its receipt, its artifacts and its
\* bundle agree.
SourceSealed(r) ==
  /\ review[r].state = "REVISION_REQUESTED" /\ Complete(r)
  /\ bundle[r].head # None /\ bundle[r].head = review[r].head

\* Mutant: every checkpoint is replayed.
ReplaysAll(rc) == rc = rc

\* A checkpoint that spans a model turn is never replayed.
Replayable(rc) ==
  /\ rc.state \notin Ambiguous
  /\ rc.state = "RETRYABLE" => rc.resume \notin Ambiguous

\* Mutant: what was pushed is published again.
ResumesAtPublish(state) ==
  CASE state \in {"READY_TO_REVISE", "IMPLEMENTING"} -> "implement"
    [] state \in {"POLICY_CHECKING", "VERIFYING", "REVIEWING"} -> "policy"
    [] OTHER -> "publish"

\* Where a resumed receipt is taken up.
ResumesAt(state) ==
  CASE state \in {"READY_TO_REVISE", "IMPLEMENTING"} -> "implement"
    [] state \in {"POLICY_CHECKING", "VERIFYING", "REVIEWING"} -> "policy"
    [] state \in {"READY_FOR_PUBLISH", "COMMITTED"} -> "publish"
    [] state = "PUSHED" -> "attest_pushed"

\* Refused, finished or blocked before: the receipt stays as it is.
RefuseRevision(p) ==
  LET r == job[p].round
  IN  /\ job[p].pc = "source"
      /\ \/ ~SourceSealed(r)
         \/ Mine(p).state \in {"RESULT_READY", "BLOCKED"}
         \/ ~Replayable(Mine(p))
         \/ Mine(p).state # "NONE" /\ Mine(p).head # bundle[r].head
      /\ Leave(p)
      /\ UNCHANGED <<rest, revision>>

\* A new revision starts from the reviewed head: HEAD, remote and pull request
\* stand there and the worktree is clean.  If not, nothing is recorded.
AtBoundary(head) ==
  /\ world.head = head /\ world.worktree = Tip(head) /\ PullAt(head)

BeginRevision(p) ==
  LET r == job[p].round
  IN  /\ job[p].pc = "source" /\ SourceSealed(r) /\ Mine(p).state = "NONE"
      /\ IF AtBoundary(bundle[r].head)
         THEN /\ Keep(p, [Mine(p) EXCEPT !.state = "READY_TO_REVISE", !.head = bundle[r].head])
              /\ Proceed(p, "implement")
         ELSE Leave(p) /\ UNCHANGED revision
      /\ UNCHANGED rest

ResumeRevision(p) ==
  LET rc == Mine(p)
      state == IF rc.state = "RETRYABLE" THEN rc.resume ELSE rc.state
  IN  /\ job[p].pc = "source" /\ SourceSealed(job[p].round)
      /\ rc.state \notin {"NONE", "RESULT_READY", "BLOCKED"} /\ Replayable(rc)
      /\ rc.head = bundle[job[p].round].head
      /\ Keep(p, [rc EXCEPT !.state = state, !.resume = "none"])
      /\ Proceed(p, ResumesAt(state))
      /\ UNCHANGED rest

\* A turn is paid for on disk before the model is called.
Reserve(p, state, pc) ==
  IF Mine(p).turns < MaxTurns
  THEN /\ Keep(p, [Mine(p) EXCEPT !.state = state, !.turns = @ + 1,
                                  !.verified = IF pc = "turn" THEN "none" ELSE job[p].set])
       /\ Proceed(p, pc)
  ELSE Stop(p)

Implement(p) ==
  /\ job[p].pc = "implement" /\ Reserve(p, "IMPLEMENTING", "turn")
  /\ UNCHANGED rest

\* The model edits the worktree, or gives up.
Turn(p) ==
  /\ job[p].pc = "turn"
  /\ \/ \E t \in Trees : world' = [world EXCEPT !.worktree = t]
        /\ Proceed(p, "policy") /\ UNCHANGED revision
     \/ Stop(p) /\ UNCHANGED world
  /\ UNCHANGED <<reviewing, bundle, lost, slipped>>

CheckPolicy(p) ==
  /\ job[p].pc = "policy"
  /\ IF world.head = Mine(p).head
     THEN Reach(p, "POLICY_CHECKING") /\ Proceed(p, "changes")
     ELSE Stop(p)
  /\ UNCHANGED rest

\* The change set since the reviewed head: on an unmoved HEAD, and not empty.
ChangeSet(p) == world.head = Mine(p).head /\ world.worktree # Tip(Mine(p).head)

ComputeChanges(p) ==
  /\ job[p].pc = "changes"
  /\ IF ChangeSet(p)
     THEN /\ Reach(p, "VERIFYING") /\ UNCHANGED locks
          /\ job' = [job EXCEPT ![p].pc = "verify", ![p].set = world.worktree]
     ELSE Stop(p)
  /\ UNCHANGED rest

\* The verifier's commands read the worktree; a failure is corrected by another turn.
Verify(p) ==
  /\ job[p].pc = "verify"
  /\ IF world.worktree \notin Passing THEN Reserve(p, "VERIFYING", "turn")
     ELSE Proceed(p, "measure") /\ UNCHANGED revision
  /\ UNCHANGED rest

\* What is taken for verified is what the worktree holds after the commands.
Measure(p) ==
  /\ job[p].pc = "measure"
  /\ IF ChangeSet(p)
     THEN /\ job' = [job EXCEPT ![p].pc = "before_review", ![p].set = world.worktree]
          /\ UNCHANGED <<revision, locks>>
     ELSE Stop(p)
  /\ UNCHANGED rest

Unchanged(p) == ChangeSet(p) /\ world.worktree = job[p].set

BeginReview(p) ==
  /\ job[p].pc = "before_review"
  /\ IF Unchanged(p) THEN Reserve(p, "REVIEWING", "review") ELSE Stop(p)
  /\ UNCHANGED rest

\* The reviewer reads the worktree and approves, asks for changes, or gives neither.
ReviewTurn(p) ==
  /\ job[p].pc = "review"
  /\ \/ world.worktree \in Acceptable /\ Proceed(p, "approved") /\ UNCHANGED revision
     \/ Proceed(p, "rejected") /\ UNCHANGED revision
     \/ Stop(p)
  /\ UNCHANGED rest

RecordReview(p) ==
  /\ job[p].pc \in {"approved", "rejected"}
  /\ IF ~Unchanged(p) THEN Stop(p)
     ELSE IF job[p].pc = "rejected" THEN Reserve(p, "REVIEWING", "turn")
     ELSE Keep(p, [Mine(p) EXCEPT !.reviewed = job[p].set]) /\ Proceed(p, "final")
  /\ UNCHANGED rest

\* Mutant: what was verified and reviewed is not compared again.
CompareNothing(p) ==
  /\ job[p].pc = "final" /\ Proceed(p, "snapshot")
  /\ UNCHANGED <<rest, revision>>

CompareFinal(p) ==
  /\ job[p].pc = "final"
  /\ IF ChangeSet(p) /\ world.worktree = Mine(p).verified /\ world.worktree = Mine(p).reviewed
     THEN Proceed(p, "snapshot") /\ UNCHANGED revision
     ELSE Stop(p)
  /\ UNCHANGED rest

\* The snapshot that will be committed is read from the worktree once more.
Snapshot(p) ==
  /\ job[p].pc = "snapshot"
  /\ Keep(p, [Mine(p) EXCEPT !.state = "READY_FOR_PUBLISH", !.approved = world.worktree])
  /\ Proceed(p, "publish")
  /\ UNCHANGED rest

-----------------------------------------------------------------------------
\* The one commit a revision may make: the approved snapshot on the reviewed head.
ApprovedCommit(rc) == Append(rc.head, rc.approved)
MayCommit(p) ==
  /\ world.remote = Mine(p).head /\ world.worktree = Mine(p).approved
  /\ Mine(p).approved # Tip(Mine(p).head)

MakeCommit(p) ==
  /\ job[p].pc = "publish" /\ world.head = Mine(p).head
  /\ IF MayCommit(p)
     THEN /\ world' = [world EXCEPT !.head = ApprovedCommit(Mine(p))]
          /\ job' = [job EXCEPT ![p].pc = "record_commit", ![p].commit = ApprovedCommit(Mine(p))]
          /\ UNCHANGED <<revision, locks>>
     ELSE Stop(p) /\ UNCHANGED world
  /\ UNCHANGED <<reviewing, bundle, lost, slipped>>

\* Mutant: whatever HEAD is, it is taken for this revision's commit.
AdoptAnyHead(p) ==
  /\ job[p].pc = "publish" /\ world.head # Mine(p).head
  /\ job' = [job EXCEPT ![p].pc = "record_commit", ![p].commit = world.head]
  /\ UNCHANGED <<rest, revision, locks>>

\* Mutant: a HEAD that moved always stops the revision.
NeverAdoptHead(p) ==
  /\ job[p].pc = "publish" /\ world.head # Mine(p).head /\ Stop(p)
  /\ UNCHANGED rest

\* HEAD has moved: it is this revision's commit, left by a crash, or a reason to stop.
AdoptHead(p) ==
  /\ job[p].pc = "publish" /\ world.head # Mine(p).head
  /\ IF world.head = ApprovedCommit(Mine(p)) /\ world.worktree = Mine(p).approved
     THEN /\ job' = [job EXCEPT ![p].pc = "record_commit", ![p].commit = world.head]
          /\ UNCHANGED <<revision, locks>>
     ELSE Stop(p)
  /\ UNCHANGED rest

RecordRevisionCommit(p) ==
  /\ job[p].pc = "record_commit"
  /\ Keep(p, [Mine(p) EXCEPT !.state = "COMMITTED", !.commit = job[p].commit])
  /\ Proceed(p, "remote")
  /\ UNCHANGED rest

\* A remote that has the commit needs no push; one that is neither there nor at
\* the reviewed head belongs to somebody else.
LookAtRemote(p) ==
  /\ job[p].pc = "remote"
  /\ IF world.remote = job[p].commit THEN Reach(p, "PUSHED") /\ Proceed(p, "attest_pushed")
     ELSE IF world.remote = Mine(p).head /\ PullAt(Mine(p).head)
     THEN Proceed(p, "push") /\ UNCHANGED revision
     ELSE Stop(p)
  /\ UNCHANGED rest

\* A push without force: the remote takes a descendant of what it has.
PushRevision(p) ==
  /\ job[p].pc = "push"
  /\ IF AncestorOf(world.remote, job[p].commit)
     THEN /\ world' = [world EXCEPT !.remote = job[p].commit]
          /\ Proceed(p, "confirm") /\ UNCHANGED revision
     ELSE Retry(p) /\ Leave(p) /\ UNCHANGED world
  /\ UNCHANGED <<reviewing, bundle, lost, slipped>>

ConfirmPush(p) ==
  /\ job[p].pc = "confirm"
  /\ IF world.remote # job[p].commit THEN Retry(p) /\ Leave(p)
     ELSE IF world.worktree = Tip(world.head)
     THEN Reach(p, "PUSHED") /\ Proceed(p, "attest_pushed")
     ELSE Stop(p)
  /\ UNCHANGED rest

AttestPushed(p) ==
  /\ job[p].pc = "attest_pushed"
  /\ IF PullAt(Mine(p).commit) THEN Proceed(p, "package") /\ UNCHANGED revision ELSE Stop(p)
  /\ UNCHANGED rest

\* The bundle of the next round is built from the commit and the worktree, or,
\* when it is ready and of this commit, kept.
NextBundle(p) ==
  [head |-> Mine(p).commit, prev |-> Mine(p).head, answers |-> review[job[p].round].verdict]
Package(p) ==
  LET next == job[p].round + 1
  IN  /\ job[p].pc = "package"
      /\ IF \/ bundle[next] = NextBundle(p)
            \/ bundle[next].head = None /\ world.worktree = Tip(Mine(p).commit)
         THEN /\ bundle' = [bundle EXCEPT ![next] = NextBundle(p)]
              /\ Proceed(p, "finish") /\ UNCHANGED revision
         ELSE Retry(p) /\ Leave(p) /\ UNCHANGED bundle
      /\ UNCHANGED <<reviewing, world, lost, slipped>>

FinishRevision(p) ==
  /\ job[p].pc = "finish" /\ Reach(p, "RESULT_READY") /\ Leave(p)
  /\ UNCHANGED rest

-----------------------------------------------------------------------------
RevisionPc == {"implement", "turn", "policy", "changes", "verify", "measure", "before_review",
  "review", "approved", "rejected", "final", "snapshot", "publish", "record_commit", "remote",
  "push", "confirm", "attest_pushed", "package", "finish"}

\* Where a process can be, and what it carries.
Places == {"idle", "submit", "inspect", "open", "revise", "source"} \cup ReviewPc \cup RevisionPc
Work == [pc : Places, round : Rounds, verdict : Kinds \cup {"none"}, set : Trees, commit : Commit]

InTurn(p) == job[p].pc \in {"turn", "review"}
LoseTurn(p) == lost' = IF InTurn(p) THEN lost \cup {job[p].round} ELSE lost

\* Trouble or an interruption.
RevisionTrouble(p) ==
  /\ job[p].pc \in RevisionPc /\ Leave(p) /\ LoseTurn(p) /\ Retry(p)
  /\ UNCHANGED <<reviewing, bundle, world, slipped>>

\* A push whose answer is lost has been carried out.
AnswerLost(p) ==
  /\ job[p].pc = "push" /\ AncestorOf(world.remote, job[p].commit)
  /\ world' = [world EXCEPT !.remote = job[p].commit]
  /\ Retry(p) /\ Leave(p)
  /\ UNCHANGED <<reviewing, bundle, lost, slipped>>

RevisionStep(p) ==
  \/ TakeRevisionLock(p) \/ RefuseRevision(p) \/ BeginRevision(p) \/ ResumeRevision(p)
  \/ Implement(p) \/ Turn(p) \/ CheckPolicy(p) \/ ComputeChanges(p) \/ Verify(p) \/ Measure(p)
  \/ BeginReview(p) \/ ReviewTurn(p) \/ RecordReview(p) \/ CompareFinal(p) \/ Snapshot(p)
  \/ MakeCommit(p) \/ AdoptHead(p) \/ RecordRevisionCommit(p) \/ LookAtRemote(p)
  \/ PushRevision(p) \/ ConfirmPush(p) \/ AttestPushed(p) \/ Package(p) \/ FinishRevision(p)
=============================================================================
