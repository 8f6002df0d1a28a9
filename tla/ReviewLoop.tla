----------------------------- MODULE ReviewLoop -----------------------------
(***************************************************************************)
(* Web review and revision of one run: any number of processes submit      *)
(* verdicts and revise, and may fail or die at every step, while others    *)
(* edit the worktree, commit, push, and close the pull request.            *)
(***************************************************************************)
EXTENDS Revision, FiniteSets

CONSTANTS
  MaxFaults,       \* crashes, errors, lost and late answers
  MaxInterference, \* steps of others
  MaxCommits       \* length of a commit's history

ASSUME LoopAssumption ==
  /\ MaxFaults \in Nat /\ MaxInterference \in Nat
  /\ MaxCommits \in Nat /\ MaxCommits >= MaxRound

VARIABLES faults, interference

vars == <<review, sealed, bundle, locks, job, world, revision, lost, slipped, faults, interference>>

Init == ReviewInit /\ RevisionInit /\ faults = 0 /\ interference = 0

counts == <<faults, interference>>
revising == <<revision, lost, slipped>>

Reviewing(p) == ReviewStep(p) /\ UNCHANGED <<revising, counts>>
Revising(p) == RevisionStep(p) /\ UNCHANGED counts

\* A lock that stays taken is given up.
GiveUp(p) == (ReviewLocked(p) \/ RevisionLocked(p)) /\ UNCHANGED <<revising, counts>>

SubmitVerdict(p) == (\E r \in Rounds, k \in Kinds : Submit(p, r, k)) /\ UNCHANGED <<revising, counts>>
AskRevision(p) == (\E r \in Revisions : Revise(p, r)) /\ UNCHANGED counts

Fault == faults < MaxFaults /\ faults' = faults + 1 /\ UNCHANGED interference

Trouble(p) ==
  /\ \/ ReviewTrouble(p) /\ UNCHANGED revising
     \/ RevisionTrouble(p)
     \/ AnswerLost(p)
  /\ Fault

\* The process dies; its locks stay.  A push in progress may still land.
Crash(p) ==
  /\ ~Idle(p) /\ Orphan(p) /\ GoTo(p, "idle") /\ LoseTurn(p)
  /\ \/ UNCHANGED world
     \/ /\ job[p].pc = "push" /\ AncestorOf(world.remote, job[p].commit)
        /\ world' = [world EXCEPT !.remote = job[p].commit]
  /\ UNCHANGED <<reviewing, bundle, revision, slipped>>
  /\ Fault

\* An operator removes the lock of a dead process.
RemoveLock ==
  /\ \E k \in LockNames : locks[k] = "orphan" /\ locks' = [locks EXCEPT ![k] = "free"]
  /\ UNCHANGED <<reviewing, bundle, job, world, revising, counts>>

\* The pull request is closed or reopened; GitHub's answers lag behind a push.
Interfere ==
  /\ interference < MaxInterference /\ interference' = interference + 1 /\ UNCHANGED faults
  /\ \/ \E t \in Trees :
          /\ world' = [world EXCEPT !.worktree = t]
          /\ slipped' = slipped \cup
               {<<job[p].round, job[p].pc>> : p \in {q \in Procs : job[q].pc \in Blind}}
     \/ /\ Len(world.head) < MaxCommits
        /\ world' = [world EXCEPT !.head = Append(@, world.worktree)] /\ UNCHANGED slipped
     \/ \E t \in Trees :
          /\ Len(world.remote) < MaxCommits
          /\ world' = [world EXCEPT !.remote = Append(@, t)] /\ UNCHANGED slipped
     \/ world' = [world EXCEPT !.remote = None] /\ UNCHANGED slipped
     \/ world' = [world EXCEPT !.pull = ~@] /\ UNCHANGED slipped
  /\ UNCHANGED <<reviewing, bundle, locks, job, revision, lost>>

Next ==
  \/ \E p \in Procs :
       \/ Reviewing(p) \/ Revising(p) \/ GiveUp(p)
       \/ SubmitVerdict(p) \/ AskRevision(p)
       \/ Trouble(p) \/ Crash(p)
  \/ RemoveLock \/ Interfere

Spec == Init /\ [][Next]_vars

-----------------------------------------------------------------------------
\* Every variable has its type.
TypeOK ==
  /\ review \in [Rounds -> ReviewReceipt]
  /\ sealed \in [Rounds -> [Artifacts -> Kinds \cup {"none"}]]
  /\ bundle \in [Rounds -> Bundle]
  /\ locks \in [LockNames -> Procs \cup {"free", "orphan"}]
  /\ job \in [Procs -> Work]
  /\ world \in [worktree : Trees, head : Commit, remote : Commit, pull : BOOLEAN]
  /\ revision \in [Revisions -> RevisionReceipt]
  /\ lost \subseteq Revisions /\ slipped \subseteq Rounds \X Blind
  /\ faults \in 0..MaxFaults /\ interference \in 0..MaxInterference

\* A round keeps the first verdict it was given, through errors, crashes and
\* other verdicts handed in beside it, and a decided round never changes.
VerdictStands ==
  [][\A r \in Rounds :
       /\ review[r].verdict # "none" => review'[r].verdict = review[r].verdict
       /\ review[r].state \in Terminal => review'[r] = review[r]]_vars

\* What a round left on disk was made from its verdict; a decided round has all of
\* it, was decided as its verdict says and may be, and the head it attested is its
\* bundle's.
RoundFits(r) ==
  /\ review[r].state = "NONE" => review[r].verdict = "none"
  /\ sealed[r]["request"] \in {"none", "REVISE"}
  /\ \A a \in Artifacts : sealed[r][a] \in {"none", review[r].verdict}
  /\ review[r].state \in Terminal =>
       /\ Complete(r) /\ PolicyAllows(r, review[r].verdict)
       /\ review[r].state = Decided[review[r].verdict]
       /\ review[r].head = bundle[r].head /\ bundle[r].head # None
DecisionsFit == \A r \in Rounds : RoundFits(r)

\* Nothing is decided about a head before its revision answered the decision on
\* the head below it: the chain of heads and decisions only grows.
Promise == INSTANCE ReviewPromise WITH
  Decisions <- {"APPROVED", "REVISION_REQUESTED", "ESCALATED"},
  Undecided <- "none", Again <- "REVISION_REQUESTED",
  chain <- [r \in 1..Cardinality({s \in Rounds : bundle[s].head # None}) |->
    [head |-> bundle[r].head,
     decision |-> IF review[r].state \in Terminal THEN review[r].state ELSE "none"]]
KeepsChain == Promise!Spec

\* What a revision publishes is what the verifier passed and what the reviewer
\* approved, but for an edit made behind the verifier's back, under the reviewer's
\* eyes, or after the last comparison.
PublishedWasReviewed ==
  \A r \in Revisions : revision[r].commit # None =>
    \/ <<r, "snapshot">> \in slipped
    \/ /\ Tip(revision[r].commit) \in Passing \/ <<r, "measure">> \in slipped
       /\ Tip(revision[r].commit) \in Acceptable \/ <<r, "review">> \in slipped

\* A model turn whose outcome was lost is the revision's last: nobody is calling a
\* model for it, now or later.
NoTurnAfterLost == \A p \in Procs : InTurn(p) => job[p].round \notin lost

\* One revision at a time has a claim to the worktree: when a round has started,
\* the rounds before it are published, and whoever still works on them only reports.
OneAtWork ==
  \A r \in Revisions : revision[r].state # "NONE" =>
    \A s \in 1..(r - 1) :
      /\ bundle[s + 1].head = revision[s].commit
      /\ \A p \in Procs : job[p].round = s =>
           job[p].pc \notin RevisionPc \ {"attest_pushed", "package", "finish"}

\* Whoever works on a round holds its lock.
ReviewHeld == {"inspect", "open"} \cup ReviewPc
RevisionHeld == {"source"} \cup RevisionPc
Holds(p) ==
  /\ job[p].pc \in ReviewHeld => locks[<<"review", job[p].round>>] = p
  /\ job[p].pc \in RevisionHeld => locks[<<"revision", job[p].round>>] = p
  /\ job[p].pc \in RevisionHeld \cup {"revise"} => job[p].round \in Revisions
Holding == \A p \in Procs : Holds(p)

\* A process that reviews works on the verdict the undecided round is bound to, and
\* finds sealed what it sealed.
VerdictFits(j) ==
  LET r == j.round
      k == j.verdict
  IN  /\ j.pc \in {"submit"} \cup ReviewHeld => bundle[r].head # None /\ k \in Kinds
      /\ j.pc \in {"open"} \cup ReviewPc => review[r].state \notin Terminal
      /\ j.pc = "open" => review[r].verdict \in {"none", k}
      /\ j.pc \in ReviewPc => review[r].verdict = k /\ review[r].state # "NONE"
      /\ j.pc \in ReviewPc \ {"validate"} => PolicyAllows(r, k)
      /\ j.pc \in ReviewPc \ {"validate", "attest"} => review[r].head = bundle[r].head
      /\ j.pc \in {"seal_request", "seal_event", "dispatch"} => sealed[r]["verdict"] = k
      /\ j.pc = "seal_request" => k = "REVISE"
      /\ j.pc \in {"seal_event", "dispatch"} /\ k = "REVISE" => sealed[r]["request"] = k
      /\ j.pc = "dispatch" => sealed[r]["event"] = k
ReviewsFit == \A p \in Procs : VerdictFits(job[p])

\* What a receipt stands for, also while it waits for a retry.
Before == {"NONE", "READY_TO_REVISE", "POLICY_CHECKING"} \cup Ambiguous
After == {"PUSHED", "RESULT_READY", "BLOCKED"}
Stands(rc) == IF rc.state = "RETRYABLE" THEN rc.resume ELSE rc.state

\* The bundles are those of the first rounds: each but the first is the commit of
\* the revision before it, made on the head that was reviewed and never made anew.
ChainFits ==
  /\ bundle[1].head # None
  /\ \A r \in Revisions : bundle[r + 1].head # None =>
       /\ review[r].state = "REVISION_REQUESTED"
       /\ \A s \in 1..r : bundle[s].head # None
       /\ bundle[r + 1].head = revision[r].commit /\ revision[r].head = bundle[r].head
       /\ Stands(revision[r]) \in After

\* A receipt names its head once it is begun, its snapshot once that is approved,
\* its commit once that is made.
ReceiptFits(rc) ==
  /\ rc.state = "RETRYABLE" => rc.resume # "none"
  /\ Stands(rc) \in Before => rc.approved = "none" /\ rc.commit = None
  /\ Stands(rc) \notin Before \cup {"BLOCKED"} => rc.approved # "none"
  /\ Stands(rc) \notin Before \cup {"BLOCKED", "READY_FOR_PUBLISH"} => rc.commit # None
  /\ rc.commit # None => rc.approved # "none" /\ rc.commit = ApprovedCommit(rc)

RevisionsFit ==
  \A r \in Revisions :
    /\ ReceiptFits(revision[r])
    /\ revision[r].state # "NONE" =>
         /\ review[r].state = "REVISION_REQUESTED"
         /\ revision[r].head = bundle[r].head /\ bundle[r].head # None

\* Where a process is in a revision, and the states of the receipt that go with it.
Making == {"implement", "turn", "policy", "changes", "verify", "measure", "before_review", "review",
  "approved", "rejected", "final", "snapshot"}
StepFits(j, rc) ==
  /\ j.pc \in Making => rc.state \in Before \ {"NONE"}
  /\ j.pc \in {"turn", "review"} => rc.state \in Ambiguous
  /\ j.pc \in {"publish", "record_commit"} => rc.state \in {"READY_FOR_PUBLISH", "COMMITTED"}
  /\ j.pc \in {"record_commit", "remote", "push", "confirm"} => j.commit = ApprovedCommit(rc)
  /\ j.pc \in {"remote", "push", "confirm"} => rc.state = "COMMITTED" /\ rc.commit = j.commit
  /\ j.pc \in {"attest_pushed", "package", "finish"} => rc.state = "PUSHED"
StepsFit ==
  \A p \in Procs : job[p].pc \in RevisionPc => StepFits(job[p], revision[job[p].round])

\* A revision that lost a turn stays where the turn was.
LostFits ==
  \A r \in lost :
    /\ r \in Revisions /\ Stands(revision[r]) \in Ambiguous
    /\ \A p \in Procs : job[p].pc \in RevisionPc => job[p].round # r

\* What was verified, approved and snapshotted, but for what slipped in.
Verified(r, t) == t \in Passing \/ <<r, "measure">> \in slipped
Reviewed(r, t) == t \in Acceptable \/ <<r, "review">> \in slipped
TreesFit(r, rc) ==
  /\ rc.verified # "none" => Verified(r, rc.verified)
  /\ rc.reviewed # "none" => Reviewed(r, rc.reviewed)
  /\ rc.approved # "none" =>
       <<r, "snapshot">> \in slipped \/ (Verified(r, rc.approved) /\ Reviewed(r, rc.approved))
SetFits(j, rc, tree) ==
  /\ j.pc = "measure" => Verified(j.round, tree)
  /\ j.pc = "before_review" => Verified(j.round, j.set)
  /\ j.pc = "review" => j.set = tree \/ <<j.round, "review">> \in slipped
  /\ j.pc = "approved" => Reviewed(j.round, j.set)
  /\ j.pc = "snapshot" => <<j.round, "snapshot">> \in slipped \/ (tree = rc.verified /\ tree = rc.reviewed)
ContentFits ==
  /\ \A r \in Revisions : TreesFit(r, revision[r])
  /\ \A p \in Procs : job[p].pc \in Making => SetFits(job[p], revision[job[p].round], world.worktree)

\* What every state of a review loop keeps.
LoopInv ==
  /\ TypeOK /\ Holding
  /\ DecisionsFit /\ ReviewsFit
  /\ ChainFits /\ OneAtWork
  /\ RevisionsFit /\ StepsFit /\ LostFits
  /\ ContentFits

-----------------------------------------------------------------------------
\* A live process goes on, and between other commands the runner asks again for
\* the revision.
Fairness ==
  \A p \in Procs :
    WF_vars(Reviewing(p)) /\ WF_vars(Revising(p)) /\ WF_vars(GiveUp(p)) /\ SF_vars(AskRevision(p))
FairSpec == Spec /\ Fairness

\* Once the change set is approved no crash, failed push or lost answer loses it:
\* the revision ends as the next bundle, unless somebody interfered or a dead
\* process has left the lock.
ApprovedIsDelivered ==
  <>[](\A r \in Revisions : revision[r].approved # "none" =>
         \/ revision[r].state = "RESULT_READY"
         \/ interference > 0 \/ locks[<<"revision", r>>] = "orphan")

=============================================================================
