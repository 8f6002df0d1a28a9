------------------------------ MODULE WebReview ------------------------------
(***************************************************************************)
(* Web review: one round per Result Bundle.  A verdict file is read,       *)
(* validated against the bundle of its round and the history of rounds,    *)
(* checked against the pull request, and sealed with its decision.  Any    *)
(* number of processes submit verdicts; a round has one exclusive lock,    *)
(* which outlives its owner and is never stolen.                           *)
(***************************************************************************)
EXTENDS Integers, Sequences

CONSTANTS
  Procs,    \* wco processes
  MaxRound, \* review rounds of a run: 4 in the code
  Trees,    \* contents of the repository
  Start     \* the content published when the reviews begin

ASSUME ReviewAssumption ==
  /\ MaxRound \in Nat \ {0} /\ Start \in Trees /\ "none" \notin Trees
  /\ Procs \cap {"free", "orphan"} = {}

Rounds == 1..MaxRound

\* A commit is the sequence of the contents of its ancestors and itself.
Commit == Seq(Trees)
None == <<>>
Tip(c) == c[Len(c)]
AncestorOf(c, d) == Len(c) <= Len(d) /\ c = SubSeq(d, 1, Len(c))

\* What a verdict says; an UNSOUND one fails its schema, its bindings or the policy.
Kinds == {"APPROVE", "REVISE", "ESCALATE", "UNSOUND"}
Decided == [APPROVE |-> "APPROVED", REVISE |-> "REVISION_REQUESTED", ESCALATE |-> "ESCALATED"]
Terminal == {Decided[k] : k \in DOMAIN Decided}

ReviewReceipt ==
  [state : {"NONE", "VALIDATING", "VALIDATED", "BLOCKED", "FAILED"} \cup Terminal,
   verdict : Kinds \cup {"none"},
   head : Commit]

\* The files a round leaves beside its receipt, and the verdict each was made from.
Artifacts == {"verdict", "request", "event"}

\* A Result Bundle that is ready names its head and, from round 2 on, the head
\* and the verdict it answers.
Bundle == [head : Commit, prev : Commit, answers : Kinds \cup {"none"}]

VARIABLES
  review,  \* receipt of each round
  sealed,  \* artifacts of each round
  bundle,  \* Result Bundle of each round
  locks,   \* the lock files of rounds: owner, "free" or "orphan"
  job,     \* what each process is doing
  world    \* worktree, local HEAD, remote branch and pull request

reviewing == <<review, sealed>>

\* What a process carries from step to step: the round it works on, the verdict
\* it read, the change set it computed, the commit it made.
AtRest == [pc |-> "idle", round |-> 1, verdict |-> "none", set |-> Start, commit |-> None]
Idle(p) == job[p].pc = "idle"
GoTo(p, pc) == job' = [job EXCEPT ![p] = IF pc = "idle" THEN AtRest ELSE [@ EXCEPT !.pc = pc]]

\* Locks: <<"review", r>> and <<"revision", r>>.
LockNames == {"review", "revision"} \X Rounds
Release(p) == locks' = [k \in LockNames |-> IF locks[k] = p THEN "free" ELSE locks[k]]
Orphan(p) == locks' = [k \in LockNames |-> IF locks[k] = p THEN "orphan" ELSE locks[k]]
\* Mutant: a lock found is taken over.
TakeAnyway(p, name) == locks' = [locks EXCEPT ![name] = p]

Take(p, name) ==
  /\ locks[name] = "free"
  /\ locks' = [locks EXCEPT ![name] = p]

\* The pull request is open, unmerged, a draft, on the locked base, and at head.
PullAt(head) == world.pull /\ world.remote = head

ReviewInit ==
  /\ review = [r \in Rounds |-> [state |-> "NONE", verdict |-> "none", head |-> None]]
  /\ sealed = [r \in Rounds |-> [a \in Artifacts |-> "none"]]
  /\ bundle = [r \in Rounds |-> [head |-> IF r = 1 THEN <<Start>> ELSE None, prev |-> None, answers |-> "none"]]
  /\ world = [worktree |-> Start, head |-> <<Start>>, remote |-> <<Start>>, pull |-> TRUE]
  /\ locks = [k \in LockNames |-> "free"]
  /\ job = [p \in Procs |-> AtRest]

Wrote(r, changed) == review' = [review EXCEPT ![r] = changed]

-----------------------------------------------------------------------------
\* The verdict file is read for its round and the bundle of exactly that round
\* is loaded, both before the lock.
Submit(p, r, k) ==
  /\ Idle(p) /\ bundle[r].head # None
  /\ job' = [job EXCEPT ![p].pc = "submit", ![p].round = r, ![p].verdict = k]
  /\ UNCHANGED <<reviewing, bundle, locks, world>>

\* The lock is waited for five seconds and never stolen.
TakeReviewLock(p) ==
  /\ job[p].pc = "submit" /\ Take(p, <<"review", job[p].round>>) /\ GoTo(p, "inspect")
  /\ UNCHANGED <<reviewing, bundle, world>>

ReviewLocked(p) ==
  /\ job[p].pc = "submit" /\ locks[<<"review", job[p].round>>] # "free" /\ GoTo(p, "idle")
  /\ UNCHANGED <<reviewing, bundle, locks, world>>

\* The round is bound to the first verdict handed in, even when that is refused.
SameVerdict(p) == review[job[p].round].verdict = job[p].verdict

\* A terminal round must still have the artifacts of its verdict, and only those.
Complete(r) ==
  LET k == review[r].verdict
  IN  /\ sealed[r]["verdict"] = k /\ sealed[r]["event"] = k
      /\ sealed[r]["request"] = IF k = "REVISE" THEN k ELSE "none"

\* A sealed round is not decided again: another verdict is refused, and the same
\* one is validated and attested afresh without a word in the receipt.
SealedAlready(p) ==
  LET r == job[p].round
  IN  /\ job[p].pc = "inspect"
      /\ \/ review[r].verdict # "none" /\ ~SameVerdict(p)
         \/ review[r].state \in Terminal
      /\ Release(p) /\ GoTo(p, "idle")
      /\ UNCHANGED <<reviewing, bundle, world>>

Inspect(p) ==
  LET r == job[p].round
  IN  /\ job[p].pc = "inspect"
      /\ \/ review[r].state = "NONE"
         \/ SameVerdict(p) /\ review[r].state \notin Terminal
      /\ GoTo(p, "open")
      /\ UNCHANGED <<reviewing, bundle, locks, world>>

OpenReview(p) ==
  LET r == job[p].round
  IN  /\ job[p].pc = "open"
      /\ Wrote(r, [review[r] EXCEPT !.state = "VALIDATING", !.verdict = job[p].verdict])
      /\ GoTo(p, "validate")
      /\ UNCHANGED <<sealed, bundle, locks, world>>

\* Round r continues a round that asked for a revision, and its bundle answers
\* exactly that request.
HistoryValid(r) ==
  r > 1 =>
    /\ review[r - 1].state = "REVISION_REQUESTED" /\ Complete(r - 1)
    /\ bundle[r].prev = review[r - 1].head /\ bundle[r].answers = review[r - 1].verdict

\* The verdict fits its schema and is about exactly this round, head and bundle.
Sound(k) == k # "UNSOUND"

\* The last round may not ask for another revision; what a later round may find
\* anew is part of Sound here.
PolicyAllows(r, k) == Sound(k) /\ (k = "REVISE" => r < MaxRound)

\* An error: a refusal of the verdict blocks, trouble of the machine or the
\* network fails; both leave the round open to the same verdict.
Refuse(p, state) ==
  /\ Wrote(job[p].round, [review[job[p].round] EXCEPT !.state = state])
  /\ Release(p) /\ GoTo(p, "idle")

Validate(p) ==
  /\ job[p].pc = "validate"
  /\ IF HistoryValid(job[p].round) /\ PolicyAllows(job[p].round, job[p].verdict)
     THEN GoTo(p, "attest") /\ UNCHANGED <<review, locks>>
     ELSE Refuse(p, "BLOCKED")
  /\ UNCHANGED <<sealed, bundle, world>>

AttestReview(p) ==
  LET r == job[p].round
  IN  /\ job[p].pc = "attest"
      /\ IF PullAt(bundle[r].head)
         THEN /\ Wrote(r, [review[r] EXCEPT !.state = "VALIDATED", !.head = bundle[r].head])
              /\ GoTo(p, "seal_verdict") /\ UNCHANGED locks
         ELSE Refuse(p, "BLOCKED")
      /\ UNCHANGED <<sealed, bundle, world>>

\* An artifact is created, or found with the same content; otherwise the round blocks.
Artifact(p, a, next) ==
  LET r == job[p].round
  IN  IF sealed[r][a] \in {"none", job[p].verdict}
      THEN /\ sealed' = [sealed EXCEPT ![r][a] = job[p].verdict]
           /\ GoTo(p, next) /\ UNCHANGED <<review, locks>>
      ELSE Refuse(p, "BLOCKED") /\ UNCHANGED sealed

SealVerdict(p) ==
  /\ job[p].pc = "seal_verdict"
  /\ Artifact(p, "verdict", IF job[p].verdict = "REVISE" THEN "seal_request" ELSE "seal_event")
  /\ UNCHANGED <<bundle, world>>

SealRequest(p) ==
  /\ job[p].pc = "seal_request" /\ Artifact(p, "request", "seal_event")
  /\ UNCHANGED <<bundle, world>>

SealEvent(p) ==
  /\ job[p].pc = "seal_event" /\ Artifact(p, "event", "dispatch")
  /\ UNCHANGED <<bundle, world>>

Dispatch(p) ==
  LET r == job[p].round
  IN  /\ job[p].pc = "dispatch"
      /\ Wrote(r, [review[r] EXCEPT !.state = Decided[job[p].verdict]])
      /\ Release(p) /\ GoTo(p, "idle")
      /\ UNCHANGED <<sealed, bundle, world>>

\* GitHub does not answer, or the disk fails.
ReviewPc == {"validate", "attest", "seal_verdict", "seal_request", "seal_event", "dispatch"}
ReviewTrouble(p) ==
  /\ job[p].pc \in ReviewPc /\ Refuse(p, "FAILED")
  /\ UNCHANGED <<sealed, bundle, world>>

ReviewStep(p) ==
  \/ TakeReviewLock(p) \/ SealedAlready(p) \/ Inspect(p) \/ OpenReview(p) \/ Validate(p)
  \/ AttestReview(p) \/ SealVerdict(p) \/ SealRequest(p) \/ SealEvent(p) \/ Dispatch(p)
=============================================================================
