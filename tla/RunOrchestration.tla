-------------------------- MODULE RunOrchestration --------------------------
(***************************************************************************)
(* One run, driven by `wco continue` (orchestration/transition-runner.ts): *)
(* recover the attempt a crashed process left behind, derive the next      *)
(* transition from durable evidence, checkpoint it in the ledger, cause the*)
(* side effect, settle the attempt.  The runner holds the                  *)
(* TRANSITION_EXECUTION lock and may crash between any two steps.          *)
(*                                                                         *)
(* Beside it an operator pauses and resumes the run and uses the direct    *)
(* commands `wco submit-web-verdict` and `wco revise`, which know nothing  *)
(* of the ledger: only the lock of the review round excludes them.         *)
(*                                                                         *)
(* Revisions are the legacy ones (no frozen review strategy): they publish *)
(* without touching the initial publication receipts.                      *)
(***************************************************************************)
EXTENDS RunLedger

CONSTANTS
  Packs,     \* Web implementation packs an operator may hand in
  MaxRound,  \* the last review round (4); a revision may follow all but it
  NoPack     \* no selected artifact, no Result Bundle

Rounds == 1..MaxRound

\* INVALID stands for a verdict its own bundle's schema or policy refuses.
Decision == {"APPROVE", "REVISE", "ESCALATE", "INVALID"}
Verdict == [round : Rounds, decision : Decision]

TerminalReview == {"APPROVED", "REVISION_REQUESTED", "ESCALATED"}
ExecutorEnd == {"READY_FOR_PUBLISH", "ESCALATE_TO_WEB", "FAILED"}

\* The sealed payload of a transition: a pack, a verdict or a revision round.
PackRequest(p) == [pack |-> p, round |-> 0, decision |-> "NONE"]
VerdictRequest(v) == [pack |-> NoPack, round |-> v.round, decision |-> v.decision]
RevisionRequest(r) == [pack |-> NoPack, round |-> r, decision |-> "NONE"]
Payload ==
  {PackRequest(p) : p \in Packs} \cup {VerdictRequest(v) : v \in Verdict}
    \cup {RevisionRequest(r) : r \in Rounds}

NoPlan == [kind |-> "DONE", request |-> PackRequest(NoPack)]

ASSUME PacksAssumption == NoPack \notin Packs
ASSUME RoundAssumption == MaxRound \in Nat \ {0}
ASSUME PayloadAssumption == Requests = Payload
ASSUME RunnerKindsAssumption == Kinds = TransitionKind \ {"WAIT_HUMAN", "DONE"}

VARIABLES
  pc,         \* where the runner is; "crashed" until its stale locks are cleared
  plan,       \* the transition and payload this continue command works on
  selected,   \* the selected artifact binding
  selectedAt, \* attempts started when it was selected (selected_at, as an ordinal)
  executor,   \* executor receipt of each pack
  published,  \* packs whose publication receipt is PUSHED
  drafted,    \* packs whose Draft PR receipt is OPEN
  result,     \* the pack the initial Result Bundle was built from
  review,     \* Web review receipt of each round
  roundLock,  \* who holds the lock of a review round
  revision    \* revision receipt of each round

evidence == <<selected, selectedAt, executor, published, drafted, result>>
reviews == <<review, roundLock, revision>>
ledgerVars == <<ledger, started, embargo, condemned>>
orchestration == <<pc, plan, evidence, reviews>>
runVars == <<vars, orchestration>>

OInit ==
  /\ Init
  /\ pc = "idle" /\ plan = NoPlan
  /\ selected = NoPack /\ selectedAt = 0
  /\ executor = [p \in Packs |-> "NONE"]
  /\ published = {} /\ drafted = {} /\ result = NoPack
  /\ review = [r \in Rounds |-> [state |-> "NONE", decision |-> "NONE"]]
  /\ roundLock = [r \in Rounds |-> "free"]
  /\ revision = [r \in Rounds |-> "NONE"]

-----------------------------------------------------------------------------
(* The lifecycle snapshot and the plan derived from it.                    *)

\* The last round with a receipt, 0 when there is none.
LatestRound(present) ==
  IF present = {} THEN 0 ELSE CHOOSE r \in present : \A s \in present : s <= r
LatestReview == LatestRound({r \in Rounds : review[r].state # "NONE"})
LatestRevision == LatestRound({r \in Rounds : revision[r] # "NONE"})

\* Each receipt counts only while it is bound to the one before it.
PublishCurrent ==
  selected # NoPack /\ executor[selected] = "READY_FOR_PUBLISH" /\ selected \in published
DraftCurrent == PublishCurrent /\ selected \in drafted
ResultCurrent == DraftCurrent /\ result = selected

\* revisionReceiptBoundToWebReview
RevisionBound ==
  /\ LatestReview # 0
  /\ review[LatestReview].state = "REVISION_REQUESTED"
  /\ LatestRevision = LatestReview

\* webReviewBoundToCurrentResult compares with the initial Result Bundle, which
\* is the bundle of round 1 only.
ReviewState ==
  IF (LatestReview = 1 /\ result # NoPack) \/ RevisionBound
  THEN review[LatestReview].state ELSE "NONE"

\* deriveNextTransition
PlanReviewed ==
  CASE ReviewState \in {"APPROVED", "ESCALATED"} -> "WAIT_HUMAN"
    [] ReviewState = "REVISION_REQUESTED" ->
         IF RevisionBound /\ revision[LatestReview] = "RESULT_READY"
         THEN "WAIT_WEB_VERDICT" ELSE "REVISE"
    [] OTHER -> "WAIT_WEB_VERDICT"

\* Mutant: the Result Bundle is packaged before the Draft PR is opened.
PlannedPackagingFirst ==
  IF selected = NoPack THEN "REGISTER_WEB_PACK"
  ELSE IF executor[selected] = "ESCALATE_TO_WEB" THEN "REGISTER_WEB_PACK"
  ELSE IF executor[selected] = "FAILED" THEN "WAIT_HUMAN"
  ELSE IF executor[selected] = "NONE" THEN "EXECUTE_REGISTERED_PACK"
  ELSE IF ~PublishCurrent THEN "PUBLISH"
  ELSE IF result # selected THEN "PACKAGE_RESULT"
  ELSE IF ~DraftCurrent THEN "OPEN_DRAFT_PR"
  ELSE PlanReviewed

Planned ==
  IF selected = NoPack THEN "REGISTER_WEB_PACK"
  ELSE IF executor[selected] = "ESCALATE_TO_WEB" THEN "REGISTER_WEB_PACK"
  ELSE IF executor[selected] = "FAILED" THEN "WAIT_HUMAN"
  ELSE IF executor[selected] = "NONE" THEN "EXECUTE_REGISTERED_PACK"
  ELSE IF ~PublishCurrent THEN "PUBLISH"
  ELSE IF ~DraftCurrent THEN "OPEN_DRAFT_PR"
  ELSE IF ~ResultCurrent THEN "PACKAGE_RESULT"
  ELSE PlanReviewed

\* attestRevisionAuthority: only the latest review authorizes, rounds 1..3.
RevisionAuthorized(r) ==
  /\ r = LatestReview /\ r \in 1..(MaxRound - 1)
  /\ review[r].state = "REVISION_REQUESTED"

\* The payloads the runner may seal for the planned transition.
PayloadsOf(k) ==
  CASE k = "REGISTER_WEB_PACK" -> {PackRequest(p) : p \in Packs}
    [] k \in {"EXECUTE_REGISTERED_PACK", "PUBLISH", "OPEN_DRAFT_PR", "PACKAGE_RESULT"} ->
         {PackRequest(selected)}
    [] k = "WAIT_WEB_VERDICT" -> {VerdictRequest(v) : v \in Verdict}
    [] k = "REVISE" -> {RevisionRequest(r) : r \in {s \in Rounds : RevisionAuthorized(s)}}
    [] OTHER -> {}

-----------------------------------------------------------------------------
(* Crash recovery: adopt the side effect of the attempt that was left.     *)

PackKinds == {"EXECUTE_REGISTERED_PACK", "PUBLISH", "OPEN_DRAFT_PR", "PACKAGE_RESULT"}

\* A selection made before the attempt started is not this attempt's.
SelectedSince == selected # NoPack /\ selectedAt >= ledger.total

LatestSealed == LatestReview # 0 /\ review[LatestReview].state \in TerminalReview
LatestVerdict == [round |-> LatestReview, decision |-> review[LatestReview].decision]

\* Mutant: recovery adopts the latest verdict whatever the attempt was sealed for.
RecoveryConflictTrusting(a) ==
  CASE a.transition = "REGISTER_WEB_PACK" ->
         SelectedSince /\ a.request # PackRequest(selected)
    [] a.transition \in PackKinds -> a.request # PackRequest(selected)
    [] a.transition = "WAIT_WEB_VERDICT" -> FALSE
    [] a.transition = "REVISE" -> ~RevisionAuthorized(a.request.round)

\* assertSealedRequest, attestRevisionAuthority: recovery throws.
RecoveryConflict(a) ==
  CASE a.transition = "REGISTER_WEB_PACK" ->
         SelectedSince /\ a.request # PackRequest(selected)
    [] a.transition \in PackKinds -> a.request # PackRequest(selected)
    [] a.transition = "WAIT_WEB_VERDICT" ->
         LatestSealed /\ a.request # VerdictRequest(LatestVerdict)
    [] a.transition = "REVISE" -> ~RevisionAuthorized(a.request.round)

\* The side effect was caused, or is one recovery repeats idempotently.
Adoptable(a) ==
  CASE a.transition = "REGISTER_WEB_PACK"       -> SelectedSince
    [] a.transition = "EXECUTE_REGISTERED_PACK" -> executor[selected] \in ExecutorEnd
    [] a.transition = "PUBLISH"                 -> selected \in published
    [] a.transition = "OPEN_DRAFT_PR"           -> TRUE
    [] a.transition = "PACKAGE_RESULT"          -> TRUE
    [] a.transition = "WAIT_WEB_VERDICT"        -> LatestSealed
    [] a.transition = "REVISE" -> revision[a.request.round] = "RESULT_READY"

\* The next transition the settled attempt names, from its own outcome.
NextOf(a) ==
  CASE a.transition = "REGISTER_WEB_PACK" -> "EXECUTE_REGISTERED_PACK"
    [] a.transition = "EXECUTE_REGISTERED_PACK" ->
         (CASE executor[a.request.pack] = "READY_FOR_PUBLISH" -> "PUBLISH"
            [] executor[a.request.pack] = "ESCALATE_TO_WEB"   -> "REGISTER_WEB_PACK"
            [] OTHER                                          -> "WAIT_HUMAN")
    [] a.transition = "PUBLISH"        -> "OPEN_DRAFT_PR"
    [] a.transition = "OPEN_DRAFT_PR"  -> "PACKAGE_RESULT"
    [] a.transition = "PACKAGE_RESULT" -> "WAIT_WEB_VERDICT"
    [] a.transition = "WAIT_WEB_VERDICT" ->
         (IF review[a.request.round].state = "REVISION_REQUESTED"
          THEN "REVISE" ELSE "WAIT_HUMAN")
    [] a.transition = "REVISE" -> "WAIT_WEB_VERDICT"

SettleAttempt ==
  \E u \in UsageOf(ledger.attempt.transition) :
    Complete(ledger.attempt, NextOf(ledger.attempt), u)

\* openDraftPr and packageResult run again and find or make what is missing.
RepeatEffect(a) ==
  /\ drafted' = IF a.transition = "OPEN_DRAFT_PR" THEN drafted \cup {selected} ELSE drafted
  /\ result' = IF a.transition = "PACKAGE_RESULT" THEN selected ELSE result
  /\ UNCHANGED <<selected, selectedAt, executor, published>>

RecoverAdopt ==
  /\ pc = "idle"
  /\ ledger.attempt # NoAttempt
  /\ ~RecoveryConflict(ledger.attempt)
  /\ Adoptable(ledger.attempt)
  /\ RepeatEffect(ledger.attempt)
  /\ SettleAttempt
  /\ pc' = "planning"
  /\ UNCHANGED <<plan, reviews>>

\* No attempt, or one whose side effect is not there (a repeated Draft PR or
\* Result Bundle may again end unfinished).
RecoverNothing ==
  /\ pc = "idle"
  /\ ledger.attempt # NoAttempt =>
       /\ ~RecoveryConflict(ledger.attempt)
       /\ Adoptable(ledger.attempt)
            => ledger.attempt.transition \in {"OPEN_DRAFT_PR", "PACKAGE_RESULT"}
  /\ pc' = "planning"
  /\ UNCHANGED <<vars, plan, evidence, reviews>>

-----------------------------------------------------------------------------
(* The transition: plan, checkpoint, act, settle.                          *)

MayPlan ==
  /\ ~ledger.paused
  /\ ledger.status \notin TerminalStatus
  /\ ledger.attempt = NoAttempt => ~WaitsUntil(ledger, clock)

PlanNext ==
  /\ pc = "planning"
  /\ MayPlan
  /\ \E request \in PayloadsOf(Planned) : plan' = [kind |-> Planned, request |-> request]
  /\ pc' = "checkpointing"
  /\ UNCHANGED <<vars, evidence, reviews>>

\* Nothing to do, or an input the operator did not give.
PlanNothing ==
  /\ pc = "planning"
  /\ \/ ~MayPlan
     \/ PayloadsOf(Planned) = {}
     \/ Planned \in {"REGISTER_WEB_PACK", "WAIT_WEB_VERDICT"}
  /\ pc' = "idle"
  /\ UNCHANGED <<vars, plan, evidence, reviews>>

\* The same sealed request: checkpointAttempt returns the ledger as it is.
Reenters ==
  /\ ledger.attempt # NoAttempt
  /\ MayCheckpoint(ledger, clock, plan.kind)
  /\ ledger.attempt.transition = plan.kind /\ ledger.attempt.request = plan.request

\* Mutant: a re-entered attempt is begun, and counted, once more.
CheckpointPlanAgain ==
  /\ pc = "checkpointing"
  /\ \/ Checkpoint(plan.kind, plan.request)
     \/ /\ Reenters
        /\ ledger' = AfterCheckpoint(ledger, plan.kind, plan.request)
        /\ UNCHANGED <<clock, started, embargo, condemned>>
  /\ pc' = "acting"
  /\ UNCHANGED <<plan, evidence, reviews>>

CheckpointPlan ==
  /\ pc = "checkpointing"
  /\ \/ Checkpoint(plan.kind, plan.request)
     \/ Reenters /\ UNCHANGED vars
  /\ pc' = "acting"
  /\ UNCHANGED <<plan, evidence, reviews>>

CheckpointRefused ==
  /\ pc = "checkpointing"
  /\ ~CanCheckpoint(ledger, clock, plan.kind) /\ ~Reenters
  /\ pc' = "idle" /\ plan' = NoPlan
  /\ UNCHANGED <<vars, evidence, reviews>>

Acting(k) == pc = "acting" /\ plan.kind = k
ThenSettle == pc' = "settling" /\ UNCHANGED <<vars, plan, reviews>>

Register ==
  /\ Acting("REGISTER_WEB_PACK")
  /\ selected' = plan.request.pack /\ selectedAt' = ledger.total
  /\ UNCHANGED <<executor, published, drafted, result>>
  /\ ThenSettle

Execute ==
  /\ Acting("EXECUTE_REGISTERED_PACK")
  /\ \E s \in ExecutorEnd : executor' = [executor EXCEPT ![plan.request.pack] = s]
  /\ UNCHANGED <<selected, selectedAt, published, drafted, result>>
  /\ ThenSettle

Publish ==
  /\ Acting("PUBLISH")
  /\ published' = published \cup {plan.request.pack}
  /\ UNCHANGED <<selected, selectedAt, executor, drafted, result>>
  /\ ThenSettle

OpenDraftPr ==
  /\ Acting("OPEN_DRAFT_PR")
  /\ drafted' = drafted \cup {plan.request.pack}
  /\ UNCHANGED <<selected, selectedAt, executor, published, result>>
  /\ ThenSettle

PackageResult ==
  /\ Acting("PACKAGE_RESULT")
  /\ result' = plan.request.pack
  /\ UNCHANGED <<selected, selectedAt, executor, published, drafted>>
  /\ ThenSettle

\* reviseRun with a crash or an error on the way leaves a receipt in progress.
ReviseTo(r, s) == revision[r] # "RESULT_READY" /\ revision' = [revision EXCEPT ![r] = s]

Revise ==
  /\ Acting("REVISE")
  /\ RevisionAuthorized(plan.request.round)
  /\ \/ ReviseTo(plan.request.round, "STARTED") /\ pc' = "acting"
     \/ ReviseTo(plan.request.round, "RESULT_READY") /\ pc' = "settling"
     \/ /\ revision[plan.request.round] = "RESULT_READY"
        /\ pc' = "settling" /\ UNCHANGED revision
  /\ UNCHANGED <<vars, plan, evidence, review, roundLock>>

-----------------------------------------------------------------------------
(* Submitting a verdict (web-review/web-review-service.ts), under the lock *)
(* of its round, for the runner and for the operator.                      *)

\* Mutant: a later round falls back to the initial bundle.
BundleReadyInitial(r) == result # NoPack

\* loadAndVerifyResultBundle: round 1 has the initial bundle, every later round
\* the bundle of the revision before it and of no other.
BundleReady(r) ==
  IF r = 1 THEN result # NoPack ELSE revision[r - 1] = "RESULT_READY"

\* inspectReviewPersistence: the receipt binds the round to its first verdict.
BoundElsewhere(v) ==
  review[v.round].state # "NONE" /\ review[v.round].decision # v.decision

\* Mutant: a sealed round is validated once more.
SealedNever(v) == FALSE

SealedAlready(v) ==
  review[v.round].state \in TerminalReview /\ review[v.round].decision = v.decision

BeginSubmit(who, v) ==
  /\ BundleReady(v.round)
  /\ roundLock[v.round] = "free"
  /\ ~BoundElsewhere(v) /\ ~SealedAlready(v)
  /\ roundLock' = [roundLock EXCEPT ![v.round] = who]
  /\ review' = [review EXCEPT ![v.round] = [state |-> "PENDING", decision |-> v.decision]]

TerminalOf(decision) ==
  CASE decision = "APPROVE" -> "APPROVED"
    [] decision = "REVISE"  -> "REVISION_REQUESTED"
    [] OTHER                -> "ESCALATED"

SealReview(who, r) ==
  /\ roundLock[r] = who
  /\ review[r].decision # "INVALID"
  /\ review' = [review EXCEPT ![r].state = TerminalOf(review[r].decision)]
  /\ roundLock' = [roundLock EXCEPT ![r] = "free"]

\* A policy, network or operational error: the receipt stays, unsealed.
DropReview(who, r) ==
  /\ roundLock[r] = who
  /\ roundLock' = [roundLock EXCEPT ![r] = "free"]
  /\ UNCHANGED review

PlannedVerdict == [round |-> plan.request.round, decision |-> plan.request.decision]

SubmitVerdict ==
  /\ Acting("WAIT_WEB_VERDICT")
  /\ \/ BeginSubmit("runner", PlannedVerdict) /\ pc' = "sealing"
     \/ /\ BundleReady(plan.request.round) /\ roundLock[plan.request.round] = "free"
        /\ SealedAlready(PlannedVerdict)
        /\ pc' = "settling" /\ UNCHANGED <<review, roundLock>>
  /\ UNCHANGED <<vars, plan, evidence, revision>>

SealVerdict ==
  /\ pc = "sealing"
  /\ SealReview("runner", plan.request.round)
  /\ pc' = "settling"
  /\ UNCHANGED <<vars, plan, evidence, revision>>

Settle ==
  /\ pc = "settling"
  /\ SettleAttempt
  /\ pc' = "idle" /\ plan' = NoPlan
  /\ UNCHANGED <<evidence, reviews>>

\* What the side effect can never get past is a terminal failure class.
Hopeless ==
  \/ /\ plan.kind = "WAIT_WEB_VERDICT"
     /\ \/ BoundElsewhere(PlannedVerdict) \/ ~BundleReady(plan.request.round)
        \/ pc = "sealing" /\ plan.request.decision = "INVALID"
  \/ plan.kind = "REVISE" /\ ~RevisionAuthorized(plan.request.round)

\* The catch block: the side effect, or its verification, or the completion
\* report threw; the effect itself may or may not have happened.
FailAttempt ==
  /\ pc \in {"acting", "sealing", "settling"}
  /\ \E code \in FailureCode, delay \in RetryDelays :
       /\ pc # "settling" /\ Hopeless => code = "TERMINAL"
       /\ Fail(ledger.attempt, code, delay)
  /\ IF pc = "sealing" THEN DropReview("runner", plan.request.round)
     ELSE UNCHANGED <<review, roundLock>>
  /\ pc' = "idle" /\ plan' = NoPlan
  /\ UNCHANGED <<evidence, revision>>

\* The process dies; its lock files stay and are never stolen.
Crash ==
  /\ pc \notin {"idle", "crashed"}
  /\ pc' = "crashed" /\ plan' = NoPlan
  /\ UNCHANGED <<vars, evidence, reviews>>

\* The operator removes the stale locks the diagnostic names.
ClearLocks ==
  /\ pc = "crashed"
  /\ pc' = "idle"
  /\ roundLock' = [r \in Rounds |-> IF roundLock[r] = "runner" THEN "free" ELSE roundLock[r]]
  /\ UNCHANGED <<vars, plan, evidence, review, revision>>

-----------------------------------------------------------------------------
(* The operator.                                                           *)

OperatorBegins ==
  /\ \E v \in Verdict : BeginSubmit("operator", v)
  /\ UNCHANGED <<vars, pc, plan, evidence, revision>>

OperatorSeals ==
  /\ \E r \in Rounds : SealReview("operator", r)
  /\ UNCHANGED <<vars, pc, plan, evidence, revision>>

OperatorDrops ==
  /\ \E r \in Rounds : DropReview("operator", r)
  /\ UNCHANGED <<vars, pc, plan, evidence, revision>>

OperatorRevises ==
  /\ \E r \in 1..(MaxRound - 1), s \in {"STARTED", "RESULT_READY"} :
       review[r].state = "REVISION_REQUESTED" /\ ReviseTo(r, s)
  /\ UNCHANGED <<vars, pc, plan, evidence, review, roundLock>>

Control == (Pause \/ Resume \/ Tick) /\ UNCHANGED orchestration

Continue ==
  \/ RecoverAdopt \/ RecoverNothing \/ PlanNext \/ PlanNothing
  \/ CheckpointPlan \/ CheckpointRefused
  \/ Register \/ Execute \/ Publish \/ OpenDraftPr \/ PackageResult
  \/ SubmitVerdict \/ SealVerdict \/ Revise
  \/ Settle \/ FailAttempt

Operator == OperatorBegins \/ OperatorSeals \/ OperatorDrops \/ OperatorRevises

ONext == Continue \/ Crash \/ ClearLocks \/ Operator \/ Control

OSpec == OInit /\ [][ONext]_runVars

-----------------------------------------------------------------------------
(* Properties                                                              *)

OTypeOK ==
  /\ TypeOK
  /\ pc \in {"idle", "planning", "checkpointing", "acting", "sealing", "settling", "crashed"}
  /\ plan \in [kind : Kinds \cup {"DONE"}, request : Payload \cup {PackRequest(NoPack)}]
  /\ selected \in Packs \cup {NoPack} /\ selectedAt \in Nat
  /\ executor \in [Packs -> ExecutorEnd \cup {"NONE"}]
  /\ published \subseteq Packs /\ drafted \subseteq Packs
  /\ result \in Packs \cup {NoPack}
  /\ review \in [Rounds -> [state : TerminalReview \cup {"NONE", "PENDING"},
                            decision : Decision \cup {"NONE"}]]
  /\ roundLock \in [Rounds -> {"free", "runner", "operator"}]
  /\ revision \in [Rounds -> {"NONE", "STARTED", "RESULT_READY"}]

\* The side effect an attempt was sealed for.
Done(a) ==
  CASE a.transition = "REGISTER_WEB_PACK"       -> selected = a.request.pack
    [] a.transition = "EXECUTE_REGISTERED_PACK" -> executor[a.request.pack] \in ExecutorEnd
    [] a.transition = "PUBLISH"                 -> a.request.pack \in published
    [] a.transition = "OPEN_DRAFT_PR"           -> a.request.pack \in drafted
    [] a.transition = "PACKAGE_RESULT"          -> result = a.request.pack
    [] a.transition = "WAIT_WEB_VERDICT" ->
         /\ review[a.request.round].decision = a.request.decision
         /\ review[a.request.round].state = TerminalOf(a.request.decision)
    [] a.transition = "REVISE" -> revision[a.request.round] = "RESULT_READY"

\* Side effects and the ledger fit: an effect is caused only by a runner whose
\* checkpoint of that very request is in the ledger (recovery repeats only a Draft
\* PR or a Result Bundle), and an attempt succeeds only on the effect its own sealed
\* request asked for, whether the process that caused it settles it or a recovery
\* adopts it.
EffectsOnRecord ==
  [][/\ evidence' # evidence =>
          ledger.attempt # NoAttempt /\ \A a \in {ledger.attempt} : Done(a)'
     /\ ledger.attempt # NoAttempt /\ ledger'.attempt = NoAttempt /\ ledger'.code = "NONE"
          => \A a \in {ledger.attempt} : Done(a)']_runVars

\* Completed work is never done again: no pack is executed a second time, no
\* sealed verdict or finished revision changes, nothing is unpublished.
WorkKept ==
  [][/\ \A p \in Packs : executor[p] # "NONE" => executor'[p] = executor[p]
     /\ published \subseteq published' /\ drafted \subseteq drafted'
     /\ \A r \in Rounds :
          /\ review[r].state \in TerminalReview => review'[r] = review[r]
          /\ revision[r] = "RESULT_READY" => revision'[r] = "RESULT_READY"]_runVars

\* Every link of the chain of authority rests on the one before it.
AuthorityChain ==
  /\ \A p \in published : executor[p] = "READY_FOR_PUBLISH"
  /\ drafted \subseteq published
  /\ result # NoPack => result \in drafted
  /\ \A r \in Rounds :
       /\ review[r].state # "NONE" =>
            IF r = 1 THEN result # NoPack ELSE revision[r - 1] = "RESULT_READY"
       /\ revision[r] # "NONE" => review[r].state = "REVISION_REQUESTED"

\* Up to the Result Bundle, recovery finds the effect of an interrupted attempt or finds
\* that it never happened, whatever packs were registered before.
PackRecoveryNeverConflicts ==
  pc = "idle" /\ ledger.attempt # NoAttempt =>
    ledger.attempt.transition \in {"WAIT_WEB_VERDICT", "REVISE"}
      \/ ~RecoveryConflict(ledger.attempt)

\* What the runner carries from one step to the next.
Carried ==
  /\ selected \in Packs \cup {NoPack}
  /\ pc \in {"checkpointing", "acting", "sealing", "settling"} =>
       plan.kind \in Kinds /\ plan.request \in Requests
  /\ pc \in {"acting", "sealing", "settling"} => ledger.attempt # NoAttempt

\* The payloads a transition can be sealed for, and the evidence that makes it next.
Shape(k) ==
  CASE k \in PackKinds \cup {"REGISTER_WEB_PACK"} -> {PackRequest(p) : p \in Packs}
    [] k = "WAIT_WEB_VERDICT" -> {VerdictRequest(v) : v \in Verdict}
    [] OTHER                  -> {RevisionRequest(r) : r \in Rounds}

Grounded(k, request) ==
  /\ request \in Shape(k)
  /\ k \in PackKinds => request = PackRequest(selected)
  /\ k = "PUBLISH" => executor[selected] = "READY_FOR_PUBLISH"
  /\ k = "OPEN_DRAFT_PR" => selected \in published
  /\ k = "PACKAGE_RESULT" => selected \in drafted

\* The attempt in the ledger, also one a dead process left there, rests on evidence
\* that is still there, and a selection is taken for its own only if it made it.
AttemptGrounded ==
  /\ selectedAt <= ledger.total
  /\ ledger.attempt # NoAttempt =>
       /\ Grounded(ledger.attempt.transition, ledger.attempt.request)
       /\ ledger.attempt.transition = "REGISTER_WEB_PACK" /\ selectedAt = ledger.total
            => ledger.attempt.request = PackRequest(selected)

\* The runner works on the attempt in the ledger, on evidence that still stands, and
\* settles it only when its effect is there.
PlanGrounded ==
  /\ pc \in {"checkpointing", "acting", "sealing", "settling"} =>
       Grounded(plan.kind, plan.request)
  /\ pc \in {"checkpointing", "acting"} /\ plan.kind = "EXECUTE_REGISTERED_PACK" =>
       executor[selected] = "NONE"
  /\ pc \in {"acting", "sealing", "settling"} =>
       ledger.attempt.transition = plan.kind /\ ledger.attempt.request = plan.request
  /\ pc = "sealing" =>
       /\ plan.kind = "WAIT_WEB_VERDICT" /\ roundLock[plan.request.round] = "runner"
       /\ review[plan.request.round].decision = plan.request.decision
  /\ pc = "settling" => Done(ledger.attempt)

\* A round is locked only while its review is pending, and a sealed review has the
\* state its decision asks for.
ReviewsFit ==
  \A r \in Rounds :
    /\ roundLock[r] # "free" => review[r].state = "PENDING"
    /\ review[r].state \in TerminalReview =>
         review[r].state = TerminalOf(review[r].decision)

\* What keeps a run on its lifecycle: another pack is registered only after the executor
\* gave the selected one up, and reviews are of its Result Bundle, round after round.
StageFits ==
  /\ \A p \in Packs : executor[p] \in {"READY_FOR_PUBLISH", "FAILED"} => p = selected
  /\ pc \in {"checkpointing", "acting"} /\ plan.kind = "REGISTER_WEB_PACK" =>
       selected = NoPack \/ executor[selected] = "ESCALATE_TO_WEB"
  /\ \A r \in Rounds : review[r].state # "NONE" => result # NoPack
  /\ \E last \in 0..MaxRound : \A r \in Rounds : review[r].state # "NONE" <=> r <= last

\* What holds of every state of a driven run: its types, the chain of authority, that
\* no crash leaves an attempt behind that recovery refuses, and what makes these
\* inductive.
RunInv ==
  /\ OTypeOK /\ Carried /\ AuthorityChain /\ PackRecoveryNeverConflicts
  /\ AttemptGrounded /\ PlanGrounded /\ ReviewsFit /\ StageFits

\* Whatever the runner does to the ledger is a step of the ledger's own module, so
\* everything shown of the ledger holds of a driven run.
KeepsLedger == Init /\ [][UNCHANGED vars \/ Next]_vars

\* The evidence moves along the documented lifecycle only.
Lifecycle == INSTANCE RunLifecycle WITH stage <- Planned
FollowsLifecycle == Lifecycle!Spec
=============================================================================
