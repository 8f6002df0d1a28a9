----------------------- MODULE RunOrchestrationProofs -----------------------
(***************************************************************************)
(* Proofs about RunLedger, for every budget, delay, set of kinds and set   *)
(* of requests, and about RunOrchestration, for any packs and rounds.  The *)
(* operations preserve the type of a ledger (lemmas), the inductive        *)
(* invariant LedgerInv is preserved by every action of the ledger, and its *)
(* properties follow.  A driven run takes steps of the ledger only, so all *)
(* of this holds of it; RunInv adds what relates it to the evidence.       *)
(***************************************************************************)
EXTENDS RunOrchestration, FiniteSetTheorems, TLAPS

-----------------------------------------------------------------------------
(* Each operation maps a ledger to a ledger.                               *)

\* pauseRun keeps the ledger well formed.
LEMMA PauseType == \A l \in Ledger : AfterPause(l) \in Ledger
BY DEF Ledger, AfterPause, Status

\* restoredStatusAfterResume yields a status, whatever the ledger and the time.
LEMMA RestoredStatusType ==
  ASSUME NEW l \in Ledger, NEW now \in Nat
  PROVE  RestoredStatus(l, now) \in {"ACTIVE", "COMPLETE", "BLOCKED", "WAITING"}
BY DEF RestoredStatus

\* resumeRun keeps the ledger well formed.
LEMMA ResumeType ==
  ASSUME NEW l \in Ledger, NEW now \in Nat
  PROVE  AfterResume(l, now) \in Ledger
BY RestoredStatusType DEF Ledger, AfterResume, Status

\* The identity checkpointAttempt seals is a well formed attempt.
LEMMA BeginType ==
  ASSUME NEW l \in Ledger, NEW k \in Kinds, NEW r \in Requests
  PROVE  BeginAttempt(l, k, r) \in Attempt
BY DEF Ledger, BeginAttempt, Attempt

\* checkpointAttempt keeps the ledger well formed.
LEMMA CheckpointType ==
  ASSUME NEW l \in Ledger, NEW k \in Kinds, NEW r \in Requests
  PROVE  AfterCheckpoint(l, k, r) \in Ledger
<1>1. BeginAttempt(l, k, r) \in Attempt
  BY BeginType
<1>2. [l.attempts EXCEPT ![k] = l.attempts[k] + 1] \in [Kinds -> Nat]
  BY DEF Ledger
<1>3. (IF l.circuit = "OPEN" THEN "HALF_OPEN" ELSE l.circuit)
         \in {"CLOSED", "OPEN", "HALF_OPEN"}
  BY DEF Ledger
<1>4. l.total + 1 \in Nat
  BY DEF Ledger
<1> QED
  BY <1>1, <1>2, <1>3, <1>4 DEF Ledger, AfterCheckpoint, Status

\* The runner's successor of a transition is a transition, and never DONE.
LEMMA SuccessorType ==
  ASSUME NEW k \in Kinds, NEW n \in Successors(k)
  PROVE  n \in TransitionKind \ {"DONE"}
BY DEF Successors, TransitionKind

\* The usage a completed attempt reports is a number.
LEMMA UsageType == \A k \in Kinds : UsageOf(k) \subseteq Nat
BY BudgetAssumption DEF UsageOf

\* completeAttempt keeps the ledger well formed.
LEMMA CompleteType ==
  ASSUME NEW l \in Ledger, NEW n \in TransitionKind, NEW u \in Nat
  PROVE  AfterComplete(l, n, u) \in Ledger
<1>1. CompletedStatus(l, n, u) \in Status
  BY DEF CompletedStatus, Status
<1>2. l.turns + u \in Nat
  BY DEF Ledger
<1> QED
  BY <1>1, <1>2 DEF Ledger, AfterComplete

\* decideRetry has three outcomes.
LEMMA DecisionType ==
  \A l, code, now : DecideRetry(l, code, now) \in {"TERMINAL", "CIRCUIT_OPEN", "RETRY"}
BY DEF DecideRetry

\* failAttempt keeps the ledger well formed.
LEMMA FailType ==
  ASSUME NEW l \in Ledger, NEW code \in FailureCode, NEW delay \in RetryDelays,
         NEW now \in Nat
  PROVE  AfterFail(l, code, delay, now) \in Ledger
<1> DEFINE d == DecideRetry(l, code, now)
<1>1. d \in {"TERMINAL", "CIRCUIT_OPEN", "RETRY"}
  BY DecisionType
<1>2. FailedStatus(l, d) \in Status
  BY DEF FailedStatus, Status
<1>3. FailedRetryAt(d, delay, now) \in Nat \cup {NoTime}
  BY <1>1, DelayAssumption DEF FailedRetryAt
<1>4. (IF d = "CIRCUIT_OPEN" THEN "OPEN" ELSE l.circuit)
         \in {"CLOSED", "OPEN", "HALF_OPEN"}
  BY DEF Ledger
<1>5. (d = "CIRCUIT_OPEN" \/ l.opened) \in BOOLEAN
  OBVIOUS
<1>6. l.failures + 1 \in Nat
  BY DEF Ledger
<1> HIDE DEF d
<1>7. [l EXCEPT !.attempt = NoAttempt, !.code = code, !.failures = l.failures + 1,
               !.status = FailedStatus(l, d),
               !.retryAt = FailedRetryAt(d, delay, now),
               !.circuit = IF d = "CIRCUIT_OPEN" THEN "OPEN" ELSE l.circuit,
               !.opened = (d = "CIRCUIT_OPEN" \/ l.opened)] \in Ledger
  BY <1>2, <1>3, <1>4, <1>5, <1>6 DEF Ledger
<1> QED
  BY <1>7 DEF AfterFail, d

-----------------------------------------------------------------------------
(* What each operation writes, field by field.                             *)

\* pauseRun and resumeRun change nothing but the flag and the status.
LEMMA PauseResumeFields ==
  ASSUME NEW l \in Ledger, NEW now \in Nat,
         NEW m, m = AfterPause(l) \/ m = AfterResume(l, now)
  PROVE  /\ m.next = l.next /\ m.attempt = l.attempt /\ m.attempts = l.attempts
         /\ m.total = l.total /\ m.turns = l.turns /\ m.failures = l.failures
         /\ m.retryAt = l.retryAt /\ m.circuit = l.circuit
         /\ m.opened = l.opened /\ m.code = l.code
BY DEF Ledger, AfterPause, AfterResume

\* checkpointAttempt counts the attempt, opens it and clears the deadline.
LEMMA CheckpointFields ==
  ASSUME NEW l \in Ledger, NEW k \in Kinds, NEW r \in Requests
  PROVE  LET m == AfterCheckpoint(l, k, r) IN
         /\ m.status = "ACTIVE" /\ m.paused = l.paused /\ m.next = l.next
         /\ m.attempt = BeginAttempt(l, k, r)
         /\ m.attempts = [l.attempts EXCEPT ![k] = l.attempts[k] + 1]
         /\ m.total = l.total + 1 /\ m.turns = l.turns
         /\ m.failures = l.failures /\ m.retryAt = NoTime
         /\ l.circuit = "OPEN" => m.circuit = "HALF_OPEN"
         /\ l.circuit # "OPEN" => m.circuit = l.circuit
         /\ m.opened = l.opened /\ m.code = l.code
BY DEF Ledger, AfterCheckpoint

\* completeAttempt closes the attempt and clears the failure record.
LEMMA CompleteFields ==
  ASSUME NEW l \in Ledger, NEW n \in TransitionKind, NEW u \in Nat
  PROVE  LET m == AfterComplete(l, n, u) IN
         /\ m.status = CompletedStatus(l, n, u) /\ m.paused = l.paused
         /\ m.next = n /\ m.attempt = NoAttempt /\ m.attempts = l.attempts
         /\ m.total = l.total /\ m.turns = l.turns + u /\ m.failures = 0
         /\ m.retryAt = NoTime /\ m.circuit = "CLOSED" /\ ~m.opened
         /\ m.code = "NONE"
BY DEF Ledger, AfterComplete

\* failAttempt closes the attempt and records why and until when.
LEMMA FailFields ==
  ASSUME NEW l \in Ledger, NEW c, NEW d, NEW now
  PROVE  LET m == AfterFail(l, c, d, now)
             o == DecideRetry(l, c, now) IN
         /\ m.status = FailedStatus(l, o) /\ m.paused = l.paused
         /\ m.next = l.next /\ m.attempt = NoAttempt /\ m.attempts = l.attempts
         /\ m.total = l.total /\ m.turns = l.turns
         /\ m.failures = l.failures + 1
         /\ m.retryAt = FailedRetryAt(o, d, now)
         /\ o = "CIRCUIT_OPEN" => m.circuit = "OPEN" /\ m.opened
         /\ o # "CIRCUIT_OPEN" => m.circuit = l.circuit /\ m.opened = l.opened
         /\ m.code = c
BY DEF Ledger, AfterFail

-----------------------------------------------------------------------------
(* Type correctness.                                                       *)

\* Every operation of the ledger keeps its type (controller.ts).
LEMMA TypeStep == TypeOK /\ [Next]_vars => TypeOK'
<1> SUFFICES ASSUME TypeOK, [Next]_vars
             PROVE  TypeOK'
  OBVIOUS
<1>1. CASE Pause
  BY <1>1, PauseType DEF TypeOK, Pause, Write
<1>2. CASE Resume
  BY <1>2, ResumeType DEF TypeOK, Resume, Write
<1>3. CASE CheckpointAny
  BY <1>3, CheckpointType, BeginType DEF TypeOK, CheckpointAny, Checkpoint, Write
<1>4. CASE CompleteAny
  <2>0. PICK a \in started : \E n \in Successors(a.transition),
                                u \in UsageOf(a.transition) : Complete(a, n, u)
    BY <1>4 DEF CompleteAny
  <2>1. PICK n \in Successors(a.transition), u \in UsageOf(a.transition) :
          Complete(a, n, u)
    BY <2>0
  <2>2. a.transition \in Kinds
    BY <2>1 DEF TypeOK, Attempt
  <2>3. n \in TransitionKind /\ u \in Nat
    BY <2>1, <2>2, SuccessorType, UsageType
  <2>4. ledger' \in Ledger
    BY <2>1, <2>3, CompleteType DEF TypeOK, Complete, Write
  <2> QED
    BY <2>1, <2>4 DEF TypeOK, Complete
<1>5. CASE FailAny
  <2>1. PICK a \in started, c \in FailureCode, d \in RetryDelays : Fail(a, c, d)
    BY <1>5 DEF FailAny
  <2>2. ledger' \in Ledger
    BY <2>1, FailType DEF TypeOK, Fail, Write
  <2>3. embargo' \in Nat
    BY <2>1, DecisionType, DelayAssumption DEF TypeOK, Fail
  <2>4. condemned' \in BOOLEAN
    BY <2>1 DEF TypeOK, Fail
  <2> QED
    BY <2>1, <2>2, <2>3, <2>4 DEF TypeOK, Fail
<1>6. CASE Tick
  BY <1>6 DEF TypeOK, Tick
<1>7. CASE UNCHANGED vars
  BY <1>7 DEF TypeOK, vars
<1> QED
  BY <1>1, <1>2, <1>3, <1>4, <1>5, <1>6, <1>7 DEF Next

\* Every reachable ledger is well formed, and so is the history kept of it.
THEOREM TypeCorrect == Spec => []TypeOK
<1>1. Init => TypeOK
  <2>1. NewLedger \in Ledger
    BY DEF NewLedger, Ledger, Status, TransitionKind
  <2> SUFFICES ASSUME Init
               PROVE  TypeOK
    OBVIOUS
  <2>2. clock \in Nat /\ embargo \in Nat
    BY DEF Init
  <2>3. started \subseteq Attempt /\ condemned \in BOOLEAN
    BY DEF Init
  <2> QED
    BY <2>1, <2>2, <2>3 DEF Init, TypeOK
<1> QED
  BY <1>1, TypeStep, PTL DEF Spec

-----------------------------------------------------------------------------
(* What holds whenever checkpointAttempt lets an attempt start.            *)

\* An attempt starts only in a run that is not condemned, at or after the
\* deadline, with a circuit that is still open if it had tripped.
LEMMA StartFacts ==
  ASSUME LedgerInv, NEW k \in Kinds, CanCheckpoint(ledger, clock, k)
  PROVE  /\ ~condemned
         /\ clock >= embargo
         /\ ledger.failures >= MaxFailures => ledger.circuit = "OPEN"
<1>1. /\ ledger.attempt = NoAttempt /\ ~ledger.paused
      /\ ledger.status \notin TerminalStatus /\ ~WaitsUntil(ledger, clock)
  BY DEF CanCheckpoint, MayCheckpoint
<1>2. IdleValid(ledger)
  BY <1>1 DEF LedgerInv, Valid, StateValid
<1>3. ledger.retryAt = NoTime => ledger.code = "NONE"
  BY <1>1, <1>2 DEF IdleValid, TerminalStatus
<1>4. ~Overspent(ledger)
  BY <1>1, <1>2 DEF IdleValid, TerminalStatus, LedgerInv, Condemned
<1>5. ~condemned
  BY <1>3, <1>4 DEF LedgerInv, Condemned
<1>6. ledger.retryAt # NoTime => ledger.retryAt \in Nat /\ clock >= ledger.retryAt
  BY <1>1 DEF WaitsUntil, LedgerInv, TypeOK, Ledger
<1>7. clock >= embargo
  BY <1>1, <1>3, <1>6 DEF LedgerInv, Deadlines, TypeOK
<1>8. ASSUME ledger.failures >= MaxFailures
      PROVE  ledger.circuit = "OPEN"
  <2>1. ledger.failures # 0
    BY <1>8, BudgetAssumption
  <2> QED
    BY <1>1, <1>3, <1>8, <2>1 DEF LedgerInv, Deadlines
<1> QED
  BY <1>5, <1>7, <1>8

\* The attempt id a checkpoint seals was never used before, and the budget has
\* room for it.
LEMMA FreshAttempt ==
  ASSUME LedgerInv, NEW k \in Kinds, NEW r \in Requests,
         CanCheckpoint(ledger, clock, k)
  PROVE  /\ BeginAttempt(ledger, k, r) \in Attempt \ started
         /\ BeginAttempt(ledger, k, r).transition = k
         /\ BeginAttempt(ledger, k, r).number = ledger.attempts[k] + 1
         /\ ledger.attempts[k] \in Nat
         /\ ledger.attempts[k] < MaxTotal
<1> DEFINE a == BeginAttempt(ledger, k, r)
           ofKind == {b \in started : b.transition = k}
<1>1. ledger.attempts[k] \in Nat
  BY DEF LedgerInv, TypeOK, Ledger
<1>2. a \in Attempt /\ a.transition = k /\ a.number = ledger.attempts[k] + 1
  BY <1>1, BeginType DEF BeginAttempt, LedgerInv, TypeOK
<1>3. a \notin started
  <2>1. SUFFICES ASSUME a \in started PROVE FALSE
    OBVIOUS
  <2>2. a.number <= ledger.attempts[a.transition]
    BY <2>1 DEF LedgerInv, Counted
  <2> QED
    BY <1>1, <1>2, <2>2
<1>4. Cardinality(ofKind) <= Cardinality(started)
  BY FS_Subset DEF LedgerInv, Counted
<1>5. Cardinality(ofKind) = ledger.attempts[k] /\ Cardinality(started) = ledger.total
  BY DEF LedgerInv, Counted
<1>6. ledger.total \in Nat /\ ledger.total < MaxTotal /\ MaxTotal \in Nat
  BY BudgetAssumption DEF CanCheckpoint, LedgerInv, TypeOK, Ledger
<1> QED
  BY <1>1, <1>2, <1>3, <1>4, <1>5, <1>6

-----------------------------------------------------------------------------
(* The inductive invariant.                                                *)

\* Pausing and resuming leave every account of the attempts alone.
LEMMA PauseResumeStep ==
  ASSUME LedgerInv, TypeOK', Pause \/ Resume
  PROVE  LedgerInv'
<1>1. /\ Valid(ledger)'
      /\ ledger' = AfterPause(ledger) \/ ledger' = AfterResume(ledger, clock)
      /\ clock' = clock /\ started' = started /\ embargo' = embargo
      /\ condemned' = condemned
  BY DEF Pause, Resume, Write
<1>2. ledger \in Ledger /\ clock \in Nat
  BY DEF LedgerInv, TypeOK
<1>3. /\ ledger'.next = ledger.next /\ ledger'.attempt = ledger.attempt
      /\ ledger'.attempts = ledger.attempts /\ ledger'.total = ledger.total
      /\ ledger'.turns = ledger.turns /\ ledger'.failures = ledger.failures
      /\ ledger'.retryAt = ledger.retryAt /\ ledger'.circuit = ledger.circuit
      /\ ledger'.code = ledger.code
  BY <1>1, <1>2, PauseResumeFields
<1>4. Counted'
  BY <1>1, <1>3 DEF LedgerInv, Counted
<1>5. Running' /\ Deadlines' /\ Condemned' /\ ProbesOnly'
  BY <1>1, <1>3 DEF LedgerInv, Running, Deadlines, Condemned, ProbesOnly, Overspent
<1> QED
  BY <1>1, <1>4, <1>5 DEF LedgerInv

\* A checkpoint counts exactly the attempt it starts.
LEMMA CheckpointCounted ==
  ASSUME LedgerInv, NEW k \in Kinds, NEW r \in Requests, Checkpoint(k, r)
  PROVE  Counted'
<1> DEFINE a == BeginAttempt(ledger, k, r)
           OfKind(S, j) == {b \in S : b.transition = j}
<1>1. /\ CanCheckpoint(ledger, clock, k)
      /\ ledger' = AfterCheckpoint(ledger, k, r) /\ started' = started \cup {a}
  BY DEF Checkpoint, Write
<1>2. /\ a \in Attempt \ started /\ a.transition = k
      /\ a.number = ledger.attempts[k] + 1 /\ ledger.attempts[k] \in Nat
  BY <1>1, FreshAttempt
<1>3. ledger \in Ledger /\ started \subseteq Attempt
  BY DEF LedgerInv, TypeOK
<1>4. /\ ledger'.attempts = [ledger.attempts EXCEPT ![k] = ledger.attempts[k] + 1]
      /\ ledger'.total = ledger.total + 1
  BY <1>1, <1>3, CheckpointFields
<1>5. /\ IsFiniteSet(started) /\ Cardinality(started) = ledger.total
      /\ \A j \in Kinds : /\ ledger.attempts[j] <= MaxAttempts
                          /\ Cardinality(OfKind(started, j)) = ledger.attempts[j]
      /\ \A b \in started : b.number <= ledger.attempts[b.transition]
  BY DEF LedgerInv, Counted
<1>6. ledger.attempts \in [Kinds -> Nat]
  BY <1>3 DEF Ledger
<1> HIDE DEF a
<1>7. IsFiniteSet(started') /\ Cardinality(started') = ledger'.total
  BY <1>1, <1>2, <1>4, <1>5, FS_AddElement
<1>8. ASSUME NEW j \in Kinds
      PROVE  /\ ledger'.attempts[j] <= MaxAttempts
             /\ Cardinality(OfKind(started', j)) = ledger'.attempts[j]
  <2>1. CASE j = k
    <3>1. OfKind(started', k) = OfKind(started, k) \cup {a}
      BY <1>1, <1>2
    <3>2. IsFiniteSet(OfKind(started, k))
      BY <1>5, FS_Subset
    <3>3. a \notin OfKind(started, k)
      BY <1>2
    <3>4. Cardinality(OfKind(started', k)) = ledger.attempts[k] + 1
      BY <1>5, <3>1, <3>2, <3>3, FS_AddElement
    <3>5. ledger'.attempts[k] = ledger.attempts[k] + 1
      BY <1>4, <1>6
    <3>6. ledger.attempts[k] + 1 <= MaxAttempts
      BY <1>1 DEF CanCheckpoint
    <3> QED
      BY <2>1, <3>4, <3>5, <3>6
  <2>2. CASE j # k
    <3>1. OfKind(started', j) = OfKind(started, j)
      BY <1>1, <1>2, <2>2
    <3>2. ledger'.attempts[j] = ledger.attempts[j]
      BY <1>4, <1>6, <2>2
    <3> QED
      BY <1>5, <3>1, <3>2
  <2> QED
    BY <2>1, <2>2
<1>9. ASSUME NEW b \in started'
      PROVE  b.number <= ledger'.attempts[b.transition]
  <2>1. CASE b = a
    BY <1>2, <1>4, <1>6, <2>1
  <2>2. CASE b \in started
    <3>1. b.transition \in Kinds /\ b.number \in Nat
      BY <1>3, <2>2 DEF Attempt
    <3>2. b.number <= ledger.attempts[b.transition]
      BY <1>5, <2>2
    <3>3. ledger'.attempts[b.transition] \in
            {ledger.attempts[b.transition], ledger.attempts[b.transition] + 1}
      BY <1>4, <1>6, <3>1
    <3> QED
      BY <1>6, <3>1, <3>2, <3>3
  <2> QED
    BY <1>1, <2>1, <2>2
<1> QED
  BY <1>7, <1>8, <1>9 DEF Counted

\* Starting an attempt preserves the invariant.
LEMMA CheckpointStep ==
  ASSUME LedgerInv, TypeOK', NEW k \in Kinds, NEW r \in Requests, Checkpoint(k, r)
  PROVE  LedgerInv'
<1> DEFINE a == BeginAttempt(ledger, k, r)
<1>1. /\ CanCheckpoint(ledger, clock, k) /\ Valid(ledger)'
      /\ ledger' = AfterCheckpoint(ledger, k, r) /\ started' = started \cup {a}
      /\ embargo' = embargo /\ condemned' = condemned
  BY DEF Checkpoint, Write
<1>2. ledger \in Ledger
  BY DEF LedgerInv, TypeOK
<1>3. /\ ledger'.next = ledger.next /\ ledger'.attempt = a
      /\ ledger'.turns = ledger.turns /\ ledger'.failures = ledger.failures
      /\ ledger'.retryAt = NoTime /\ ledger'.code = ledger.code
      /\ ledger.circuit = "OPEN" => ledger'.circuit = "HALF_OPEN"
  <2>1. ledger'.next = ledger.next /\ ledger'.attempt = a
    BY <1>1, <1>2, CheckpointFields
  <2>2. ledger'.turns = ledger.turns /\ ledger'.failures = ledger.failures
    BY <1>1, <1>2, CheckpointFields
  <2>3. ledger'.retryAt = NoTime /\ ledger'.code = ledger.code
    BY <1>1, <1>2, CheckpointFields
  <2>4. ledger.circuit = "OPEN" => ledger'.circuit = "HALF_OPEN"
    BY <1>1, <1>2, CheckpointFields
  <2> QED
    BY <2>1, <2>2, <2>3, <2>4
<1>4. a # NoAttempt
  BY <1>2, BeginType, NullAssumption
<1>5. ~condemned /\ (ledger.failures >= MaxFailures => ledger.circuit = "OPEN")
  BY <1>1, StartFacts
<1>6. Counted'
  BY CheckpointCounted
<1>7. Running' /\ Deadlines'
  BY <1>1, <1>3, <1>4, <1>5 DEF LedgerInv, Running, Deadlines
<1>8. Condemned' /\ ProbesOnly'
  BY <1>1, <1>3, <1>5 DEF LedgerInv, Condemned, ProbesOnly, Overspent
<1> QED
  BY <1>1, <1>6, <1>7, <1>8 DEF LedgerInv
\* Completing an attempt preserves the invariant.
LEMMA CompleteStep ==
  ASSUME LedgerInv, TypeOK', NEW a \in started,
         NEW n \in Successors(a.transition), NEW u \in UsageOf(a.transition),
         Complete(a, n, u)
  PROVE  LedgerInv'
<1>1. /\ ledger.attempt = a /\ Valid(ledger)' /\ ledger' = AfterComplete(ledger, n, u)
      /\ started' = started /\ embargo' = 0
  BY DEF Complete, Write
<1>2. ledger \in Ledger /\ a \in Attempt
  BY DEF LedgerInv, TypeOK
<1>3. n \in TransitionKind \ {"DONE"} /\ u \in Nat /\ ledger.turns \in Nat /\ MaxTurns \in Nat
  BY <1>2, SuccessorType, UsageType, BudgetAssumption DEF Attempt, Ledger
<1>4. /\ ledger'.next = n /\ ledger'.attempt = NoAttempt
      /\ ledger'.attempts = ledger.attempts /\ ledger'.total = ledger.total
      /\ ledger'.turns = ledger.turns + u /\ ledger'.failures = 0
      /\ ledger'.retryAt = NoTime /\ ledger'.code = "NONE"
  <2>1. ledger'.next = n /\ ledger'.attempt = NoAttempt
    BY <1>1, <1>2, <1>3, CompleteFields
  <2>2. ledger'.attempts = ledger.attempts /\ ledger'.total = ledger.total
    BY <1>1, <1>2, <1>3, CompleteFields
  <2>3. ledger'.turns = ledger.turns + u /\ ledger'.failures = 0
    BY <1>1, <1>2, <1>3, CompleteFields
  <2>4. ledger'.retryAt = NoTime /\ ledger'.code = "NONE"
    BY <1>1, <1>2, <1>3, CompleteFields
  <2> QED
    BY <2>1, <2>2, <2>3, <2>4
<1>5. ~condemned
  BY <1>1, <1>2, NullAssumption DEF LedgerInv, Running
<1>6. Counted'
  BY <1>1, <1>4 DEF LedgerInv, Counted
<1>7. Running' /\ Deadlines' /\ ProbesOnly'
  BY <1>1, <1>4 DEF Running, Deadlines, ProbesOnly
<1>8. condemned' = (condemned \/ ledger.turns + u > MaxTurns)
  BY DEF Complete
<1>9. Condemned'
  BY <1>3, <1>4, <1>5, <1>8 DEF Condemned, Overspent
<1> QED
  BY <1>1, <1>6, <1>7, <1>9 DEF LedgerInv

\* Failing an attempt preserves the invariant.
LEMMA FailStep ==
  ASSUME LedgerInv, TypeOK', NEW a \in started, NEW c \in FailureCode,
         NEW d \in RetryDelays, Fail(a, c, d)
  PROVE  LedgerInv'
<1> DEFINE o == DecideRetry(ledger, c, clock)
<1>1. /\ ledger.attempt = a /\ Valid(ledger)' /\ ledger' = AfterFail(ledger, c, d, clock)
      /\ started' = started
  BY DEF Fail, Write
<1>2. ledger \in Ledger /\ a \in Attempt /\ clock \in Nat
  BY DEF LedgerInv, TypeOK
<1>3. o \in {"TERMINAL", "CIRCUIT_OPEN", "RETRY"}
  BY DecisionType
<1>4. /\ o = "RETRY" => embargo' = clock + d
      /\ o = "CIRCUIT_OPEN" => embargo' = clock + CircuitOpenFor
      /\ condemned' = (condemned \/ o = "TERMINAL")
  BY DEF Fail
<1>5. /\ ledger'.next = ledger.next /\ ledger'.attempt = NoAttempt
      /\ ledger'.attempts = ledger.attempts /\ ledger'.total = ledger.total
      /\ ledger'.turns = ledger.turns /\ ledger'.failures = ledger.failures + 1
      /\ ledger'.retryAt = FailedRetryAt(o, d, clock) /\ ledger'.code = c
      /\ o = "CIRCUIT_OPEN" => ledger'.circuit = "OPEN"
  BY <1>1, <1>2, FailFields
<1>6. o = "RETRY" => ledger.failures + 1 < MaxFailures
  BY <1>2, BudgetAssumption DEF DecideRetry, Ledger
<1>7. ~condemned
  BY <1>1, <1>2, NullAssumption DEF LedgerInv, Running
<1> HIDE DEF o
<1>8. /\ o = "RETRY" => ledger'.retryAt = clock + d
      /\ o = "CIRCUIT_OPEN" => ledger'.retryAt = clock + CircuitOpenFor
      /\ o = "TERMINAL" => ledger'.retryAt = NoTime
  BY <1>5 DEF FailedRetryAt
<1>9. Counted'
  BY <1>1, <1>5 DEF LedgerInv, Counted
<1>10. Running' /\ ProbesOnly'
  BY <1>5 DEF Running, ProbesOnly
<1>11. c # "NONE"
  BY DEF FailureCode
<1>12. Deadlines'
  <2>1. ledger'.retryAt # NoTime =>
          embargo' = ledger'.retryAt
          /\ (ledger'.failures >= MaxFailures => ledger'.circuit = "OPEN")
    <3>1. CASE o = "RETRY"
      <4>1. ~(ledger.failures + 1 >= MaxFailures)
        BY <1>2, <1>6, <3>1, BudgetAssumption DEF Ledger
      <4> QED
        BY <1>4, <1>5, <1>8, <3>1, <4>1
    <3>2. CASE o = "CIRCUIT_OPEN"
      BY <1>4, <1>5, <1>8, <3>2
    <3>3. CASE o = "TERMINAL"
      BY <1>8, <3>3
    <3> QED
      BY <1>3, <3>1, <3>2, <3>3
  <2> QED
    BY <1>5, <1>11, <2>1 DEF Deadlines
<1>13. Condemned'
  BY <1>4, <1>5, <1>7, <1>8, <1>11 DEF LedgerInv, Condemned, Overspent
<1> QED
  BY <1>1, <1>9, <1>10, <1>12, <1>13 DEF LedgerInv

\* The first ledger satisfies the invariant.
LEMMA InitInv == Init => LedgerInv
<1> SUFFICES ASSUME Init
             PROVE  LedgerInv
  OBVIOUS
<1>1. TypeOK
  <2>1. NewLedger \in Ledger
    BY DEF NewLedger, Ledger, Status, TransitionKind
  <2>2. clock \in Nat /\ embargo \in Nat
    BY DEF Init
  <2>3. started \subseteq Attempt /\ condemned \in BOOLEAN
    BY DEF Init
  <2> QED
    BY <2>1, <2>2, <2>3 DEF Init, TypeOK
<1>2. AccountsValid(ledger)
  <2>1. ledger.total = 0 /\ \A k \in Kinds : ledger.attempts[k] = 0
    BY DEF Init, NewLedger
  <2>2. AttemptSlots(ledger) = {}
    BY <2>1 DEF AttemptSlots
  <2>3. Cardinality(AttemptSlots(ledger)) = ledger.total
    BY <2>1, <2>2, FS_EmptySet
  <2> QED
    BY <2>1, <2>3, BudgetAssumption DEF AccountsValid
<1>3. StateValid(ledger)
  BY BudgetAssumption
  DEF Init, NewLedger, StateValid, RetryValid, IdleValid, Overspent, WaitKinds
<1>4. Counted
  <2>1. \A k : {a \in started : a.transition = k} = {}
    BY DEF Init
  <2> QED
    BY <2>1, FS_EmptySet, BudgetAssumption DEF Init, NewLedger, Counted
<1>5. Running /\ Deadlines /\ Condemned /\ ProbesOnly
  BY BudgetAssumption
  DEF Init, NewLedger, Running, Deadlines, Condemned, ProbesOnly, Overspent
<1> QED
  BY <1>1, <1>2, <1>3, <1>4, <1>5 DEF LedgerInv, Valid

\* Every operation of the ledger keeps the invariant (controller.ts).
LEMMA LedgerStep == LedgerInv /\ [Next]_vars => LedgerInv'
<1> SUFFICES ASSUME LedgerInv, [Next]_vars
             PROVE  LedgerInv'
  OBVIOUS
<1>0. TypeOK'
  BY TypeStep DEF LedgerInv
<1>1. CASE Pause
  BY <1>0, <1>1, PauseResumeStep
<1>2. CASE Resume
  BY <1>0, <1>2, PauseResumeStep
<1>3. CASE CheckpointAny
  BY <1>0, <1>3, CheckpointStep DEF CheckpointAny
<1>4. CASE CompleteAny
  <2>1. PICK a \in started : \E n \in Successors(a.transition),
                                u \in UsageOf(a.transition) : Complete(a, n, u)
    BY <1>4 DEF CompleteAny
  <2> QED
    BY <1>0, <2>1, CompleteStep
<1>5. CASE FailAny
  BY <1>0, <1>5, FailStep DEF FailAny
<1>6. CASE Tick
  BY <1>0, <1>6 DEF Tick, LedgerInv, Counted, Running, Deadlines, Condemned, ProbesOnly
<1>7. CASE UNCHANGED vars
  BY <1>0, <1>7 DEF vars, LedgerInv, Counted, Running, Deadlines, Condemned, ProbesOnly
<1> QED
  BY <1>1, <1>2, <1>3, <1>4, <1>5, <1>6, <1>7 DEF Next

\* LedgerInv is an invariant of the run ledger.
THEOREM LedgerInvariant == Spec => []LedgerInv
BY InitInv, LedgerStep, PTL DEF Spec

-----------------------------------------------------------------------------
(* The properties that follow.                                             *)

\* The only step that changes the attempt to another one is a checkpoint.
LEMMA OnlyCheckpointStarts ==
  ASSUME LedgerInv, [Next]_vars, ledger'.attempt \notin {ledger.attempt, NoAttempt}
  PROVE  \E k \in Kinds, r \in Requests :
           /\ Checkpoint(k, r)
           /\ ledger'.attempt = BeginAttempt(ledger, k, r)
<1> USE DEF LedgerInv, TypeOK
<1>1. ASSUME Pause \/ Resume PROVE FALSE
  BY <1>1, PauseResumeFields DEF Pause, Resume, Write
<1>2. ASSUME CompleteAny PROVE FALSE
  <2>1. PICK a \in started : \E n \in Successors(a.transition),
                                u \in UsageOf(a.transition) : Complete(a, n, u)
    BY <1>2 DEF CompleteAny
  <2>2. PICK n \in Successors(a.transition), u \in UsageOf(a.transition) :
          Complete(a, n, u)
    BY <2>1
  <2>3. n \in TransitionKind /\ u \in Nat
    BY <2>1, <2>2, SuccessorType, UsageType DEF Attempt
  <2> QED
    BY <2>2, <2>3, CompleteFields DEF Complete, Write
<1>3. ASSUME FailAny PROVE FALSE
  <2>1. PICK a \in started, c \in FailureCode, d \in RetryDelays : Fail(a, c, d)
    BY <1>3 DEF FailAny
  <2>2. ledger' = AfterFail(ledger, c, d, clock)
    BY <2>1 DEF Fail, Write
  <2> QED
    BY <2>2, FailFields
<1>4. ASSUME Tick \/ UNCHANGED vars PROVE FALSE
  BY <1>4 DEF Tick, vars
<1>5. CheckpointAny
  BY <1>1, <1>2, <1>3, <1>4 DEF Next
<1>6. PICK k \in Kinds, r \in Requests : Checkpoint(k, r)
  BY <1>5 DEF CheckpointAny
<1>7. ledger' = AfterCheckpoint(ledger, k, r)
  BY <1>6 DEF Checkpoint, Write
<1>8. ledger'.attempt = BeginAttempt(ledger, k, r)
  BY <1>7, CheckpointFields
<1> QED
  BY <1>6, <1>8

\* No attempt id is ever used twice (checkpointAttempt, beginAttempt).
THEOREM AttemptIdsAreFresh == Spec => AttemptIdsFresh
<1>1. LedgerInv /\ [Next]_vars =>
        [ledger'.attempt \notin {ledger.attempt, NoAttempt}
           => ledger'.attempt \notin started]_vars
  BY OnlyCheckpointStarts, FreshAttempt DEF Checkpoint
<1> QED
  BY <1>1, LedgerInvariant, PTL DEF Spec, AttemptIdsFresh

\* No attempt starts before its deadline (checkpointAttempt, resumeRun).
THEOREM BackoffIsRespected == Spec => RetriesRespectBackoff
<1>1. LedgerInv /\ [Next]_vars =>
        [ledger'.attempt \notin {ledger.attempt, NoAttempt} => clock >= embargo]_vars
  BY OnlyCheckpointStarts, StartFacts DEF Checkpoint
<1> QED
  BY <1>1, LedgerInvariant, PTL DEF Spec, RetriesRespectBackoff

\* A condemned run starts nothing (failAttempt, completeAttempt, resumeRun).
THEOREM CondemnedIsFinal == Spec => CondemnedStartsNothing
<1>1. LedgerInv /\ [Next]_vars =>
        [condemned => ledger'.attempt \in {ledger.attempt, NoAttempt}]_vars
  BY OnlyCheckpointStarts, StartFacts DEF Checkpoint
<1> QED
  BY <1>1, LedgerInvariant, PTL DEF Spec, CondemnedStartsNothing

\* The attempts really started stay within both budgets (checkpointAttempt).
THEOREM BudgetsAreKept == Spec => []BudgetsHold
<1>1. LedgerInv => BudgetsHold
  BY DEF LedgerInv, Valid, AccountsValid, Counted, BudgetsHold
<1> QED
  BY <1>1, LedgerInvariant, PTL

\* With a tripped circuit, only a probe runs (checkpointAttempt, decideRetry).
THEOREM ProbesOnlyHolds == Spec => []ProbesOnly
<1>1. LedgerInv => ProbesOnly
  BY DEF LedgerInv
<1> QED
  BY <1>1, LedgerInvariant, PTL

-----------------------------------------------------------------------------
(* What an operation writes passes the validator.                          *)

\* The validator's account of the attempts reads two fields only.
LEMMA AccountsKept ==
  ASSUME LedgerInv, NEW m, m.attempts = ledger.attempts, m.total = ledger.total
  PROVE  AccountsValid(m)
BY DEF LedgerInv, Valid, AccountsValid, AttemptSlots

\* A checkpoint takes exactly one slot more.
LEMMA CheckpointAccounts ==
  ASSUME LedgerInv, NEW k \in Kinds, NEW r \in Requests,
         CanCheckpoint(ledger, clock, k)
  PROVE  AccountsValid(AfterCheckpoint(ledger, k, r))
<1> DEFINE m == AfterCheckpoint(ledger, k, r)
           slot == <<k, ledger.attempts[k] + 1>>
<1>1. ledger \in Ledger /\ ledger.attempts \in [Kinds -> Nat] /\ ledger.total \in Nat
  BY DEF LedgerInv, TypeOK, Ledger
<1>2. /\ m.attempts = [ledger.attempts EXCEPT ![k] = ledger.attempts[k] + 1]
      /\ m.total = ledger.total + 1
  BY <1>1, CheckpointFields
<1>3. ledger.attempts[k] < MaxTotal /\ ledger.total < MaxTotal /\ MaxTotal \in Nat
  BY FreshAttempt, BudgetAssumption DEF CanCheckpoint
<1> HIDE DEF m
<1>4. \A j \in Kinds : m.attempts[j] =
        IF j = k THEN ledger.attempts[k] + 1 ELSE ledger.attempts[j]
  BY <1>1, <1>2
<1>5. AttemptSlots(m) = AttemptSlots(ledger) \cup {slot}
  <2>1. slot \in Kinds \X (1..MaxTotal)
    BY <1>1, <1>3
  <2>2. ASSUME NEW j \in Kinds, NEW i \in 1..MaxTotal
        PROVE  i <= m.attempts[j] <=> i <= ledger.attempts[j] \/ <<j, i>> = slot
    <3>1. ledger.attempts[j] \in Nat /\ i \in Nat
      BY <1>1
    <3> QED
      BY <1>4, <3>1
  <2> QED
    BY <2>1, <2>2 DEF AttemptSlots
<1>6. IsFiniteSet(AttemptSlots(ledger))
  <2>1. IsFiniteSet(1..MaxTotal)
    BY <1>3, FS_Interval
  <2>2. IsFiniteSet(Kinds \X (1..MaxTotal))
    BY <2>1, KindsAssumption, FS_Product
  <2> QED
    BY <2>2, FS_Subset DEF AttemptSlots
<1>7. slot \notin AttemptSlots(ledger)
  BY <1>1 DEF AttemptSlots
<1>8. Cardinality(AttemptSlots(ledger)) = ledger.total
  BY DEF LedgerInv, Valid, AccountsValid
<1>9. Cardinality(AttemptSlots(m)) = m.total
  BY <1>2, <1>5, <1>6, <1>7, <1>8, FS_AddElement
<1>10. \A j \in Kinds : m.attempts[j] <= MaxTotal
  BY <1>1, <1>3, <1>4 DEF LedgerInv, Valid, AccountsValid
<1> QED
  BY <1>1, <1>2, <1>3, <1>9, <1>10 DEF AccountsValid, m

\* A paused ledger is valid whenever the running one was.
LEMMA PauseValid ==
  ASSUME LedgerInv
  PROVE  Valid(AfterPause(ledger))
<1> DEFINE m == AfterPause(ledger)
<1>1. ledger \in Ledger /\ clock \in Nat
  BY DEF LedgerInv, TypeOK
<1>2. m.paused /\ m.status = "PAUSED"
  BY <1>1 DEF AfterPause, Ledger
<1>3. /\ m.attempt = ledger.attempt /\ m.attempts = ledger.attempts
      /\ m.total = ledger.total /\ m.failures = ledger.failures
  BY <1>1, PauseResumeFields
<1>4. /\ m.retryAt = ledger.retryAt /\ m.circuit = ledger.circuit
      /\ m.opened = ledger.opened /\ m.code = ledger.code
  BY <1>1, PauseResumeFields
<1>5. AccountsValid(m)
  BY <1>3, AccountsKept
<1> HIDE DEF m
<1>6. StateValid(m)
  BY <1>2, <1>3, <1>4 DEF LedgerInv, Valid, StateValid, RetryValid
<1> QED
  BY <1>5, <1>6 DEF Valid, m

\* A started attempt leaves a valid ledger.
LEMMA CheckpointValid ==
  ASSUME LedgerInv, NEW k \in Kinds, NEW r \in Requests,
         CanCheckpoint(ledger, clock, k)
  PROVE  Valid(AfterCheckpoint(ledger, k, r))
<1> DEFINE m == AfterCheckpoint(ledger, k, r)
           a == BeginAttempt(ledger, k, r)
<1>1. ledger \in Ledger /\ ledger.attempts \in [Kinds -> Nat]
  BY DEF LedgerInv, TypeOK, Ledger
<1>2. m.status = "ACTIVE" /\ m.paused = ledger.paused
  BY <1>1, CheckpointFields
<1>3. m.attempt = a /\ m.attempts = [ledger.attempts EXCEPT ![k] = ledger.attempts[k] + 1]
  BY <1>1, CheckpointFields
<1>4. m.failures = ledger.failures /\ m.retryAt = NoTime /\ m.code = ledger.code
  BY <1>1, CheckpointFields
<1>5. /\ ledger.circuit = "OPEN" => m.circuit = "HALF_OPEN"
      /\ ledger.circuit # "OPEN" => m.circuit = ledger.circuit
      /\ m.opened = ledger.opened
  BY <1>1, CheckpointFields
<1>6. a.transition = k /\ a.number = ledger.attempts[k] + 1 /\ a # NoAttempt
  BY <1>1, FreshAttempt, NullAssumption
<1>7. ~ledger.paused
  BY DEF CanCheckpoint, MayCheckpoint
<1>8. RetryValid(ledger)
  BY DEF LedgerInv, Valid, StateValid
<1> HIDE DEF m, a
<1>9. RetryValid(m)
  BY <1>4, <1>5, <1>8 DEF RetryValid
<1>10. m.attempts[m.attempt.transition] = m.attempt.number
  BY <1>1, <1>3, <1>6
<1>11. StateValid(m)
  BY <1>2, <1>3, <1>6, <1>7, <1>9, <1>10 DEF StateValid
<1> QED
  BY <1>11, CheckpointAccounts DEF Valid, m

\* A recorded result leaves a valid ledger, paused or not, overspent or not.
LEMMA CompleteValid ==
  ASSUME LedgerInv, NEW n \in TransitionKind \ {"DONE"}, NEW u \in Nat
  PROVE  Valid(AfterComplete(ledger, n, u))
<1> DEFINE m == AfterComplete(ledger, n, u)
<1>1. ledger \in Ledger /\ ledger.turns \in Nat /\ MaxTurns \in Nat
  BY BudgetAssumption DEF LedgerInv, TypeOK, Ledger
<1>2. m.status = CompletedStatus(ledger, n, u) /\ m.paused = ledger.paused
  BY <1>1, CompleteFields
<1>3. m.attempt = NoAttempt /\ m.attempts = ledger.attempts /\ m.total = ledger.total
  BY <1>1, CompleteFields
<1>4. m.failures = 0 /\ m.retryAt = NoTime /\ m.code = "NONE"
  BY <1>1, CompleteFields
<1>5. m.next = n /\ m.turns = ledger.turns + u /\ m.circuit = "CLOSED" /\ ~m.opened
  BY <1>1, CompleteFields
<1>6. AccountsValid(m)
  BY <1>3, AccountsKept
<1> HIDE DEF m
<1>7. m.paused <=> m.status = "PAUSED"
  BY <1>2 DEF CompletedStatus
<1>8. RetryValid(m)
  BY <1>4, <1>5 DEF RetryValid
<1>9. ~m.paused => IdleValid(m)
  BY <1>2, <1>4, <1>5 DEF IdleValid, CompletedStatus, Overspent
<1> QED
  BY <1>3, <1>6, <1>7, <1>8, <1>9 DEF Valid, StateValid, m

\* A recorded failure leaves a valid ledger, whatever decideRetry decides.
LEMMA FailValid ==
  ASSUME LedgerInv, ledger.attempt # NoAttempt,
         NEW c \in FailureCode, NEW d \in RetryDelays
  PROVE  Valid(AfterFail(ledger, c, d, clock))
<1> DEFINE m == AfterFail(ledger, c, d, clock)
           o == DecideRetry(ledger, c, clock)
<1>1. ledger \in Ledger /\ ledger.failures \in Nat /\ clock \in Nat
  BY DEF LedgerInv, TypeOK, Ledger
<1>2. m.status = FailedStatus(ledger, o) /\ m.paused = ledger.paused /\ m.next = ledger.next
  BY <1>1, FailFields
<1>3. m.attempt = NoAttempt /\ m.attempts = ledger.attempts /\ m.total = ledger.total
  BY <1>1, FailFields
<1>4. /\ m.failures = ledger.failures + 1 /\ m.code = c
      /\ m.retryAt = FailedRetryAt(o, d, clock)
  BY <1>1, FailFields
<1>5. /\ o = "CIRCUIT_OPEN" => m.circuit = "OPEN" /\ m.opened
      /\ o # "CIRCUIT_OPEN" => m.circuit = ledger.circuit /\ m.opened = ledger.opened
  BY <1>1, FailFields
<1>6. m.turns = ledger.turns
  BY <1>1, FailFields
<1>7. o \in {"TERMINAL", "CIRCUIT_OPEN", "RETRY"}
  BY DecisionType
<1>8. AccountsValid(m)
  BY <1>3, AccountsKept
<1>9. RetryValid(ledger) /\ ledger.retryAt = NoTime /\ ledger.next # "DONE"
      /\ ~Overspent(ledger)
  BY DEF LedgerInv, Valid, StateValid, Running, Condemned
<1>10. ledger.circuit # "OPEN"
  BY <1>9 DEF RetryValid
<1> HIDE DEF m, o
<1>11. /\ o = "TERMINAL" <=> m.retryAt = NoTime
       /\ m.failures # 0 /\ m.code # "NONE"
  BY <1>1, <1>4, <1>7, NullAssumption, DelayAssumption DEF FailedRetryAt, FailureCode
<1>12. m.paused <=> m.status = "PAUSED"
  BY <1>2 DEF FailedStatus
<1>13. RetryValid(m)
  BY <1>5, <1>9, <1>10, <1>11 DEF RetryValid
<1>14. ~m.paused => IdleValid(m)
  BY <1>2, <1>6, <1>9, <1>11 DEF IdleValid, FailedStatus, Overspent
<1> QED
  BY <1>3, <1>8, <1>12, <1>13, <1>14 DEF Valid, StateValid, m

\* A resumed ledger is valid unless the run is idle with an expired deadline.
LEMMA ResumeValid ==
  ASSUME LedgerInv,
         ledger.attempt = NoAttempt /\ ledger.retryAt # NoTime => WaitsUntil(ledger, clock)
  PROVE  Valid(AfterResume(ledger, clock))
<1> DEFINE m == AfterResume(ledger, clock)
           s == RestoredStatus(ledger, clock)
<1>1. ledger \in Ledger /\ clock \in Nat
  BY DEF LedgerInv, TypeOK
<1>2. ~m.paused /\ m.status = s
  BY <1>1 DEF AfterResume, Ledger
<1>3. /\ m.attempt = ledger.attempt /\ m.attempts = ledger.attempts
      /\ m.total = ledger.total /\ m.failures = ledger.failures
  BY <1>1, PauseResumeFields
<1>4. /\ m.retryAt = ledger.retryAt /\ m.circuit = ledger.circuit
      /\ m.opened = ledger.opened /\ m.code = ledger.code
      /\ m.next = ledger.next /\ m.turns = ledger.turns
  BY <1>1, PauseResumeFields
<1>5. AccountsValid(m)
  BY <1>3, AccountsKept
<1>6. RetryValid(ledger) /\ ledger.next # "DONE"
  BY DEF LedgerInv, Valid, StateValid, Condemned
<1>7. ledger.attempt # NoAttempt =>
        s = "ACTIVE" /\ ledger.attempts[ledger.attempt.transition] = ledger.attempt.number
  BY DEF LedgerInv, Valid, StateValid, RestoredStatus
<1>8. s # "PAUSED"
  BY <1>1, RestoredStatusType
<1>9. ASSUME ledger.attempt = NoAttempt
      PROVE  IdleValid(m)
  <2>1. s = IF Overspent(ledger) \/ (ledger.code # "NONE" /\ ledger.retryAt = NoTime)
            THEN "BLOCKED"
            ELSE IF WaitsUntil(ledger, clock) \/ ledger.next \in WaitKinds
            THEN "WAITING" ELSE "ACTIVE"
    BY <1>6, <1>9 DEF RestoredStatus
  <2>2. ledger.retryAt # NoTime => WaitsUntil(ledger, clock) /\ ~Overspent(ledger)
    <3>1. Overspent(ledger) => ledger.retryAt = NoTime
      BY DEF LedgerInv, Condemned
    <3> QED
      BY <1>9, <3>1
  <2> HIDE DEF s, m
  <2> QED
    BY <1>2, <1>4, <1>6, <2>1, <2>2 DEF IdleValid, Overspent
<1> HIDE DEF s, m
<1>10. StateValid(m)
  BY <1>2, <1>3, <1>4, <1>6, <1>7, <1>8, <1>9 DEF StateValid, RetryValid
<1> QED
  BY <1>5, <1>10 DEF Valid, m

\* Every pause, checkpoint, result and failure can be recorded (writeRunLedger).
THEOREM WritesAreAccepted == Spec => []WritesAccepted
<1>1. LedgerInv => WritesAccepted
  <2> SUFFICES ASSUME LedgerInv
               PROVE  WritesAccepted
    OBVIOUS
  <2>1. ASSUME ledger.attempt # NoAttempt,
               NEW n \in Successors(ledger.attempt.transition),
               NEW u \in UsageOf(ledger.attempt.transition)
        PROVE  Valid(AfterComplete(ledger, n, u))
    <3>1. ledger.attempt.transition \in Kinds
      BY <2>1 DEF LedgerInv, TypeOK, Ledger, Attempt
    <3>2. n \in TransitionKind \ {"DONE"} /\ u \in Nat
      BY <2>1, <3>1, SuccessorType, UsageType
    <3> QED
      BY <3>2, CompleteValid
  <2> QED
    BY <2>1, PauseValid, CheckpointValid, FailValid DEF WritesAccepted
<1> QED
  BY <1>1, LedgerInvariant, PTL

\* The one refused resume is the idle run whose deadline is over (resumeRun).
THEOREM ResumeIsAccepted == Spec => []ResumeAcceptedWhileWaiting
<1>1. LedgerInv => ResumeAcceptedWhileWaiting
  BY ResumeValid DEF ResumeAcceptedWhileWaiting
<1> QED
  BY <1>1, LedgerInvariant, PTL

-----------------------------------------------------------------------------
(* The run that drives the ledger.                                         *)

\* The transitions the runner starts, one by one.
LEMMA KindList ==
  /\ Kinds = {"REGISTER_WEB_PACK", "EXECUTE_REGISTERED_PACK", "PUBLISH",
              "OPEN_DRAFT_PR", "PACKAGE_RESULT", "WAIT_WEB_VERDICT", "REVISE"}
  /\ PackKinds \subseteq Kinds
BY RunnerKindsAssumption DEF TransitionKind, PackKinds

-----------------------------------------------------------------------------
(* What is planned is a transition of the ledger, with a sealed payload.   *)

\* The plan works on the selected pack only where there is one.
LEMMA PlannedPack == Planned \in PackKinds => selected # NoPack
<1>1. PlanReviewed \in {"WAIT_HUMAN", "WAIT_WEB_VERDICT", "REVISE"}
  BY DEF PlanReviewed
<1> QED
  BY <1>1 DEF Planned, PackKinds

\* Only the seven transitions of the runner have a payload, and it is one the
\* ledger seals (runNextTransition).
LEMMA PlannedPayload ==
  ASSUME selected \in Packs \cup {NoPack}, NEW request \in PayloadsOf(Planned)
  PROVE  Planned \in Kinds /\ request \in Requests
<1> DEFINE k == Planned
<1>1. CASE k \in PackKinds
  <2>1. selected \in Packs
    BY <1>1, PlannedPack
  <2>2. request = PackRequest(selected)
    BY <1>1 DEF PayloadsOf, PackKinds
  <2> QED
    BY <1>1, <2>1, <2>2, KindList, PayloadAssumption DEF Payload
<1>2. CASE k = "REGISTER_WEB_PACK"
  BY <1>2, KindList, PayloadAssumption DEF PayloadsOf, Payload
<1>3. CASE k = "WAIT_WEB_VERDICT"
  BY <1>3, KindList, PayloadAssumption DEF PayloadsOf, Payload
<1>4. CASE k = "REVISE"
  BY <1>4, KindList, PayloadAssumption DEF PayloadsOf, Payload
<1>5. CASE k \notin PackKinds \cup {"REGISTER_WEB_PACK", "WAIT_WEB_VERDICT", "REVISE"}
  BY <1>5 DEF PayloadsOf, PackKinds
<1> QED
  BY <1>1, <1>2, <1>3, <1>4, <1>5

\* A sealed payload names a pack or none.
LEMMA PayloadPack == \A r \in Requests : r.pack \in Packs \cup {NoPack}
BY PayloadAssumption DEF Payload, PackRequest, VerdictRequest, RevisionRequest

\* What a settled attempt names next is what the ledger module allows.
LEMMA NextIsSuccessor ==
  ASSUME NEW a, a.transition \in Kinds
  PROVE  NextOf(a) \in Successors(a.transition)
<1>1. CASE a.transition = "REGISTER_WEB_PACK"
  BY <1>1 DEF NextOf, Successors
<1>2. CASE a.transition = "EXECUTE_REGISTERED_PACK"
  BY <1>2 DEF NextOf, Successors
<1>3. CASE a.transition = "PUBLISH"
  BY <1>3 DEF NextOf, Successors
<1>4. CASE a.transition = "OPEN_DRAFT_PR"
  BY <1>4 DEF NextOf, Successors
<1>5. CASE a.transition = "PACKAGE_RESULT"
  BY <1>5 DEF NextOf, Successors
<1>6. CASE a.transition = "WAIT_WEB_VERDICT"
  BY <1>6 DEF NextOf, Successors
<1>7. CASE a.transition = "REVISE"
  BY <1>7 DEF NextOf, Successors
<1> QED
  BY <1>1, <1>2, <1>3, <1>4, <1>5, <1>6, <1>7, KindList

-----------------------------------------------------------------------------
(* Every step of a run is a step of its ledger.                            *)

\* The attempt in progress was started, and its id is well formed.
LEMMA AttemptStarted ==
  ASSUME LedgerInv, ledger.attempt # NoAttempt
  PROVE  ledger.attempt \in started /\ ledger.attempt.transition \in Kinds
<1>1. ledger.attempt \in started
  BY DEF LedgerInv, Running
<1> QED
  BY <1>1 DEF LedgerInv, TypeOK, Attempt

\* completeAttempt, by the runner or by a recovery.
LEMMA SettleStep ==
  ASSUME LedgerInv, ledger.attempt # NoAttempt, SettleAttempt
  PROVE  CompleteAny
<1> DEFINE a == ledger.attempt
<1>1. PICK u \in UsageOf(a.transition) : Complete(a, NextOf(a), u)
  BY DEF SettleAttempt
<1>2. a \in started /\ NextOf(a) \in Successors(a.transition)
  BY AttemptStarted, NextIsSuccessor
<1> QED
  BY <1>1, <1>2 DEF CompleteAny

\* failAttempt, from the catch block of the runner.
LEMMA FailStepOfRun ==
  ASSUME LedgerInv, Carried, FailAttempt
  PROVE  FailAny
<1>1. ledger.attempt \in started
  BY AttemptStarted DEF Carried, FailAttempt
<1>2. \E c \in FailureCode, d \in RetryDelays : Fail(ledger.attempt, c, d)
  BY DEF FailAttempt
<1> QED
  BY <1>1, <1>2 DEF FailAny

\* checkpointAttempt; a re-entered attempt leaves the ledger as it is.
LEMMA CheckpointStepOfRun ==
  ASSUME Carried, CheckpointPlan
  PROVE  CheckpointAny \/ UNCHANGED vars
<1>1. plan.kind \in Kinds /\ plan.request \in Requests
  BY DEF Carried, CheckpointPlan
<1> QED
  BY <1>1 DEF CheckpointPlan, CheckpointAny

\* The refinement step: a step of a driven run, with or without the direct
\* commands of the operator, is a step of the ledger module or leaves it alone.
LEMMA LedgerStepOfRun ==
  ASSUME LedgerInv, Carried, [ONext]_runVars
  PROVE  [Next]_vars
<1>1. CASE RecoverAdopt
  BY <1>1, SettleStep DEF RecoverAdopt, Next
<1>2. CASE CheckpointPlan
  BY <1>2, CheckpointStepOfRun DEF Next
<1>3. CASE Settle
  BY <1>3, SettleStep DEF Settle, Carried, Next
<1>4. CASE FailAttempt
  BY <1>4, FailStepOfRun DEF Next
<1>5. CASE Control
  BY <1>5 DEF Control, Next
<1>6. CASE RecoverNothing \/ PlanNext \/ PlanNothing \/ CheckpointRefused
  BY <1>6 DEF RecoverNothing, PlanNext, PlanNothing, CheckpointRefused
<1>7. CASE Register \/ Execute \/ Publish \/ OpenDraftPr \/ PackageResult
  BY <1>7 DEF Register, Execute, Publish, OpenDraftPr, PackageResult, ThenSettle
<1>8. CASE SubmitVerdict \/ SealVerdict \/ Revise \/ Crash \/ ClearLocks
  BY <1>8 DEF SubmitVerdict, SealVerdict, Revise, Crash, ClearLocks
<1>9. CASE Operator
  BY <1>9 DEF Operator, OperatorBegins, OperatorSeals, OperatorDrops, OperatorRevises
<1>10. CASE UNCHANGED runVars
  BY <1>10 DEF runVars
<1> QED
  BY <1>1, <1>2, <1>3, <1>4, <1>5, <1>6, <1>7, <1>8, <1>9, <1>10 DEF ONext, Continue

-----------------------------------------------------------------------------
(* The invariant of the runner.                                            *)

\* After its checkpoint the runner has an attempt in progress.
LEMMA CheckpointedRun ==
  ASSUME LedgerInv, Carried, CheckpointPlan
  PROVE  Carried'
<1>1. plan.kind \in Kinds /\ plan.request \in Requests
  BY DEF Carried, CheckpointPlan
<1>2. ledger'.attempt # NoAttempt
  <2>1. CASE Checkpoint(plan.kind, plan.request)
    <3> DEFINE a == BeginAttempt(ledger, plan.kind, plan.request)
    <3>1. ledger \in Ledger
      BY DEF LedgerInv, TypeOK
    <3>2. ledger'.attempt = a
      BY <1>1, <2>1, <3>1, CheckpointFields DEF Checkpoint, Write
    <3>3. a \in Attempt
      BY <1>1, <3>1, BeginType
    <3> QED
      BY <3>2, <3>3, NullAssumption
  <2>2. CASE Reenters /\ UNCHANGED vars
    BY <2>2 DEF Reenters, vars
  <2> QED
    BY <2>1, <2>2 DEF CheckpointPlan
<1> QED
  BY <1>1, <1>2 DEF Carried, CheckpointPlan, evidence

\* A pause, a resume and the clock leave the attempt alone.
LEMMA ControlledRun ==
  ASSUME LedgerInv, Carried, Control
  PROVE  Carried'
<1>1. ledger'.attempt = ledger.attempt
  <2>1. ledger \in Ledger /\ clock \in Nat
    BY DEF LedgerInv, TypeOK
  <2>2. CASE Pause
    BY <2>1, <2>2, PauseResumeFields DEF Pause, Write
  <2>3. CASE Resume
    BY <2>1, <2>3, PauseResumeFields DEF Resume, Write
  <2>4. CASE Tick
    BY <2>4 DEF Tick
  <2> QED
    BY <2>2, <2>3, <2>4 DEF Control
<1> QED
  BY <1>1 DEF Carried, Control, orchestration, evidence

\* The plan a continue command works on has a transition and a payload the
\* ledger seals.
LEMMA PlannedRun ==
  ASSUME Carried, PlanNext
  PROVE  Carried'
<1>1. PICK request \in PayloadsOf(Planned) :
        plan' = [kind |-> Planned, request |-> request]
  BY DEF PlanNext
<1>2. Planned \in Kinds /\ request \in Requests
  BY PlannedPayload DEF Carried
<1> QED
  BY <1>1, <1>2 DEF Carried, PlanNext, evidence

\* registerPack selects the pack its attempt was sealed for.
LEMMA RegisteredRun ==
  ASSUME Carried, Register
  PROVE  Carried'
<1>1. plan.request.pack \in Packs \cup {NoPack}
  BY PayloadPack DEF Carried, Register, Acting
<1> QED
  BY <1>1 DEF Carried, Register, ThenSettle, Acting, vars

\* Every step keeps what the runner carries.
LEMMA CarriedStep ==
  ASSUME LedgerInv, Carried, [ONext]_runVars
  PROVE  Carried'
<1>1. CASE RecoverAdopt
  BY <1>1 DEF RecoverAdopt, RepeatEffect, Carried
<1>2. CASE CheckpointPlan
  BY <1>2, CheckpointedRun
<1>3. CASE Settle \/ FailAttempt
  BY <1>3 DEF Settle, FailAttempt, Carried, evidence
<1>4. CASE Control
  BY <1>4, ControlledRun
<1>5. CASE PlanNext
  BY <1>5, PlannedRun
<1>6. CASE RecoverNothing \/ PlanNothing \/ CheckpointRefused
  BY <1>6 DEF RecoverNothing, PlanNothing, CheckpointRefused, Carried, evidence
<1>7. CASE Register
  BY <1>7, RegisteredRun
<1>8. CASE Execute \/ Publish \/ OpenDraftPr \/ PackageResult
  BY <1>8 DEF Execute, Publish, OpenDraftPr, PackageResult, Acting, ThenSettle, Carried, vars
<1>9. CASE SubmitVerdict \/ SealVerdict \/ Revise
  BY <1>9 DEF SubmitVerdict, SealVerdict, Revise, Acting, Carried, vars, evidence
<1>10. CASE Crash \/ ClearLocks
  BY <1>10 DEF Crash, ClearLocks, Carried, evidence
<1>11. CASE Operator
  BY <1>11 DEF Operator, OperatorBegins, OperatorSeals, OperatorDrops, OperatorRevises,
               Carried, vars, evidence
<1>12. CASE UNCHANGED runVars
  BY <1>12 DEF Carried, runVars, orchestration, vars, evidence
<1> QED
  BY <1>1, <1>2, <1>3, <1>4, <1>5, <1>6, <1>7, <1>8, <1>9, <1>10, <1>11, <1>12
     DEF ONext, Continue

-----------------------------------------------------------------------------
(* What follows for a driven run.                                          *)

\* Ledger and runner keep their invariants together (runNextTransition,
\* recoverCompletedAttempt and the direct commands beside them).
THEOREM RunInvariant == OSpec => [](LedgerInv /\ Carried)
<1>1. OInit => LedgerInv /\ Carried
  BY InitInv DEF OInit, Carried
<1>2. LedgerInv /\ Carried /\ [ONext]_runVars => (LedgerInv /\ Carried)'
  BY LedgerStepOfRun, LedgerStep, CarriedStep
<1> QED
  BY <1>1, <1>2, PTL DEF OSpec

\* Every run is a run of the ledger module.
LEMMA RunIsLedgerRun == OSpec => Spec
<1>1. OInit => Init
  BY DEF OInit
<1>2. LedgerInv /\ Carried /\ [ONext]_runVars => [Next]_vars
  BY LedgerStepOfRun
<1> QED
  BY <1>1, <1>2, RunInvariant, PTL DEF OSpec, Spec

\* A run driven by continue commands, with crashes, recoveries and an operator who
\* goes past the ledger, keeps to the ledger module: it implements it.
THEOREM RunKeepsLedger == OSpec => KeepsLedger
<1>1. [Next]_vars => UNCHANGED vars \/ Next
  OBVIOUS
<1> QED
  BY <1>1, RunIsLedgerRun, PTL DEF Spec, KeepsLedger

\* So the attempts of a driven run stay within both budgets.
THEOREM RunKeepsBudgets == OSpec => []BudgetsHold
BY RunIsLedgerRun, BudgetsAreKept, PTL

\* And every report of its outcome is accepted by the validator of the ledger.
THEOREM RunWritesAreAccepted == OSpec => []WritesAccepted
BY RunIsLedgerRun, WritesAreAccepted, PTL
-----------------------------------------------------------------------------
(* What each of the runner's steps does to the ledger.                     *)

\* completeAttempt ends the attempt and counts nothing.
LEMMA SettledLedger ==
  ASSUME LedgerInv, ledger.attempt # NoAttempt, SettleAttempt
  PROVE  ledger'.attempt = NoAttempt /\ ledger'.total = ledger.total
<1> DEFINE a == ledger.attempt
<1>1. PICK u \in UsageOf(a.transition) : Complete(a, NextOf(a), u)
  BY DEF SettleAttempt
<1>2. a.transition \in Kinds /\ ledger \in Ledger
  BY AttemptStarted DEF LedgerInv, TypeOK
<1>3. NextOf(a) \in TransitionKind /\ u \in Nat
  BY <1>2, NextIsSuccessor, SuccessorType, UsageType
<1> QED
  BY <1>1, <1>2, <1>3, CompleteFields DEF Complete, Write

\* failAttempt ends it too, and records why.
LEMMA FailedLedger ==
  ASSUME LedgerInv, FailAttempt
  PROVE  /\ ledger'.attempt = NoAttempt /\ ledger'.total = ledger.total
         /\ ledger'.code # "NONE"
<1>1. PICK c \in FailureCode, d \in RetryDelays : Fail(ledger.attempt, c, d)
  BY DEF FailAttempt
<1>2. ledger' = AfterFail(ledger, c, d, clock)
  BY <1>1 DEF Fail, Write
<1>3. ledger \in Ledger
  BY DEF LedgerInv, TypeOK
<1>4. ledger'.code = c
  BY <1>2, <1>3 DEF AfterFail, Ledger
<1> QED
  BY <1>2, <1>3, <1>4, FailFields DEF FailureCode

\* A pause, a resume and the clock touch neither the attempt nor what is counted.
LEMMA ControlledLedger ==
  ASSUME LedgerInv, Control
  PROVE  ledger'.attempt = ledger.attempt /\ ledger'.total = ledger.total
<1>1. ledger \in Ledger /\ clock \in Nat
  BY DEF LedgerInv, TypeOK
<1>2. CASE Pause
  BY <1>1, <1>2, PauseResumeFields DEF Pause, Write
<1>3. CASE Resume
  BY <1>1, <1>3, PauseResumeFields DEF Resume, Write
<1>4. CASE Tick
  BY <1>4 DEF Tick
<1> QED
  BY <1>2, <1>3, <1>4 DEF Control

\* checkpointAttempt leaves the plan's own attempt in the ledger: a new one, counted,
\* or the one that was there.
LEMMA CheckpointedLedger ==
  ASSUME LedgerInv, Carried, CheckpointPlan
  PROVE  /\ ledger'.attempt # NoAttempt
         /\ ledger'.attempt.transition = plan.kind /\ ledger'.attempt.request = plan.request
         /\ \/ ledger.attempt = NoAttempt /\ ledger'.total = ledger.total + 1
            \/ ledger' = ledger
<1>1. plan.kind \in Kinds /\ plan.request \in Requests
  BY DEF Carried, CheckpointPlan
<1>2. CASE Checkpoint(plan.kind, plan.request)
  <2> DEFINE a == BeginAttempt(ledger, plan.kind, plan.request)
  <2>1. ledger \in Ledger
    BY DEF LedgerInv, TypeOK
  <2>2. ledger'.attempt = a /\ ledger'.total = ledger.total + 1
    BY <1>1, <1>2, <2>1, CheckpointFields DEF Checkpoint, Write
  <2>3. a \in Attempt /\ a.transition = plan.kind /\ a.request = plan.request
    BY <1>1, <2>1, BeginType DEF BeginAttempt
  <2>4. ledger.attempt = NoAttempt
    BY <1>2 DEF Checkpoint, CanCheckpoint
  <2> QED
    BY <2>2, <2>3, <2>4, NullAssumption
<1>3. CASE Reenters /\ UNCHANGED vars
  BY <1>3 DEF Reenters, vars
<1> QED
  BY <1>2, <1>3 DEF CheckpointPlan

-----------------------------------------------------------------------------
(* The evidence a transition is planned on, and what recovery makes of it. *)

\* Whatever is planned rests on the evidence the snapshot found.
LEMMA PlannedGrounded ==
  ASSUME OTypeOK, NEW request \in PayloadsOf(Planned)
  PROVE  /\ Grounded(Planned, request)
         /\ Planned = "EXECUTE_REGISTERED_PACK" => executor[selected] = "NONE"
<1>1. PlanReviewed \in {"WAIT_HUMAN", "WAIT_WEB_VERDICT", "REVISE"}
  BY DEF PlanReviewed
<1>2. CASE Planned \in PackKinds
  <2>1. selected \in Packs
    BY <1>2, PlannedPack DEF OTypeOK
  <2>2. request = PackRequest(selected)
    BY <1>2 DEF PayloadsOf, PackKinds
  <2>3. executor[selected] \in {"READY_FOR_PUBLISH", "ESCALATE_TO_WEB", "FAILED", "NONE"}
    BY <2>1 DEF OTypeOK, ExecutorEnd
  <2>4. Planned = "PUBLISH" => executor[selected] = "READY_FOR_PUBLISH"
    BY <1>1, <2>1, <2>3 DEF Planned
  <2>5. Planned = "OPEN_DRAFT_PR" => selected \in published
    BY <1>1 DEF Planned, PublishCurrent
  <2>6. Planned = "PACKAGE_RESULT" => selected \in drafted
    BY <1>1 DEF Planned, PublishCurrent, DraftCurrent
  <2>7. Planned = "EXECUTE_REGISTERED_PACK" => executor[selected] = "NONE"
    BY <1>1 DEF Planned
  <2>8. request \in Shape(Planned)
    BY <1>2, <2>1, <2>2 DEF Shape, PackKinds
  <2> QED
    BY <2>2, <2>4, <2>5, <2>6, <2>7, <2>8 DEF Grounded
<1>3. CASE Planned \in {"REGISTER_WEB_PACK", "WAIT_WEB_VERDICT", "REVISE"}
  BY <1>3 DEF PayloadsOf, Grounded, Shape, PackKinds
<1>4. CASE Planned \notin PackKinds \cup {"REGISTER_WEB_PACK", "WAIT_WEB_VERDICT", "REVISE"}
  BY <1>4 DEF PayloadsOf, PackKinds
<1> QED
  BY <1>2, <1>3, <1>4

\* A grounded attempt of a pack is never refused by recovery (assertSealedRequest).
LEMMA GroundedIsNotRefused ==
  ASSUME LedgerInv, OTypeOK, AttemptGrounded
  PROVE  PackRecoveryNeverConflicts
<1> SUFFICES ASSUME ledger.attempt # NoAttempt,
                    ledger.attempt.transition \notin {"WAIT_WEB_VERDICT", "REVISE"}
             PROVE  ~RecoveryConflict(ledger.attempt)
  BY DEF PackRecoveryNeverConflicts
<1>1. ledger.attempt.transition \in Kinds
  BY AttemptStarted
<1>2. CASE ledger.attempt.transition \in PackKinds
  BY <1>2 DEF RecoveryConflict, AttemptGrounded, Grounded, PackKinds
<1>3. CASE ledger.attempt.transition = "REGISTER_WEB_PACK"
  <2>1. selectedAt \in Nat /\ ledger.total \in Nat
    BY DEF OTypeOK, TypeOK, Ledger
  <2> QED
    BY <1>3, <2>1 DEF RecoveryConflict, AttemptGrounded, SelectedSince, PackKinds
<1> QED
  BY <1>1, <1>2, <1>3, KindList DEF PackKinds

\* What recovery adopts was done, once it has repeated a Draft PR or a bundle.
LEMMA AdoptedIsDone ==
  ASSUME LedgerInv, RunInv, RecoverAdopt
  PROVE  \A a \in {ledger.attempt} : Done(a)'
<1> DEFINE a == ledger.attempt
<1>1. a.transition \in Kinds
  BY AttemptStarted DEF RecoverAdopt
<1>2. Grounded(a.transition, a.request) /\ ~RecoveryConflict(a) /\ Adoptable(a)
  BY DEF RunInv, AttemptGrounded, RecoverAdopt
<1>3. /\ selected' = selected /\ executor' = executor /\ published' = published
      /\ review' = review /\ revision' = revision
  BY DEF RecoverAdopt, RepeatEffect, reviews
<1>4. CASE a.transition \in PackKinds
  <2>1. a.request = PackRequest(selected) /\ a.request.pack = selected
    BY <1>2, <1>4 DEF Grounded, PackRequest
  <2>2. a.transition = "OPEN_DRAFT_PR" => selected \in drafted'
    BY DEF RecoverAdopt, RepeatEffect
  <2>3. a.transition = "PACKAGE_RESULT" => result' = selected
    BY DEF RecoverAdopt, RepeatEffect
  <2> QED
    BY <1>2, <1>3, <1>4, <2>1, <2>2, <2>3 DEF Done, Adoptable, PackKinds
<1>5. CASE a.transition = "REGISTER_WEB_PACK"
  <2>1. a.request = PackRequest(selected)
    BY <1>2, <1>5 DEF RecoveryConflict, Adoptable, PackKinds
  <2>2. a.request.pack = selected
    BY <2>1 DEF PackRequest
  <2> QED
    BY <1>3, <1>5, <2>2 DEF Done
<1>6. CASE a.transition = "WAIT_WEB_VERDICT"
  <2>1. LatestSealed /\ a.request = VerdictRequest(LatestVerdict)
    BY <1>2, <1>6 DEF RecoveryConflict, Adoptable, PackKinds
  <2>2. PICK v \in Verdict : a.request = VerdictRequest(v)
    BY <1>2, <1>6 DEF Grounded, Shape, PackKinds
  <2>3. /\ a.request.round = LatestReview /\ LatestReview \in Rounds
        /\ a.request.decision = review[LatestReview].decision
    BY <2>1, <2>2 DEF VerdictRequest, LatestVerdict, Verdict
  <2>4. review[LatestReview].state = TerminalOf(review[LatestReview].decision)
    BY <2>1, <2>3 DEF LatestSealed, RunInv, ReviewsFit
  <2> QED
    BY <1>3, <1>6, <2>3, <2>4 DEF Done
<1>7. CASE a.transition = "REVISE"
  BY <1>2, <1>3, <1>7 DEF Done, Adoptable, PackKinds
<1> QED
  BY <1>1, <1>4, <1>5, <1>6, <1>7, KindList DEF PackKinds

\* A transition of the runner that works on a pack works on the selected one.
LEMMA GroundedPack ==
  ASSUME NEW k, NEW request, Grounded(k, request), k \in PackKinds
  PROVE  selected \in Packs /\ request.pack = selected
<1>1. PICK p \in Packs : request = PackRequest(p)
  BY DEF Grounded, Shape, PackKinds
<1>2. request = PackRequest(selected)
  BY DEF Grounded
<1> QED
  BY <1>1, <1>2 DEF PackRequest

\* The round of a verdict or of a revision is one of the rounds.
LEMMA GroundedRound ==
  ASSUME NEW k, NEW request, Grounded(k, request), k \in {"WAIT_WEB_VERDICT", "REVISE"}
  PROVE  /\ request.round \in Rounds
         /\ k = "WAIT_WEB_VERDICT" => request.decision \in Decision
<1>1. CASE k = "WAIT_WEB_VERDICT"
  <2>1. PICK v \in Verdict : request = VerdictRequest(v)
    BY <1>1 DEF Grounded, Shape, PackKinds
  <2> QED
    BY <1>1, <2>1 DEF VerdictRequest, Verdict
<1>2. CASE k = "REVISE"
  <2>1. PICK r \in Rounds : request = RevisionRequest(r)
    BY <1>2 DEF Grounded, Shape, PackKinds
  <2> QED
    BY <1>2, <2>1 DEF RevisionRequest
<1> QED
  BY <1>1, <1>2

\* registerPack is given a pack.
LEMMA GroundedRegistration ==
  ASSUME NEW request, Grounded("REGISTER_WEB_PACK", request)
  PROVE  request.pack \in Packs /\ request = PackRequest(request.pack)
<1>1. PICK p \in Packs : request = PackRequest(p)
  BY DEF Grounded, Shape
<1> QED
  BY <1>1 DEF PackRequest

-----------------------------------------------------------------------------
(* The review of a round, whoever works on it.                             *)

\* What the submission of a verdict, its sealing and a revision do to a round.
ReviewsMove ==
  /\ \A r \in Rounds :
       /\ review[r].state \in TerminalReview => review'[r] = review[r]
       /\ revision[r] = "RESULT_READY" => revision'[r] = "RESULT_READY"
       /\ review[r].state # "NONE" => review'[r].state # "NONE"
       /\ roundLock[r] = "runner" /\ roundLock'[r] = "runner" => review'[r] = review[r]
       /\ review[r].state = "NONE" /\ review'[r].state # "NONE" => BundleReady(r)
       /\ revision[r] = "NONE" /\ revision'[r] # "NONE" => review[r].state = "REVISION_REQUESTED"

ReviewTypes ==
  /\ review \in [Rounds -> [state : TerminalReview \cup {"NONE", "PENDING"},
                            decision : Decision \cup {"NONE"}]]
  /\ roundLock \in [Rounds -> {"free", "runner", "operator"}]
  /\ revision \in [Rounds -> {"NONE", "STARTED", "RESULT_READY"}]

\* validateVerdict and the PENDING receipt, under the lock of the round.
LEMMA BeginSubmitRound ==
  ASSUME ReviewTypes, ReviewsFit, NEW who \in {"runner", "operator"}, NEW v \in Verdict,
         BeginSubmit(who, v), UNCHANGED revision
  PROVE  ReviewTypes' /\ ReviewsFit' /\ ReviewsMove
<1>1. v.round \in Rounds /\ v.decision \in Decision
  BY DEF Verdict
<1>2. review[v.round].state \notin TerminalReview
  BY DEF BeginSubmit, BoundElsewhere, SealedAlready, TerminalReview
<1>3. /\ review' = [review EXCEPT ![v.round] = [state |-> "PENDING", decision |-> v.decision]]
      /\ roundLock' = [roundLock EXCEPT ![v.round] = who]
      /\ roundLock[v.round] = "free" /\ BundleReady(v.round)
  BY DEF BeginSubmit
<1>4. ReviewTypes'
  BY <1>1, <1>3 DEF ReviewTypes
<1>5. ReviewsFit'
  BY <1>1, <1>3 DEF ReviewTypes, ReviewsFit, TerminalReview
<1>6. ReviewsMove
  BY <1>1, <1>2, <1>3 DEF ReviewTypes, ReviewsMove
<1> QED
  BY <1>4, <1>5, <1>6

\* The sealed receipt.
LEMMA SealRound ==
  ASSUME ReviewTypes, ReviewsFit, NEW who \in {"runner", "operator"}, NEW r \in Rounds,
         SealReview(who, r), UNCHANGED revision
  PROVE  /\ ReviewTypes' /\ ReviewsFit' /\ ReviewsMove
         /\ review'[r].decision = review[r].decision
         /\ review'[r].state = TerminalOf(review[r].decision)
<1> DEFINE s == TerminalOf(review[r].decision)
<1>1. s \in TerminalReview
  BY DEF TerminalOf, TerminalReview
<1>2. review[r].state = "PENDING"
  BY DEF SealReview, ReviewsFit
<1>3. /\ review' = [review EXCEPT ![r].state = s]
      /\ roundLock' = [roundLock EXCEPT ![r] = "free"]
  BY DEF SealReview
<1> HIDE DEF s
<1>4. ReviewTypes'
  BY <1>1, <1>3 DEF ReviewTypes
<1>5. review'[r].decision = review[r].decision /\ review'[r].state = s
  BY <1>3 DEF ReviewTypes
<1>6. \A q \in Rounds \ {r} : review'[q] = review[q] /\ roundLock'[q] = roundLock[q]
  BY <1>3 DEF ReviewTypes
<1>7. roundLock'[r] = "free"
  BY <1>3 DEF ReviewTypes
<1>8. ReviewsFit'
  <2> SUFFICES ASSUME NEW q \in Rounds
               PROVE  /\ roundLock'[q] # "free" => review'[q].state = "PENDING"
                      /\ review'[q].state \in TerminalReview =>
                           review'[q].state = TerminalOf(review'[q].decision)
    BY DEF ReviewsFit, TerminalOf
  <2>1. CASE q = r
    BY <1>5, <1>7, <2>1 DEF s
  <2>2. CASE q # r
    BY <1>6, <2>2 DEF ReviewsFit
  <2> QED
    BY <2>1, <2>2
<1>9. ReviewsMove
  BY <1>1, <1>2, <1>5, <1>6, <1>7 DEF ReviewsMove, TerminalReview
<1> QED
  BY <1>4, <1>5, <1>8, <1>9 DEF s

\* An error before the seal frees the round and leaves its receipt.
LEMMA DropRound ==
  ASSUME ReviewTypes, ReviewsFit, NEW who \in {"runner", "operator"}, NEW r \in Rounds,
         DropReview(who, r), UNCHANGED revision
  PROVE  ReviewTypes' /\ ReviewsFit' /\ ReviewsMove
<1>1. review' = review /\ roundLock' = [roundLock EXCEPT ![r] = "free"]
  BY DEF DropReview
<1>2. ReviewTypes'
  BY <1>1 DEF ReviewTypes
<1>3. \A q \in Rounds : roundLock'[q] \in {"free", roundLock[q]}
  BY <1>1 DEF ReviewTypes
<1>4. ReviewsFit'
  BY <1>1, <1>3 DEF ReviewsFit, TerminalOf
<1>5. ReviewsMove
  BY <1>1 DEF ReviewsMove
<1> QED
  BY <1>2, <1>4, <1>5

\* A revision of a round whose review asked for one (reviseRun).
LEMMA ReviseRound ==
  ASSUME ReviewTypes, ReviewsFit, NEW r \in Rounds, NEW s \in {"STARTED", "RESULT_READY"},
         review[r].state = "REVISION_REQUESTED", ReviseTo(r, s), UNCHANGED <<review, roundLock>>
  PROVE  ReviewTypes' /\ ReviewsFit' /\ ReviewsMove
<1>1. revision[r] # "RESULT_READY" /\ revision' = [revision EXCEPT ![r] = s]
  BY DEF ReviseTo
<1>2. ReviewTypes'
  BY <1>1 DEF ReviewTypes
<1>3. ReviewsFit'
  BY DEF ReviewsFit, TerminalOf
<1>4. ReviewsMove
  BY <1>1 DEF ReviewsMove, ReviewTypes
<1> QED
  BY <1>2, <1>3, <1>4

\* Every step of a run does one of these to its reviews, or leaves them alone.
LEMMA ReviewsStep ==
  ASSUME RunInv, [ONext]_runVars
  PROVE  ReviewTypes' /\ ReviewsFit' /\ ReviewsMove
<1>1. ReviewTypes /\ ReviewsFit
  BY DEF RunInv, OTypeOK, ReviewTypes
<1>2. PlanGrounded
  BY DEF RunInv
<1>3. CASE UNCHANGED reviews
  BY <1>1, <1>3 DEF reviews, ReviewTypes, ReviewsFit, ReviewsMove, TerminalOf
<1>4. CASE SubmitVerdict
  <2>1. Grounded("WAIT_WEB_VERDICT", plan.request)
    BY <1>2, <1>4 DEF PlanGrounded, SubmitVerdict, Acting
  <2>2. PlannedVerdict \in Verdict
    BY <2>1, GroundedRound DEF PlannedVerdict, Verdict
  <2>3. CASE BeginSubmit("runner", PlannedVerdict)
    BY <1>1, <1>4, <2>2, <2>3, BeginSubmitRound DEF SubmitVerdict
  <2> QED
    BY <1>3, <1>4, <2>3 DEF SubmitVerdict, reviews
<1>5. CASE SealVerdict
  <2>1. Grounded("WAIT_WEB_VERDICT", plan.request)
    BY <1>2, <1>5 DEF PlanGrounded, SealVerdict
  <2> QED
    BY <1>1, <1>5, <2>1, GroundedRound, SealRound DEF SealVerdict
<1>6. CASE Revise
  <2>1. /\ plan.request.round \in Rounds
        /\ review[plan.request.round].state = "REVISION_REQUESTED"
    BY <1>6, RoundAssumption DEF Revise, RevisionAuthorized, Rounds
  <2>2. CASE UNCHANGED revision
    BY <1>3, <1>6, <2>2 DEF Revise, reviews
  <2> QED
    BY <1>1, <1>6, <2>1, <2>2, ReviseRound DEF Revise
<1>7. CASE FailAttempt
  <2>1. CASE pc = "sealing"
    <3>1. Grounded("WAIT_WEB_VERDICT", plan.request)
      BY <1>2, <2>1 DEF PlanGrounded
    <3> QED
      BY <1>1, <1>7, <2>1, <3>1, GroundedRound, DropRound DEF FailAttempt
  <2> QED
    BY <1>3, <1>7, <2>1 DEF FailAttempt, reviews
<1>8. CASE ClearLocks
  <2>1. /\ review' = review /\ revision' = revision
        /\ roundLock' = [r \in Rounds |-> IF roundLock[r] = "runner" THEN "free" ELSE roundLock[r]]
    BY <1>8 DEF ClearLocks
  <2>2. ReviewTypes'
    BY <1>1, <2>1 DEF ReviewTypes
  <2>3. ReviewsFit'
    BY <1>1, <2>1 DEF ReviewsFit, TerminalOf
  <2> QED
    BY <2>1, <2>2, <2>3 DEF ReviewsMove
<1>9. CASE OperatorBegins
  BY <1>1, <1>9, BeginSubmitRound DEF OperatorBegins
<1>10. CASE OperatorSeals
  BY <1>1, <1>10, SealRound DEF OperatorSeals
<1>11. CASE OperatorDrops
  BY <1>1, <1>11, DropRound DEF OperatorDrops
<1>12. CASE OperatorRevises
  <2>1. PICK r \in 1..(MaxRound - 1), s \in {"STARTED", "RESULT_READY"} :
          review[r].state = "REVISION_REQUESTED" /\ ReviseTo(r, s)
    BY <1>12 DEF OperatorRevises
  <2>2. r \in Rounds
    BY RoundAssumption DEF Rounds
  <2> QED
    BY <1>1, <1>12, <2>1, <2>2, ReviseRound DEF OperatorRevises
<1>13. CASE \/ RecoverAdopt \/ RecoverNothing \/ PlanNext \/ PlanNothing \/ CheckpointPlan
            \/ CheckpointRefused \/ Settle \/ Crash \/ Control \/ UNCHANGED runVars
  BY <1>3, <1>13 DEF RecoverAdopt, RecoverNothing, PlanNext, PlanNothing, CheckpointPlan,
     CheckpointRefused, Settle, Crash, Control, orchestration, runVars
<1>14. CASE Register \/ Execute \/ Publish \/ OpenDraftPr \/ PackageResult
  BY <1>3, <1>14 DEF Register, Execute, Publish, OpenDraftPr, PackageResult, ThenSettle
<1> QED
  BY <1>4, <1>5, <1>6, <1>7, <1>8, <1>9, <1>10, <1>11, <1>12, <1>13, <1>14
     DEF ONext, Continue, Operator

-----------------------------------------------------------------------------
(* The evidence the runner's own effects leave.                            *)

EvidenceTypes ==
  /\ selected \in Packs \cup {NoPack} /\ selectedAt \in Nat
  /\ executor \in [Packs -> ExecutorEnd \cup {"NONE"}]
  /\ published \subseteq Packs /\ drafted \subseteq Packs
  /\ result \in Packs \cup {NoPack}

EvidenceChain ==
  /\ \A p \in published : executor[p] = "READY_FOR_PUBLISH"
  /\ drafted \subseteq published
  /\ result # NoPack => result \in drafted

\* Nothing a receipt says of a pack is taken back.
EvidenceMoves ==
  /\ \A p \in Packs : executor[p] # "NONE" => executor'[p] = executor[p]
  /\ published \subseteq published' /\ drafted \subseteq drafted'
  /\ result # NoPack => result' # NoPack

Effect == Register \/ Execute \/ Publish \/ OpenDraftPr \/ PackageResult \/ RecoverAdopt

\* Only the runner's own effects, and a recovery that repeats one, touch them.
LEMMA EvidenceFrame ==
  ASSUME [ONext]_runVars, ~Effect
  PROVE  UNCHANGED evidence
<1>1. CASE RecoverNothing \/ PlanNext \/ PlanNothing \/ CheckpointPlan \/ CheckpointRefused
  BY <1>1 DEF RecoverNothing, PlanNext, PlanNothing, CheckpointPlan, CheckpointRefused
<1>2. CASE SubmitVerdict \/ SealVerdict \/ Revise \/ Settle \/ FailAttempt
  BY <1>2 DEF SubmitVerdict, SealVerdict, Revise, Settle, FailAttempt
<1>3. CASE Crash \/ ClearLocks \/ Control \/ UNCHANGED runVars
  BY <1>3 DEF Crash, ClearLocks, Control, orchestration, runVars
<1>4. CASE Operator
  BY <1>4 DEF Operator, OperatorBegins, OperatorSeals, OperatorDrops, OperatorRevises
<1> QED
  BY <1>1, <1>2, <1>3, <1>4 DEF ONext, Continue, Effect

\* An effect is caused on the evidence it was planned on, so the chain grows by a
\* link that rests on the one before it.
LEMMA EvidenceStep ==
  ASSUME LedgerInv, RunInv, [ONext]_runVars
  PROVE  EvidenceTypes' /\ EvidenceChain' /\ EvidenceMoves
<1>1. EvidenceTypes /\ EvidenceChain
  BY DEF RunInv, OTypeOK, AuthorityChain, EvidenceTypes, EvidenceChain
<1>2. ASSUME pc = "acting" PROVE Grounded(plan.kind, plan.request)
  BY <1>2 DEF RunInv, PlanGrounded
<1>3. CASE Register
  <2>1. plan.request.pack \in Packs
    BY <1>2, <1>3, GroundedRegistration DEF Register, Acting
  <2>2. ledger.total \in Nat
    BY DEF LedgerInv, TypeOK, Ledger
  <2> QED
    BY <1>1, <1>3, <2>1, <2>2 DEF Register, EvidenceTypes, EvidenceChain, EvidenceMoves
<1>4. CASE Execute
  <2>1. selected \in Packs /\ plan.request.pack = selected
    BY <1>2, <1>4, GroundedPack DEF Execute, Acting, PackKinds
  <2>2. executor[selected] = "NONE"
    BY <1>4 DEF Execute, Acting, RunInv, PlanGrounded
  <2>3. PICK s \in ExecutorEnd : executor' = [executor EXCEPT ![selected] = s]
    BY <1>4, <2>1 DEF Execute
  <2>4. EvidenceTypes'
    BY <1>1, <1>4, <2>3 DEF Execute, EvidenceTypes
  <2>5. \A p \in Packs \ {selected} : executor'[p] = executor[p]
    BY <1>1, <2>3 DEF EvidenceTypes
  <2>6. selected \notin published
    BY <1>1, <2>2 DEF EvidenceChain
  <2>7. published' = published /\ drafted' = drafted /\ result' = result
    BY <1>4 DEF Execute
  <2>8. EvidenceChain'
    BY <1>1, <2>5, <2>6, <2>7 DEF EvidenceChain, EvidenceTypes
  <2> QED
    BY <2>2, <2>4, <2>5, <2>7, <2>8 DEF EvidenceMoves
<1>5. CASE Publish
  <2>1. /\ selected \in Packs /\ plan.request.pack = selected
        /\ executor[selected] = "READY_FOR_PUBLISH"
    BY <1>2, <1>5, GroundedPack DEF Publish, Acting, PackKinds, Grounded
  <2> QED
    BY <1>1, <1>5, <2>1 DEF Publish, EvidenceTypes, EvidenceChain, EvidenceMoves
<1>6. CASE OpenDraftPr
  <2>1. selected \in Packs /\ plan.request.pack = selected /\ selected \in published
    BY <1>2, <1>6, GroundedPack DEF OpenDraftPr, Acting, PackKinds, Grounded
  <2> QED
    BY <1>1, <1>6, <2>1 DEF OpenDraftPr, EvidenceTypes, EvidenceChain, EvidenceMoves
<1>7. CASE PackageResult
  <2>1. selected \in Packs /\ plan.request.pack = selected /\ selected \in drafted
    BY <1>2, <1>7, GroundedPack DEF PackageResult, Acting, PackKinds, Grounded
  <2> QED
    BY <1>1, <1>7, <2>1, PacksAssumption
       DEF PackageResult, EvidenceTypes, EvidenceChain, EvidenceMoves
<1>8. CASE RecoverAdopt
  <2> DEFINE k == ledger.attempt.transition
  <2>1. Grounded(k, ledger.attempt.request)
    BY <1>8 DEF RecoverAdopt, RunInv, AttemptGrounded
  <2>2. k = "OPEN_DRAFT_PR" => selected \in Packs /\ selected \in published
    BY <2>1, GroundedPack DEF PackKinds, Grounded
  <2>3. k = "PACKAGE_RESULT" => selected \in Packs /\ selected \in drafted
    BY <2>1, GroundedPack DEF PackKinds, Grounded
  <2>4. /\ drafted' = IF k = "OPEN_DRAFT_PR" THEN drafted \cup {selected} ELSE drafted
        /\ result' = IF k = "PACKAGE_RESULT" THEN selected ELSE result
        /\ UNCHANGED <<selected, selectedAt, executor, published>>
    BY <1>8 DEF RecoverAdopt, RepeatEffect
  <2> HIDE DEF k
  <2> QED
    BY <1>1, <2>2, <2>3, <2>4, PacksAssumption DEF EvidenceTypes, EvidenceChain, EvidenceMoves
<1>9. CASE ~Effect
  BY <1>1, <1>9, EvidenceFrame DEF evidence, EvidenceTypes, EvidenceChain, EvidenceMoves
<1> QED
  BY <1>3, <1>4, <1>5, <1>6, <1>7, <1>8, <1>9 DEF Effect

\* So the chain of authority stands in every state.
LEMMA ChainStep ==
  ASSUME LedgerInv, RunInv, [ONext]_runVars
  PROVE  AuthorityChain'
<1>1. EvidenceChain' /\ EvidenceMoves /\ ReviewsMove
  BY EvidenceStep, ReviewsStep
<1>2. ASSUME NEW r \in Rounds, review'[r].state # "NONE"
      PROVE  IF r = 1 THEN result' # NoPack ELSE revision'[r - 1] = "RESULT_READY"
  <2>1. IF r = 1 THEN result # NoPack ELSE revision[r - 1] = "RESULT_READY"
    BY <1>1, <1>2 DEF ReviewsMove, RunInv, AuthorityChain, BundleReady
  <2>2. r # 1 => r - 1 \in Rounds
    BY RoundAssumption DEF Rounds
  <2> QED
    BY <1>1, <2>1, <2>2 DEF EvidenceMoves, ReviewsMove
<1>3. ASSUME NEW r \in Rounds, revision'[r] # "NONE"
      PROVE  review'[r].state = "REVISION_REQUESTED"
  <2>1. review[r].state = "REVISION_REQUESTED"
    BY <1>1, <1>3 DEF ReviewsMove, RunInv, AuthorityChain
  <2> QED
    BY <1>1, <2>1 DEF ReviewsMove, TerminalReview
<1> QED
  BY <1>1, <1>2, <1>3 DEF AuthorityChain, EvidenceChain

-----------------------------------------------------------------------------
(* What an attempt, and the runner's work on it, rest on.                  *)

\* Evidence only grows, so what a transition rests on stands until another pack is
\* selected.
LEMMA StaysGrounded ==
  ASSUME RunInv, NEW k, NEW request, Grounded(k, request),
         EvidenceMoves, selected' = selected
  PROVE  Grounded(k, request)'
<1>1. k \in PackKinds => selected \in Packs
  BY GroundedPack
<1>2. k = "PUBLISH" => executor'[selected] = executor[selected]
  BY <1>1 DEF Grounded, EvidenceMoves, PackKinds
<1>3. Shape(k)' = Shape(k)
  BY DEF Shape, PackKinds, PackRequest, VerdictRequest, RevisionRequest, Verdict, Rounds
<1> QED
  BY <1>2, <1>3 DEF Grounded, EvidenceMoves, PackRequest

\* A registration selects another pack, but the attempt under way is its own.
LEMMA RegistrationGrounded ==
  ASSUME RunInv, Register
  PROVE  /\ Grounded(plan.kind, plan.request)'
         /\ plan.kind = "REGISTER_WEB_PACK" /\ plan.request = PackRequest(selected')
<1>1. plan.kind = "REGISTER_WEB_PACK" /\ Grounded("REGISTER_WEB_PACK", plan.request)
  BY DEF Register, Acting, RunInv, PlanGrounded
<1>2. plan' = plan /\ selected' = plan.request.pack
  BY DEF Register, ThenSettle
<1>3. plan.request = PackRequest(selected') /\ selected' \in Packs
  BY <1>1, <1>2, GroundedRegistration
<1> QED
  BY <1>1, <1>2, <1>3 DEF Grounded, Shape, PackKinds, PackRequest

\* Only a checkpoint, a settlement, a recovery and a failure touch the attempt.
LEMMA AttemptFrame ==
  ASSUME LedgerInv, [ONext]_runVars, ~(RecoverAdopt \/ Settle \/ FailAttempt \/ CheckpointPlan)
  PROVE  ledger'.attempt = ledger.attempt /\ ledger'.total = ledger.total
<1>1. CASE Control
  BY <1>1, ControlledLedger
<1>2. CASE RecoverNothing \/ PlanNext \/ PlanNothing \/ CheckpointRefused \/ Crash
           \/ ClearLocks \/ UNCHANGED runVars
  BY <1>2 DEF RecoverNothing, PlanNext, PlanNothing, CheckpointRefused, Crash, ClearLocks,
     runVars, vars
<1>3. CASE Register \/ Execute \/ Publish \/ OpenDraftPr \/ PackageResult \/ SubmitVerdict
           \/ SealVerdict \/ Revise
  BY <1>3 DEF Register, Execute, Publish, OpenDraftPr, PackageResult, ThenSettle,
     SubmitVerdict, SealVerdict, Revise, vars
<1>4. CASE Operator
  BY <1>4 DEF Operator, OperatorBegins, OperatorSeals, OperatorDrops, OperatorRevises, vars
<1> QED
  BY <1>1, <1>2, <1>3, <1>4 DEF ONext, Continue

\* Whatever happens, an attempt left in the ledger keeps what it rests on.
LEMMA AttemptStep ==
  ASSUME LedgerInv, RunInv, [ONext]_runVars
  PROVE  AttemptGrounded'
<1>1. EvidenceMoves
  BY EvidenceStep
<1>2. selectedAt \in Nat /\ ledger.total \in Nat /\ selectedAt <= ledger.total
  BY DEF RunInv, OTypeOK, AttemptGrounded, LedgerInv, TypeOK, Ledger
<1>3. CASE Register
  <2>1. pc = "acting" /\ ledger' = ledger /\ selectedAt' = ledger.total
    BY <1>3 DEF Register, Acting, ThenSettle, vars
  <2>2. ledger.attempt.transition = plan.kind /\ ledger.attempt.request = plan.request
    BY <2>1 DEF RunInv, PlanGrounded
  <2>3. plan' = plan
    BY <1>3 DEF Register, ThenSettle
  <2> QED
    BY <1>2, <1>3, <2>1, <2>2, <2>3, RegistrationGrounded DEF AttemptGrounded, PackRequest
<1>4. CASE RecoverAdopt \/ Settle
  <2>1. ledger'.attempt = NoAttempt /\ ledger'.total = ledger.total /\ selectedAt' = selectedAt
    BY <1>4, SettledLedger DEF RecoverAdopt, RepeatEffect, Settle, RunInv, Carried, evidence
  <2> QED
    BY <1>2, <2>1 DEF AttemptGrounded
<1>5. CASE FailAttempt
  <2>1. ledger'.attempt = NoAttempt /\ ledger'.total = ledger.total /\ selectedAt' = selectedAt
    BY <1>5, FailedLedger DEF FailAttempt, evidence
  <2> QED
    BY <1>2, <2>1 DEF AttemptGrounded
<1>6. CASE CheckpointPlan
  <2>1. /\ Grounded(plan.kind, plan.request) /\ selected' = selected
        /\ selectedAt' = selectedAt /\ plan' = plan
    BY <1>6 DEF CheckpointPlan, RunInv, PlanGrounded, evidence
  <2>2. Grounded(plan.kind, plan.request)'
    BY <1>1, <2>1, StaysGrounded
  <2>3. /\ ledger'.attempt.transition = plan.kind /\ ledger'.attempt.request = plan.request
        /\ \/ ledger.attempt = NoAttempt /\ ledger'.total = ledger.total + 1
           \/ ledger' = ledger
    BY <1>6, CheckpointedLedger DEF RunInv
  <2>4. CASE ledger' = ledger
    BY <2>1, <2>2, <2>3, <2>4 DEF AttemptGrounded, RunInv, PackRequest
  <2>5. CASE ledger'.total = ledger.total + 1
    BY <1>2, <2>1, <2>2, <2>3, <2>5 DEF AttemptGrounded
  <2> QED
    BY <2>3, <2>4, <2>5
<1>7. CASE ~(Register \/ RecoverAdopt \/ Settle \/ FailAttempt \/ CheckpointPlan)
  <2>1. ledger'.attempt = ledger.attempt /\ ledger'.total = ledger.total
    BY <1>7, AttemptFrame
  <2>2. selected' = selected /\ selectedAt' = selectedAt
    <3>1. CASE ~Effect
      BY <3>1, EvidenceFrame DEF evidence
    <3>2. CASE Effect
      BY <1>7, <3>2 DEF Effect, Execute, Publish, OpenDraftPr, PackageResult
    <3> QED
      BY <3>1, <3>2
  <2>3. ledger.attempt # NoAttempt =>
          Grounded(ledger.attempt.transition, ledger.attempt.request)
    BY DEF RunInv, AttemptGrounded
  <2>4. ledger.attempt # NoAttempt =>
          Grounded(ledger.attempt.transition, ledger.attempt.request)'
    BY <1>1, <2>1, <2>2, <2>3, StaysGrounded
  <2> QED
    BY <2>1, <2>2, <2>4 DEF AttemptGrounded, RunInv, PackRequest
<1> QED
  BY <1>3, <1>4, <1>5, <1>6, <1>7

\* The effect of an attempt stays done, whoever moves next.
LEMMA StaysDone ==
  ASSUME RunInv, NEW a, a.transition \in Kinds, Grounded(a.transition, a.request), Done(a),
         UNCHANGED evidence, ReviewsMove
  PROVE  Done(a)'
<1>1. CASE a.transition = "WAIT_WEB_VERDICT"
  <2>1. a.request.round \in Rounds
    BY <1>1, GroundedRound
  <2>2. review[a.request.round].state = TerminalOf(a.request.decision)
    BY <1>1 DEF Done
  <2>3. review[a.request.round].state \in TerminalReview
    BY <2>2 DEF TerminalOf, TerminalReview
  <2>4. review'[a.request.round] = review[a.request.round]
    BY <2>1, <2>3 DEF ReviewsMove
  <2> QED
    BY <1>1, <2>4 DEF Done, TerminalOf
<1>2. CASE a.transition = "REVISE"
  <2>1. a.request.round \in Rounds
    BY <1>2, GroundedRound
  <2> QED
    BY <1>2, <2>1 DEF Done, ReviewsMove
<1>3. CASE a.transition \in PackKinds \cup {"REGISTER_WEB_PACK"}
  BY <1>3 DEF Done, evidence, PackKinds
<1> QED
  BY <1>1, <1>2, <1>3, KindList DEF PackKinds

\* The operator leaves the round the runner works on alone.
LEMMA OthersFrame ==
  ASSUME LedgerInv, RunInv, Operator \/ Control \/ UNCHANGED runVars
  PROVE  /\ UNCHANGED <<pc, plan, evidence>> /\ ledger'.attempt = ledger.attempt
         /\ \A r \in Rounds : roundLock[r] = "runner" => roundLock'[r] = "runner"
<1>1. CASE Control
  BY <1>1, ControlledLedger DEF Control, orchestration, reviews
<1>2. CASE UNCHANGED runVars
  BY <1>2 DEF runVars, vars, orchestration, reviews
<1>3. CASE Operator
  <2>1. UNCHANGED <<pc, plan, evidence>> /\ ledger' = ledger
    BY <1>3 DEF Operator, OperatorBegins, OperatorSeals, OperatorDrops, OperatorRevises, vars
  <2>2. roundLock \in [Rounds -> {"free", "runner", "operator"}]
    BY DEF RunInv, OTypeOK
  <2>3. CASE OperatorBegins
    <3>1. PICK v \in Verdict : /\ roundLock[v.round] = "free"
                               /\ roundLock' = [roundLock EXCEPT ![v.round] = "operator"]
      BY <2>3 DEF OperatorBegins, BeginSubmit
    <3> QED
      BY <2>1, <2>2, <3>1
  <2>4. CASE OperatorSeals \/ OperatorDrops
    <3>1. PICK r \in Rounds : /\ roundLock[r] = "operator"
                              /\ roundLock' = [roundLock EXCEPT ![r] = "free"]
      BY <2>4 DEF OperatorSeals, SealReview, OperatorDrops, DropReview
    <3> QED
      BY <2>1, <2>2, <3>1
  <2>5. CASE OperatorRevises
    BY <2>1, <2>5 DEF OperatorRevises
  <2> QED
    BY <1>3, <2>3, <2>4, <2>5 DEF Operator
<1> QED
  BY <1>1, <1>2, <1>3

\* What the runner does next rests on what the ledger and the receipts say: it settles
\* only what is done.
LEMMA OthersPlan ==
  ASSUME LedgerInv, RunInv, Operator \/ Control \/ UNCHANGED runVars
  PROVE  PlanGrounded'
<1>1. /\ UNCHANGED <<pc, plan, evidence>> /\ ledger'.attempt = ledger.attempt
      /\ \A r \in Rounds : roundLock[r] = "runner" => roundLock'[r] = "runner"
  BY OthersFrame
<1>2. EvidenceMoves /\ ReviewsMove
  BY EvidenceStep, ReviewsStep DEF ONext
<1>3. selected' = selected /\ executor' = executor
  BY <1>1 DEF evidence
<1>4. PlanGrounded /\ Carried
  BY DEF RunInv
<1>5. pc \in {"checkpointing", "acting", "sealing", "settling"} =>
        Grounded(plan.kind, plan.request)'
  BY <1>1, <1>2, <1>3, <1>4, StaysGrounded DEF PlanGrounded
<1>6. pc = "sealing" => /\ roundLock'[plan.request.round] = "runner"
                        /\ review'[plan.request.round].decision = plan.request.decision
  <2>1. pc = "sealing" => plan.request.round \in Rounds
    BY <1>4, GroundedRound DEF PlanGrounded
  <2> QED
    BY <1>1, <1>2, <1>4, <2>1 DEF PlanGrounded, ReviewsMove
<1>7. pc = "settling" => Done(ledger.attempt)'
  <2>1. ASSUME pc = "settling"
        PROVE  /\ ledger.attempt.transition \in Kinds /\ Done(ledger.attempt)
               /\ Grounded(ledger.attempt.transition, ledger.attempt.request)
    BY <1>4, <2>1 DEF PlanGrounded, Carried
  <2> QED
    BY <1>1, <1>2, <2>1, StaysDone
<1> QED
  BY <1>1, <1>3, <1>4, <1>5, <1>6, <1>7 DEF PlanGrounded

\* registerPack, executePack, publish, openDraftPr and packageResult leave what their
\* own attempt asked for.
LEMMA EffectPlan ==
  ASSUME LedgerInv, RunInv,
         Register \/ Execute \/ Publish \/ OpenDraftPr \/ PackageResult
  PROVE  PlanGrounded'
<1>1. /\ pc = "acting" /\ pc' = "settling" /\ plan' = plan /\ ledger' = ledger
      /\ UNCHANGED reviews
  BY DEF Register, Execute, Publish, OpenDraftPr, PackageResult, Acting, ThenSettle, vars
<1>2. /\ Grounded(plan.kind, plan.request)
      /\ ledger.attempt.transition = plan.kind /\ ledger.attempt.request = plan.request
  BY <1>1 DEF RunInv, PlanGrounded
<1>3. EvidenceMoves
  BY EvidenceStep DEF ONext, Continue
<1>4. Grounded(plan.kind, plan.request)'
  <2>1. CASE Register
    BY <2>1, RegistrationGrounded
  <2>2. CASE ~Register
    <3>1. selected' = selected
      BY <2>2 DEF Execute, Publish, OpenDraftPr, PackageResult
    <3> QED
      BY <1>1, <1>2, <1>3, <3>1, StaysGrounded
  <2> QED
    BY <2>1, <2>2
<1>5. Done(ledger.attempt)'
  <2>1. CASE Register
    BY <1>1, <1>2, <2>1 DEF Register, Acting, Done
  <2>2. CASE Execute
    <3>1. plan.kind = "EXECUTE_REGISTERED_PACK" /\ plan.request.pack \in Packs
      BY <1>2, <2>2, GroundedPack DEF Execute, Acting, PackKinds
    <3>2. executor'[plan.request.pack] \in ExecutorEnd
      BY <2>2, <3>1 DEF Execute, RunInv, OTypeOK
    <3> QED
      BY <1>1, <1>2, <3>1, <3>2 DEF Done
  <2>3. CASE Publish
    BY <1>1, <1>2, <2>3 DEF Publish, Acting, Done
  <2>4. CASE OpenDraftPr
    BY <1>1, <1>2, <2>4 DEF OpenDraftPr, Acting, Done
  <2>5. CASE PackageResult
    BY <1>1, <1>2, <2>5 DEF PackageResult, Acting, Done
  <2> QED
    BY <2>1, <2>2, <2>3, <2>4, <2>5
<1> QED
  BY <1>1, <1>2, <1>4, <1>5 DEF PlanGrounded

\* submitWebVerdict leaves the sealed receipt of the very verdict, reviseRun a ready
\* revision of the round.
LEMMA ReviewPlan ==
  ASSUME LedgerInv, RunInv, SubmitVerdict \/ SealVerdict \/ Revise
  PROVE  PlanGrounded'
<1>1. /\ pc \in {"acting", "sealing"} /\ plan' = plan /\ ledger' = ledger
      /\ UNCHANGED evidence
  BY DEF SubmitVerdict, SealVerdict, Revise, Acting, vars
<1>2. /\ Grounded(plan.kind, plan.request)
      /\ ledger.attempt.transition = plan.kind /\ ledger.attempt.request = plan.request
  BY <1>1 DEF RunInv, PlanGrounded
<1>3. EvidenceMoves
  BY EvidenceStep DEF ONext, Continue
<1>4. Grounded(plan.kind, plan.request)'
  <2>1. selected' = selected
    BY <1>1 DEF evidence
  <2> QED
    BY <1>1, <1>2, <1>3, <2>1, StaysGrounded
<1>5. ReviewTypes /\ ReviewsFit
  BY DEF RunInv, OTypeOK, ReviewTypes
<1>6. CASE SubmitVerdict
  <2>1. plan.kind = "WAIT_WEB_VERDICT" /\ pc = "acting"
    BY <1>6 DEF SubmitVerdict, Acting
  <2>2. plan.request.round \in Rounds /\ plan.request.decision \in Decision
    BY <1>2, <2>1, GroundedRound
  <2>3. CASE BeginSubmit("runner", PlannedVerdict) /\ pc' = "sealing"
    <3>1. roundLock'[plan.request.round] = "runner"
      BY <1>5, <2>2, <2>3 DEF BeginSubmit, PlannedVerdict, ReviewTypes
    <3>2. review'[plan.request.round].decision = plan.request.decision
      BY <1>5, <2>2, <2>3 DEF BeginSubmit, PlannedVerdict, ReviewTypes
    <3> QED
      BY <1>1, <1>2, <1>4, <2>1, <2>3, <3>1, <3>2 DEF PlanGrounded
  <2>4. CASE SealedAlready(PlannedVerdict) /\ pc' = "settling" /\ UNCHANGED review
    <3>1. /\ review[plan.request.round].decision = plan.request.decision
          /\ review[plan.request.round].state = TerminalOf(plan.request.decision)
      BY <1>5, <2>2, <2>4 DEF SealedAlready, PlannedVerdict, ReviewsFit
    <3>2. Done(ledger.attempt)'
      BY <1>1, <1>2, <2>1, <2>4, <3>1 DEF Done, TerminalOf
    <3> QED
      BY <1>1, <1>2, <1>4, <2>4, <3>2 DEF PlanGrounded
  <2> QED
    BY <1>6, <2>3, <2>4 DEF SubmitVerdict
<1>7. CASE SealVerdict
  <2>1. /\ pc = "sealing" /\ pc' = "settling" /\ UNCHANGED revision
        /\ SealReview("runner", plan.request.round)
    BY <1>7 DEF SealVerdict
  <2>2. /\ plan.kind = "WAIT_WEB_VERDICT"
        /\ review[plan.request.round].decision = plan.request.decision
    BY <2>1 DEF RunInv, PlanGrounded
  <2>3. plan.request.round \in Rounds
    BY <1>2, <2>2, GroundedRound
  <2>4. /\ review'[plan.request.round].decision = plan.request.decision
        /\ review'[plan.request.round].state = TerminalOf(plan.request.decision)
    BY <1>5, <2>1, <2>2, <2>3, SealRound
  <2>5. Done(ledger.attempt)'
    BY <1>1, <1>2, <2>2, <2>4 DEF Done, TerminalOf
  <2> QED
    BY <1>1, <1>2, <1>4, <2>1, <2>5 DEF PlanGrounded
<1>8. CASE Revise
  <2>1. plan.kind = "REVISE" /\ pc = "acting"
    BY <1>8 DEF Revise, Acting
  <2>2. plan.request.round \in Rounds
    BY <1>2, <2>1, GroundedRound
  <2>3. CASE pc' = "acting"
    BY <1>1, <1>2, <1>4, <2>1, <2>3 DEF PlanGrounded
  <2>4. CASE pc' = "settling"
    <3>1. revision'[plan.request.round] = "RESULT_READY"
      BY <1>5, <1>8, <2>1, <2>2, <2>4 DEF Revise, ReviseTo, ReviewTypes
    <3>2. Done(ledger.attempt)'
      BY <1>1, <1>2, <2>1, <3>1 DEF Done
    <3> QED
      BY <1>1, <1>2, <1>4, <2>4, <3>2 DEF PlanGrounded
  <2> QED
    BY <1>8, <2>3, <2>4 DEF Revise
<1> QED
  BY <1>6, <1>7, <1>8

\* Whatever the runner does, it works on the attempt in the ledger, on evidence that
\* stands.
LEMMA PlanStep ==
  ASSUME LedgerInv, RunInv, [ONext]_runVars
  PROVE  PlanGrounded'
<1>1. CASE PlanNext
  <2>1. PICK request \in PayloadsOf(Planned) :
          /\ plan' = [kind |-> Planned, request |-> request]
          /\ pc' = "checkpointing" /\ UNCHANGED <<vars, evidence, reviews>>
    BY <1>1 DEF PlanNext
  <2>2. /\ Grounded(Planned, request)
        /\ Planned = "EXECUTE_REGISTERED_PACK" => executor[selected] = "NONE"
    BY <2>1, PlannedGrounded DEF RunInv
  <2>3. plan'.kind = Planned /\ plan'.request = request
    BY <2>1
  <2>4. /\ selected' = selected /\ executor' = executor /\ published' = published
        /\ drafted' = drafted
    BY <2>1 DEF evidence
  <2> HIDE DEF Planned
  <2>5. Grounded(plan'.kind, plan'.request)
    BY <2>2, <2>3
  <2>6. Grounded(plan.kind, plan.request)'
    BY <2>4, <2>5 DEF Grounded, Shape, PackKinds, PackRequest, VerdictRequest,
       RevisionRequest, Verdict, Rounds
  <2> QED
    BY <2>1, <2>2, <2>3, <2>4, <2>6 DEF PlanGrounded
<1>2. CASE CheckpointPlan
  <2>1. /\ pc = "checkpointing" /\ pc' = "acting" /\ plan' = plan /\ UNCHANGED evidence
    BY <1>2 DEF CheckpointPlan
  <2>2. ledger'.attempt.transition = plan.kind /\ ledger'.attempt.request = plan.request
    BY <1>2, CheckpointedLedger DEF RunInv
  <2>3. selected' = selected /\ executor' = executor /\ EvidenceMoves
    BY <2>1, EvidenceStep DEF evidence
  <2>4. Grounded(plan.kind, plan.request)
    BY <2>1 DEF RunInv, PlanGrounded
  <2>5. Grounded(plan.kind, plan.request)'
    BY <2>1, <2>3, <2>4, StaysGrounded
  <2> QED
    BY <2>1, <2>2, <2>3, <2>5 DEF PlanGrounded, RunInv
<1>3. CASE Register \/ Execute \/ Publish \/ OpenDraftPr \/ PackageResult
  BY <1>3, EffectPlan
<1>4. CASE SubmitVerdict \/ SealVerdict \/ Revise
  BY <1>4, ReviewPlan
<1>5. CASE Operator \/ Control \/ UNCHANGED runVars
  BY <1>5, OthersPlan
<1>6. CASE RecoverAdopt \/ RecoverNothing \/ PlanNothing \/ CheckpointRefused \/ Settle
           \/ FailAttempt \/ Crash \/ ClearLocks
  <2>1. pc' \in {"idle", "planning", "crashed"}
    BY <1>6 DEF RecoverAdopt, RecoverNothing, PlanNothing, CheckpointRefused, Settle,
       FailAttempt, Crash, ClearLocks
  <2> QED
    BY <2>1 DEF PlanGrounded
<1> QED
  BY <1>1, <1>2, <1>3, <1>4, <1>5, <1>6 DEF ONext, Continue

-----------------------------------------------------------------------------
(* The theorems of a driven run.                                           *)

\* The receipts and the runner's own state keep their types.
LEMMA ReceiptTypes ==
  ASSUME LedgerInv, RunInv, [ONext]_runVars
  PROVE  OTypeOK'
<1>1. TypeOK'
  BY LedgerStepOfRun, LedgerStep DEF LedgerInv, RunInv
<1>2. EvidenceTypes' /\ ReviewTypes'
  BY EvidenceStep, ReviewsStep
<1>3. pc' \in {"idle", "planning", "checkpointing", "acting", "sealing", "settling", "crashed"}
  <2>1. CASE Continue \/ Crash \/ ClearLocks
    BY <2>1 DEF Continue, Crash, ClearLocks, RecoverAdopt, RecoverNothing, PlanNext,
       PlanNothing, CheckpointPlan, CheckpointRefused, Register, Execute, Publish,
       OpenDraftPr, PackageResult, ThenSettle, SubmitVerdict, SealVerdict, Revise, Settle,
       FailAttempt
  <2>2. CASE Operator \/ Control \/ UNCHANGED runVars
    BY <2>2, OthersFrame DEF RunInv, OTypeOK
  <2> QED
    BY <2>1, <2>2 DEF ONext
<1>4. plan' \in [kind : Kinds \cup {"DONE"}, request : Payload \cup {PackRequest(NoPack)}]
  <2>1. CASE PlanNext
    <3>1. PICK request \in PayloadsOf(Planned) :
            plan' = [kind |-> Planned, request |-> request]
      BY <2>1 DEF PlanNext
    <3>2. plan'.kind \in Kinds /\ plan'.request \in Payload
      BY <2>1, CarriedStep, PayloadAssumption DEF PlanNext, Carried, RunInv
    <3> QED
      BY <3>1, <3>2
  <2>2. CASE plan' = NoPlan
    BY <2>2 DEF NoPlan
  <2>3. CASE plan' = plan
    BY <2>3 DEF RunInv, OTypeOK, PackRequest, Payload, VerdictRequest, RevisionRequest,
       Verdict, Rounds
  <2>4. CASE Continue \/ Crash \/ ClearLocks
    BY <2>1, <2>2, <2>3, <2>4 DEF Continue, Crash, ClearLocks, RecoverAdopt, RecoverNothing,
       PlanNothing, CheckpointPlan, CheckpointRefused, Register, Execute, Publish,
       OpenDraftPr, PackageResult, ThenSettle, SubmitVerdict, SealVerdict, Revise, Settle,
       FailAttempt
  <2>5. CASE Operator \/ Control \/ UNCHANGED runVars
    BY <2>3, <2>5, OthersFrame
  <2> QED
    BY <2>4, <2>5 DEF ONext
<1> QED
  BY <1>1, <1>2, <1>3, <1>4 DEF OTypeOK, EvidenceTypes, ReviewTypes, PackRequest, Payload,
     VerdictRequest, RevisionRequest, Verdict, Rounds

\* The executor judges the selected pack only, and another one is registered only when
\* it gave that one up.
LEMMA SelectionStep ==
  ASSUME LedgerInv, RunInv, [ONext]_runVars
  PROVE  /\ \A p \in Packs : executor'[p] \in {"READY_FOR_PUBLISH", "FAILED"} => p = selected'
         /\ pc' \in {"checkpointing", "acting"} /\ plan'.kind = "REGISTER_WEB_PACK" =>
              selected' = NoPack \/ executor'[selected'] = "ESCALATE_TO_WEB"
<1>1. StageFits /\ EvidenceTypes
  BY DEF RunInv, StageFits, OTypeOK, EvidenceTypes
<1>2. CASE Register
  <2>1. selected = NoPack \/ executor[selected] = "ESCALATE_TO_WEB"
    BY <1>1, <1>2 DEF Register, Acting, StageFits
  <2> QED
    BY <1>1, <1>2, <2>1, PacksAssumption DEF Register, ThenSettle, StageFits
<1>3. CASE Execute
  <2>1. selected \in Packs /\ plan.request.pack = selected
    BY <1>3, GroundedPack DEF Execute, Acting, PackKinds, RunInv, PlanGrounded
  <2>2. \A p \in Packs \ {selected} : executor'[p] = executor[p]
    BY <1>1, <1>3, <2>1 DEF Execute, EvidenceTypes
  <2> QED
    BY <1>1, <1>3, <2>2 DEF Execute, ThenSettle, StageFits
<1>4. CASE Publish \/ OpenDraftPr \/ PackageResult
  BY <1>1, <1>4 DEF Publish, OpenDraftPr, PackageResult, ThenSettle, StageFits
<1>5. CASE RecoverAdopt
  BY <1>1, <1>5 DEF RecoverAdopt, RepeatEffect, StageFits
<1>6. CASE ~Effect
  <2>1. UNCHANGED evidence
    BY <1>6, EvidenceFrame
  <2>2. CASE PlanNext
    <3>1. PlanReviewed # "REGISTER_WEB_PACK"
      BY DEF PlanReviewed
    <3>2. plan'.kind = Planned
      BY <2>2 DEF PlanNext
    <3> QED
      BY <1>1, <2>1, <3>1, <3>2 DEF Planned, StageFits, evidence
  <2>3. CASE CheckpointPlan
    BY <1>1, <2>1, <2>3 DEF CheckpointPlan, StageFits, evidence
  <2>4. CASE Revise
    BY <1>1, <2>1, <2>4 DEF Revise, Acting, StageFits, evidence
  <2>5. CASE RecoverNothing \/ PlanNothing \/ CheckpointRefused \/ SubmitVerdict \/ SealVerdict
             \/ Settle \/ FailAttempt \/ Crash \/ ClearLocks
    BY <1>1, <2>1, <2>5 DEF RecoverNothing, PlanNothing, CheckpointRefused, SubmitVerdict,
       SealVerdict, Settle, FailAttempt, Crash, ClearLocks, StageFits, evidence
  <2>6. CASE Operator \/ Control \/ UNCHANGED runVars
    BY <1>1, <2>1, <2>6, OthersFrame DEF StageFits, evidence
  <2> QED
    BY <1>6, <2>2, <2>3, <2>4, <2>5, <2>6 DEF ONext, Continue, Effect
<1> QED
  BY <1>2, <1>3, <1>4, <1>5, <1>6 DEF Effect

\* Rounds are reviewed one after the other, and only of a Result Bundle.
LEMMA StageStep ==
  ASSUME LedgerInv, RunInv, [ONext]_runVars
  PROVE  StageFits'
<1>1. EvidenceMoves /\ ReviewsMove /\ AuthorityChain /\ StageFits
  BY EvidenceStep, ReviewsStep DEF RunInv
<1>2. PICK last \in 0..MaxRound : \A r \in Rounds : review[r].state # "NONE" <=> r <= last
  BY <1>1 DEF StageFits
<1>3. ASSUME NEW r \in Rounds, review[r].state = "NONE", review'[r].state # "NONE"
      PROVE  r = last + 1 /\ result # NoPack
  <2>1. BundleReady(r)
    BY <1>1, <1>3 DEF ReviewsMove
  <2>2. CASE r = 1
    BY <1>2, <1>3, <2>1, <2>2, RoundAssumption DEF BundleReady, Rounds
  <2>3. CASE r # 1
    <3>1. r - 1 \in Rounds /\ revision[r - 1] = "RESULT_READY"
      BY <2>1, <2>3, RoundAssumption DEF BundleReady, Rounds
    <3>2. review[r - 1].state = "REVISION_REQUESTED"
      BY <1>1, <3>1 DEF AuthorityChain
    <3> QED
      BY <1>1, <1>2, <1>3, <3>1, <3>2, RoundAssumption DEF StageFits, Rounds
  <2> QED
    BY <2>2, <2>3
<1>4. \A r \in Rounds : review[r].state # "NONE" => review'[r].state # "NONE"
  BY <1>1 DEF ReviewsMove
<1>5. \A r \in Rounds : review'[r].state # "NONE" => result' # NoPack
  BY <1>1, <1>3 DEF StageFits, EvidenceMoves
<1>6. \E n \in 0..MaxRound : \A r \in Rounds : review'[r].state # "NONE" <=> r <= n
  <2>1. CASE last + 1 \in Rounds /\ review'[last + 1].state # "NONE"
    <3>1. \A r \in Rounds : review'[r].state # "NONE" <=> r <= last + 1
      BY <1>2, <1>3, <1>4, <2>1, RoundAssumption DEF Rounds
    <3>2. last + 1 \in 0..MaxRound
      BY <2>1, RoundAssumption DEF Rounds
    <3> QED
      BY <3>1, <3>2
  <2>2. CASE ~(last + 1 \in Rounds /\ review'[last + 1].state # "NONE")
    <3>1. \A r \in Rounds : review'[r].state # "NONE" <=> r <= last
      BY <1>2, <1>3, <1>4, <2>2, RoundAssumption DEF Rounds
    <3> QED
      BY <3>1
  <2> QED
    BY <2>1, <2>2
<1> QED
  BY <1>5, <1>6, SelectionStep DEF StageFits

\* What a step keeps; that recovery refuses nothing follows from it.
RunKept ==
  /\ OTypeOK /\ Carried /\ AuthorityChain /\ AttemptGrounded /\ PlanGrounded
  /\ ReviewsFit /\ StageFits

\* It is inductive with the ledger's own invariant.
LEMMA RunStep ==
  ASSUME LedgerInv, RunInv, [ONext]_runVars
  PROVE  (LedgerInv /\ RunKept)'
<1>1. LedgerInv'
  BY LedgerStepOfRun, LedgerStep DEF RunInv
<1>2. OTypeOK' /\ AttemptGrounded' /\ Carried'
  BY ReceiptTypes, AttemptStep, CarriedStep DEF RunInv
<1>3. AuthorityChain' /\ PlanGrounded' /\ ReviewsFit' /\ StageFits'
  BY ChainStep, PlanStep, ReviewsStep, StageStep
<1> QED
  BY <1>1, <1>2, <1>3 DEF RunKept

\* In every state of a driven run the chain of authority stands, whoever sealed the
\* reviews and revised beside the runner, and no crash leaves an attempt behind that
\* recovery refuses up to the Result Bundle.
THEOREM RunInvariantHolds == OSpec => []RunInv
<1>1. OInit => LedgerInv /\ RunKept
  <2> SUFFICES ASSUME OInit PROVE LedgerInv /\ RunKept
    OBVIOUS
  <2>1. LedgerInv /\ ledger.attempt = NoAttempt /\ ledger.total = 0
    BY InitInv DEF OInit, Init, NewLedger
  <2>2. OTypeOK
    BY <2>1 DEF OInit, OTypeOK, LedgerInv, NoPlan
  <2>3. StageFits
    <3>1. \A r \in Rounds : review[r].state # "NONE" <=> r <= 0
      BY DEF OInit, Rounds
    <3> QED
      BY <3>1, RoundAssumption DEF OInit, StageFits
  <2> QED
    BY <2>1, <2>2, <2>3 DEF OInit, RunKept, Carried, AuthorityChain, AttemptGrounded,
       PlanGrounded, ReviewsFit, TerminalReview
<1>2. LedgerInv /\ RunKept => RunInv
  BY GroundedIsNotRefused DEF RunKept, RunInv
<1>3. LedgerInv /\ RunInv /\ [ONext]_runVars => (LedgerInv /\ RunKept)'
  BY RunStep
<1> QED
  BY <1>1, <1>2, <1>3, PTL DEF OSpec

\* No pack is executed a second time, no sealed verdict or finished revision changes and
\* nothing is unpublished, however often the run crashes and is continued.
THEOREM WorkIsKept == OSpec => WorkKept
<1>1. LedgerInv /\ RunInv /\ [ONext]_runVars => EvidenceMoves /\ ReviewsMove
  BY EvidenceStep, ReviewsStep
<1>2. EvidenceMoves /\ ReviewsMove =>
        /\ \A p \in Packs : executor[p] # "NONE" => executor'[p] = executor[p]
        /\ published \subseteq published' /\ drafted \subseteq drafted'
        /\ \A r \in Rounds :
             /\ review[r].state \in TerminalReview => review'[r] = review[r]
             /\ revision[r] = "RESULT_READY" => revision'[r] = "RESULT_READY"
  BY DEF EvidenceMoves, ReviewsMove
<1> QED
  BY <1>1, <1>2, RunInvariant, RunInvariantHolds, PTL DEF OSpec, WorkKept

\* A side effect has the checkpoint of its own request in the ledger.
LEMMA EffectOnRecord ==
  ASSUME LedgerInv, RunInv, [ONext]_runVars, evidence' # evidence
  PROVE  ledger.attempt # NoAttempt /\ \A a \in {ledger.attempt} : Done(a)'
<1>1. Effect
  BY EvidenceFrame
<1>2. CASE RecoverAdopt
  BY <1>2, AdoptedIsDone DEF RecoverAdopt
<1>3. CASE Register \/ Execute \/ Publish \/ OpenDraftPr \/ PackageResult
  <2>1. pc = "acting" /\ pc' = "settling" /\ ledger' = ledger
    BY <1>3 DEF Register, Execute, Publish, OpenDraftPr, PackageResult, Acting, ThenSettle,
       vars
  <2>2. Done(ledger.attempt)'
    BY <1>3, <2>1, EffectPlan DEF PlanGrounded
  <2> QED
    BY <2>1, <2>2 DEF RunInv, Carried
<1> QED
  BY <1>1, <1>2, <1>3 DEF Effect

\* A settled attempt has its effect.
LEMMA SettledOnRecord ==
  ASSUME LedgerInv, RunInv, [ONext]_runVars,
         ledger.attempt # NoAttempt, ledger'.attempt = NoAttempt, ledger'.code = "NONE"
  PROVE  \A a \in {ledger.attempt} : Done(a)'
<1>1. CASE RecoverAdopt
  BY <1>1, AdoptedIsDone
<1>2. CASE Settle
  <2>1. Done(ledger.attempt) /\ UNCHANGED <<evidence, reviews>>
    BY <1>2 DEF Settle, RunInv, PlanGrounded
  <2> QED
    BY <2>1 DEF Done, evidence, reviews, TerminalOf
<1>3. CASE FailAttempt
  BY <1>3, FailedLedger
<1>4. CASE CheckpointPlan
  BY <1>4, CheckpointedLedger DEF RunInv
<1> QED
  BY <1>1, <1>2, <1>3, <1>4, AttemptFrame

\* An effect is caused only under the checkpoint of its own request, and an attempt
\* succeeds only on the effect it was sealed for, settled or adopted after a crash.
THEOREM EffectsAreOnRecord == OSpec => EffectsOnRecord
<1>1. LedgerInv /\ RunInv /\ [ONext]_runVars =>
        /\ evidence' # evidence =>
             ledger.attempt # NoAttempt /\ \A a \in {ledger.attempt} : Done(a)'
        /\ ledger.attempt # NoAttempt /\ ledger'.attempt = NoAttempt /\ ledger'.code = "NONE"
             => \A a \in {ledger.attempt} : Done(a)'
  BY EffectOnRecord, SettledOnRecord
<1> QED
  BY <1>1, RunInvariant, RunInvariantHolds, PTL DEF OSpec, EffectsOnRecord

-----------------------------------------------------------------------------
(* The lifecycle.                                                          *)

\* The rounds up to n are reviewed, the others are not.
Last(n) == n \in 0..MaxRound /\ \A r \in Rounds : review[r].state # "NONE" <=> r <= n

\* What is planned for the latest review, once there is a Result Bundle.
PlanAt(n) ==
  CASE n # 0 /\ review[n].state = "REVISION_REQUESTED"
         /\ (revision[n] = "STARTED" \/ (n = 1 /\ revision[n] = "NONE")) -> "REVISE"
    [] n = 1 /\ review[n].state \in {"APPROVED", "ESCALATED"} -> "WAIT_HUMAN"
    [] OTHER -> "WAIT_WEB_VERDICT"

PlansLatest == \A n : Last(n) => PlanReviewed = PlanAt(n)

\* The snapshot finds the latest review and the revision that answers it
\* (snapshot-reader.ts).
LEMMA PlanOfLatest == OTypeOK /\ AuthorityChain => PlansLatest
<1> SUFFICES ASSUME OTypeOK, AuthorityChain, NEW n, Last(n)
             PROVE  PlanReviewed = PlanAt(n)
  BY DEF PlansLatest
<1> DEFINE reviewed == {r \in Rounds : review[r].state # "NONE"}
           revised == {r \in Rounds : revision[r] # "NONE"}
<1>1. LatestReview = n
  <2>1. CASE n = 0
    <3>1. reviewed = {}
      BY <2>1, RoundAssumption DEF Last, Rounds
    <3> QED
      BY <2>1, <3>1 DEF LatestReview, LatestRound
  <2>2. CASE n # 0
    <3>1. n \in reviewed /\ \A s \in reviewed : s <= n
      BY <2>2, RoundAssumption DEF Last, Rounds
    <3>2. \A r \in reviewed : (\A s \in reviewed : s <= r) => r = n
      BY <3>1, RoundAssumption DEF Last, Rounds
    <3> HIDE DEF reviewed
    <3>3. LatestRound(reviewed) = n
      BY <3>1, <3>2 DEF LatestRound
    <3> QED
      BY <3>3 DEF LatestReview, reviewed
  <2> QED
    BY <2>1, <2>2
<1>2. n # 0 => n \in Rounds /\ review[n].state # "NONE"
  BY RoundAssumption DEF Last, Rounds
<1>3. \A r \in revised : r <= n /\ r \in Rounds
  BY RoundAssumption DEF AuthorityChain, Last, Rounds
<1>4. n # 0 => (LatestRevision = n <=> revision[n] # "NONE")
  <2> SUFFICES ASSUME n # 0 PROVE LatestRevision = n <=> revision[n] # "NONE"
    OBVIOUS
  <2>1. CASE revision[n] # "NONE"
    <3>1. n \in revised
      BY <1>2, <2>1
    <3>2. \A r \in revised : (\A s \in revised : s <= r) => r = n
      BY <1>3, <3>1, RoundAssumption DEF Last, Rounds
    <3>3. \A s \in revised : s <= n
      BY <1>3
    <3> HIDE DEF revised
    <3>4. LatestRound(revised) = n
      BY <3>1, <3>2, <3>3 DEF LatestRound
    <3> QED
      BY <2>1, <3>4 DEF LatestRevision, revised
  <2>2. CASE revision[n] = "NONE" /\ n = 1
    <3>1. revised = {}
      BY <1>3, <2>2, RoundAssumption DEF Rounds
    <3> QED
      BY <2>2, <3>1 DEF LatestRevision, LatestRound
  <2>3. CASE revision[n] = "NONE" /\ n # 1
    <3>1. n - 1 \in Rounds /\ revision[n - 1] = "RESULT_READY"
      BY <1>2, <2>3, RoundAssumption DEF AuthorityChain, Rounds
    <3>2. n - 1 \in revised
      BY <3>1
    <3>3. \A s \in revised : s <= n - 1
      BY <1>2, <1>3, <2>3, RoundAssumption DEF Rounds
    <3>4. \A r \in revised : (\A s \in revised : s <= r) => r = n - 1
      BY <1>3, <3>2, <3>3, RoundAssumption DEF Rounds
    <3> HIDE DEF revised
    <3>5. LatestRound(revised) = n - 1
      BY <3>2, <3>3, <3>4 DEF LatestRound
    <3> QED
      BY <1>2, <2>3, <3>5 DEF LatestRevision, revised, Rounds
  <2> QED
    BY <2>1, <2>2, <2>3
<1>5. RevisionBound <=> n # 0 /\ review[n].state = "REVISION_REQUESTED" /\ revision[n] # "NONE"
  BY <1>1, <1>4 DEF RevisionBound
<1>6. n = 1 => result # NoPack
  BY <1>2 DEF AuthorityChain
<1>7. ReviewState = IF n = 1 \/ RevisionBound THEN review[n].state ELSE "NONE"
  BY <1>1, <1>6 DEF ReviewState
<1>8. n # 0 => revision[n] \in {"NONE", "STARTED", "RESULT_READY"}
  BY <1>2 DEF OTypeOK
<1>9. CASE n = 0
  BY <1>1, <1>5, <1>7, <1>9 DEF PlanReviewed, PlanAt
<1>10. CASE n # 0 /\ review[n].state = "REVISION_REQUESTED" /\ (n = 1 \/ revision[n] # "NONE")
  <2>1. ReviewState = "REVISION_REQUESTED"
    BY <1>5, <1>7, <1>10
  <2>2. RevisionBound /\ revision[LatestReview] = "RESULT_READY" <=> revision[n] = "RESULT_READY"
    BY <1>1, <1>5, <1>10
  <2> HIDE DEF reviewed, revised
  <2>3. PlanReviewed = IF revision[n] = "RESULT_READY" THEN "WAIT_WEB_VERDICT" ELSE "REVISE"
    BY <2>1, <2>2 DEF PlanReviewed
  <2> QED
    BY <1>8, <1>10, <2>3 DEF PlanAt
<1>11. CASE n = 1 /\ review[n].state # "REVISION_REQUESTED"
  <2>1. ReviewState = review[n].state
    BY <1>7, <1>11
  <2> QED
    BY <1>11, <2>1 DEF PlanReviewed, PlanAt
<1>12. CASE n \notin {0, 1} /\ ~(review[n].state = "REVISION_REQUESTED" /\ revision[n] # "NONE")
  <2>1. ReviewState = "NONE"
    BY <1>5, <1>7, <1>12
  <2> QED
    BY <1>12, <2>1 DEF PlanReviewed, PlanAt
<1> QED
  BY <1>9, <1>10, <1>11, <1>12

\* The four things a step does to the reviews and revisions of a run.
Opened(r) ==
  /\ BundleReady(r) /\ review[r].state \in {"NONE", "PENDING"} /\ review'[r].state = "PENDING"
  /\ \A q \in Rounds \ {r} : review'[q] = review[q]
  /\ UNCHANGED revision
Closed(r) ==
  /\ review[r].state = "PENDING" /\ review'[r].state \in TerminalReview
  /\ \A q \in Rounds \ {r} : review'[q] = review[q]
  /\ UNCHANGED revision
Revised(r) ==
  /\ review[r].state = "REVISION_REQUESTED"
  /\ revision[r] # "RESULT_READY" /\ revision'[r] \in {"STARTED", "RESULT_READY"}
  /\ \A q \in Rounds \ {r} : revision'[q] = revision[q]
  /\ UNCHANGED review
OneRound ==
  \/ UNCHANGED <<review, revision>>
  \/ \E r \in Rounds : Opened(r) \/ Closed(r) \/ Revised(r)

\* A verdict opens its round.
LEMMA BeginSubmitOpens ==
  ASSUME ReviewTypes, NEW who, NEW v \in Verdict, BeginSubmit(who, v), UNCHANGED revision
  PROVE  OneRound
<1>1. v.round \in Rounds
  BY DEF Verdict
<1>2. review[v.round].state \notin TerminalReview
  BY DEF BeginSubmit, BoundElsewhere, SealedAlready, TerminalReview
<1>3. /\ review' = [review EXCEPT ![v.round] = [state |-> "PENDING", decision |-> v.decision]]
      /\ BundleReady(v.round)
  BY DEF BeginSubmit
<1>4. Opened(v.round)
  BY <1>1, <1>2, <1>3 DEF ReviewTypes, Opened
<1> QED
  BY <1>1, <1>4 DEF OneRound

\* A sealed verdict closes it.
LEMMA SealCloses ==
  ASSUME ReviewTypes, ReviewsFit, NEW who \in {"runner", "operator"}, NEW r \in Rounds,
         SealReview(who, r), UNCHANGED revision
  PROVE  OneRound
<1>1. review'[r].state = TerminalOf(review[r].decision) /\ review[r].state = "PENDING"
  BY SealRound DEF SealReview, ReviewsFit
<1>2. review'[r].state \in TerminalReview
  BY <1>1 DEF TerminalOf, TerminalReview
<1>3. \A q \in Rounds \ {r} : review'[q] = review[q]
  BY DEF SealReview, ReviewTypes
<1> QED
  BY <1>1, <1>2, <1>3 DEF OneRound, Closed

\* A revision is of one round.
LEMMA ReviseRevises ==
  ASSUME ReviewTypes, NEW r \in Rounds, NEW s \in {"STARTED", "RESULT_READY"},
         review[r].state = "REVISION_REQUESTED", ReviseTo(r, s), UNCHANGED review
  PROVE  OneRound
BY DEF ReviewTypes, ReviseTo, OneRound, Revised

\* Every step of a run does at most one of them.
LEMMA OneRoundAtATime ==
  ASSUME RunInv, [ONext]_runVars
  PROVE  OneRound
<1>1. ReviewTypes /\ ReviewsFit /\ PlanGrounded
  BY DEF RunInv, OTypeOK, ReviewTypes
<1>2. CASE UNCHANGED <<review, revision>>
  BY <1>2 DEF OneRound
<1>3. CASE SubmitVerdict
  <2>1. Grounded("WAIT_WEB_VERDICT", plan.request)
    BY <1>1, <1>3 DEF PlanGrounded, SubmitVerdict, Acting
  <2>2. PlannedVerdict \in Verdict
    BY <2>1, GroundedRound DEF PlannedVerdict, Verdict
  <2> QED
    BY <1>1, <1>2, <1>3, <2>2, BeginSubmitOpens DEF SubmitVerdict
<1>4. CASE SealVerdict
  <2>1. Grounded("WAIT_WEB_VERDICT", plan.request)
    BY <1>1, <1>4 DEF PlanGrounded, SealVerdict
  <2> QED
    BY <1>1, <1>4, <2>1, GroundedRound, SealCloses DEF SealVerdict
<1>5. CASE Revise
  <2>1. /\ plan.request.round \in Rounds
        /\ review[plan.request.round].state = "REVISION_REQUESTED"
    BY <1>5, RoundAssumption DEF Revise, RevisionAuthorized, Rounds
  <2> QED
    BY <1>1, <1>2, <1>5, <2>1, ReviseRevises DEF Revise
<1>6. CASE OperatorBegins
  BY <1>1, <1>6, BeginSubmitOpens DEF OperatorBegins
<1>7. CASE OperatorSeals
  BY <1>1, <1>7, SealCloses DEF OperatorSeals
<1>8. CASE OperatorRevises
  <2>1. PICK r \in 1..(MaxRound - 1), s \in {"STARTED", "RESULT_READY"} :
          review[r].state = "REVISION_REQUESTED" /\ ReviseTo(r, s)
    BY <1>8 DEF OperatorRevises
  <2>2. r \in Rounds
    BY RoundAssumption DEF Rounds
  <2> QED
    BY <1>1, <1>8, <2>1, <2>2, ReviseRevises DEF OperatorRevises
<1>9. CASE \/ RecoverAdopt \/ RecoverNothing \/ PlanNext \/ PlanNothing \/ CheckpointPlan
           \/ CheckpointRefused \/ Settle \/ FailAttempt \/ OperatorDrops
  BY <1>2, <1>9 DEF RecoverAdopt, RecoverNothing, PlanNext, PlanNothing, CheckpointPlan,
     CheckpointRefused, Settle, FailAttempt, OperatorDrops, DropReview, reviews
<1>10. CASE Crash \/ ClearLocks \/ Control \/ UNCHANGED runVars
  BY <1>2, <1>10 DEF Crash, ClearLocks, Control, orchestration, runVars, reviews
<1>11. CASE Register \/ Execute \/ Publish \/ OpenDraftPr \/ PackageResult
  BY <1>2, <1>11 DEF Register, Execute, Publish, OpenDraftPr, PackageResult, ThenSettle, reviews
<1> QED
  BY <1>3, <1>4, <1>5, <1>6, <1>7, <1>8, <1>9, <1>10, <1>11 DEF ONext, Continue, Operator

\* A step of the abstract lifecycle, or none.
Moves == Planned' = Planned \/ <<Planned, Planned'>> \in Lifecycle!Edge

\* The plan depends on receipts only.
LEMMA SamePlan ==
  ASSUME UNCHANGED <<selected, executor, published, drafted, result, review, revision>>
  PROVE  Moves
BY DEF Moves, Planned, PublishCurrent, DraftCurrent, ResultCurrent, PlanReviewed, ReviewState,
   RevisionBound, LatestReview, LatestRevision, LatestRound

\* Once there is a Result Bundle it is the selected pack's, and reviews decide.
BundlePlanned == result # NoPack => selected = result /\ Planned = PlanReviewed

\* The pack of a Result Bundle was ready, and nobody registers another one after that.
LEMMA PlanOfBundle == RunInv => BundlePlanned
<1> SUFFICES ASSUME RunInv, result # NoPack
             PROVE  selected = result /\ Planned = PlanReviewed
  BY DEF BundlePlanned
<1>1. result \in drafted /\ result \in published /\ result \in Packs
  BY DEF RunInv, OTypeOK, AuthorityChain
<1>2. executor[result] = "READY_FOR_PUBLISH"
  BY <1>1 DEF RunInv, AuthorityChain
<1>3. selected = result
  BY <1>1, <1>2 DEF RunInv, StageFits
<1> QED
  BY <1>1, <1>2, <1>3 DEF Planned, PublishCurrent, DraftCurrent, ResultCurrent

\* A review is opened for a new bundle, decided once, and answered by one revision.
LEMMA ReviewPlans ==
  ASSUME RunInv, RunInv', OneRound,
         UNCHANGED <<selected, executor, published, drafted, result>>
  PROVE  Moves
<1>1. CASE UNCHANGED <<review, revision>>
  BY <1>1, SamePlan
<1>2. ASSUME NEW r \in Rounds, Opened(r) \/ Closed(r) \/ Revised(r)
      PROVE  Moves
  <2>1. AuthorityChain /\ StageFits /\ OTypeOK
    BY DEF RunInv
  <2>2. result # NoPack
    <3>1. CASE review[r].state # "NONE"
      BY <2>1, <3>1 DEF StageFits
    <3>2. CASE review[r].state = "NONE"
      <4>1. BundleReady(r)
        BY <1>2, <3>2 DEF Opened, Closed, Revised
      <4>2. r # 1 => r - 1 \in Rounds
        BY RoundAssumption DEF Rounds
      <4> QED
        BY <2>1, <4>1, <4>2 DEF BundleReady, AuthorityChain, StageFits
    <3> QED
      BY <3>1, <3>2
  <2>3. BundlePlanned /\ BundlePlanned'
    BY PlanOfBundle, PTL
  <2>4. Planned = PlanReviewed /\ Planned' = PlanReviewed'
    BY <2>2, <2>3 DEF BundlePlanned
  <2>5. OTypeOK' /\ AuthorityChain'
    BY DEF RunInv
  <2>6. PlansLatest /\ PlansLatest'
    BY <2>1, <2>5, PlanOfLatest, PTL
  <2>7. PICK n \in 0..MaxRound : \A q \in Rounds : review[q].state # "NONE" <=> q <= n
    BY <2>1 DEF StageFits
  <2>8. Planned = PlanAt(n)
    BY <2>4, <2>6, <2>7 DEF PlansLatest, Last
  <2>9. \A m \in 0..MaxRound :
          (\A q \in Rounds : review'[q].state # "NONE" <=> q <= m) => Planned' = PlanAt(m)'
    BY <2>4, <2>6 DEF PlansLatest, Last
  <2>10. \A q \in Rounds : q < n => revision[q] = "RESULT_READY" /\ review[q].state = "REVISION_REQUESTED"
    <3> SUFFICES ASSUME NEW q \in Rounds, q < n
                 PROVE  revision[q] = "RESULT_READY" /\ review[q].state = "REVISION_REQUESTED"
      OBVIOUS
    <3>1. q + 1 \in Rounds /\ review[q + 1].state # "NONE"
      BY <2>7, RoundAssumption DEF Rounds
    <3>2. revision[q] = "RESULT_READY"
      BY <2>1, <3>1, RoundAssumption DEF AuthorityChain, Rounds
    <3> QED
      BY <2>1, <3>2 DEF AuthorityChain
  <2>11. \A q \in Rounds : q <= n <=> review[q].state # "NONE"
    BY <2>7
  <2>12. CASE Opened(r) /\ review[r].state = "NONE"
    <3>1. r = n + 1
      <4>1. r > n
        BY <2>7, <2>12, RoundAssumption DEF Rounds
      <4>2. CASE r = 1
        BY <2>7, <4>1, <4>2
      <4>3. CASE r # 1
        <5>1. r - 1 \in Rounds /\ revision[r - 1] = "RESULT_READY"
          BY <2>12, <4>3, RoundAssumption DEF Opened, BundleReady, Rounds
        <5>2. review[r - 1].state = "REVISION_REQUESTED"
          BY <2>1, <5>1 DEF AuthorityChain
        <5> QED
          BY <2>7, <4>1, <5>1, <5>2, RoundAssumption DEF Rounds
      <4> QED
        BY <4>2, <4>3
    <3>2. \A q \in Rounds : review'[q].state # "NONE" <=> q <= r
      BY <2>7, <2>12, <3>1, RoundAssumption DEF Opened, Rounds
    <3>3. Planned' = PlanAt(r)'
      BY <2>9, <3>2, RoundAssumption DEF Rounds
    <3>4. PlanAt(r)' = "WAIT_WEB_VERDICT"
      BY <2>12 DEF Opened, PlanAt
    <3>5. n # 0 => n \in Rounds /\ revision[n] = "RESULT_READY"
      BY <2>12, <3>1, RoundAssumption DEF Opened, BundleReady, Rounds
    <3>6. n # 0 => review[n].state = "REVISION_REQUESTED"
      BY <2>1, <3>5 DEF AuthorityChain
    <3>7. PlanAt(n) = "WAIT_WEB_VERDICT"
      BY <3>5, <3>6 DEF PlanAt
    <3> QED
      BY <2>8, <3>3, <3>4, <3>7 DEF Moves
  <2>13. ASSUME review[r].state # "NONE", \A q \in Rounds : review'[q].state # "NONE" <=> q <= n
         PROVE  Planned' = PlanAt(n)'
    BY <2>7, <2>9, <2>13
  <2>14. CASE Opened(r) /\ review[r].state = "PENDING"
    <3>1. Planned' = PlanAt(n)'
      BY <2>7, <2>13, <2>14 DEF Opened
    <3>2. r = n
      BY <2>7, <2>10, <2>14, RoundAssumption DEF Rounds
    <3> QED
      BY <2>8, <2>14, <3>1, <3>2 DEF Opened, PlanAt, Moves
  <2>15. CASE Closed(r)
    <3>1. Planned' = PlanAt(n)'
      BY <2>7, <2>13, <2>15 DEF Closed, TerminalReview
    <3>2. r = n
      BY <2>7, <2>10, <2>15, RoundAssumption DEF Closed, Rounds
    <3>3. Planned = "WAIT_WEB_VERDICT"
      BY <2>8, <2>15, <3>2 DEF Closed, PlanAt
    <3>4. Planned' \in {"REVISE", "WAIT_HUMAN", "WAIT_WEB_VERDICT"}
      BY <3>1 DEF PlanAt
    <3> QED
      BY <3>3, <3>4 DEF Moves, Lifecycle!Edge
  <2>16. CASE Revised(r)
    <3>1. Planned' = PlanAt(n)'
      BY <2>7, <2>13, <2>16 DEF Revised
    <3>2. r = n
      BY <2>7, <2>10, <2>16, RoundAssumption DEF Revised, Rounds
    <3>3. Planned \in {"REVISE", "WAIT_WEB_VERDICT"}
      BY <2>8, <2>16, <3>2 DEF Revised, PlanAt
    <3>4. Planned' \in {"REVISE", "WAIT_WEB_VERDICT"}
      BY <2>16, <3>1, <3>2 DEF Revised, PlanAt
    <3> QED
      BY <3>3, <3>4 DEF Moves, Lifecycle!Edge
  <2> QED
    BY <1>2, <2>12, <2>14, <2>15, <2>16 DEF Opened
<1> QED
  BY <1>1, <1>2 DEF OneRound

\* An opened Draft PR leads from OPEN_DRAFT_PR to PACKAGE_RESULT.
LEMMA DraftPlans ==
  ASSUME RunInv, selected \in published, drafted' = drafted \cup {selected},
         UNCHANGED <<selected, executor, published, result, review, revision>>
  PROVE  Moves
<1>1. CASE selected \in drafted
  <2>1. drafted' = drafted
    BY <1>1
  <2> QED
    BY <2>1, SamePlan
<1>2. CASE selected \notin drafted
  <2>1. executor[selected] = "READY_FOR_PUBLISH" /\ selected # NoPack /\ result # selected
    BY <1>2, PacksAssumption DEF RunInv, OTypeOK, AuthorityChain
  <2>2. Planned = "OPEN_DRAFT_PR"
    BY <1>2, <2>1 DEF Planned, PublishCurrent, DraftCurrent
  <2>3. Planned' = "PACKAGE_RESULT"
    BY <2>1 DEF Planned, PublishCurrent, DraftCurrent, ResultCurrent
  <2> QED
    BY <2>2, <2>3 DEF Moves, Lifecycle!Edge
<1> QED
  BY <1>1, <1>2

\* A packaged result waits for its first verdict.
LEMMA ResultPlans ==
  ASSUME RunInv, RunInv', selected \in drafted, result' = selected,
         UNCHANGED <<selected, executor, published, drafted, review, revision>>
  PROVE  Moves
<1>1. CASE result # NoPack
  <2>1. result' = result
    BY <1>1, PlanOfBundle DEF BundlePlanned
  <2> QED
    BY <2>1, SamePlan
<1>2. CASE result = NoPack
  <2>1. /\ selected \in published /\ selected # NoPack
        /\ executor[selected] = "READY_FOR_PUBLISH"
    BY PacksAssumption DEF RunInv, OTypeOK, AuthorityChain
  <2>2. Planned = "PACKAGE_RESULT"
    BY <1>2, <2>1 DEF Planned, PublishCurrent, DraftCurrent, ResultCurrent
  <2>3. \A r \in Rounds : review'[r].state # "NONE" <=> r <= 0
    BY <1>2, RoundAssumption DEF RunInv, StageFits, Rounds
  <2>4. BundlePlanned'
    BY PlanOfBundle, PTL
  <2>5. OTypeOK' /\ AuthorityChain'
    BY DEF RunInv
  <2>6. PlansLatest'
    BY <2>5, PlanOfLatest, PTL
  <2>7. PlanReviewed' = PlanAt(0)'
    BY <2>3, <2>6, RoundAssumption DEF PlansLatest, Last
  <2>8. Planned' = "WAIT_WEB_VERDICT"
    BY <2>1, <2>4, <2>7 DEF BundlePlanned, PlanAt
  <2> QED
    BY <2>2, <2>8 DEF Moves, Lifecycle!Edge
<1> QED
  BY <1>1, <1>2

\* Each effect of the runner leads to the next stage, or leaves the stage as it is.
LEMMA EffectPlans ==
  ASSUME LedgerInv, RunInv, RunInv', Effect
  PROVE  Moves
<1>1. /\ EvidenceTypes /\ EvidenceChain /\ StageFits
      /\ pc = "acting" => Grounded(plan.kind, plan.request)
  BY DEF RunInv, OTypeOK, AuthorityChain, EvidenceTypes, EvidenceChain, PlanGrounded
<1>2. CASE Register
  <2>1. selected = NoPack \/ executor[selected] = "ESCALATE_TO_WEB"
    BY <1>1, <1>2 DEF Register, Acting, StageFits
  <2>2. plan.request.pack \in Packs
    BY <1>1, <1>2, GroundedRegistration DEF Register, Acting
  <2>3. executor[plan.request.pack] \in {"NONE", "ESCALATE_TO_WEB"}
    BY <1>1, <2>1, <2>2, PacksAssumption DEF StageFits, EvidenceTypes, ExecutorEnd
  <2>4. Planned = "REGISTER_WEB_PACK"
    BY <2>1 DEF Planned
  <2>5. Planned' \in {"REGISTER_WEB_PACK", "EXECUTE_REGISTERED_PACK"}
    BY <1>2, <2>2, <2>3, PacksAssumption DEF Register, Planned
  <2> QED
    BY <2>4, <2>5 DEF Moves, Lifecycle!Edge
<1>3. CASE Execute
  <2>1. selected \in Packs /\ plan.request.pack = selected
    BY <1>1, <1>3, GroundedPack DEF Execute, Acting, PackKinds
  <2>2. executor[selected] = "NONE"
    BY <1>3 DEF Execute, Acting, RunInv, PlanGrounded
  <2>3. Planned = "EXECUTE_REGISTERED_PACK"
    BY <2>1, <2>2, PacksAssumption DEF Planned
  <2>4. executor'[selected] \in ExecutorEnd /\ selected' = selected /\ selected \notin published'
    BY <1>1, <1>3, <2>1, <2>2 DEF Execute, EvidenceTypes, EvidenceChain
  <2>5. Planned' \in {"REGISTER_WEB_PACK", "WAIT_HUMAN", "PUBLISH"}
    BY <2>1, <2>4, PacksAssumption DEF Planned, PublishCurrent, ExecutorEnd
  <2> QED
    BY <2>3, <2>5 DEF Moves, Lifecycle!Edge
<1>4. CASE Publish
  <2>1. /\ selected \in Packs /\ plan.request.pack = selected
        /\ executor[selected] = "READY_FOR_PUBLISH"
    BY <1>1, <1>4, GroundedPack DEF Publish, Acting, PackKinds, Grounded
  <2>2. /\ published' = published \cup {selected}
        /\ UNCHANGED <<selected, executor, drafted, result, review, revision>>
    BY <1>4, <2>1 DEF Publish, ThenSettle, reviews
  <2>3. CASE selected \in published
    <3>1. published' = published
      BY <2>2, <2>3
    <3> QED
      BY <2>2, <3>1, SamePlan
  <2>4. CASE selected \notin published
    <3>1. selected # NoPack /\ selected \notin drafted
      BY <1>1, <2>1, <2>4, PacksAssumption DEF EvidenceChain
    <3>2. Planned = "PUBLISH"
      BY <2>1, <2>4, <3>1 DEF Planned, PublishCurrent
    <3>3. Planned' = "OPEN_DRAFT_PR"
      BY <2>1, <2>2, <3>1 DEF Planned, PublishCurrent, DraftCurrent
    <3> QED
      BY <3>2, <3>3 DEF Moves, Lifecycle!Edge
  <2> QED
    BY <2>3, <2>4
<1>5. CASE OpenDraftPr
  <2>1. plan.request.pack = selected /\ selected \in published
    BY <1>1, <1>5, GroundedPack DEF OpenDraftPr, Acting, PackKinds, Grounded
  <2> QED
    BY <1>5, <2>1, DraftPlans DEF OpenDraftPr, ThenSettle, reviews
<1>6. CASE PackageResult
  <2>1. plan.request.pack = selected /\ selected \in drafted
    BY <1>1, <1>6, GroundedPack DEF PackageResult, Acting, PackKinds, Grounded
  <2> QED
    BY <1>6, <2>1, ResultPlans DEF PackageResult, ThenSettle, reviews
<1>7. CASE RecoverAdopt
  <2> DEFINE k == ledger.attempt.transition
  <2>1. Grounded(k, ledger.attempt.request)
    BY <1>7 DEF RecoverAdopt, RunInv, AttemptGrounded
  <2>2. /\ k = "OPEN_DRAFT_PR" => selected \in published
        /\ k = "PACKAGE_RESULT" => selected \in drafted
    BY <2>1 DEF Grounded
  <2>3. /\ drafted' = IF k = "OPEN_DRAFT_PR" THEN drafted \cup {selected} ELSE drafted
        /\ result' = IF k = "PACKAGE_RESULT" THEN selected ELSE result
        /\ UNCHANGED <<selected, executor, published, review, revision>>
    BY <1>7 DEF RecoverAdopt, RepeatEffect, reviews
  <2> HIDE DEF k
  <2>4. CASE k = "OPEN_DRAFT_PR"
    BY <2>2, <2>3, <2>4, DraftPlans
  <2>5. CASE k = "PACKAGE_RESULT"
    BY <2>2, <2>3, <2>5, ResultPlans
  <2>6. CASE k \notin {"OPEN_DRAFT_PR", "PACKAGE_RESULT"}
    BY <2>3, <2>6, SamePlan
  <2> QED
    BY <2>4, <2>5, <2>6
<1> QED
  BY <1>2, <1>3, <1>4, <1>5, <1>6, <1>7 DEF Effect

\* Whatever crashes, recoveries and commands beside the runner do, the plan derived from
\* the evidence (planner.ts) moves along the edges of the lifecycle: the driven run
\* refines RunLifecycle.
THEOREM RunFollowsLifecycle == OSpec => FollowsLifecycle
<1>1. OInit => Lifecycle!Init
  BY DEF OInit, Lifecycle!Init, Planned
<1>2. ASSUME LedgerInv, RunInv, RunInv', [ONext]_runVars
      PROVE  [Lifecycle!Next]_Planned
  <2>1. CASE Effect
    BY <1>2, <2>1, EffectPlans DEF Moves, Lifecycle!Next
  <2>2. CASE ~Effect
    <3>1. UNCHANGED <<selected, executor, published, drafted, result>>
      BY <1>2, <2>2, EvidenceFrame DEF evidence
    <3> QED
      BY <1>2, <3>1, OneRoundAtATime, ReviewPlans DEF Moves, Lifecycle!Next
  <2> QED
    BY <2>1, <2>2
<1> QED
  BY <1>1, <1>2, RunInvariant, RunInvariantHolds, PTL DEF OSpec, FollowsLifecycle, Lifecycle!Spec
=============================================================================
