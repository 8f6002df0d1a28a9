----------------------------- MODULE RunLedger -----------------------------
(***************************************************************************)
(* The run ledger: the one durable file per run that says which transition *)
(* attempt is in progress, how much of the run's budget is spent, when a   *)
(* failed transition may be retried and whether an operator paused the run *)
(* (orchestration/ledger.ts, controller.ts, retry-policy.ts).              *)
(*                                                                         *)
(* Every operation reads the file, computes a new ledger, validates it and *)
(* renames it over the old one while it holds the STATE_WRITER run lock, so*)
(* each operation is one step here.  A process that holds an attempt id may*)
(* report its outcome arbitrarily late: it may be a continue command that  *)
(* was overtaken by a crash recovery, by a pause or by a retry.            *)
(***************************************************************************)
EXTENDS Integers, FiniteSets

CONSTANTS
  Kinds,          \* transition kinds the runner starts attempts of
  Requests,       \* sealed request payloads (the sha256 of one, abstracted)
  MaxAttempts,    \* budget.max_attempts_per_transition (4)
  MaxTotal,       \* budget.max_total_attempts (24)
  MaxElapsed,     \* budget.max_elapsed_ms (24 h)
  MaxTurns,       \* budget.max_model_turns (32); stands for the token caps too
  MaxFailures,    \* maximum_consecutive_failures (5)
  RetryDelays,    \* the values computeRetryDelay returns
  CircuitOpenFor, \* circuit_open_ms (120 s)
  Usages,         \* model turns one completed attempt reports
  MaxTime,        \* bound of the clock; a bound of the model, not of the code
  NoTime,         \* a null timestamp
  NoAttempt       \* current_attempt = null

TransitionKind ==
  {"REGISTER_WEB_PACK", "EXECUTE_REGISTERED_PACK", "PUBLISH", "OPEN_DRAFT_PR",
   "PACKAGE_RESULT", "WAIT_WEB_VERDICT", "REVISE", "WAIT_HUMAN", "DONE"}

WaitKinds == {"WAIT_HUMAN", "WAIT_WEB_VERDICT"}

Status == {"ACTIVE", "PAUSED", "WAITING", "BLOCKED", "COMPLETE", "FAILED"}
TerminalStatus == {"BLOCKED", "FAILED", "COMPLETE"}

\* The two classes retryableFailureCode splits error codes into.
FailureCode == {"RETRYABLE", "TERMINAL"}

\* An attempt id is a hash of these three, so the record is the identity.
Attempt == [transition : Kinds, request : Requests, number : Nat \ {0}]

Ledger ==
  [status   : Status,
   paused   : BOOLEAN,
   next     : TransitionKind,
   attempt  : Attempt \cup {NoAttempt},
   attempts : [Kinds -> Nat],
   total    : Nat,
   turns    : Nat,
   failures : Nat,
   retryAt  : Nat \cup {NoTime},
   circuit  : {"CLOSED", "OPEN", "HALF_OPEN"},
   opened   : BOOLEAN,             \* circuit_opened_at # null
   code     : FailureCode \cup {"NONE"}]

ASSUME KindsAssumption == Kinds \subseteq TransitionKind /\ IsFiniteSet(Kinds)
ASSUME BudgetAssumption ==
  /\ MaxAttempts \in Nat \ {0} /\ MaxTotal \in Nat \ {0} /\ MaxElapsed \in Nat
  /\ MaxTurns \in Nat /\ MaxFailures \in Nat \ {0} /\ MaxTime \in Nat
  /\ Usages \subseteq Nat
ASSUME DelayAssumption ==
  RetryDelays \subseteq Nat \ {0} /\ CircuitOpenFor \in Nat \ {0}
ASSUME NullAssumption == NoTime \notin Nat /\ NoAttempt \notin Attempt

-----------------------------------------------------------------------------
(* The operations, as functions of the ledger that was read and of now.    *)

NewLedger ==
  [status |-> "ACTIVE", paused |-> FALSE, next |-> "REGISTER_WEB_PACK",
   attempt |-> NoAttempt, attempts |-> [k \in Kinds |-> 0], total |-> 0,
   turns |-> 0, failures |-> 0, retryAt |-> NoTime, circuit |-> "CLOSED",
   opened |-> FALSE, code |-> "NONE"]

Overspent(l) == l.turns > MaxTurns                    \* modelBudgetExceeded

WaitsUntil(l, now) == l.retryAt # NoTime /\ l.retryAt > now

\* The attempts a ledger accounts for, one slot for each attempt of a kind.
AttemptSlots(l) ==
  {s \in Kinds \X (1..MaxTotal) : s[2] <= l.attempts[s[1]]}

\* validateLedger: every read and every write of the file checks it.
AccountsValid(l) ==
  /\ l.total <= MaxTotal
  /\ \A k \in Kinds : l.attempts[k] <= MaxTotal
  /\ Cardinality(AttemptSlots(l)) = l.total

RetryValid(l) ==
  /\ l.circuit = "CLOSED" => ~l.opened
  /\ l.circuit = "OPEN" => l.opened /\ l.retryAt # NoTime
  /\ l.failures = 0 =>
       l.code = "NONE" /\ l.retryAt = NoTime /\ l.circuit = "CLOSED"

IdleValid(l) ==
  /\ l.retryAt # NoTime => l.status = "WAITING"
  /\ l.code # "NONE" /\ l.retryAt = NoTime => l.status \in {"BLOCKED", "FAILED"}
  /\ l.next = "DONE" => l.status \in {"COMPLETE", "FAILED"}
  /\ l.next \in WaitKinds /\ l.retryAt = NoTime =>
       l.status \in {"WAITING", "BLOCKED", "FAILED"}
  /\ Overspent(l) /\ l.next # "DONE" => l.status \in {"BLOCKED", "FAILED"}

StateValid(l) ==
  /\ l.paused <=> l.status = "PAUSED"
  /\ RetryValid(l)
  /\ l.attempt # NoAttempt =>
       /\ l.attempts[l.attempt.transition] = l.attempt.number
       /\ ~l.paused => l.status = "ACTIVE"
  /\ ~l.paused /\ l.attempt = NoAttempt => IdleValid(l)

Valid(l) == AccountsValid(l) /\ StateValid(l)

CanPause(l) == l.status \notin TerminalStatus
AfterPause(l) == [l EXCEPT !.paused = TRUE, !.status = "PAUSED"]

\* Mutant: a waiting transition is restored as an active one.
RestoredStatusIgnoringWait(l, now) ==
  CASE l.attempt # NoAttempt                    -> "ACTIVE"
    [] l.attempt = NoAttempt /\ l.next = "DONE" -> "COMPLETE"
    [] l.attempt = NoAttempt /\ l.next # "DONE" ->
         IF Overspent(l) \/ (l.code # "NONE" /\ l.retryAt = NoTime) THEN "BLOCKED"
         ELSE IF WaitsUntil(l, now) THEN "WAITING" ELSE "ACTIVE"

RestoredStatus(l, now) ==
  CASE l.attempt # NoAttempt                    -> "ACTIVE"
    [] l.attempt = NoAttempt /\ l.next = "DONE" -> "COMPLETE"
    [] l.attempt = NoAttempt /\ l.next # "DONE" ->
         IF Overspent(l) \/ (l.code # "NONE" /\ l.retryAt = NoTime) THEN "BLOCKED"
         ELSE IF WaitsUntil(l, now) \/ l.next \in WaitKinds THEN "WAITING"
         ELSE "ACTIVE"

AfterResume(l, now) ==
  [l EXCEPT !.paused = FALSE, !.status = RestoredStatus(l, now)]

\* Mutants: the backoff, or the terminal statuses, are not looked at.
MayCheckpointEarly(l, now, k) ==
  /\ ~l.paused
  /\ l.status \notin TerminalStatus
  /\ now <= MaxElapsed
  /\ ~(k = "EXECUTE_REGISTERED_PACK" /\ l.turns >= MaxTurns)

MayCheckpointBlocked(l, now, k) ==
  /\ ~l.paused
  /\ ~WaitsUntil(l, now)
  /\ now <= MaxElapsed
  /\ ~(k = "EXECUTE_REGISTERED_PACK" /\ l.turns >= MaxTurns)

\* The guards of checkpointAttempt, in the order the code tries them.
MayCheckpoint(l, now, k) ==
  /\ ~l.paused
  /\ l.status \notin TerminalStatus
  /\ ~WaitsUntil(l, now)
  /\ now <= MaxElapsed
  /\ ~(k = "EXECUTE_REGISTERED_PACK" /\ l.turns >= MaxTurns)

\* Mutant: only the total of all transitions is bounded.
CanCheckpointByTotal(l, now, k) ==
  /\ MayCheckpoint(l, now, k)
  /\ l.attempt = NoAttempt
  /\ l.total < MaxTotal

CanCheckpoint(l, now, k) ==
  /\ MayCheckpoint(l, now, k)
  /\ l.attempt = NoAttempt
  /\ l.total < MaxTotal
  /\ l.attempts[k] + 1 <= MaxAttempts

BeginAttempt(l, k, r) ==
  [transition |-> k, request |-> r, number |-> l.attempts[k] + 1]

AfterCheckpoint(l, k, r) ==
  [l EXCEPT !.attempt = BeginAttempt(l, k, r),
            !.attempts[k] = l.attempts[k] + 1,
            !.total = l.total + 1,
            !.status = "ACTIVE",
            !.retryAt = NoTime,
            !.circuit = IF l.circuit = "OPEN" THEN "HALF_OPEN" ELSE l.circuit]

\* Mutant: an overspent result does not block the run.
CompletedStatusUnmetered(l, next, used) ==
  IF l.paused THEN "PAUSED"
  ELSE IF next = "DONE" THEN "COMPLETE"
  ELSE IF next \in WaitKinds THEN "WAITING" ELSE "ACTIVE"

CompletedStatus(l, next, used) ==
  IF l.paused THEN "PAUSED"
  ELSE IF l.turns + used > MaxTurns /\ next # "DONE" THEN "BLOCKED"
  ELSE IF next = "DONE" THEN "COMPLETE"
  ELSE IF next \in WaitKinds THEN "WAITING" ELSE "ACTIVE"

AfterComplete(l, next, used) ==
  [l EXCEPT !.attempt = NoAttempt, !.next = next, !.turns = l.turns + used,
            !.status = CompletedStatus(l, next, used), !.failures = 0,
            !.retryAt = NoTime, !.circuit = "CLOSED", !.opened = FALSE,
            !.code = "NONE"]

\* decideRetry: budgets first, then the circuit, then the backoff.
DecideRetry(l, code, now) ==
  IF \/ code = "TERMINAL"
     \/ l.total >= MaxTotal
     \/ l.attempts[l.attempt.transition] >= MaxAttempts
     \/ now > MaxElapsed
  THEN "TERMINAL"
  ELSE IF l.failures + 1 >= MaxFailures THEN "CIRCUIT_OPEN" ELSE "RETRY"

FailedStatus(l, decision) ==
  IF l.paused THEN "PAUSED"
  ELSE IF decision = "TERMINAL" THEN "BLOCKED" ELSE "WAITING"

FailedRetryAt(decision, delay, now) ==
  CASE decision = "RETRY"        -> now + delay
    [] decision = "CIRCUIT_OPEN" -> now + CircuitOpenFor
    [] decision = "TERMINAL"     -> NoTime

AfterFail(l, code, delay, now) ==
  LET decision == DecideRetry(l, code, now)
      trips    == decision = "CIRCUIT_OPEN"
  IN [l EXCEPT !.attempt = NoAttempt, !.code = code, !.failures = l.failures + 1,
               !.status = FailedStatus(l, decision),
               !.retryAt = FailedRetryAt(decision, delay, now),
               !.circuit = IF trips THEN "OPEN" ELSE l.circuit,
               !.opened = (trips \/ l.opened)]

\* What the transition runner and the crash recovery name as the next step.
Successors(k) ==
  CASE k = "REGISTER_WEB_PACK"       -> {"EXECUTE_REGISTERED_PACK"}
    [] k = "EXECUTE_REGISTERED_PACK" -> {"PUBLISH", "REGISTER_WEB_PACK", "WAIT_HUMAN"}
    [] k = "PUBLISH"                 -> {"OPEN_DRAFT_PR"}
    [] k = "OPEN_DRAFT_PR"           -> {"PACKAGE_RESULT"}
    [] k = "PACKAGE_RESULT"          -> {"WAIT_WEB_VERDICT"}
    [] k = "WAIT_WEB_VERDICT"        -> {"REVISE", "WAIT_HUMAN"}
    [] k = "REVISE"                  -> {"WAIT_WEB_VERDICT"}
    [] OTHER                         -> {}

\* Only the executor's reviewer and a revision report usage.
UsageOf(k) ==
  IF k \in {"EXECUTE_REGISTERED_PACK", "REVISE"} THEN Usages ELSE {0}

-----------------------------------------------------------------------------
VARIABLES
  ledger,    \* the file
  clock,     \* the wall clock, monotone
  started,   \* history: every attempt ever started
  embargo,   \* history: no attempt was to start before this time
  condemned  \* history: a failure was terminal or the budget was overspent

vars == <<ledger, clock, started, embargo, condemned>>

Init ==
  /\ ledger = NewLedger
  /\ clock = 0
  /\ started = {}
  /\ embargo = 0
  /\ condemned = FALSE

\* writeRunLedger throws, and leaves the file as it is, on an invalid ledger.
Write(l) == Valid(l) /\ ledger' = l

Pause ==
  /\ CanPause(ledger)
  /\ Write(AfterPause(ledger))
  /\ UNCHANGED <<clock, started, embargo, condemned>>

Resume ==
  /\ ledger.paused
  /\ Write(AfterResume(ledger, clock))
  /\ UNCHANGED <<clock, started, embargo, condemned>>

Checkpoint(k, r) ==
  /\ CanCheckpoint(ledger, clock, k)
  /\ Write(AfterCheckpoint(ledger, k, r))
  /\ started' = started \cup {BeginAttempt(ledger, k, r)}
  /\ UNCHANGED <<clock, embargo, condemned>>

\* a is the attempt id its holder reports on; a late one is refused.
Complete(a, next, used) ==
  /\ ledger.attempt = a
  /\ Write(AfterComplete(ledger, next, used))
  /\ embargo' = 0
  /\ condemned' = (condemned \/ ledger.turns + used > MaxTurns)
  /\ UNCHANGED <<clock, started>>

Fail(a, code, delay) ==
  LET decision == DecideRetry(ledger, code, clock)
  IN /\ ledger.attempt = a
     /\ Write(AfterFail(ledger, code, delay, clock))
     /\ embargo' = CASE decision = "RETRY"        -> clock + delay
                     [] decision = "CIRCUIT_OPEN" -> clock + CircuitOpenFor
                     [] decision = "TERMINAL"     -> embargo
     /\ condemned' = (condemned \/ decision = "TERMINAL")
     /\ UNCHANGED <<clock, started>>

Tick ==
  /\ clock < MaxTime
  /\ clock' = clock + 1
  /\ UNCHANGED <<ledger, started, embargo, condemned>>

CheckpointAny == \E k \in Kinds, r \in Requests : Checkpoint(k, r)
CompleteAny ==
  \E a \in started :
    \E n \in Successors(a.transition), u \in UsageOf(a.transition) : Complete(a, n, u)
FailAny ==
  \E a \in started : \E c \in FailureCode, d \in RetryDelays : Fail(a, c, d)

Next == Pause \/ Resume \/ CheckpointAny \/ CompleteAny \/ FailAny \/ Tick

Spec == Init /\ [][Next]_vars

-----------------------------------------------------------------------------
(* Properties                                                              *)

TypeOK ==
  /\ ledger \in Ledger
  /\ clock \in Nat
  /\ started \subseteq Attempt
  /\ embargo \in Nat
  /\ condemned \in BOOLEAN

\* No pause, checkpoint, completion or failure report is ever refused by the
\* ledger's own validator: whatever the interleaving, a step that has already
\* caused its side effect can be recorded (validateLedger, ledger.ts).
WritesAccepted ==
  /\ CanPause(ledger) => Valid(AfterPause(ledger))
  /\ \A k \in Kinds, r \in Requests :
       CanCheckpoint(ledger, clock, k) => Valid(AfterCheckpoint(ledger, k, r))
  /\ ledger.attempt # NoAttempt =>
       /\ \A n \in Successors(ledger.attempt.transition),
             u \in UsageOf(ledger.attempt.transition) :
            Valid(AfterComplete(ledger, n, u))
       /\ \A c \in FailureCode, d \in RetryDelays :
            Valid(AfterFail(ledger, c, d, clock))

\* Resuming is refused only when the run is idle and its retry deadline is over;
\* in every other paused state the restored status fits what happened meanwhile:
\* a result, a failure, an overspent budget or a still running attempt.
ResumeAcceptedWhileWaiting ==
  ledger.paused /\ (ledger.attempt = NoAttempt /\ ledger.retryAt # NoTime
                      => WaitsUntil(ledger, clock))
    => Valid(AfterResume(ledger, clock))

\* The attempts really started, not the counters, stay within the budgets.
BudgetsHold ==
  /\ Cardinality(started) <= MaxTotal
  /\ \A k \in Kinds :
       Cardinality({a \in started : a.transition = k}) <= MaxAttempts

\* An attempt id is a fence: no attempt starts under an id that was used, so
\* a late report of an earlier attempt can never settle a later one.
AttemptIdsFresh ==
  [][ledger'.attempt \notin {ledger.attempt, NoAttempt}
       => ledger'.attempt \notin started]_vars

\* No attempt starts before the deadline set by the last retryable failure or
\* open circuit, however often the run was paused and resumed meanwhile.
RetriesRespectBackoff ==
  [][ledger'.attempt \notin {ledger.attempt, NoAttempt} => clock >= embargo]_vars

\* Once a failure was judged terminal, or a result overspent the model budget,
\* no attempt ever starts again, also when it happened while paused.
CondemnedStartsNothing ==
  [][condemned => ledger'.attempt \in {ledger.attempt, NoAttempt}]_vars

\* After MaxFailures failures in a row an attempt runs only as the probe of a
\* half-open circuit.
ProbesOnly ==
  ledger.attempt # NoAttempt /\ ledger.failures >= MaxFailures
    => ledger.circuit = "HALF_OPEN"

-----------------------------------------------------------------------------
(* The inductive invariant behind the properties, in named parts.          *)

\* Every attempt was counted, once, under its own kind.
Counted ==
  /\ IsFiniteSet(started)
  /\ Cardinality(started) = ledger.total
  /\ \A k \in Kinds :
       /\ ledger.attempts[k] <= MaxAttempts
       /\ Cardinality({a \in started : a.transition = k}) = ledger.attempts[k]
  /\ \A a \in started : a.number <= ledger.attempts[a.transition]

\* What a ledger with an attempt in progress cannot carry.
Running ==
  ledger.attempt # NoAttempt =>
    /\ ledger.attempt \in started
    /\ ledger.retryAt = NoTime
    /\ ~condemned

\* An idle ledger still knows the deadline, and why there is none.
Deadlines ==
  /\ ledger.code = "NONE" => ledger.failures = 0
  /\ ledger.attempt = NoAttempt =>
       /\ ledger.retryAt # NoTime =>
            /\ embargo = ledger.retryAt
            /\ ledger.failures >= MaxFailures => ledger.circuit = "OPEN"
       /\ ledger.retryAt = NoTime /\ ledger.code = "NONE" => embargo = 0

\* A condemned run carries the reason that blocks it, paused or not.
Condemned ==
  /\ ledger.next # "DONE"
  /\ ~condemned => ~Overspent(ledger)
  /\ condemned => /\ ledger.retryAt = NoTime
                  /\ Overspent(ledger) \/ ledger.code # "NONE"

LedgerInv ==
  TypeOK /\ Valid(ledger) /\ Counted /\ Running /\ Deadlines /\ Condemned
           /\ ProbesOnly
=============================================================================
