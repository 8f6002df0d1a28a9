# WCO in TLA+

Specifications of the Web Codex Orchestrator (`src/`, TypeScript), the TLC runs
that check them and the TLAPS proofs about them.  WCO takes a task from a Web
model to a reviewed pull request.  A Web model writes an implementation pack; a
local harness registers it, applies it to a Git worktree, verifies it, has it
reviewed, publishes it, opens a draft pull request, seals a result bundle, hands
it to the Web for a verdict and runs revisions.  Everything is kept in files:
there is no database and no server that owns the state, any process may die
between any two file operations, and several `wco` processes may run at once.

Contents: [the system](#the-system), [the modules](#the-modules),
[the runs](#the-runs), [what does not hold](#what-does-not-hold),
[the proofs](#the-proofs), [what is left out](#what-is-left-out),
[the plan](#the-plan).  `PROJECT.json` maps every definition to its source lines.

## The system

A component is listed with the state it keeps, what it does and whom it meets, what
is hard about it, and what makes it correct.

| Component (under `src/src`) | State it keeps | Operations and partners | Hard | Correct when |
|---|---|---|---|---|
| Run ledger `orchestration/ledger.ts`, `controller.ts`, `retry-policy.ts` | one JSON ledger per run: attempt in progress, counters, budgets, retry deadline, circuit, pause | create, pause, resume, checkpoint, complete, fail; called by the runner, the control CLI and recovery under the STATE_WRITER lock | late outcomes of overtaken attempts; backoff, circuit and pause combine | budgets hold, no attempt id is used twice, no start before the deadline, every write passes the validator |
| Transition runner `orchestration/transition-runner.ts`, `planner.ts`, `snapshot-reader.ts`, `recovery.ts`, `revise.ts` | none of its own: reads every other receipt | one transition per `wco continue`: plan, checkpoint, side effect, complete; recovery of an interrupted attempt | a crash between any two steps; operators using the direct commands beside it; evidence of an earlier round read as current | an attempt is settled on its own evidence only, finished work is kept, the run refines the ledger |
| Ticket file lock `shared/ticket-file-lock.ts` | a directory of numbered ticket files | acquire, release; used by the relay store, reviewer mode and autopilot state | stale directory listings, dead owners, names that are used again | mutual exclusion, first come first served, live tickets kept |
| Relay store `web-bridge/relay` | one record per task: an event log | append, read; reached by the native MCP server and the local worker | several writers of one file | no acknowledged event is lost |
| Executor `executor/` | receipt (transaction, verification, review, repairs), backups, the worktree | apply, roll back, verify, review, repair, resume; called by the runner and the Web repair | crashes between a write and its flag; edits by others; repairs of repairs | READY is the verified and reviewed tree, nobody's edit is overwritten unseen |
| Git publication `publish/`, `orchestration/p10-publish.ts` | publish receipt READY_FOR_COMMIT, COMMITTED, PUSHED; the branch; the remote | commit, push, resume | a crash between commit and receipt, between push and receipt; a remote that moved | one commit on the locked base, pushed once, only what was approved |
| Draft pull request `pull-request/` | draft receipt, the pull request on GitHub | create or adopt, mark OPEN | a lost answer to a create request | at most one pull request per run |
| Result bundle `result-bundle/` | sealed ZIP and receipt | build, verify, seal | a crash between ZIP and receipt | one immutable bundle per published head |
| Web review `web-review/` | rounds with request, verdict receipt and history | submit verdict, recover, status | interrupted rounds, rounds out of order | one verdict per round and bundle |
| Revision `revision/` | revision receipts, the published head | run, resume, reseal | a chain of heads; blocked states | every revision starts from the head that was reviewed |
| Intake `intake/`, `bundle/` | quarantine, accepted and rejected archives with their receipts | copy, look up, judge, store; called by preparation | two processes with one archive; a crash before the last rename; errors of the disk that look like flaws | an archive is accepted or rejected once and completely, and refused only for a flaw or after an error |
| Run preparation `run/`, `git/` | run receipt, event journal, delivery branch, worktree | lock, prepare, clean up; called by the inbox and the CLI | half-made worktrees, two runs on one branch, branches others work on | a ready run has a worktree and a branch of its own |
| Inbox `inbox/` | an index of what was seen and how it ended | scan, watch, prepare | files that change, scans at once | a skipped file is ready, too old, or has a refusal on record |
| Agent execution `execution/`, `agent/` | execution receipt and its state machine, budget, a lock file | assess, implement, verify, review, fix; then publication | interrupted model calls, late agents, exhausted budgets, a worktree that moves | READY is about the tree that was read, tested and approved; turns are counted before they are asked |
| Verifier `verifier/` | none | runs the commands of a plan in the worktree and adopts its final digest | commands that write where they verify | what passed is what is adopted |
| Job drivers `orchestration/autopilot-*.ts`, `pair-harness.ts`, `harness-*.ts`, `tui/pair-completion.ts` | AUTOPILOT: one durable receipt; PAIR: none, it looks at what is there | drive a prepared run through execution, delivery and Web review | several drivers of one run, late services, crashes, interrupts | the receipt never runs ahead of the services, and a decision for the user stands |
| Web bridge `web-bridge/` | review jobs, code-review receipt, materialised verdict; tasks, sessions, relay | ask for a review, adopt the verdict, bind a repair | receipts written without a lock, torn files | a review is decided as the Web answered |
| Terminal UI and CLI `tui/`, `cli/`, `preview/` | none | presentation; the PAIR session | what a session assumes between steps | the session follows the gates |
| Web authority `web-authority/` | registrations of packs | register, read, inspect | a dirty worktree | one registration per artifact |
| Sandboxes `runtime/`, configuration, setup, uninstall, benchmark, evidence | configuration | one-shot commands, plumbing | none to speak of | out of scope |

Interaction is through files.  The runner asks the planner for the next transition
from a snapshot of all receipts; each transition calls one service, which writes
its own receipt; the ledger brackets the call with a checkpoint before and a
completion after.  The job drivers call the same services without the ledger and
keep a receipt of their own (AUTOPILOT) or none (PAIR).  The locks are of two kinds:
ticket locks, which queue, and exclusive files (`wx`), which are refused when taken,
outlive their owner and are removed by an operator.

## The modules

| Module | Models | State and code |
|---|---|---|
| `RunLedger` | the ledger and its controller | `ledger` is the JSON file; each action is one operation under the STATE_WRITER lock: `Checkpoint`, `Complete`, `Fail`, `Pause`, `Resume`, and `Tick` for the clock.  `Valid` is `validateLedger`; an operation whose result is not valid throws and changes nothing.  `started` records the attempts ever started, whose outcome may arrive late |
| `RunLifecycle` | the abstract promise of a run: the order of stages | one variable, the stage; refined by `RunOrchestration` |
| `RunOrchestration` | the transition runner over the ledger | extends `RunLedger`; adds the evidence (packs, publication, pull request, bundle, reviews, revisions) and one `continue` process with a program counter: plan, checkpoint, act, complete, or crash anywhere; recovery; direct commands |
| `TicketLock` | one file lock | `dir` maps ticket numbers to files; per process a place, the number it planned, the names still to look at; every file-system call is a step |
| `RelayWriters` | `locked` and `append` over `TicketLock` | extends it with the record, each process's copy and what was acknowledged |
| `ExecutorTransaction` | one executor run over one worktree | `files`, `stray`, `head` are the worktree; `receipt`, `repair`, `history` the receipt; `pc`, `at` the process.  Each receipt write and each file write is a step |
| `GitPublication` | publication of an attested change set | `repository` (worktree, index, HEAD, commits made), `remote`, `receipt` READY_FOR_COMMIT, COMMITTED, PUSHED; `pc` and `pushing` of the one process.  Each git command and each receipt write is a step.  `OthersPublish` is everybody else in the worktree and on the branch |
| `DraftPullRequest` | the pull request of a published run | extends it with `github` (pull requests, create requests in flight, the answer) and `draft`, the receipt from INTENT to OPEN or CONFLICT; discovery, the create request, its lost, late or refused answer, rediscovery, confirmation; `OthersUsePulls` |
| `ResultBundle` | sealing of the result | extends it with `sealing`: bundle receipt, archive, build lock; lock, link, build, verification, seal, and their resumption |
| `Delivery` | the three together | one delivering process that may fail or crash at every step, unanswered and denied requests, packaging before its time, an operator, interference |
| `DeliveryPromise` | the abstract promise of a delivery | the commit, its publication, the pull request and the seal, each named once and in this order; refined by `Delivery` |
| `WebReview` | `submitWebVerdict` and the recovery of a round | per round the request, the sealed verdict, the receipt and the exclusive lock; every process reads the verdict file, validates, attests the pull request, seals and writes the event, a step each |
| `Revision` | a revision from its receipt | extends it with the worktree, HEAD, the remote and one receipt per revision, PREPARING to RESULT_READY; a step per receipt write, git command and model turn; `ResumesAt` is where a receipt is taken up again |
| `ReviewPromise` | the abstract promise of a review | a sequence of heads, each undecided or decided for ever; refined by `ReviewLoop` |
| `ReviewLoop` | both, for several processes | submit, revise, recover, fail, crash; others edit, commit, push, close the pull request, remove locks |
| `Intake` | an archive on its way into a store | `accepted` and `rejected` are the two stores, the second with the class a scan gives the refusal's code; quarantine copy, lookup, judgement, final rename; the flaw an archive has says at which stage it is refused.  `CopyTrouble`, `FindTrouble` and `JudgeTrouble` are the errors of the disk at each step; `misread` remembers the archives that were refused because of one |
| `Preparation` | `prepareRun` | extends it with run receipt, journal, branch, worktree and the locks of a run and of a branch; each receipt write, journal append and git command is a step, so is each step of the cleanup |
| `Inbox` | scans, the watcher and the index | extends it; several processes scan, watch and prepare; files and branches change under them |
| `ExecutionGates` | pure part of an agent execution | the receipt, the table of states (`state-machine.ts`), the budget and the gates |
| `AgentExecution` | `execute`, its error path, the publication of its result | extends it; `disk` is the receipt, `mem` the copy of the call, `tree` the worktree, the lock file, late agents; a step per write, turn and reading of the worktree |
| `WebVerdict` | what a job driver calls | executor, publication, pull request and bundle to their end in one step each (they have modules of their own); the Web review of the bundle in detail: code-review gate, jobs, verdict file, seal, repair |
| `JobDriver` | AUTOPILOT and PAIR | extends it; `receipt` is `autopilot.json`, `job` what each process does, with its copy of the receipt, its cycles left and whether it was interrupted |
| `*Proofs` | theorems about the module of that name (`TicketLockProofs` also of `RelayWriters`, `RunOrchestrationProofs` of `RunLedger`, `ExecutorProofs` of `ExecutorTransaction`) | |
| `MC*` | TLC instances; `Delivery`, `TicketLock` and the live runs are checked as they stand | |

### Abstractions worth knowing

* Digests are injective: the digest of a tree is the tree, an attempt id is the
  record of what it hashes.
* In `RunLedger` the elapsed-time budget and the retry deadlines share one clock;
  error codes are the two classes that `retryableFailureCode` tells apart; the
  model-turn budget stands for the token budgets, which are treated the same way.
* In `RunOrchestration` the services are single steps (publication, pull request,
  bundle, review, revision) that stay done: what happens inside them belongs to modules
  of their own.  `Delivery` shows one exception: recovery that repeats an OPEN draft
  pull request can find it closed and record CONFLICT.  The model lets a registration
  succeed after an escalation, although the worktree may be dirty: it allows more
  than the code.
* In the delivery modules a tree is the locked base, the approved change set or some
  other one; a commit is known by its serial number, its tree, whether it stands on
  the locked base and whether it carries the run's message.  READY_TO_BUILD and
  BUILDING are written one after the other and are one state.  The archive is the
  commit, the pull request and its title, and nobody else alters it.  Listing pull
  requests and writing what was found is one step.  Running PUSHED or READY
  again only reads, and is left out; a repeat of an OPEN draft pull request is kept.
* In `ExecutorTransaction` a file's bytes and mode are one image; an absent file is
  an image; so create, replace and delete are one kind of operation.  The window
  between the last read of a target and its replacement is kept, as the place
  where an edit can be lost (for a created file the code's `link` closes it).
  The reviewer has the production budget policy, without which an interrupted
  review would be asked again.
* In the review modules a verdict says one of four things, approve, revise, block or
  something the policy refuses; READY_TO_VALIDATE and VALIDATING are one state; a
  commit is its tree and what it was made on.  `slipped` remembers who edited the
  worktree where a revision compares what it reads with nothing (`Blind`): `measure`,
  after the verifier's last command (`verifier.ts:61`); `review`, while the reviewer
  reads; `snapshot`, after the last comparison (`revision-service.ts:415`).
* In `Intake` an archive is known by its hash and has at most one flaw.  An error at
  any read while an archive is judged is one action with every outcome it can have; one
  while the quarantine is removed, after the outcome was stored, is left out for a
  refusal (the answer is then failed, and the next look finds what is stored).
* In `Inbox` a version of a file stands for the size and the modification time
  by which the index knows it (`scanner.ts:106`): a replacement by others always makes a
  new version, so one that keeps both is not modelled.  A file is stable as soon as it
  is observed: the code asks for several equal observations, which only delays it.  What
  git says about a repository or a base commit is a choice.
* In `AgentExecution` wall-clock and token limits are one outcome of a turn, and what
  an agent or a reviewer answers is a choice.  The verification has one required command.
* In `JobDriver` a retry deadline is pending or over, and a run keeps its mode.  There
  is one bundle, so one review of each kind: a second round would need a revision, and
  that is refused (see below).

## The runs

Every run with `CHECK_DEADLOCK FALSE` is of a system that may stop: the modelled
clock ends, a run waits for a human or is complete, every lock seeker has been
answered, an execution, a delivery or a driver has ended, or the budget of mishaps and
calls is used up.

| Run | Bounds | Shows |
|---|---|---|
| `ledger` | 2 kinds, 2 requests, 3 attempts per kind of 4, clock to 6 | `LedgerInv`: ledger, budgets, ids and what was started fit; a deadline survives pauses (`RetriesRespectBackoff`), a condemned run starts nothing (`CondemnedStartsNothing`), no report of a running attempt and no resume before the deadline is refused (`WritesAccepted`, `ResumeAcceptedWhileWaiting`) |
| `ticket_lock_live` | 3 processes, 3 tickets | `EverySeekerAnswered`: a process in the queue enters, is refused or dies; it never waits behind dead tickets for ever |
| `relay_writers` | 3 processes, 4 tickets | exclusion, order, live tickets, current copies, and that no acknowledged event is lost, as long as no ticket was created below an existing one (`WriterInv`, `MutexUnlessOvertaken`) |
| `orchestration` | 2 packs, 2 rounds, 2 attempts per transition, 1 tick | a driven run with crashes, recoveries, pauses and direct commands: the chain of authority (`RunInv`), effects and settlements on record, finished work kept; it refines `RunLedger` (`KeepsLedger`) and `RunLifecycle` (`FollowsLifecycle`) |
| `executor` | 2 operations, both strategies, 3 repair generations, 2 edits | `ReadyIsExact`, `PublishedIsVerified`, `OverwritesOnlyUnseen`; write-ahead, one paid review, an unbroken chain of repairs, escalation for a cause, and what each place of the process relies on (`ExecutorInv`); `RunsEnd` |
| `delivery` | 2 commits, 2 pull requests, 3 faults, 3 steps of others | only the approved tree leaves, foreign branches are left alone, one create request, a seal that fits the publication, nothing taken back (`KeepsPromise`, refinement of `DeliveryPromise`), and that an undisturbed delivery ends sealed but for two named ends (`Delivered`) |
| `review_loop` | 2 processes, 3 trees, 3 rounds, 2 model turns, 1 fault, 1 step of others, 3 commits | locks held, decisions, receipts and steps that fit, one revision at work (`LoopInv`), `VerdictStands`, `PublishedWasReviewed`, `NoTurnAfterLost`; it refines `ReviewPromise` (`KeepsChain`) |
| `review_live` | 2 rounds, 3 turns, 2 faults, 4 commits, nobody interfering | `ApprovedIsDelivered`: what a revision's reviewer approved becomes the bundle of the next round |
| `preparation` | 2 processes, 2 good archives for one branch and a refused one, 1 file in 2 versions, 1 mishap, 2 direct calls | `InboxInv` (the receipt follows the journal, whoever works on a run holds its locks, what is said of a file holds), `ReadyOwnsItsBranch`, `SkipsOnlyDecided` (a skipped file is ready, too old, or has a stored refusal, for a flaw or after an error of the disk), `KeepsForeignBranch` |
| `agent_execution` | 3 trees (untouched, good, outside the allowed paths), 2 iterations, 2 reviews, 5 turns, 1 mishap, every reviewer mode | `ExecutionInv` (turns counted before they are asked, the lock, reviews of what was verified), `ReadyIsEarned`, `SettledStands` |
| `job_driver` | 2 processes, 2 starts, 2 mishaps, 1 retry, 2 or 6 cycles, 4 PAIR reviews | `JobInv` (the receipt is valid and earned, copies are fresh), `VerdictsHonest`, `JobStands` |
| `job_driver_repair` | 1 process, no mishap | expected to fail: `RepairResumes`, see below |

Why the bounds are enough.  Two of a kind is the smallest number where one can be
confused with the other: two packs, two operations (one applied, one not), two attempts,
two good archives on one branch, two drivers of one run.  Round 2 is the first that
reviews a revision, round 3 the first whose revision follows a revision.  Three repair
generations are one more than the first archived one.  Three processes give a
holder, a waiter that unlinks and a newcomer that reuses the name; a second process at
an exclusive lock is refused like a third.  Two edits allow one that is noticed
and one after it.  The ledger's clock passes every deadline once with room for a
second failure.  In a delivery two commits are ours and a foreign one, or ours and a
second try; two pull requests are ours and somebody else's; three faults are
a lost answer, a crash, and a crash of the recovery; three steps of others stage, commit
and reset, or push, open and close.  The receipts of reviews, runs and executions are
resumed from the file alone, so what two crashes in a row can do is done by one crash in
each of the states a receipt can have; `review_live` and `job_driver` allow two.  Five
turns are an assessment and two iterations with a review each.  Six cycles are one more than
the stages of a job, two end in the middle of it.

Fairness.  `ticket_lock_live` assumes that a live process takes its next step: the
code polls with a timer.  `executor` assumes the same of a running executor:
the verifier and the reviewer are spawned with time limits (`spawnBounded`).
`delivery` assumes that the runner comes back while something is planned and a live
service takes its next step (`WF(Continue)`), and that what is under way at GitHub
arrives (`WF(Arrive)`): git runs with time limits, and a request that was
carried out shows in the next listing.  `review_live` assumes that a process in a review
or a revision goes on and that one refused by a lock returns (weak fairness of
`Reviewing`, `Revising`, `GiveUp`), and that the runner asks again for a revision that
can be resumed, between other commands (`SF(AskRevision)`: the planner plans REVISE
whenever nothing else is under way).
Crashes, refusals, edits, commands, operators and time-outs are never assumed to happen.

## What does not hold

One disagreement with a comment is a run that must end in a violation
(`findings` of `PROJECT.json`).

* `job_driver_repair`: `resume-source.ts:32` says that a repair resumes from the
  published commit, and `docs/job-modes.md:61` promises that a REVISE with repair
  operations is applied and verified.  The resume source does so, but the attestation
  that follows asks for HEAD at the base commit (`change-set.ts:29`), and so every
  repair of a published result goes back to the Web.  No revision round is therefore
  reached from PAIR or AUTOPILOT.

The rest are observations of what the modelled code does.  The properties of the runs
are stated so that they hold beside them: each bullet names a behaviour they exempt
or do not speak of.

The ledger, the lock and the run

* A run paused while it waited for a retry and resumed after the deadline cannot be
  resumed: the restored ledger fails its own validator (`controller.ts:27`,
  `ledger.ts:122`).  `ResumeAcceptedWhileWaiting` is about resumes before it.
* A ticket planned from an old listing and created after a higher one breaks
  exclusion (`ticket-file-lock.ts:94`), and an acknowledged relay event can be lost
  (`file-store.ts:225`), which `CHANGELOG.md:34` rules out.  Under the same stale plan
  a waiter unlinks the ticket of a live process, which `ticket-file-lock.ts:147` says
  cannot happen.
* A process that dies between creating its ticket and writing it makes later
  acquisitions fail (`ticket-file-lock.ts:101`).
* A crash after the checkpoint of a verdict of round 2 or later leaves an attempt that
  recovery refuses for ever (`recovery.ts:186`); an approval of such a round
  is not recognised as one (`snapshot-reader.ts:145`, `planner.ts:4`).
* The verdict of a sealed round handed in again is accepted and uses up an attempt.
* A rejected result stays in the worktree, where `authority-service.ts:148` refuses to
  register the next pack.

The executor

* A second Web repair that leaves out a path of the first is escalated although it was
  applied exactly (`change-set.ts:34`).
* A crash while a file is replaced leaves a temporary file for which the
  resume escalates (`ExecutorInv` counts it as a cause); a write that was not yet
  flagged as applied is not rolled back (`applier.ts:120`).
* `bindWebReviewRepair` writes the receipt without the executor lock (`repair.ts:109`),
  whatever the receipt has become since it was read (`Bind`, `BindWrite` of `WebVerdict`):
  two repairs bound at once overwrite each other.  A crash leaves the executor lock
  (`store.ts:197`) to an operator.
* `executor-ready.ts:20` refuses a READY result with a verified Web repair, and its line
  50 every repaired receipt, so that the republication of a repaired change set
  (`p10-publish.ts:77`) and the retirement of the result of an earlier generation
  are never reached.

The delivery

* A crash between `create_post_attempted` and the request itself leaves
  CREATE_UNCERTAIN with no pull request for ever: the request is never repeated, and
  there is no command that says it was never sent.  A redirect and every 403
  (a rate limit too) end in the same state.  `Delivered` names it (`Stuck`).
* A crash while the result is built leaves the build lock until an operator removes it.
* A pull request renamed between the link of the archive (`deterministic-zip.ts:171`) and
  a rebuild makes every rebuild fail; renamed after the seal, it makes the attestation
  of the sealed result fail.
* Content staged by hand blocks every retry of a publication.
* The direct draft command reads `git-publish.json` below the run's state directory, while the
  direct publish command writes it below the execution directory.

Web review and revision

* The snapshot that a revision commits is read after its last comparison with what was
  verified and reviewed (`revision-service.ts:415`; `docs/protocols.md:52` promises the
  reviewed content): an edit in between is published unreviewed.  What was edited after
  the verifier's last command is taken for verified (`verifier.ts:61`), and what the
  reviewer read may have been edited and restored while it read.
  `PublishedWasReviewed` exempts these three places, each only for the claim it spoils.
* A first verdict binds its round even when the policy refuses it.
* A revision interrupted in IMPLEMENTING, VERIFYING or REVIEWING is recorded RETRYABLE
  but refused for ever (`revision-authority.ts:95`).

Intake, inbox and preparation

* Intake retries only after an error it calls operational (`intake-service.ts:369`).  An
  error of the disk while the archive is inspected or extracted becomes ZIP_MALFORMED
  (`secure-extractor.ts:34`, 150), one while it is hashed CHECKSUMS_INVALID
  (`checksum-verifier.ts:132`, 179), one while its parts are read a contract that is
  invalid, and each is stored: a good archive is refused for ever.  Scans skip it, but for
  CHECKSUMS_INVALID, which `scanner.ts:23` does not know as a rejection (it looks for
  `CHECKSUM_`) and answers as blocked, each time anew.  `SkipsOnlyDecided` and
  `RefusedForCause` say just this much: a stored refusal has a flaw or such an error
  (`misread`) behind it.
* A manifest that cannot be read when the schema version is looked up
  (`intake-service.ts:325`) is taken for schema 1.0, whose checksums are not verified: if
  the next read succeeds, an archive with wrong checksums is accepted.
* A receipt that cannot be read counts as missing (`intake-service.ts:107`), and the archive
  is judged again: an error then refuses an archive that is accepted, whose later
  answers are the refusal, rejections being looked up first, although its run may be ready.
* The index knows a file by its path, size and modification time (`scanner.ts:106`): one
  that is replaced by another archive with the same two is skipped under the outcome
  of the first.
* A run that crashed, or ended FAILED or BLOCKED, is never prepared again; a taken
  branch lock fails the second run for good; a crash between the making of the
  directory and `run.json` leaves a run that is inconsistent for ever.
* The READY event precedes the READY receipt; a torn last line of the journal makes
  every later append fail, also that of the end, which is then written without one.
* An error after READY was recorded starts the cleanup.  If that is cut short in turn, by
  a crash or an error that is swallowed, the receipt says READY while the worktree is
  gone.  Nobody was told ready then, and the next call refuses the run:
  `ReadyOwnsItsBranch` speaks of worktrees that are there and of answers given.
* A branch that moves between the look at its tip and `branch -D`, or whose tip could
  not be read after it was made, is deleted with what was committed to it
  (`preparation-service.ts:171`; `KeepsForeignBranch` speaks of what the look shows).
* The index is read when a scan starts and written whole when it ends, over what another
  scan wrote; a file that changes between its observation and its copy is noted under
  the observed version.

Agent execution

* `execution-service.ts:231` sets BUDGET_EXHAUSTED after a failed verification, which
  `state-machine.ts:22` refuses: the run ends FAILED.  The same happens whenever the
  journal is torn.  FAILED is reopened by an error early in the next call, and a
  call with the wrong inputs marks a working run FAILED.
* A READY result of a single reviewer can never be published by `publishPhase4Run`,
  although `docs/job-modes.md:53` offers the mode; and the production caller of
  `executeRun` passes no reviewer selection.
* What is edited between the check of the paths and the verification's last reading
  is adopted as verified (`ReadyIsEarned` exempts it); refs moved without HEAD are
  adopted with the digest.
* A crash in a review gives the round back but not the turn; AGENT_FAILED before the
  assessment resumes as a fix; READY stays on disk although the check of the bundle
  right after it failed; after a time-out the agent may still write while the
  lock is already free.

Job drivers

* NEEDS_YOU is never taken up again, also after `--max-cycles`; a resumed driver leaves
  PAUSED on disk until it has packaged the result.
* A driver restarted after a crash inside the executor meets its orphaned lock, which is
  not retryable, and ends NEEDS_YOU (`docs/operations.md:92` speaks of restarts).
* A torn verdict file is a conflict with every later verdict
  (`verdict-materializer.ts:63`).
* The PENDING receipt of a code review is written without a lock and overwrites a sealed
  one (`code-review-service.ts:229`); a crash between a sealed REVISE and its repair,
  and a BLOCKED or FAILED final receipt, leave PAIR with nothing it can do.
* `verdict-materializer.ts:33` reads the bundle of round 1 only, so that a verdict of a later
  round would be refused; `tests/harness-final-revision-flow.test.ts` replaces that
  function.
* INTERRUPTED is not a state of the executor, so the PAUSED branch of
  `executionBoundary` is never taken.

## The proofs

`tlapm` checks them for every value of the constants that satisfies the modules'
named assumptions.

`RunOrchestrationProofs`, the ledger.  The invariant `LedgerInv` is the conjunction of
`TypeOK`, `Valid` of the ledger on disk, `Counted` (the ledger's counters cover the
attempts really started), `Running` (the attempt in progress is one of them),
`Deadlines` (the last deadline set is still in the file or has passed) and `Condemned`
(a condemned run keeps what condemns it through pause and resume).  It is needed because
none of the checked properties is inductive: each is about the history, and holds
because the file carries the history in other fields.  From it follow type correctness,
fresh attempt ids, budgets, backoff, probes, finality and acceptance of writes.

`TicketLockProofs`.  `LockInv` says where a process's ticket and planned names can
be (`Numbered`), that a scan is complete below it (`Cleared`, `LooksBelow`) and that
who has left left nothing (`NothingLeft`), all while no ticket was created below an
existing one.  Mutual exclusion, order and the safety of live tickets follow for
any number of processes and tickets; with `Stages` of `RelayWriters` also that no
acknowledged event is lost.

`RunOrchestrationProofs`, the run.  What the `continue` process carries between its steps
(the attempt it checkpointed, the ledger it read) strengthens `LedgerInv`; with it
every step of the composed run is a step of `RunLedger` or a stutter, so that the
theorems about the ledger hold of the run.  `RunInv` adds the evidence:
`AuthorityChain` (each link rests on the one before), `AttemptGrounded` and `PlanGrounded`
(an attempt or a plan that is carried rests on evidence that cannot be taken back),
`ReviewsFit` and `StageFits`.  From it follow `EffectsOnRecord`, `WorkKept` and the
refinement of `RunLifecycle` (`FollowsLifecycle`).  For the refinement it must be known that
only the selected pack ever passed its executor, that a new pack is registered only after the
executor gave the selected one up, and that the reviewed rounds are the first ones: then the
plan depends on one round (`PlanAt`), and a step that opens, closes or revises a round
(`OneRound`) or leaves an effect moves it along one edge.

`ExecutorProofs`.  `ExecutorInv` relates the receipt, the repair and the worktree at every
place of the process.  `AtPlace`, `DigestsFit`, `ReviewsFit` and `TurnMarked` are about the
receipt: what has passed is the current digest, a repair starts at a verified tree, and a
paid turn of the reviewer has left a mark, so that it is not asked for again after a crash.
`ImagesFit` and `NothingUnseen` are about the files.  That a first generation goes back to
the Web only for a cause (`EscalatesForCause`) says nothing of the worktree and needs the
most: `TreeTrue` and `PlaceTrue` say that as long as nobody interferes and no gate says no,
every file holds the image the receipt accounts for, and every read finds what it looks for.
They hold only for the first generation (`history` empty), because a later repair is
refused without a cause (see above).  `PublishedIsVerified` follows because publication
attests the worktree against a digest that has passed; `ReadyIsExact` and
`OverwritesOnlyUnseen` are proved of each step, for any number of operations,
generations and edits.

`ReviewLoopProofs`.  `LoopInv` is the conjunction of `TypeOK`, `Holding` (whoever works
on a round holds its lock), `DecisionsFit` and `ReviewsFit` (what a round has on disk,
and what a process that reviews it carries, was made from the verdict it is bound to),
`ChainFits` (a bundle is the commit of the revision before it), `OneAtWork`,
`RevisionsFit` and `StepsFit` (a receipt fits its state and the step of the process that
works on it), `LostFits` and `ContentFits`. The locks carry it: that a process finds its
round as it left it is an invariant only because an exclusive lock file is never taken
from anybody, not even from a dead owner. That a published head is never made anew needs
`ChainFits`: the receipt of a round that has a successor stands past its push, so that
it may be resumed but makes no commit.  `NoTurnAfterLost` needs `LostFits`, since the
receipt of a lost turn must stay in a state that is refused.  The refinement of
`ReviewPromise` (`KeepsChain`) maps the bundled rounds, which are the first ones, to a
sequence; a sealed verdict changes its last link, a packaged revision appends one, and
every other step leaves it alone.  Two lemma families keep this short: a step of a
review writes its own round (`ReviewKeeps`), a step of a revision its own receipt and
HEAD (`RevisionKeeps`).

`DeliveryProofs`.  `IInv` is the conjunction of `TypeOK`, `PublishInv` (the receipt
each step of the publication works on, and that a commit it names is approved),
`OnlyApprovedLeaves`, `DraftInv` and `RequestInv` (which receipt state
allows a create request in flight or carried out), `OneRequest`, `BundleInv`
and `SealedAsPublished`.  The checked properties are not inductive: that the create request
is sent once depends on the receipt having been moved past the point
of no return first, and what is pushed is approved because the commit was attested
steps before the push.  Preservation is split by kind of step (a step of the
publication, of the pull request, of the bundle, or elsewhere), each with a frame
lemma.  From it follow type correctness, the four safety properties and the
refinement of `DeliveryPromise`.

`AgentExecutionProofs`.  `ExecutionInv` relates the copy a call works on with the file,
the lock and the worktree: turns made are counted on disk (`TurnsAreCounted`), only
the holder of the lock works (`CallHolds`), and a review under way is of the tree that was
verified (`UnderReview`).  READY is earned because these hold at the step that writes it,
not by that step alone.  Assumed are only the sizes of the constants and that
`None` is no receipt and no verdict.

`JobDriverProofs`.  `JobInv` adds to types and `StageEarned` what a process relies on
(`Fine`): within a call (`CallFits`), what its copy may be at each place (`CopyFits`),
what a service that returned has done (`StageFits`), and that a copy of the receipt's
generation was made from it (`CopyIsFresh`).  `StageEarned` alone is not inductive: the
copy that is written decides.  The frame is one lemma, `Grows`: whatever the services do,
what was done stays done, so every claim of every other process stays earned.

`InboxProofs`.  `InboxInv` is `TypeOK`, `JournalLeads` (what a receipt shows was
announced) and what these rest on: the locks a process holds (`HoldsLocks`), what it
carries and how far its run is at its place (`Carries`, `AtStage`), that a branch it may
yet delete is its run's own (`KnowsItsBranch`), and that every entry of the index, of
each scan's copy of it and every answer on its way holds for the archive that was seen
(`EntryHolds`, `Observed`), and that every stored refusal has a flaw or an error of the
disk behind it (`RefusedForCause`).  Refusals are never replaced or taken back
(`RefusalsStand`), so an entry that says rejected keeps its ground.  No part is inductive alone: an entry that says ready holds
for good only because nobody may take a ready run up again, and a branch is known only
because the lock on its name was held since before it was made.  The frame is `Keeps`,
what a step of one process never does to another: change a run or a branch it does not
hold, or a run that is settled.  It needs `CheckedOut`: when a late error could not
remove the worktree of a run whose receipt says READY, the branch stays because git does
not delete the branch of a worktree.  Assumed are the sizes of the constants, that every
archive has a flaw and a branch, and that the words for nobody and nothing name no
process or archive.

Only model-checked: liveness (`EverySeekerAnswered`, `RunsEnd`, `Delivered`,
`ApprovedIsDelivered`), which needs fairness and ENABLED and is beyond the prover.  Every
invariant, action property and refinement of the passing runs is a theorem.

## What is left out

* In the runner: the harness-first revision (`tryHarnessWebRevision`, which ends in a
  publication that refuses it, see `WebVerdict`) and the Web code review of a frozen
  review strategy.
* In the executor: the legacy order of two reviewers, the round and token counters,
  evidence files, failed receipt writes, the executor lock's contents.
* In the delivery: the credential helper and the handling of tokens, the check of
  the repository's identity, republication and retired generations (see above).
* In the review: recovery by hand of damaged files; what a verdict or a policy says
  beyond its kind.
* In the agent execution and the verifier: the sandboxes, what prompts and schemas hold,
  generated files.
* In the Web bridge: task authoring, session history and context cache, which no
  receipt depends on, and the transports (native MCP, HTTP, browser), which deliver an
  answer or none; the relay's terminal verdicts and the local worker's polling.
* The bounded pool of `resource-pool.ts`: only `doctor.ts` uses it, to run its probes.
* Web authority: registration is a step of `RunOrchestration`; reading a pack
  (`web-authority/`, `bundle/validator.ts`) is a pure function of its bytes.
* Terminal UI but for the PAIR session, command line, configuration, setup, uninstall,
  sandboxes, benchmarks, evidence: presentation and one-shot commands.

## The plan

Done: the ledger, the ticket lock and the relay record, the composed run, the
executor, the delivery, Web review and revision, intake, preparation and inbox, agent
execution, the job drivers over the Web bridge; theorems about all of them.

1. The relay store above `append` (terminal verdicts per job) with the local worker's
   polling, as the environment of `WebVerdict`.
2. `RunOrchestration` over the reviewed chain of `ReviewLoop` instead of its single steps.
3. The refinement of the delivery stages by `Delivery`: a theorem that joins `KeepsPromise`
   and `FollowsLifecycle`.
