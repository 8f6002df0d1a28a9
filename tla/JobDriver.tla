------------------------------ MODULE JobDriver ------------------------------
(***************************************************************************)
(* The drivers of a prepared run.  AUTOPILOT goes through its stages from  *)
(* a durable receipt that it writes after every service, retries, waits    *)
(* and pauses; PAIR looks at what is there and does what comes next.  Any  *)
(* number of processes drive the same run at once, and may be interrupted  *)
(* or die anywhere.                                                        *)
(***************************************************************************)
EXTENDS WebVerdict

CONSTANTS
  None,        \* no receipt
  MaxRetry,    \* retries of a stage: 5 in the code
  Budgets,     \* stages a driver may complete: 1 to 128, 32 by default
  MaxReviews,  \* reviews one PAIR session waits for: 4 in the code
  MaxStarts,   \* drivers started
  MaxFaults    \* crashes, errors, interrupts and steps of others

ASSUME DriverAssumption ==
  /\ MaxRetry \in Nat /\ MaxReviews \in Nat \ {0} /\ MaxStarts \in Nat /\ MaxFaults \in Nat
  /\ Budgets \subseteq Nat \ {0}

Active == {"EXECUTE", "PUBLISH", "DRAFT_PR", "PACKAGE_RESULT", "WAIT_WEB", "REVISE"}
Statuses == {"RUNNING", "WAITING_WEB", "WAITING_RETRY", "PAUSED", "NEEDS_YOU", "READY_FOR_YOU"}
Over == {"NEEDS_YOU", "READY_FOR_YOU"}

Receipt ==
  [generation : Nat, status : Statuses, stage : Active \cup {"DONE"}, attempts : [Active -> 0..MaxRetry + 1],
   retryAt : BOOLEAN,  \* a retry has a deadline
   pending : BOOLEAN,  \* the final review's job is waited for
   rounds : 0..4]

ASSUME ReceiptAssumption == None \notin Receipt

Initial ==
  [generation |-> 0, status |-> "RUNNING", stage |-> "EXECUTE", attempts |-> [s \in Active |-> 0],
   retryAt |-> FALSE, pending |-> FALSE, rounds |-> 0]

\* What the code accepts of a receipt, on disk or about to be written; the action
\* it asks of the user goes with its status.
Valid(r) ==
  /\ r.pending => r.stage = "WAIT_WEB"
  /\ r.retryAt => r.status \in {"WAITING_RETRY", "PAUSED"}
  /\ r.stage = "DONE" <=> r.status = "READY_FOR_YOU"
  /\ r.status = "READY_FOR_YOU" => ~r.pending /\ r.rounds >= 1
  /\ r.status = "WAITING_WEB" => r.stage = "WAIT_WEB" /\ r.pending
  /\ r.status = "WAITING_RETRY" => r.retryAt

VARIABLES
  receipt,  \* autopilot.json
  job,      \* what each process is doing
  starts, faults

vars == <<services, receipt, job, starts, faults>>
counts == <<starts, faults>>

\* Where a driver of AUTOPILOT and a session of PAIR can be.
Driving == {"persist", "begin", "loop", "sleep", "poll", "stage", "retry", "give_up"}
Pairing == {"harness", "pair", "pair_stage", "pair_ask", "pair_poll", "pair_adopt"}

\* What a driver carries: its copy of the receipt, where it goes on after writing
\* it, whether it writes under the guard of a wait for the Web, whether it was
\* interrupted, and the stages or reviews it has left.
Work ==
  [pc : Driving \cup Pairing \cup {"idle"}, mem : Receipt \cup {None},
   next : {"idle", "begin", "loop", "sleep", "poll"}, guarded : BOOLEAN, abort : BOOLEAN, left : Nat]
Off == [pc |-> "idle", mem |-> None, next |-> "idle", guarded |-> FALSE, abort |-> FALSE, left |-> 0]
Doing(p, pc) == job[p].pc = pc
To(p, pc) == job' = [job EXCEPT ![p] = IF pc = "idle" THEN Off ELSE [@ EXCEPT !.pc = pc]]
Enter(p, service) == call[p].at = "idle" /\ call' = [call EXCEPT ![p].at = service]
Leave(p) == call' = [call EXCEPT ![p].at = "idle"]

\* The copy is changed, written, and the driver goes on at next.
Write(p, r, next, guarded) ==
  job' = [job EXCEPT ![p].mem = r, ![p].pc = "persist", ![p].next = next, ![p].guarded = guarded]

Init ==
  /\ VerdictInit /\ receipt = None
  /\ job = [p \in Procs |-> Off] /\ starts = 0 /\ faults = 0

idleServices == <<mode, result, pull, reviews>>

-----------------------------------------------------------------------------
\* The copy becomes the receipt, and the driver goes on.
Written(p) ==
  LET j == job[p]
      r == [j.mem EXCEPT !.generation = @ + 1]
  IN  /\ receipt' = r
      /\ job' = [job EXCEPT ![p] = IF j.next = "idle" THEN Off
                  ELSE [j EXCEPT !.pc = j.next, !.next = "idle", !.mem = r, !.guarded = FALSE]]

\* A write that fails ends the driver, or is met by the guard like any error.
Unwritten(p) ==
  /\ To(p, IF job[p].guarded THEN "give_up" ELSE "idle") /\ UNCHANGED receipt

\* The receipt on disk is the one the driver read or wrote last.
Generation == IF receipt = None THEN 0 ELSE receipt.generation
Current(p) == job[p].mem.generation = Generation

\* Mutant: a driver overwrites what another one wrote.
PersistOver(p) ==
  /\ Doing(p, "persist") /\ UNCHANGED <<services, counts>>
  /\ IF Valid(job[p].mem) THEN Written(p) ELSE Unwritten(p)

Persist(p) ==
  /\ Doing(p, "persist") /\ UNCHANGED <<services, counts>>
  /\ IF Current(p) /\ Valid(job[p].mem) THEN Written(p) ELSE Unwritten(p)

\* The driver starts from the receipt, or creates it.
Start(p, budget) ==
  /\ mode = "AUTOPILOT" /\ Doing(p, "idle")
  /\ job' = [job EXCEPT ![p] = [Off EXCEPT !.left = budget, !.next = "begin",
       !.pc = IF receipt = None THEN "persist" ELSE "begin",
       !.mem = IF receipt = None THEN Initial ELSE receipt]]
  /\ UNCHANGED <<services, receipt>>

\* A job that needs the user is left alone; one that is ready is attested afresh.
BeginOver(p) ==
  /\ Doing(p, "begin") /\ job[p].mem.status \in Over /\ To(p, "idle")
  /\ UNCHANGED <<services, receipt, counts>>

\* A deadline that has not passed is waited for.
Begin(p) ==
  LET r == job[p].mem
  IN  /\ Doing(p, "begin") /\ r.status \notin Over
      /\ \/ ~r.retryAt /\ To(p, "loop")
         \/ r.retryAt /\ To(p, "sleep")
         \/ r.retryAt /\ Write(p, [r EXCEPT !.status = "WAITING_RETRY"], "sleep", FALSE)
      /\ UNCHANGED <<services, receipt, counts>>

NeedsYou(r) == [r EXCEPT !.status = "NEEDS_YOU", !.retryAt = FALSE]
Paused(r) == [r EXCEPT !.status = "PAUSED"]

Stop(p) ==
  /\ Doing(p, "loop") /\ (job[p].abort \/ job[p].left = 0)
  /\ Write(p, IF job[p].abort THEN Paused(job[p].mem) ELSE NeedsYou(job[p].mem), "idle", FALSE)
  /\ UNCHANGED <<services, receipt, counts>>

Service == [EXECUTE |-> "execute", PUBLISH |-> "publish", DRAFT_PR |-> "draft",
            PACKAGE_RESULT |-> "package", WAIT_WEB |-> "create", REVISE |-> "revise"]

RunStage(p) ==
  LET r == job[p].mem
  IN  /\ Doing(p, "loop") /\ ~job[p].abort /\ job[p].left > 0
      /\ IF r.pending THEN To(p, "poll") /\ UNCHANGED call
         ELSE To(p, "stage") /\ Enter(p, Service[r.stage])
      /\ UNCHANGED <<idleServices, receipt, counts>>

\* The bridge has an answer; until then an interrupt is noticed.
Poll(p) ==
  /\ Doing(p, "poll")
  /\ \/ answer["final"] # "none" /\ To(p, "stage") /\ call' = [call EXCEPT ![p] = [at |-> "adopt", purpose |-> "final"]]
     \/ answer["final"] = "none" /\ job[p].abort /\ To(p, "loop") /\ UNCHANGED call
  /\ UNCHANGED <<idleServices, receipt, counts>>

After == [EXECUTE |-> "PUBLISH", PUBLISH |-> "DRAFT_PR", DRAFT_PR |-> "PACKAGE_RESULT", PACKAGE_RESULT |-> "WAIT_WEB"]

\* The receipt moves to the next stage once the service has returned.
Advanced(r) ==
  [r EXCEPT !.stage = After[r.stage], !.attempts[r.stage] = 0, !.retryAt = FALSE,
            !.status = IF r.stage = "PACKAGE_RESULT" THEN "RUNNING" ELSE @]

\* The review decided: done, a revision, or a matter for the user.
Heard(r) ==
  LET heard == [r EXCEPT !.retryAt = FALSE, !.pending = FALSE, !.rounds = @ + 1, !.attempts["WAIT_WEB"] = 0]
  IN  IF final = "APPROVED" THEN [heard EXCEPT !.stage = "DONE", !.status = "READY_FOR_YOU"]
      ELSE IF final = "REVISION_REQUESTED" THEN [heard EXCEPT !.stage = "REVISE", !.status = "RUNNING"]
      ELSE NeedsYou(heard)

StageDone(p) ==
  LET r == job[p].mem
  IN  /\ Doing(p, "stage") /\ call[p].at = "returned" /\ Leave(p)
      /\ \/ /\ r.stage = "WAIT_WEB" /\ ~r.pending
            /\ Write(p, [r EXCEPT !.pending = TRUE, !.status = "WAITING_WEB"], "poll", TRUE)
         \/ /\ r.stage = "WAIT_WEB" /\ r.pending
            /\ job' = [job EXCEPT ![p].mem = Heard(r), ![p].left = @ - 1, ![p].guarded = TRUE,
                 ![p].pc = "persist", ![p].next = IF final = "REVISION_REQUESTED" THEN "loop" ELSE "idle"]
         \/ /\ r.stage = "EXECUTE" /\ executor # "READY_FOR_PUBLISH"
            /\ Write(p, NeedsYou(r), "idle", FALSE)
         \/ /\ r.stage # "WAIT_WEB" /\ (r.stage = "EXECUTE" => executor = "READY_FOR_PUBLISH")
            /\ job' = [job EXCEPT ![p].mem = Advanced(r), ![p].left = @ - 1, ![p].guarded = FALSE,
                 ![p].pc = "persist", ![p].next = "loop"]
      /\ UNCHANGED <<idleServices, receipt, counts>>

\* Mutant: a stage whose service did not answer in time counts as done.
StageLate(p) ==
  LET r == job[p].mem
  IN  /\ Doing(p, "stage") /\ call[p].at \in {"threw", "timeout"} /\ Leave(p)
      /\ IF call[p].at = "timeout" /\ r.stage \in DOMAIN After
         THEN Write(p, Advanced(r), "loop", FALSE)
         ELSE To(p, IF call[p].at = "timeout" THEN "retry" ELSE "give_up")
      /\ UNCHANGED <<idleServices, receipt, counts>>

StageFailed(p) ==
  /\ Doing(p, "stage") /\ call[p].at \in {"threw", "timeout"} /\ Leave(p)
  /\ To(p, IF call[p].at = "timeout" THEN "retry" ELSE "give_up")
  /\ UNCHANGED <<idleServices, receipt, counts>>

\* The failed attempt is charged to the stage it was made in, also when the copy
\* already says the next one.  A copy that already asks for the user's action cannot
\* be paused: it is refused as it is written.
RetryOrStop(p) ==
  LET r == job[p].mem
      stage == IF job[p].guarded THEN "WAIT_WEB" ELSE r.stage
      tried == [r EXCEPT !.attempts[stage] = @ + 1]
  IN  /\ job[p].pc \in {"retry", "give_up"}
      /\ IF job[p].abort /\ r.status \in Over THEN To(p, "idle")
         ELSE IF job[p].abort THEN Write(p, Paused(r), "idle", FALSE)
         ELSE IF Doing(p, "retry") /\ tried.attempts[stage] <= MaxRetry
         THEN Write(p, [tried EXCEPT !.status = "WAITING_RETRY", !.retryAt = TRUE], "sleep", FALSE)
         ELSE Write(p, NeedsYou(tried), "idle", FALSE)
      /\ UNCHANGED <<services, receipt, counts>>

\* The deadline passes, or the user interrupts; then it stands for the next driver.
Wake(p) ==
  LET r == job[p].mem
  IN  /\ Doing(p, "sleep")
      /\ IF job[p].abort THEN Write(p, Paused(r), "idle", FALSE)
         ELSE Write(p, [r EXCEPT !.status = "RUNNING", !.retryAt = FALSE], "loop", FALSE)
      /\ UNCHANGED <<services, receipt, counts>>

-----------------------------------------------------------------------------
\* PAIR keeps no receipt of its own.
StartPair(p) ==
  /\ mode = "PAIR" /\ Doing(p, "idle")
  /\ job' = [job EXCEPT ![p] = [Off EXCEPT !.pc = "harness", !.left = MaxReviews]]
  /\ UNCHANGED <<services, receipt>>

\* The run is carried to its Result Bundle by what is still missing.  A pack that
\* was given back needs another one; that ends the session, unless there is a
\* bundle already.
Harness(p) ==
  /\ Doing(p, "harness")
  /\ \/ executor = "ESCALATE_TO_WEB" /\ To(p, "idle") /\ UNCHANGED call
     \/ /\ executor \in {"READY_FOR_PUBLISH", "ESCALATE_TO_WEB"} /\ delivery = "READY"
        /\ To(p, "pair") /\ UNCHANGED call
     \/ executor \in {"none", "REVIEWING_WEB"} /\ To(p, "pair_stage") /\ Enter(p, "execute")
     \/ /\ executor = "READY_FOR_PUBLISH" /\ delivery # "READY" /\ To(p, "pair_stage")
        /\ Enter(p, IF delivery = "none" THEN "publish" ELSE IF delivery = "PUSHED" THEN "draft" ELSE "package")
  /\ UNCHANGED <<idleServices, receipt, counts>>

PairComplete ==
  /\ executor = "READY_FOR_PUBLISH" /\ delivery = "READY"
  /\ codeReview = "APPROVED" /\ final = "APPROVED"

\* The session ends when all is approved, when the final review decided otherwise
\* (a revision is refused: Revise), or after MaxReviews reviews.
PairOver(p) ==
  /\ Doing(p, "pair") /\ (PairComplete \/ final \in {"ESCALATED", "REVISION_REQUESTED"} \/ job[p].left = 0)
  /\ To(p, "idle")
  /\ UNCHANGED <<services, receipt, counts>>

PairAsk(p) ==
  /\ Doing(p, "pair") /\ ~PairComplete /\ final \notin {"ESCALATED", "REVISION_REQUESTED"} /\ job[p].left > 0
  /\ To(p, "pair_ask") /\ Enter(p, "create")
  /\ UNCHANGED <<idleServices, receipt, counts>>

PairHear(p) ==
  /\ Doing(p, "pair_poll") /\ answer[call[p].purpose] # "none"
  /\ To(p, "pair_adopt") /\ Enter(p, "adopt")
  /\ UNCHANGED <<idleServices, receipt, counts>>

PairDone(p) ==
  /\ job[p].pc \in {"pair_stage", "pair_ask", "pair_adopt"} /\ Leave(p)
  /\ \/ call[p].at \in {"threw", "timeout"} /\ To(p, "idle")
     \/ call[p].at = "returned" /\ Doing(p, "pair_stage") /\ To(p, "harness")
     \/ call[p].at = "returned" /\ Doing(p, "pair_ask") /\ To(p, "pair_poll")
     \/ /\ call[p].at = "returned" /\ Doing(p, "pair_adopt")
        /\ job' = [job EXCEPT ![p].pc = "pair", ![p].left = @ - 1]
  /\ UNCHANGED <<idleServices, receipt, counts>>

-----------------------------------------------------------------------------
Drive(p) ==
  \/ Persist(p) \/ BeginOver(p) \/ Begin(p) \/ Stop(p) \/ RunStage(p) \/ Poll(p)
  \/ StageDone(p) \/ StageFailed(p) \/ RetryOrStop(p) \/ Wake(p)
  \/ Harness(p) \/ PairOver(p) \/ PairAsk(p) \/ PairHear(p) \/ PairDone(p)

Serve(p) == ServiceStep(p) /\ UNCHANGED <<receipt, job, counts>>

Launch(p) ==
  /\ starts < MaxStarts /\ starts' = starts + 1 /\ UNCHANGED faults
  /\ StartPair(p) \/ \E budget \in Budgets : Start(p, budget)

Fault == faults < MaxFaults /\ faults' = faults + 1 /\ UNCHANGED starts

\* The run lock is taken, or the disk fails.
PersistTrouble(p) == Doing(p, "persist") /\ Unwritten(p) /\ UNCHANGED services

\* The bridge fails while it is asked for an answer.
PollTrouble(p) ==
  /\ Doing(p, "poll") /\ (To(p, "retry") \/ To(p, "give_up"))
  /\ UNCHANGED <<services, receipt>>

Interrupt(p) ==
  /\ ~Doing(p, "idle") /\ ~job[p].abort
  /\ IF mode = "AUTOPILOT" THEN job' = [job EXCEPT ![p].abort = TRUE] /\ UNCHANGED call
     ELSE /\ job[p].pc \in {"harness", "pair", "pair_poll"} /\ To(p, "idle") /\ UNCHANGED call
  /\ UNCHANGED <<idleServices, receipt>>

Crash(p) == ~Doing(p, "idle") /\ To(p, "idle") /\ ServiceCrash(p) /\ UNCHANGED receipt

Mishap ==
  /\ Fault
  /\ \/ \E p \in Procs :
          \/ ServiceTrouble(p) /\ UNCHANGED <<receipt, job>>
          \/ PersistTrouble(p) \/ PollTrouble(p) \/ Interrupt(p) \/ Crash(p)
     \/ MovePull /\ UNCHANGED <<receipt, job>>

Others == (WebAnswers \/ RemoveLock) /\ UNCHANGED <<receipt, job, counts>>

Next == (\E p \in Procs : Drive(p) \/ Serve(p) \/ Launch(p)) \/ Mishap \/ Others

Spec == Init /\ [][Next]_vars

-----------------------------------------------------------------------------
\* Every variable has its type, and the receipt on disk is one the code reads.
TypeOK ==
  /\ mode \in Modes /\ delivery \in {"none", "PUSHED", "OPEN", "READY"} /\ pull \in {"none", "open", "closed"}
  /\ executor \in {"none", "READY_FOR_PUBLISH", "REVIEWING_WEB", "ESCALATE_TO_WEB"}
  /\ executorLock \in Procs \cup {"free", "orphan"}
  /\ asked \subseteq Purposes /\ answer \in [Purposes -> Answers \cup {"none"}]
  /\ codeReview \in {"none", "PENDING"} \cup Decisions
  /\ verdictFile \in {"none", "torn", "whole"} /\ final \in {"none", "BLOCKED", "FAILED"} \cup Decisions
  /\ call \in [Procs -> Call] /\ job \in [Procs -> Work]
  /\ receipt # None => receipt \in Receipt /\ Valid(receipt)

\* What a receipt claims is on disk, and it is DONE only with a final review that
\* approved what was executed, published and packaged.
Earned(r) ==
  /\ r.stage # "EXECUTE" => executor # "none"
  /\ r.stage = "DRAFT_PR" => delivery # "none"
  /\ r.stage = "PACKAGE_RESULT" => delivery \in {"OPEN", "READY"}
  /\ r.stage \in {"WAIT_WEB", "REVISE", "DONE"} => delivery = "READY"
  /\ r.pending => "final" \in asked /\ r.stage = "WAIT_WEB" /\ r.rounds = 0
  /\ r.rounds <= 1 /\ (r.rounds = 1 => final \in Decisions)
  /\ r.stage = "DONE" => final = "APPROVED" /\ executor = "READY_FOR_PUBLISH"
  /\ r.stage = "REVISE" => final = "REVISION_REQUESTED"

\* The receipt never runs ahead of the services: whatever crashed, was late or
\* was driven twice, its claims are earned.
StageEarned == receipt # None => Earned(receipt)

\* Where a driver still has stages before it.
Going == {"loop", "sleep", "poll", "stage", "retry"}

\* No stage has used up its retries.
Patient(r) == \A s \in Active : r.attempts[s] <= MaxRetry
Runs(r) == r.status \notin Over /\ r.stage # "DONE" /\ Patient(r)

\* A driver goes on only with a copy that still has something to do.
CopyFits(p) ==
  LET j == job[p]
  IN  /\ j.pc \in Driving <=> j.mem # None
      /\ j.pc \in Driving => mode = "AUTOPILOT"
      /\ j.pc \in Going => Runs(j.mem) /\ ~j.guarded
      /\ j.pc = "begin" => (j.mem.status \notin Over => Runs(j.mem)) /\ ~j.guarded
      /\ j.pc = "persist" =>
           /\ j.next # "idle" => j.mem.status \notin Over
           /\ j.mem.status \notin Over \/ j.guarded => Patient(j.mem)
      /\ j.pc = "give_up" => Patient(j.mem) /\ (j.mem.stage = "DONE" => j.guarded)
      /\ \/ j.pc \in {"poll", "stage", "pair_ask", "pair_poll", "pair_adopt"}
         \/ j.pc = "persist" /\ j.next = "poll"
         => j.left > 0
      /\ j.pc = "poll" \/ (j.pc = "persist" /\ j.next = "poll") => j.mem.pending

\* A service that returns to its stage has done what the stage is for.
StageFits(p) ==
  LET r == job[p].mem
      Ends(within, done) ==
        /\ call[p].at \in within \cup {"returned", "threw", "timeout"}
        /\ call[p].at = "returned" => done
  IN  job[p].pc = "stage" =>
        /\ r.stage = "EXECUTE" => Ends({"execute", "executing"}, executor # "none")
        /\ r.stage = "PUBLISH" => Ends({"publish"}, delivery # "none")
        /\ r.stage = "DRAFT_PR" => Ends({"draft"}, delivery \in {"OPEN", "READY"})
        /\ r.stage = "PACKAGE_RESULT" => Ends({"package"}, delivery = "READY")
        /\ r.stage = "WAIT_WEB" /\ ~r.pending =>
             Ends({"create", "final_job"}, "final" \in asked /\ r.rounds = 0)
        /\ r.stage = "WAIT_WEB" /\ r.pending =>
             /\ call[p].purpose = "final"
             /\ Ends({"adopt", "file_write", "submit", "bind", "bind_write", "rerun", "repairing"}, final \in Decisions)
        /\ r.stage = "REVISE" => Ends({"revise"}, FALSE)

\* A copy is never newer than the receipt; one that is as new was made from it,
\* and then the receipt still had something to do.
CopyIsFresh(p) ==
  LET j == job[p]
  IN  j.mem # None =>
        /\ j.mem.generation <= Generation
        /\ receipt # None /\ j.mem.generation = receipt.generation =>
             IF j.pc = "begin" THEN j.mem = receipt
             ELSE receipt.status \notin Over /\ j.mem.rounds >= receipt.rounds

\* The receipt belongs to AUTOPILOT, and one that is taken up again can be retried.
ReceiptFits ==
  receipt # None => mode = "AUTOPILOT" /\ (receipt.status \notin Over => Patient(receipt))

\* What a process relies on, whatever the others do.
Fine(p) ==
  /\ CallFits(p) /\ CopyFits(p) /\ StageFits(p) /\ CopyIsFresh(p)
  /\ job[p].mem # None => Earned(job[p].mem)

\* What holds of every state of the job, and is kept by every step.
JobInv ==
  /\ TypeOK /\ StageEarned /\ ReceiptFits /\ ReviewsFit
  /\ \A p \in Procs : Fine(p)

\* However many drivers there are, each writes only over what it has read, and
\* what asks for the user is never taken back.
JobStands ==
  [][/\ receipt # None => receipt' # None /\ receipt'.generation \in {receipt.generation, receipt.generation + 1}
     /\ receipt # None /\ receipt.status \in Over => receipt' = receipt
     /\ receipt # None => receipt'.rounds >= receipt.rounds]_vars

\* A review is decided as the Web answered, and in PAIR nothing is asked about the
\* user's intent before the Web approved the code of the same bundle.
VerdictsHonest ==
  /\ codeReview \in Decisions => codeReview = Decision[answer["code"]]
  /\ final \in Decisions => final = Decision[answer["final"]] /\ verdictFile = "whole"
  /\ mode = "PAIR" /\ "final" \in asked => answer["code"] = "APPROVE"

\* src/src/executor/resume-source.ts:32: "After the exact approved snapshot has been
\* published, however, bounded Web/model repair must resume from that exact published
\* commit": the executor takes up the repair a review asked for.
RepairResumes == \A u \in Purposes : answer[u] = "REPAIR" => executor # "ESCALATE_TO_WEB"
=============================================================================
