----------------------------- MODULE WebVerdict -----------------------------
(***************************************************************************)
(* What the drivers of a prepared run call: the executor, publication, the *)
(* draft pull request and the Result Bundle, each to its end in one step,  *)
(* and the Web reviews of that bundle in detail: the job, the verdict, its *)
(* adoption, and the repair it may carry.  PAIR asks for an independent    *)
(* code review first, AUTOPILOT for the final review only.  Every service  *)
(* may be called again, by any process, after any error or crash.          *)
(***************************************************************************)
EXTENDS Integers

CONSTANT Procs   \* wco processes

ASSUME VerdictAssumption == Procs \cap {"free", "orphan"} = {}

Modes == {"PAIR", "AUTOPILOT"}
Purposes == {"code", "final"}

\* What the Web answers; a REPAIR is a REVISE with bounded operations, and an
\* UNSOUND answer contradicts itself or its policy.
Answers == {"APPROVE", "REVISE", "REPAIR", "BLOCK", "UNSOUND"}
Decision == [APPROVE |-> "APPROVED", REVISE |-> "REVISION_REQUESTED",
             REPAIR |-> "REVISION_REQUESTED", BLOCK |-> "ESCALATED"]
Decisions == {Decision[a] : a \in DOMAIN Decision}

VARIABLES
  mode,
  executor,     \* state of the executor receipt
  executorLock, \* its lock file: owner, "free" or "orphan"
  delivery,     \* how far the result is delivered
  pull,         \* the pull request, "open" while it is exactly at the published head
  asked,        \* review jobs created; the same request is the same job
  answer,       \* the verdict the Web gave to each job
  codeReview,   \* receipt of the independent code review
  verdictFile,  \* the verdict written for the final review
  final,        \* receipt of the final review, round 1
  call          \* the service each process is in

result == <<executor, executorLock, delivery>>
reviews == <<asked, answer, codeReview, verdictFile, final>>
services == <<mode, result, pull, reviews, call>>

\* Where a call can be; only its own process moves it.
Resting == {"idle", "returned", "threw", "timeout"}
Places == Resting \cup
  {"execute", "executing", "publish", "draft", "package", "create", "code_job", "code_write",
   "final_job", "adopt", "code_seal", "file_write", "submit", "bind", "bind_write", "rerun", "repairing", "revise"}
Call == [at : Places, purpose : Purposes]
NoCall == [at |-> "idle", purpose |-> "final"]
At(p, at) == call[p].at = at
GoTo(p, at) == call' = [call EXCEPT ![p].at = at]
Return(p) == GoTo(p, "returned")
Throw(p) == GoTo(p, "threw")

VerdictInit ==
  /\ mode \in Modes
  /\ executor = "none" /\ executorLock = "free" /\ delivery = "none" /\ pull = "none"
  /\ asked = {} /\ answer = [u \in Purposes |-> "none"]
  /\ codeReview = "none" /\ verdictFile = "none" /\ final = "none"
  /\ call = [p \in Procs |-> NoCall]

-----------------------------------------------------------------------------
\* The lock of the executor is never waited for and never stolen.
TakeExecutorLock(p, inside) ==
  IF executorLock = "free"
  THEN executorLock' = p /\ GoTo(p, inside)
  ELSE Throw(p) /\ UNCHANGED executorLock

Execute(p) ==
  /\ At(p, "execute") /\ TakeExecutorLock(p, "executing")
  /\ UNCHANGED <<mode, executor, delivery, pull, reviews>>

\* The executor ends READY or gives the pack back.  It attests trees on the base
\* commit only: a READY result that is committed is refused, and a repair bound
\* to one goes back to the Web.
Executed(p) ==
  /\ At(p, "executing") /\ executorLock' = "free"
  /\ \/ /\ executor = "none" /\ executor' \in {"READY_FOR_PUBLISH", "ESCALATE_TO_WEB"} /\ Return(p)
     \/ /\ executor = "READY_FOR_PUBLISH" /\ UNCHANGED executor
        /\ IF delivery = "none" THEN Return(p) ELSE Throw(p)
     \/ executor \in {"REVIEWING_WEB", "ESCALATE_TO_WEB"} /\ executor' = "ESCALATE_TO_WEB" /\ Return(p)
  /\ UNCHANGED <<mode, delivery, pull, reviews>>

\* Each of these attests the READY executor first.
Publish(p) ==
  /\ At(p, "publish")
  /\ IF executor = "READY_FOR_PUBLISH"
     THEN delivery' = (IF delivery = "none" THEN "PUSHED" ELSE delivery) /\ Return(p)
     ELSE Throw(p) /\ UNCHANGED delivery
  /\ UNCHANGED <<mode, executor, executorLock, pull, reviews>>

Draft(p) ==
  /\ At(p, "draft")
  /\ IF executor = "READY_FOR_PUBLISH" /\ delivery # "none" /\ pull # "closed"
     THEN /\ pull' = "open" /\ delivery' = (IF delivery = "PUSHED" THEN "OPEN" ELSE delivery)
          /\ Return(p)
     ELSE Throw(p) /\ UNCHANGED <<pull, delivery>>
  /\ UNCHANGED <<mode, executor, executorLock, reviews>>

Package(p) ==
  /\ At(p, "package")
  /\ IF executor = "READY_FOR_PUBLISH" /\ delivery \in {"OPEN", "READY"} /\ pull = "open"
     THEN delivery' = "READY" /\ Return(p)
     ELSE Throw(p) /\ UNCHANGED delivery
  /\ UNCHANGED <<mode, executor, executorLock, pull, reviews>>

-----------------------------------------------------------------------------
\* Mutant: the final review does not wait for the code review.
GateUnchecked(p) ==
  /\ At(p, "create") /\ GoTo(p, IF codeReview = "none" /\ mode = "PAIR" THEN "code_job" ELSE "final_job")
  /\ UNCHANGED <<mode, result, pull, reviews>>

\* PAIR: the final review waits for the code review, which is always of the one
\* bundle there is; a review that did not approve ends the workflow.
Gate(p) ==
  /\ At(p, "create")
  /\ IF mode = "AUTOPILOT" \/ codeReview = "APPROVED" THEN GoTo(p, "final_job")
     ELSE IF codeReview \in {"none", "PENDING"} THEN GoTo(p, "code_job")
     ELSE Throw(p)
  /\ UNCHANGED <<mode, result, pull, reviews>>

\* The receipt is read, the job is created, and the receipt is written PENDING:
\* without a lock, and whatever it has become meanwhile.
AskCode(p) ==
  /\ At(p, "code_job")
  /\ IF delivery = "READY" /\ codeReview # "APPROVED"
     THEN /\ asked' = asked \cup {"code"}
          /\ call' = [call EXCEPT ![p] = [at |-> "code_write", purpose |-> "code"]]
     ELSE Throw(p) /\ UNCHANGED asked
  /\ UNCHANGED <<mode, result, pull, answer, codeReview, verdictFile, final>>

WritePending(p) ==
  /\ At(p, "code_write") /\ codeReview' = "PENDING" /\ Return(p)
  /\ UNCHANGED <<mode, result, pull, asked, answer, verdictFile, final>>

\* Round 1, while it has no receipt.  Round 2 has no bundle: see Bind.
AskFinal(p) ==
  /\ At(p, "final_job")
  /\ IF delivery = "READY" /\ final = "none"
     THEN /\ asked' = asked \cup {"final"}
          /\ call' = [call EXCEPT ![p] = [at |-> "returned", purpose |-> "final"]]
     ELSE Throw(p) /\ UNCHANGED asked
  /\ UNCHANGED <<mode, result, pull, answer, codeReview, verdictFile, final>>

\* The Web answers a job once.
WebAnswers ==
  /\ \E u \in asked, a \in Answers : answer[u] = "none" /\ answer' = [answer EXCEPT ![u] = a]
  /\ UNCHANGED <<mode, result, pull, asked, codeReview, verdictFile, final, call>>

-----------------------------------------------------------------------------
\* What a verdict asks for is done once it is sealed.
Adopted(p) == IF answer[call[p].purpose] = "REPAIR" THEN GoTo(p, "bind") ELSE Return(p)

AdoptCode(p) ==
  /\ At(p, "adopt") /\ call[p].purpose = "code"
  /\ IF codeReview # "PENDING" THEN Adopted(p)
     ELSE IF answer["code"] = "UNSOUND" THEN Throw(p)
     ELSE GoTo(p, "code_seal")
  /\ UNCHANGED <<mode, result, pull, reviews>>

SealCode(p) ==
  /\ At(p, "code_seal") /\ codeReview' = Decision[answer["code"]] /\ Adopted(p)
  /\ UNCHANGED <<mode, result, pull, asked, answer, verdictFile, final>>

\* The verdict file is created and then filled; one that is found must be whole.
AdoptFinal(p) ==
  /\ At(p, "adopt") /\ call[p].purpose = "final"
  /\ \/ /\ answer["final"] = "UNSOUND" \/ verdictFile = "torn"
        /\ Throw(p) /\ UNCHANGED verdictFile
     \/ /\ answer["final"] # "UNSOUND" /\ verdictFile = "none"
        /\ verdictFile' = "torn" /\ GoTo(p, "file_write")
     \/ answer["final"] # "UNSOUND" /\ verdictFile = "whole" /\ GoTo(p, "submit") /\ UNCHANGED verdictFile
  /\ UNCHANGED <<mode, result, pull, asked, answer, codeReview, final>>

WriteVerdict(p) ==
  /\ At(p, "file_write") /\ verdictFile' = "whole" /\ GoTo(p, "submit")
  /\ UNCHANGED <<mode, result, pull, asked, answer, codeReview, final>>

\* The verdict is sealed, or found sealed; either way the pull request is attested.
Submit(p) ==
  /\ At(p, "submit")
  /\ \/ pull = "open" /\ final' = Decision[answer["final"]] /\ Adopted(p)
     \/ /\ pull # "open" /\ Throw(p)
        /\ final' = IF final \in Decisions THEN final ELSE "BLOCKED"
  /\ UNCHANGED <<mode, result, pull, asked, answer, codeReview, verdictFile>>

\* The repair is bound to the result that was READY when its receipt was read,
\* without the executor's lock and whatever the receipt has become meanwhile.  That
\* result is committed, so the executor gives the repair back (Executed), and no
\* repair a review asks for is ever applied, verified and published.
Bind(p) ==
  /\ At(p, "bind") /\ GoTo(p, IF executor = "READY_FOR_PUBLISH" THEN "bind_write" ELSE "rerun")
  /\ UNCHANGED <<mode, result, pull, reviews>>

BindWrite(p) ==
  /\ At(p, "bind_write") /\ GoTo(p, "rerun") /\ executor' = "REVIEWING_WEB"
  /\ UNCHANGED <<mode, executorLock, delivery, pull, reviews>>

Rerun(p) ==
  /\ At(p, "rerun") /\ TakeExecutorLock(p, "repairing")
  /\ UNCHANGED <<mode, executor, delivery, pull, reviews>>

Repaired(p) ==
  /\ At(p, "repairing") /\ executorLock' = "free" /\ executor' = "ESCALATE_TO_WEB" /\ Throw(p)
  /\ UNCHANGED <<mode, delivery, pull, reviews>>

\* A revision promotes a verified repair by the Web, and there is none.
Revise(p) == At(p, "revise") /\ Throw(p) /\ UNCHANGED <<mode, result, pull, reviews>>

-----------------------------------------------------------------------------
ServiceStep(p) ==
  \/ Execute(p) \/ Executed(p) \/ Publish(p) \/ Draft(p) \/ Package(p)
  \/ Gate(p) \/ AskCode(p) \/ WritePending(p) \/ AskFinal(p)
  \/ AdoptCode(p) \/ SealCode(p) \/ AdoptFinal(p) \/ WriteVerdict(p) \/ Submit(p)
  \/ Bind(p) \/ BindWrite(p) \/ Rerun(p) \/ Repaired(p) \/ Revise(p)

ReleaseOf(p, to) == executorLock' = IF executorLock = p THEN to ELSE executorLock

\* A service fails: GitHub, the Web or a model does not answer (this may be worth
\* a retry), or the disk is full.  A final review underway is left FAILED.
ServiceTrouble(p) ==
  /\ call[p].at \notin Resting
  /\ \E how \in {"threw", "timeout"} : GoTo(p, how)
  /\ ReleaseOf(p, "free")
  /\ final' = IF At(p, "submit") /\ final \notin Decisions THEN "FAILED" ELSE final
  /\ UNCHANGED <<mode, executor, delivery, pull, asked, answer, codeReview, verdictFile>>

ServiceCrash(p) ==
  /\ ReleaseOf(p, "orphan") /\ call' = [call EXCEPT ![p] = NoCall]
  /\ UNCHANGED <<mode, executor, delivery, pull, reviews>>

\* An operator removes the lock of a dead process.
RemoveLock ==
  /\ executorLock = "orphan" /\ executorLock' = "free"
  /\ UNCHANGED <<mode, executor, delivery, pull, reviews, call>>

\* Others close, move or reopen the pull request.
MovePull ==
  /\ pull # "none" /\ pull' \in {"open", "closed"} \ {pull}
  /\ UNCHANGED <<mode, result, reviews, call>>

-----------------------------------------------------------------------------
\* What the Web can be held to.
Sound == Answers \ {"UNSOUND"}

\* The reviews are decided as they were answered, and nothing is asked before there
\* is a bundle, nor in PAIR about the intent before the code is approved.  Until a
\* repair is asked for, what is delivered is a READY result.
ReviewsFit ==
  /\ codeReview \in Decisions => answer["code"] \in Sound /\ codeReview = Decision[answer["code"]]
  /\ final \in Decisions =>
       answer["final"] \in Sound /\ final = Decision[answer["final"]] /\ verdictFile = "whole"
  /\ \A u \in Purposes : answer[u] # "none" => u \in asked
  /\ "code" \in asked => mode = "PAIR"
  /\ mode = "PAIR" /\ "final" \in asked => answer["code"] = "APPROVE"
  /\ asked # {} => delivery = "READY"
  /\ delivery # "none" => executor # "none"
  /\ delivery # "none" /\ (\A u \in Purposes : answer[u] # "REPAIR") => executor = "READY_FOR_PUBLISH"

\* What a process relies on within a call, which no other process may take away.
CallFits(p) ==
  LET c == call[p]
  IN  /\ c.at = "code_job" => mode = "PAIR"
      /\ c.at = "final_job" /\ mode = "PAIR" => answer["code"] = "APPROVE"
      /\ c.at = "adopt" => answer[c.purpose] # "none"
      /\ c.at = "code_seal" => answer["code"] \in Sound
      /\ c.at \in {"file_write", "submit"} => c.purpose = "final" /\ answer["final"] \in Sound
      /\ c.at = "submit" => verdictFile = "whole"
      /\ c.at \in {"bind", "bind_write", "rerun", "repairing"} => answer[c.purpose] = "REPAIR"
=============================================================================
