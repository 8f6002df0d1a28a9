--------------------------- MODULE JobDriverProofs ---------------------------
(***************************************************************************)
(* Proofs about JobDriver, for any number of processes, starts, retries    *)
(* and faults: JobInv is inductive, so the receipt of a job never runs     *)
(* ahead of its services, verdicts are what the Web answered, and no       *)
(* driver writes over what it has not read.                                *)
(***************************************************************************)
EXTENDS JobDriver, TLAPS

-----------------------------------------------------------------------------
(* Services.                                                               *)

\* What the Web answers and what is made of it.
LEMMA DecisionFacts ==
  /\ Decisions = {"APPROVED", "REVISION_REQUESTED", "ESCALATED"}
  /\ \A a \in Sound : a # "none" /\ Decision[a] \in Decisions
                      /\ (Decision[a] = "APPROVED" => a = "APPROVE")
  /\ Sound = {"APPROVE", "REVISE", "REPAIR", "BLOCK"}
<1>1. DOMAIN Decision = {"APPROVE", "REVISE", "REPAIR", "BLOCK"}
  BY DEF Decision
<1>2. /\ Decision["APPROVE"] = "APPROVED" /\ Decision["REVISE"] = "REVISION_REQUESTED"
      /\ Decision["REPAIR"] = "REVISION_REQUESTED" /\ Decision["BLOCK"] = "ESCALATED"
  BY DEF Decision
<1>3. Sound = {"APPROVE", "REVISE", "REPAIR", "BLOCK"}
  BY DEF Sound, Answers
<1>4. Decisions = {"APPROVED", "REVISION_REQUESTED", "ESCALATED"}
  BY <1>1, <1>2 DEF Decisions
<1> QED
  BY <1>2, <1>3, <1>4

\* The variables of the services have their types.
Typed ==
  /\ mode \in Modes /\ delivery \in {"none", "PUSHED", "OPEN", "READY"} /\ pull \in {"none", "open", "closed"}
  /\ executor \in {"none", "READY_FOR_PUBLISH", "REVIEWING_WEB", "ESCALATE_TO_WEB"}
  /\ executorLock \in Procs \cup {"free", "orphan"}
  /\ asked \subseteq Purposes /\ answer \in [Purposes -> Answers \cup {"none"}]
  /\ codeReview \in {"none", "PENDING"} \cup Decisions
  /\ verdictFile \in {"none", "torn", "whole"} /\ final \in {"none", "BLOCKED", "FAILED"} \cup Decisions
  /\ call \in [Procs -> Call]

\* What has been done stays done.
Grows ==
  /\ mode' = mode
  /\ executor # "none" => executor' # "none"
  /\ delivery # "none" => delivery' # "none"
  /\ delivery \in {"OPEN", "READY"} => delivery' \in {"OPEN", "READY"}
  /\ delivery = "READY" => delivery' = "READY"
  /\ asked \subseteq asked'
  /\ final \in Decisions => final' = final
  /\ verdictFile = "whole" => verdictFile' = "whole"
  /\ \A u \in Purposes : answer[u] # "none" => answer'[u] = answer[u]

\* A process moves within its call.
Moved(p, at) ==
  /\ call' \in [Procs -> Call]
  /\ call'[p].at = at /\ call'[p].purpose = call[p].purpose
  /\ \A q \in Procs \ {p} : call'[q] = call[q]

LEMMA GoesTo ==
  ASSUME call \in [Procs -> Call], NEW p \in Procs, NEW at \in Places, GoTo(p, at)
  PROVE  Moved(p, at)
<1>1. call[p] \in Call /\ [call[p] EXCEPT !.at = at] \in Call
  BY DEF Call
<1>2. call' = [call EXCEPT ![p] = [call[p] EXCEPT !.at = at]]
  BY DEF GoTo
<1>3. call'[p] = [call[p] EXCEPT !.at = at]
  BY <1>2
<1> QED
  BY <1>1, <1>2, <1>3 DEF Moved, Call

\* Nothing but the calls changes.
LEMMA ServicesIdle ==
  ASSUME Typed, ReviewsFit, UNCHANGED <<mode, result, pull, reviews>>, call' \in [Procs -> Call]
  PROVE  Typed' /\ ReviewsFit' /\ Grows
<1>1. UNCHANGED <<mode, executor, executorLock, delivery, pull, asked, answer, codeReview, verdictFile, final>>
  BY DEF result, reviews
<1> QED
  BY <1>1 DEF Typed, ReviewsFit, Grows

\* What is done stays done, so a process that does not move keeps what it relies on.
LEMMA CallStays ==
  ASSUME Typed, Grows, NEW q \in Procs, CallFits(q), call'[q] = call[q]
  PROVE  CallFits(q)'
<1>1. call[q].purpose \in Purposes
  BY DEF Typed, Call
<1>2. "code" \in Purposes /\ "final" \in Purposes
  BY DEF Purposes
<1> QED
  BY <1>1, <1>2, DecisionFacts DEF CallFits, Grows

LEMMA StageStays ==
  ASSUME Grows, NEW q \in Procs, StageFits(q), call'[q] = call[q], job'[q] = job[q]
  PROVE  StageFits(q)'
BY DEF StageFits, Grows

\* What a receipt claims stays earned.
LEMMA EarnedStays ==
  ASSUME Typed', ReviewsFit', Grows, mode = "AUTOPILOT", NEW r \in Receipt, Earned(r)
  PROVE  Earned(r)'
<1>1. r.stage # "DONE" => Earned(r)'
  BY DecisionFacts DEF Earned, Grows
<1>2. CASE r.stage = "DONE"
  <2>1. final' = "APPROVED" /\ delivery' = "READY"
    BY <1>2, DecisionFacts DEF Earned, Grows
  <2>2. answer'["final"] = "APPROVE"
    BY <2>1, DecisionFacts DEF ReviewsFit
  <2>3. answer'["code"] = "none"
    BY DEF ReviewsFit, Grows, Purposes
  <2>4. executor' = "READY_FOR_PUBLISH"
    BY <2>1, <2>2, <2>3 DEF ReviewsFit, Purposes
  <2> QED
    BY <1>2, <2>1, <2>4 DEF Earned, Grows
<1> QED
  BY <1>1, <1>2

LEMMA AdoptedMoves ==
  ASSUME Typed, NEW p \in Procs, Adopted(p)
  PROVE  \/ Moved(p, "returned")
         \/ Moved(p, "bind") /\ answer[call[p].purpose] = "REPAIR"
BY GoesTo DEF Places, Resting, Adopted, Return, Typed

\* A step of a service keeps what the reviews, its caller and the caller's stage
\* rely on.
Served(p) ==
  /\ Typed' /\ ReviewsFit' /\ Grows /\ CallFits(p)' /\ StageFits(p)'
  /\ \A q \in Procs \ {p} : call'[q] = call[q]

LEMMA ServiceKeeps ==
  ASSUME Typed, ReviewsFit, NEW p \in Procs, CallFits(p), StageFits(p), job' = job,
         job[p].pc = "stage" => mode = "AUTOPILOT" /\ job[p].mem \in Receipt /\ Earned(job[p].mem),
         ServiceStep(p)
  PROVE  Served(p)
<1>0. call \in [Procs -> Call] /\ call[p].purpose \in Purposes
  BY DEF Typed, Call
<1>1. CASE Execute(p)
  <2>1. Moved(p, "executing") \/ Moved(p, "threw")
    BY <1>0, <1>1, GoesTo DEF Places, Resting, Execute, TakeExecutorLock, Throw
  <2>2. executorLock' \in Procs \cup {"free", "orphan"} /\ UNCHANGED <<mode, executor, delivery, pull, asked, answer, codeReview, verdictFile, final>>
    BY <1>0, <1>1 DEF Execute, TakeExecutorLock, Typed, reviews
  <2>3. CallFits(p)'
    BY <1>0, <1>1, <2>1, <2>2, DecisionFacts DEF Execute, At, CallFits, Moved, ReviewsFit, Typed
  <2>4. StageFits(p)'
    BY <1>0, <1>1, <2>1, <2>2, DecisionFacts DEF Execute, At, StageFits, Moved, ReviewsFit, CallFits
  <2>5. ReviewsFit'
    BY <1>0, <1>1, <2>1, <2>2, DecisionFacts DEF Execute, At, CallFits, ReviewsFit, Typed
  <2>6. Typed' /\ Grows
    BY <1>0, <1>1, <2>1, <2>2, DecisionFacts DEF Execute, At, CallFits, ReviewsFit, Typed, Grows, Moved
  <2> QED
    BY <2>1, <2>3, <2>4, <2>5, <2>6 DEF Served, Moved
<1>2. CASE Executed(p)
  <2>1. Moved(p, "returned") \/ Moved(p, "threw")
    BY <1>0, <1>2, GoesTo DEF Places, Resting, Executed, Return, Throw
  <2>2. executorLock' \in Procs \cup {"free", "orphan"} /\ UNCHANGED <<mode, delivery, pull, asked, answer, codeReview, verdictFile, final>>
    BY <1>0, <1>2 DEF Executed, reviews
  <2>3. CallFits(p)'
    BY <1>0, <1>2, <2>1, <2>2, DecisionFacts DEF Executed, At, CallFits, Moved, ReviewsFit, Typed
  <2>4. StageFits(p)'
    BY <1>0, <1>2, <2>1, <2>2, DecisionFacts DEF Executed, At, StageFits, Moved, ReviewsFit, CallFits
  <2>5. ReviewsFit'
    BY <1>0, <1>2, <2>1, <2>2, DecisionFacts DEF Executed, At, CallFits, ReviewsFit, Typed
  <2>6. Typed' /\ Grows
    BY <1>0, <1>2, <2>1, <2>2, DecisionFacts DEF Executed, At, CallFits, ReviewsFit, Typed, Grows, Moved
  <2> QED
    BY <2>1, <2>3, <2>4, <2>5, <2>6 DEF Served, Moved
<1>3. CASE Publish(p)
  <2>1. (Moved(p, "returned") /\ executor = "READY_FOR_PUBLISH") \/ Moved(p, "threw")
    BY <1>0, <1>3, GoesTo DEF Places, Resting, Publish, Return, Throw
  <2>2. UNCHANGED <<mode, executor, executorLock, pull, asked, answer, codeReview, verdictFile, final>>
    BY <1>0, <1>3 DEF Publish, reviews
  <2>3. CallFits(p)'
    BY <1>0, <1>3, <2>1, <2>2, DecisionFacts DEF Publish, At, CallFits, Moved, ReviewsFit, Typed
  <2>4. StageFits(p)'
    BY <1>0, <1>3, <2>1, <2>2, DecisionFacts DEF Publish, At, StageFits, Moved, Typed, ReviewsFit, CallFits
  <2>5. ReviewsFit'
    BY <1>0, <1>3, <2>1, <2>2, DecisionFacts DEF Publish, At, CallFits, ReviewsFit, Typed
  <2>6. Typed' /\ Grows
    BY <1>0, <1>3, <2>1, <2>2, DecisionFacts DEF Publish, At, CallFits, ReviewsFit, Typed, Grows, Moved
  <2> QED
    BY <2>1, <2>3, <2>4, <2>5, <2>6 DEF Served, Moved
<1>4. CASE Draft(p)
  <2>1. (Moved(p, "returned") /\ delivery # "none" /\ delivery' = IF delivery = "PUSHED" THEN "OPEN" ELSE delivery)
        \/ Moved(p, "threw")
    BY <1>0, <1>4, GoesTo DEF Places, Resting, Draft, Return, Throw
  <2>2. UNCHANGED <<mode, executor, executorLock, asked, answer, codeReview, verdictFile, final>>
    BY <1>0, <1>4 DEF Draft, reviews
  <2>3. CallFits(p)'
    BY <1>0, <1>4, <2>1, <2>2, DecisionFacts DEF Draft, At, CallFits, Moved, ReviewsFit, Typed
  <2>4. StageFits(p)'
    BY <1>0, <1>4, <2>1, <2>2, DecisionFacts DEF Draft, At, StageFits, Moved, Typed, ReviewsFit, CallFits
  <2>5. ReviewsFit'
    BY <1>0, <1>4, <2>1, <2>2, DecisionFacts DEF Draft, At, CallFits, ReviewsFit, Typed
  <2>6. Typed' /\ Grows
    BY <1>0, <1>4, <2>1, <2>2, DecisionFacts DEF Draft, At, CallFits, ReviewsFit, Typed, Grows, Moved
  <2> QED
    BY <2>1, <2>3, <2>4, <2>5, <2>6 DEF Served, Moved
<1>5. CASE Package(p)
  <2>1. (Moved(p, "returned") /\ delivery' = "READY") \/ Moved(p, "threw")
    BY <1>0, <1>5, GoesTo DEF Places, Resting, Package, Return, Throw
  <2>2. UNCHANGED <<mode, executor, executorLock, pull, asked, answer, codeReview, verdictFile, final>>
    BY <1>0, <1>5 DEF Package, reviews
  <2>3. CallFits(p)'
    BY <1>0, <1>5, <2>1, <2>2, DecisionFacts DEF Package, At, CallFits, Moved, ReviewsFit, Typed
  <2>4. StageFits(p)'
    BY <1>0, <1>5, <2>1, <2>2, DecisionFacts DEF Package, At, StageFits, Moved, ReviewsFit, CallFits
  <2>5. ReviewsFit'
    BY <1>0, <1>5, <2>1, <2>2, DecisionFacts DEF Package, At, CallFits, ReviewsFit, Typed
  <2>6. Typed' /\ Grows
    BY <1>0, <1>5, <2>1, <2>2, DecisionFacts DEF Package, At, CallFits, ReviewsFit, Typed, Grows, Moved
  <2> QED
    BY <2>1, <2>3, <2>4, <2>5, <2>6 DEF Served, Moved
<1>6. CASE Gate(p)
  <2>1. \/ Moved(p, "final_job") /\ (mode = "AUTOPILOT" \/ codeReview = "APPROVED")
        \/ Moved(p, "code_job") /\ mode # "AUTOPILOT"
        \/ Moved(p, "threw")
    BY <1>0, <1>6, GoesTo DEF Places, Resting, Gate, Throw
  <2>2. UNCHANGED <<mode, executor, executorLock, delivery, pull, asked, answer, codeReview, verdictFile, final>>
    BY <1>0, <1>6 DEF Gate, result, reviews
  <2>3. CallFits(p)'
    BY <1>0, <1>6, <2>1, <2>2, DecisionFacts DEF Gate, At, CallFits, Moved, ReviewsFit, Typed, Modes
  <2>4. StageFits(p)'
    BY <1>0, <1>6, <2>1, <2>2, DecisionFacts DEF Gate, At, Typed, Driving, CopyFits, StageFits, Moved, ReviewsFit, CallFits
  <2>5. ReviewsFit'
    BY <1>0, <1>6, <2>1, <2>2, DecisionFacts DEF Gate, At, CallFits, ReviewsFit, Typed
  <2>6. Typed' /\ Grows
    BY <1>0, <1>6, <2>1, <2>2, DecisionFacts DEF Gate, At, CallFits, ReviewsFit, Typed, Grows, Moved
  <2> QED
    BY <2>1, <2>3, <2>4, <2>5, <2>6 DEF Served, Moved
<1>8. CASE WritePending(p)
  <2>1. Moved(p, "returned")
    BY <1>0, <1>8, GoesTo DEF Places, Resting, WritePending, Return
  <2>2. UNCHANGED <<mode, executor, executorLock, delivery, pull, asked, answer, verdictFile, final>>
    BY <1>0, <1>8 DEF WritePending, result
  <2>3. CallFits(p)'
    BY <1>0, <1>8, <2>1, <2>2, DecisionFacts DEF WritePending, At, CallFits, Moved, ReviewsFit, Typed
  <2>4. StageFits(p)'
    BY <1>0, <1>8, <2>1, <2>2, DecisionFacts DEF WritePending, At, StageFits, Moved, ReviewsFit, CallFits
  <2>5. ReviewsFit'
    BY <1>0, <1>8, <2>1, <2>2, DecisionFacts DEF WritePending, At, CallFits, ReviewsFit, Typed
  <2>6. Typed' /\ Grows
    BY <1>0, <1>8, <2>1, <2>2, DecisionFacts DEF WritePending, At, CallFits, ReviewsFit, Typed, Grows, Moved
  <2> QED
    BY <2>1, <2>3, <2>4, <2>5, <2>6 DEF Served, Moved
<1>10. CASE AdoptCode(p)
  <2>1. Moved(p, "returned") \/ (Moved(p, "bind") /\ answer[call[p].purpose] = "REPAIR") \/ Moved(p, "threw") \/ (Moved(p, "code_seal") /\ answer["code"] # "UNSOUND")
    BY <1>0, <1>10, GoesTo, AdoptedMoves DEF Places, Resting, AdoptCode, Throw
  <2>2. UNCHANGED <<mode, executor, executorLock, delivery, pull, asked, answer, codeReview, verdictFile, final>>
    BY <1>0, <1>10 DEF AdoptCode, result, reviews
  <2>3. CallFits(p)'
    BY <1>0, <1>10, <2>1, <2>2, DecisionFacts DEF AdoptCode, At, CallFits, Answers, Purposes, Moved, ReviewsFit, Typed
  <2>4. StageFits(p)'
    BY <1>0, <1>10, <2>1, <2>2, DecisionFacts DEF AdoptCode, At, StageFits, Moved, ReviewsFit, CallFits
  <2>5. ReviewsFit'
    BY <1>0, <1>10, <2>1, <2>2, DecisionFacts DEF AdoptCode, At, CallFits, ReviewsFit, Typed
  <2>6. Typed' /\ Grows
    BY <1>0, <1>10, <2>1, <2>2, DecisionFacts DEF AdoptCode, At, CallFits, ReviewsFit, Typed, Grows, Moved
  <2> QED
    BY <2>1, <2>3, <2>4, <2>5, <2>6 DEF Served, Moved
<1>11. CASE SealCode(p)
  <2>1. Moved(p, "returned") \/ (Moved(p, "bind") /\ answer[call[p].purpose] = "REPAIR")
    BY <1>0, <1>11, AdoptedMoves DEF SealCode
  <2>2. UNCHANGED <<mode, executor, executorLock, delivery, pull, asked, answer, verdictFile, final>>
    BY <1>0, <1>11 DEF SealCode, result
  <2>3. CallFits(p)'
    BY <1>0, <1>11, <2>1, <2>2, DecisionFacts DEF SealCode, At, CallFits, Moved, ReviewsFit, Typed
  <2>4. StageFits(p)'
    BY <1>0, <1>11, <2>1, <2>2, DecisionFacts DEF SealCode, At, StageFits, Moved, ReviewsFit, CallFits
  <2>5. ReviewsFit'
    BY <1>0, <1>11, <2>1, <2>2, DecisionFacts DEF SealCode, At, CallFits, ReviewsFit, Typed
  <2>6. Typed' /\ Grows
    BY <1>0, <1>11, <2>1, <2>2, DecisionFacts DEF SealCode, At, CallFits, ReviewsFit, Typed, Grows, Moved
  <2> QED
    BY <2>1, <2>3, <2>4, <2>5, <2>6 DEF Served, Moved
<1>12. CASE AdoptFinal(p)
  <2>1. Moved(p, "threw") \/ 
       (/\ answer["final"] # "UNSOUND"
        /\ Moved(p, "file_write") \/ (Moved(p, "submit") /\ verdictFile = "whole" /\ verdictFile' = verdictFile))
    BY <1>0, <1>12, GoesTo DEF Places, Resting, AdoptFinal, Throw
  <2>2. UNCHANGED <<mode, executor, executorLock, delivery, pull, asked, answer, codeReview, final>>
    BY <1>0, <1>12 DEF AdoptFinal, result
  <2>3. CallFits(p)'
    BY <1>0, <1>12, <2>1, <2>2, DecisionFacts DEF AdoptFinal, At, CallFits, Answers, Purposes, Moved, ReviewsFit, Typed
  <2>4. StageFits(p)'
    BY <1>0, <1>12, <2>1, <2>2, DecisionFacts DEF AdoptFinal, At, StageFits, Moved, ReviewsFit, CallFits
  <2>5. ReviewsFit'
    BY <1>0, <1>12, <2>1, <2>2, DecisionFacts DEF AdoptFinal, At, CallFits, ReviewsFit, Typed
  <2>6. Typed' /\ Grows
    BY <1>0, <1>12, <2>1, <2>2, DecisionFacts DEF AdoptFinal, At, CallFits, ReviewsFit, Typed, Grows, Moved
  <2> QED
    BY <2>1, <2>3, <2>4, <2>5, <2>6 DEF Served, Moved
<1>13. CASE WriteVerdict(p)
  <2>1. Moved(p, "submit")
    BY <1>0, <1>13, GoesTo DEF Places, Resting, WriteVerdict
  <2>2. UNCHANGED <<mode, executor, executorLock, delivery, pull, asked, answer, codeReview, final>>
    BY <1>0, <1>13 DEF WriteVerdict, result
  <2>3. CallFits(p)'
    BY <1>0, <1>13, <2>1, <2>2, DecisionFacts DEF WriteVerdict, At, CallFits, Moved, ReviewsFit, Typed
  <2>4. StageFits(p)'
    BY <1>0, <1>13, <2>1, <2>2, DecisionFacts DEF WriteVerdict, At, StageFits, Moved, ReviewsFit, CallFits
  <2>5. ReviewsFit'
    BY <1>0, <1>13, <2>1, <2>2, DecisionFacts DEF WriteVerdict, At, CallFits, ReviewsFit, Typed
  <2>6. Typed' /\ Grows
    BY <1>0, <1>13, <2>1, <2>2, DecisionFacts DEF WriteVerdict, At, CallFits, ReviewsFit, Typed, Grows, Moved
  <2> QED
    BY <2>1, <2>3, <2>4, <2>5, <2>6 DEF Served, Moved
<1>14. CASE Submit(p)
  <2>1. 
       (/\ final' = Decision[answer["final"]]
        /\ Moved(p, "returned") \/ (Moved(p, "bind") /\ answer[call[p].purpose] = "REPAIR")) \/ Moved(p, "threw")
    BY <1>0, <1>14, GoesTo, AdoptedMoves DEF Places, Resting, Submit, Throw
  <2>2. UNCHANGED <<mode, executor, executorLock, delivery, pull, asked, answer, codeReview, verdictFile>>
    BY <1>0, <1>14 DEF Submit, result
  <2>3. CallFits(p)'
    BY <1>0, <1>14, <2>1, <2>2, DecisionFacts DEF Submit, At, CallFits, Moved, ReviewsFit, Typed
  <2>4. StageFits(p)'
    BY <1>0, <1>14, <2>1, <2>2, DecisionFacts DEF Submit, At, StageFits, Moved, ReviewsFit, CallFits
  <2>5. ReviewsFit'
    BY <1>0, <1>14, <2>1, <2>2, DecisionFacts DEF Submit, At, CallFits, ReviewsFit, Typed
  <2>6. Typed' /\ Grows
    BY <1>0, <1>14, <2>1, <2>2, DecisionFacts DEF Submit, At, CallFits, ReviewsFit, Typed, Grows, Moved
  <2> QED
    BY <2>1, <2>3, <2>4, <2>5, <2>6 DEF Served, Moved
<1>15. CASE Bind(p)
  <2>1. Moved(p, "bind_write") \/ Moved(p, "rerun")
    BY <1>0, <1>15, GoesTo DEF Places, Resting, Bind
  <2>2. UNCHANGED <<mode, executor, executorLock, delivery, pull, asked, answer, codeReview, verdictFile, final>>
    BY <1>0, <1>15 DEF Bind, result, reviews
  <2>3. CallFits(p)'
    BY <1>0, <1>15, <2>1, <2>2, DecisionFacts DEF Bind, At, CallFits, Moved, ReviewsFit, Typed
  <2>4. StageFits(p)'
    BY <1>0, <1>15, <2>1, <2>2, DecisionFacts DEF Bind, At, StageFits, Moved, ReviewsFit, CallFits
  <2>5. ReviewsFit'
    BY <1>0, <1>15, <2>1, <2>2, DecisionFacts DEF Bind, At, CallFits, ReviewsFit, Typed
  <2>6. Typed' /\ Grows
    BY <1>0, <1>15, <2>1, <2>2, DecisionFacts DEF Bind, At, CallFits, ReviewsFit, Typed, Grows, Moved
  <2> QED
    BY <2>1, <2>3, <2>4, <2>5, <2>6 DEF Served, Moved
<1>19. CASE BindWrite(p)
  <2>1. Moved(p, "rerun")
    BY <1>0, <1>19, GoesTo DEF Places, Resting, BindWrite
  <2>2. UNCHANGED <<mode, executorLock, delivery, pull, asked, answer, codeReview, verdictFile, final>>
    BY <1>0, <1>19 DEF BindWrite, reviews
  <2>3. CallFits(p)'
    BY <1>0, <1>19, <2>1, <2>2, DecisionFacts DEF BindWrite, At, CallFits, Moved, ReviewsFit, Typed
  <2>4. StageFits(p)'
    BY <1>0, <1>19, <2>1, <2>2, DecisionFacts DEF BindWrite, At, StageFits, Moved, ReviewsFit, CallFits
  <2>5. ReviewsFit'
    BY <1>0, <1>19, <2>1, <2>2, DecisionFacts DEF BindWrite, At, CallFits, ReviewsFit, Typed
  <2>6. Typed' /\ Grows
    BY <1>0, <1>19, <2>1, <2>2, DecisionFacts DEF BindWrite, At, CallFits, ReviewsFit, Typed, Grows, Moved
  <2> QED
    BY <2>1, <2>3, <2>4, <2>5, <2>6 DEF Served, Moved
<1>16. CASE Rerun(p)
  <2>1. Moved(p, "repairing") \/ Moved(p, "threw")
    BY <1>0, <1>16, GoesTo DEF Places, Resting, Rerun, TakeExecutorLock, Throw
  <2>2. executorLock' \in Procs \cup {"free", "orphan"} /\ UNCHANGED <<mode, executor, delivery, pull, asked, answer, codeReview, verdictFile, final>>
    BY <1>0, <1>16 DEF Rerun, TakeExecutorLock, Typed, reviews
  <2>3. CallFits(p)'
    BY <1>0, <1>16, <2>1, <2>2, DecisionFacts DEF Rerun, At, CallFits, Moved, ReviewsFit, Typed
  <2>4. StageFits(p)'
    BY <1>0, <1>16, <2>1, <2>2, DecisionFacts DEF Rerun, At, StageFits, Moved, ReviewsFit, CallFits
  <2>5. ReviewsFit'
    BY <1>0, <1>16, <2>1, <2>2, DecisionFacts DEF Rerun, At, CallFits, ReviewsFit, Typed
  <2>6. Typed' /\ Grows
    BY <1>0, <1>16, <2>1, <2>2, DecisionFacts DEF Rerun, At, CallFits, ReviewsFit, Typed, Grows, Moved
  <2> QED
    BY <2>1, <2>3, <2>4, <2>5, <2>6 DEF Served, Moved
<1>17. CASE Repaired(p)
  <2>1. Moved(p, "threw")
    BY <1>0, <1>17, GoesTo DEF Places, Resting, Repaired, Throw
  <2>2. executorLock' \in Procs \cup {"free", "orphan"} /\ UNCHANGED <<mode, delivery, pull, asked, answer, codeReview, verdictFile, final>>
    BY <1>0, <1>17 DEF Repaired, reviews
  <2>3. CallFits(p)'
    BY <1>0, <1>17, <2>1, <2>2, DecisionFacts DEF Repaired, At, CallFits, Moved, ReviewsFit, Typed
  <2>4. StageFits(p)'
    BY <1>0, <1>17, <2>1, <2>2, DecisionFacts DEF Repaired, At, StageFits, Moved, ReviewsFit, CallFits
  <2>5. ReviewsFit'
    BY <1>0, <1>17, <2>1, <2>2, DecisionFacts DEF Repaired, At, CallFits, ReviewsFit, Typed
  <2>6. Typed' /\ Grows
    BY <1>0, <1>17, <2>1, <2>2, DecisionFacts DEF Repaired, At, CallFits, ReviewsFit, Typed, Grows, Moved
  <2> QED
    BY <2>1, <2>3, <2>4, <2>5, <2>6 DEF Served, Moved
<1>18. CASE Revise(p)
  <2>1. Moved(p, "threw")
    BY <1>0, <1>18, GoesTo DEF Places, Resting, Revise, Throw
  <2>2. UNCHANGED <<mode, executor, executorLock, delivery, pull, asked, answer, codeReview, verdictFile, final>>
    BY <1>0, <1>18 DEF Revise, result, reviews
  <2>3. CallFits(p)'
    BY <1>0, <1>18, <2>1, <2>2, DecisionFacts DEF Revise, At, CallFits, Moved, ReviewsFit, Typed
  <2>4. StageFits(p)'
    BY <1>0, <1>18, <2>1, <2>2, DecisionFacts DEF Revise, At, StageFits, Moved, ReviewsFit, CallFits
  <2>5. ReviewsFit'
    BY <1>0, <1>18, <2>1, <2>2, DecisionFacts DEF Revise, At, CallFits, ReviewsFit, Typed
  <2>6. Typed' /\ Grows
    BY <1>0, <1>18, <2>1, <2>2, DecisionFacts DEF Revise, At, CallFits, ReviewsFit, Typed, Grows, Moved
  <2> QED
    BY <2>1, <2>3, <2>4, <2>5, <2>6 DEF Served, Moved
<1>7. CASE AskCode(p)
  <2>1. /\ call' \in [Procs -> Call] /\ call'[p].at \in {"code_write", "threw"}
        /\ \A q \in Procs \ {p} : call'[q] = call[q]
    BY <1>0, <1>7, GoesTo DEF Places, Resting, AskCode, Throw, Call, Purposes, Moved
  <2>2. UNCHANGED <<mode, executor, executorLock, delivery, pull, answer, codeReview, verdictFile, final>>
    BY <1>7 DEF AskCode, result
  <2>3. CallFits(p)' /\ StageFits(p)'
    BY <1>0, <1>7, <2>1, <2>2, DecisionFacts DEF AskCode, At, CallFits, StageFits, Earned, Receipt
  <2>4. ReviewsFit'
    BY <1>0, <1>7, <2>1, <2>2 DEF AskCode, At, CallFits, ReviewsFit, Typed, Throw
  <2>5. Typed' /\ Grows
    BY <1>0, <1>7, <2>1, <2>2 DEF AskCode, At, Typed, Grows, Purposes, Throw
  <2> QED
    BY <2>1, <2>3, <2>4, <2>5 DEF Served
<1>9. CASE AskFinal(p)
  <2>1. /\ call' \in [Procs -> Call] /\ call'[p].at \in {"returned", "threw"}
        /\ \A q \in Procs \ {p} : call'[q] = call[q]
        /\ call'[p].at = "returned" => final = "none" /\ asked' = asked \cup {"final"}
    BY <1>0, <1>9, GoesTo DEF Places, Resting, AskFinal, Throw, Call, Purposes, Moved
  <2>2. UNCHANGED <<mode, executor, executorLock, delivery, pull, answer, codeReview, verdictFile, final>>
    BY <1>9 DEF AskFinal, result
  <2>3. CallFits(p)' /\ StageFits(p)'
    BY <1>0, <1>9, <2>1, <2>2, DecisionFacts DEF AskFinal, At, CallFits, StageFits, Earned, Receipt
  <2>4. ReviewsFit'
    BY <1>0, <1>9, <2>1, <2>2 DEF AskFinal, At, CallFits, ReviewsFit, Typed, Throw
  <2>5. Typed' /\ Grows
    BY <1>0, <1>9, <2>1, <2>2 DEF AskFinal, At, Typed, Grows, Purposes, Throw
  <2> QED
    BY <2>1, <2>3, <2>4, <2>5 DEF Served
<1> QED
  BY <1>1, <1>2, <1>3, <1>4, <1>5, <1>6, <1>7, <1>8, <1>9, <1>10, <1>11, <1>12,
     <1>13, <1>14, <1>15, <1>16, <1>17, <1>18, <1>19 DEF ServiceStep

\* A service that fails, the Web, an operator or GitHub.
LEMMA TroubleKeeps ==
  ASSUME Typed, ReviewsFit, NEW p \in Procs, CallFits(p), StageFits(p), job' = job, ServiceTrouble(p)
  PROVE  Served(p)
<1>1. Moved(p, "threw") \/ Moved(p, "timeout")
  BY GoesTo DEF Places, Resting, ServiceTrouble, Typed
<1>2. /\ executorLock' \in Procs \cup {"free", "orphan"}
      /\ UNCHANGED <<mode, executor, delivery, pull, asked, answer, codeReview, verdictFile>>
      /\ final' \in {final, "FAILED"} /\ (final \in Decisions => final' = final)
  BY DEF ServiceTrouble, ReleaseOf, Typed
<1>3. "FAILED" \notin Decisions
  BY DecisionFacts
<1>4. CallFits(p)' /\ StageFits(p)'
  BY <1>1 DEF CallFits, StageFits, Moved
<1>5. ReviewsFit'
  BY <1>2, <1>3 DEF ReviewsFit
<1>6. Typed' /\ Grows
  BY <1>1, <1>2 DEF Typed, Grows, Moved
<1> QED
  BY <1>1, <1>4, <1>5, <1>6 DEF Served, Moved

LEMMA WorldKeeps ==
  ASSUME Typed, ReviewsFit, WebAnswers \/ RemoveLock \/ MovePull
  PROVE  Typed' /\ ReviewsFit' /\ Grows /\ call' = call
<1>1. CASE WebAnswers
  <2>1. /\ UNCHANGED <<mode, executor, executorLock, delivery, pull, asked, codeReview, verdictFile, final, call>>
    BY <1>1 DEF WebAnswers, result
  <2>2. PICK u \in asked, a \in Answers : answer[u] = "none" /\ answer' = [answer EXCEPT ![u] = a]
    BY <1>1 DEF WebAnswers
  <2>3. answer' \in [Purposes -> Answers \cup {"none"}] /\ u \in Purposes
    BY <2>2 DEF Typed
  <2>4. \A w \in Purposes : answer[w] # "none" => answer'[w] = answer[w]
    BY <2>2 DEF Typed
  <2>5. \A w \in Purposes : answer'[w] # "REPAIR" => answer[w] # "REPAIR"
    BY <2>4
  <2>6. "code" \in Purposes /\ "final" \in Purposes /\ "none" \notin Sound
    BY DecisionFacts DEF Purposes
  <2>7. \A w \in Purposes : answer'[w] # "none" => w \in asked
    BY <2>2 DEF ReviewsFit, Typed
  <2>8. ReviewsFit'
    BY <2>1, <2>4, <2>5, <2>6, <2>7 DEF ReviewsFit
  <2> QED
    BY <2>1, <2>3, <2>4, <2>8 DEF Typed, Grows
<1>2. CASE RemoveLock
  <2>1. executorLock' = "free" /\ UNCHANGED <<mode, executor, delivery, pull, asked, answer, codeReview, verdictFile, final, call>>
    BY <1>2 DEF RemoveLock, reviews
  <2> QED
    BY <2>1 DEF Typed, ReviewsFit, Grows
<1>3. CASE MovePull
  <2>1. pull' \in {"open", "closed"} /\ UNCHANGED <<mode, executor, executorLock, delivery, asked, answer, codeReview, verdictFile, final, call>>
    BY <1>3 DEF MovePull, result, reviews
  <2> QED
    BY <2>1 DEF Typed, ReviewsFit, Grows
<1> QED
  BY <1>1, <1>2, <1>3

-----------------------------------------------------------------------------
(* Frames.                                                                 *)

LEMMA InvTypes ==
  ASSUME JobInv
  PROVE  /\ Typed /\ ReviewsFit /\ job \in [Procs -> Work]
         /\ \A p \in Procs : Fine(p) /\ job[p] \in Work /\ call[p] \in Call
         /\ receipt # None => receipt \in Receipt /\ Valid(receipt)
BY DEF JobInv, TypeOK, Typed

\* A process that does not move stays fine while the services grow.
LEMMA FineStays ==
  ASSUME JobInv, Typed', ReviewsFit', Grows, receipt' = receipt,
         NEW q \in Procs, job'[q] = job[q], call'[q] = call[q]
  PROVE  Fine(q)'
<1>1. Typed /\ Fine(q) /\ job[q] \in Work
  BY InvTypes
<1>2. CallFits(q)'
  BY <1>1, CallStays DEF Fine
<1>3. StageFits(q)'
  BY <1>1, StageStays DEF Fine
<1>4. CopyFits(q)'
  BY <1>1 DEF Fine, CopyFits, Grows, Runs, Patient
<1>5. CopyIsFresh(q)'
  BY <1>1 DEF Fine, CopyIsFresh, Generation
<1>6. ASSUME job'[q].mem # None
      PROVE  Earned(job[q].mem)'
  <2>1. job[q].mem \in Receipt /\ Earned(job[q].mem) /\ mode = "AUTOPILOT"
    BY <1>1, <1>6 DEF Fine, CopyFits, Work
  <2>2. PICK r \in Receipt : r = job[q].mem
    BY <2>1
  <2>3. Earned(r)'
    BY <2>1, <2>2, EarnedStays
  <2> QED
    BY <2>2, <2>3 DEF Earned
<1> QED
  BY <1>2, <1>3, <1>4, <1>5, <1>6 DEF Fine

\* A step that leaves the receipt alone keeps the invariant if every process stays
\* fine.
LEMMA Frame ==
  ASSUME JobInv, Typed', ReviewsFit', Grows, receipt' = receipt, job' \in [Procs -> Work],
         \A q \in Procs : Fine(q)'
  PROVE  JobInv'
<1>1. /\ receipt # None => receipt \in Receipt /\ Valid(receipt) /\ Earned(receipt) /\ mode = "AUTOPILOT"
      /\ ReceiptFits
  BY DEF JobInv, TypeOK, StageEarned, ReceiptFits
<1>2. TypeOK'
  BY <1>1 DEF TypeOK, Typed, Valid
<1>3. ASSUME receipt' # None
      PROVE  Earned(receipt)'
  <2>1. PICK r \in Receipt : r = receipt
    BY <1>1, <1>3
  <2>2. Earned(r)'
    BY <1>1, <1>3, <2>1, EarnedStays
  <2> QED
    BY <2>1, <2>2 DEF Earned
<1>4. ReceiptFits'
  BY <1>1 DEF ReceiptFits, Grows, Patient
<1> QED
  BY <1>2, <1>3, <1>4 DEF JobInv, StageEarned

\* One process moves, with its copy as it was or without one.
LEMMA Turns ==
  ASSUME JobInv, NEW p \in Procs, Typed', ReviewsFit', Grows, receipt' = receipt, job' \in [Procs -> Work],
         \A q \in Procs \ {p} : job'[q] = job[q] /\ call'[q] = call[q],
         CallFits(p)', CopyFits(p)', StageFits(p)',
         job'[p].mem \in {None, job[p].mem}, job'[p].pc # "begin" \/ job[p].pc = "begin",
         job[p].pc = "begin" /\ job'[p].pc \in Driving \ {"begin"} => job[p].mem.status \notin Over
  PROVE  JobInv'
<1>1. \A q \in Procs \ {p} : Fine(q)'
  BY FineStays
<1>2. Fine(p) /\ job[p] \in Work
  BY InvTypes
<1>3. CASE job'[p].mem = None
  BY <1>1, <1>3, Frame DEF Fine, CopyIsFresh
<1>4. CASE job'[p].mem = job[p].mem /\ job[p].mem # None
  <2>1. CopyIsFresh(p)'
    <3>1. job'[p].pc \in Driving
      BY <1>4 DEF CopyFits
    <3> QED
      BY <1>2, <1>4, <3>1 DEF Fine, CopyIsFresh, Generation, Work, Receipt
  <2>2. Earned(job[p].mem)'
    <3>1. job[p].mem \in Receipt /\ Earned(job[p].mem) /\ mode = "AUTOPILOT"
      BY <1>2, <1>4 DEF Fine, CopyFits, Work
    <3>2. PICK r \in Receipt : r = job[p].mem
      BY <3>1
    <3>3. Earned(r)'
      BY <3>1, <3>2, EarnedStays
    <3> QED
      BY <1>4, <3>2, <3>3 DEF Earned
  <2>3. Fine(p)'
    BY <2>1, <2>2 DEF Fine
  <2> QED
    BY <1>1, <2>3, Frame
<1> QED
  BY <1>3, <1>4

\* The services rest while a driver moves, but for its own call.
LEMMA ServicesRest ==
  ASSUME JobInv, NEW p \in Procs, UNCHANGED idleServices, call' = call \/ Leave(p)
  PROVE  /\ Typed' /\ ReviewsFit' /\ Grows /\ CallFits(p)'
         /\ \A q \in Procs \ {p} : call'[q] = call[q]
<1>1. /\ Typed /\ ReviewsFit /\ call \in [Procs -> Call] /\ CallFits(p) /\ call[p] \in Call
  BY InvTypes DEF Typed, Fine
<1>2. /\ call' \in [Procs -> Call] /\ (\A q \in Procs \ {p} : call'[q] = call[q])
      /\ call'[p] = call[p] \/ call'[p].at = "idle"
  BY <1>1 DEF Leave, Call, Places, Resting
<1>3. Typed' /\ ReviewsFit' /\ Grows
  BY <1>1, <1>2, ServicesIdle DEF idleServices
<1>4. CallFits(p)'
  BY <1>1, <1>2, <1>3, CallStays DEF CallFits
<1> QED
  BY <1>2, <1>3, <1>4

-----------------------------------------------------------------------------
(* Steps of a driver.                                                      *)

\* Where a process goes without touching its copy.
LEMMA ToFields ==
  ASSUME job \in [Procs -> Work], NEW p \in Procs, NEW x \in Driving \cup Pairing \cup {"idle"}, To(p, x)
  PROVE  /\ job' \in [Procs -> Work] /\ \A q \in Procs \ {p} : job'[q] = job[q]
         /\ x = "idle" => job'[p] = Off
         /\ x # "idle" =>
              /\ job'[p].pc = x /\ job'[p].mem = job[p].mem /\ job'[p].next = job[p].next
              /\ job'[p].guarded = job[p].guarded /\ job'[p].left = job[p].left
<1>1. Off \in Work
  BY DEF Off, Work
<1>2. job[p] \in Work /\ [job[p] EXCEPT !.pc = x] \in Work
  BY DEF Work
<1>3. job' = [job EXCEPT ![p] = IF x = "idle" THEN Off ELSE [job[p] EXCEPT !.pc = x]]
  BY DEF To
<1>4. job'[p] = IF x = "idle" THEN Off ELSE [job[p] EXCEPT !.pc = x]
  BY <1>3
<1> QED
  BY <1>1, <1>2, <1>3, <1>4 DEF Work

\* The copy r is about to be written.
Wrote(p, r, next, guarded, left) ==
  /\ job' \in [Procs -> Work] /\ \A q \in Procs \ {p} : job'[q] = job[q]
  /\ job'[p].pc = "persist" /\ job'[p].mem = r /\ job'[p].next = next
  /\ job'[p].guarded = guarded /\ job'[p].left = left

LEMMA WriteFields ==
  ASSUME job \in [Procs -> Work], NEW p \in Procs, NEW r \in Receipt, NEW next \in {"idle", "begin", "loop", "sleep", "poll"},
         NEW guarded \in BOOLEAN, Write(p, r, next, guarded)
  PROVE  Wrote(p, r, next, guarded, job[p].left)
<1>1. job[p] \in Work
  OBVIOUS
<1> DEFINE j == [job[p] EXCEPT !.mem = r, !.pc = "persist", !.next = next, !.guarded = guarded]
<1>3. j \in Work /\ j.pc = "persist" /\ j.mem = r /\ j.next = next /\ j.guarded = guarded /\ j.left = job[p].left
  BY <1>1 DEF Work, Driving
<1>4. job' = [job EXCEPT ![p] = j]
  BY DEF Write
<1> HIDE DEF j
<1>5. job'[p] = j
  BY <1>4
<1> QED
  BY <1>3, <1>4, <1>5 DEF Wrote

\* Writing a copy that claims no more than is earned, keeps its generation and
\* leaves no stage to a driver that is over.
LEMMA Writes ==
  ASSUME JobInv, NEW p \in Procs, job[p].pc \in Driving \ {"persist"},
         job[p].pc = "begin" => job[p].mem.status \notin Over,
         NEW r \in Receipt, NEW next \in {"idle", "begin", "loop", "sleep", "poll"},
         NEW guarded \in BOOLEAN, NEW left \in Nat, Wrote(p, r, next, guarded, left),
         r.generation = job[p].mem.generation, r.rounds >= job[p].mem.rounds, Earned(r),
         next # "idle" => r.status \notin Over,
         r.status \notin Over \/ guarded => Patient(r),
         next = "poll" => left > 0 /\ r.pending,
         UNCHANGED idleServices, receipt' = receipt, call' = call \/ Leave(p)
  PROVE  JobInv'
<1>1. /\ Typed' /\ ReviewsFit' /\ Grows /\ CallFits(p)'
      /\ \A q \in Procs \ {p} : call'[q] = call[q]
  BY ServicesRest
<1>2. \A q \in Procs \ {p} : Fine(q)'
  BY <1>1, FineStays DEF Wrote
<1>3. /\ CopyFits(p) /\ CopyIsFresh(p) /\ job[p] \in Work /\ job[p].mem # None /\ mode = "AUTOPILOT"
      /\ job[p].mem \in Receipt
  BY InvTypes DEF Fine, CopyFits, Work
<1>4. r # None
  BY ReceiptAssumption
<1>5. CopyFits(p)'
  BY <1>1, <1>3, <1>4 DEF CopyFits, Wrote, Grows, Driving, Pairing, Going, Patient
<1>6. StageFits(p)'
  BY DEF StageFits, Wrote
<1>7. CopyIsFresh(p)'
  <2>1. CASE job[p].pc = "begin"
    BY <1>3, <2>1 DEF CopyIsFresh, Wrote, Generation, Receipt
  <2>2. CASE job[p].pc # "begin"
    BY <1>3, <2>2, InvTypes DEF CopyIsFresh, Wrote, Generation, Receipt
  <2> QED
    BY <2>1, <2>2
<1>8. Earned(job[p].mem)'
  <2>1. Earned(r)'
    BY <1>1, <1>3, EarnedStays
  <2> QED
    BY <2>1 DEF Earned, Wrote
<1>9. Fine(p)'
  BY <1>1, <1>5, <1>6, <1>7, <1>8 DEF Fine
<1> QED
  BY <1>1, <1>2, <1>9, Frame DEF Wrote

\* What a driver knows of its copy.
LEMMA CopyFacts ==
  ASSUME JobInv, NEW p \in Procs, job[p].pc \in Driving
  PROVE  /\ job[p] \in Work /\ job[p].mem \in Receipt /\ job[p].mem # None /\ mode = "AUTOPILOT"
         /\ CallFits(p) /\ CopyFits(p) /\ StageFits(p) /\ CopyIsFresh(p) /\ Earned(job[p].mem)
BY InvTypes DEF Fine, CopyFits, Work

\* A copy of which only the status, the deadline or the attempts change claims
\* nothing new.
LEMMA SameClaims ==
  ASSUME NEW m \in Receipt, NEW r \in Receipt, Earned(m),
         r.stage = m.stage, r.pending = m.pending, r.rounds = m.rounds
  PROVE  Earned(r)
BY DEF Earned

\* The process ends, or dies.
LEMMA Stops ==
  ASSUME JobInv, NEW p \in Procs, To(p, "idle"), Typed', ReviewsFit', Grows, receipt' = receipt,
         CallFits(p)', \A q \in Procs \ {p} : call'[q] = call[q]
  PROVE  JobInv'
<1>1. job \in [Procs -> Work]
  BY InvTypes
<1>2. /\ job' \in [Procs -> Work] /\ (\A q \in Procs \ {p} : job'[q] = job[q]) /\ job'[p] = Off
  BY <1>1, ToFields
<1>3. /\ job'[p].pc = "idle" /\ job'[p].mem = None /\ job'[p].next = "idle"
  BY <1>2 DEF Off
<1>4. CopyFits(p)'
  BY <1>3 DEF CopyFits, Driving, Pairing, Going
<1>5. StageFits(p)'
  BY <1>3 DEF StageFits
<1> QED
  BY <1>2, <1>3, <1>4, <1>5, Turns DEF Driving

\* A driver goes on with the copy it has, outside of any stage.
LEMMA GoesOn ==
  ASSUME JobInv, NEW p \in Procs, NEW x \in {"loop", "sleep", "retry", "give_up", "poll"}, To(p, x),
         job[p].pc \in Driving, UNCHANGED idleServices, receipt' = receipt, call' = call \/ Leave(p),
         x \in Going => Runs(job[p].mem) /\ ~job[p].guarded,
         x = "give_up" => Patient(job[p].mem) /\ (job[p].mem.stage = "DONE" => job[p].guarded),
         x = "poll" => job[p].left > 0 /\ job[p].mem.pending,
         job[p].pc = "begin" => job[p].mem.status \notin Over
  PROVE  JobInv'
<1>1. job \in [Procs -> Work] /\ CopyFits(p) /\ job[p].mem # None /\ mode = "AUTOPILOT"
  BY InvTypes, CopyFacts
<1>2. /\ Typed' /\ ReviewsFit' /\ Grows /\ CallFits(p)'
      /\ \A q \in Procs \ {p} : call'[q] = call[q]
  BY ServicesRest
<1>3. /\ job' \in [Procs -> Work] /\ \A q \in Procs \ {p} : job'[q] = job[q]
      /\ job'[p].pc = x /\ job'[p].mem = job[p].mem /\ job'[p].next = job[p].next
      /\ job'[p].guarded = job[p].guarded /\ job'[p].left = job[p].left
  BY <1>1, ToFields DEF Driving
<1>4. CopyFits(p)'
  BY <1>1, <1>2, <1>3 DEF CopyFits, Driving, Pairing, Going, Grows, Runs, Patient
<1>5. StageFits(p)'
  BY <1>3 DEF StageFits
<1> QED
  BY <1>2, <1>3, <1>4, <1>5, Turns

LEMMA NotWritten ==
  ASSUME JobInv, NEW p \in Procs, Doing(p, "persist"), Unwritten(p), UNCHANGED services
  PROVE  JobInv'
<1>1. /\ job[p].pc \in Driving /\ CopyFits(p) /\ job[p].mem \in Receipt
      /\ UNCHANGED idleServices /\ call' = call /\ receipt' = receipt
  BY CopyFacts DEF Doing, Driving, services, idleServices, Unwritten
<1>2. CASE job[p].guarded
  <2>1. To(p, "give_up") /\ Patient(job[p].mem)
    BY <1>1, <1>2 DEF Unwritten, CopyFits, Doing
  <2> QED
    BY <1>1, <1>2, <2>1, GoesOn DEF Doing, Going
<1>3. CASE ~job[p].guarded
  <2>1. To(p, "idle")
    BY <1>3 DEF Unwritten
  <2>2. /\ Typed' /\ ReviewsFit' /\ Grows /\ CallFits(p)'
        /\ \A q \in Procs \ {p} : call'[q] = call[q]
    BY <1>1, ServicesRest
  <2> QED
    BY <1>1, <2>1, <2>2, Stops
<1> QED
  BY <1>2, <1>3

\* The written copy is newer than every other one.
LEMMA IsWritten ==
  ASSUME JobInv, NEW p \in Procs, Doing(p, "persist"), Current(p), Valid(job[p].mem), Written(p),
         UNCHANGED services
  PROVE  JobInv'
<1> DEFINE m == job[p].mem
           r == [m EXCEPT !.generation = @ + 1]
<1>1. /\ job[p].pc = "persist" /\ job[p] \in Work /\ m \in Receipt /\ m # None /\ mode = "AUTOPILOT"
      /\ CallFits(p) /\ CopyFits(p) /\ Earned(m)
      /\ UNCHANGED idleServices /\ call' = call
  BY CopyFacts DEF Doing, Driving, services, idleServices
<1>2. /\ r \in Receipt /\ r.generation = m.generation + 1 /\ r.status = m.status /\ r.stage = m.stage
      /\ r.attempts = m.attempts /\ r.retryAt = m.retryAt /\ r.pending = m.pending /\ r.rounds = m.rounds
  BY <1>1 DEF Receipt
<1>3. m.generation = Generation /\ m.generation \in Nat
  BY <1>1 DEF Current, Receipt
<1> DEFINE j == [job[p] EXCEPT !.pc = job[p].next, !.next = "idle", !.mem = r, !.guarded = FALSE]
<1>4. /\ j \in Work /\ j.pc = job[p].next /\ j.next = "idle" /\ j.mem = r /\ j.guarded = FALSE
      /\ j.left = job[p].left
  BY <1>1, <1>2 DEF Work, Driving
<1>5. /\ receipt' = r /\ job' = [job EXCEPT ![p] = IF job[p].next = "idle" THEN Off ELSE j]
  BY DEF Written
<1>6. PICK s \in Receipt : s = r
  BY <1>2
<1> HIDE DEF r, j
<1>7. /\ job \in [Procs -> Work] /\ Off \in Work
  BY InvTypes DEF Off, Work
<1>8. /\ job' \in [Procs -> Work] /\ (\A q \in Procs \ {p} : job'[q] = job[q])
      /\ job[p].next = "idle" => job'[p] = Off
      /\ job[p].next # "idle" =>
           /\ job'[p].pc = job[p].next /\ job'[p].next = "idle" /\ job'[p].mem = s
           /\ job'[p].guarded = FALSE /\ job'[p].left = job[p].left
  BY <1>4, <1>5, <1>6, <1>7
<1>9. Typed' /\ ReviewsFit' /\ Grows /\ CallFits(p)'
  BY <1>1, ServicesRest
<1>10. s # None /\ Valid(s) /\ Earned(s)
  BY <1>1, <1>2, <1>6, ReceiptAssumption DEF Valid, Earned
<1>11. Earned(s)'
  BY <1>1, <1>9, <1>10, EarnedStays
<1>12. receipt' = s /\ s.generation = Generation + 1 /\ Generation \in Nat
  BY <1>2, <1>3, <1>5, <1>6
<1>13. Patient(m) => Patient(s)
  BY <1>2, <1>6 DEF Patient
<1>14. TypeOK'
  BY <1>8, <1>9, <1>10, <1>12 DEF TypeOK, Typed, Valid
<1>15. StageEarned'
  BY <1>11, <1>12 DEF StageEarned, Earned
<1>16. ReceiptFits'
  BY <1>1, <1>2, <1>6, <1>9, <1>12, <1>13 DEF ReceiptFits, Grows, CopyFits, Patient
<1>17. ASSUME NEW q \in Procs \ {p}
       PROVE  Fine(q)'
  <2>1. Fine(q) /\ Typed /\ job[q] \in Work /\ call'[q] = call[q] /\ job'[q] = job[q]
    BY <1>1, <1>8, InvTypes
  <2>2. CallFits(q)' /\ StageFits(q)'
    BY <1>9, <2>1, CallStays, StageStays DEF Fine
  <2>3. CopyFits(q)'
    BY <1>9, <2>1 DEF Fine, CopyFits, Grows, Runs, Patient
  <2>4. CopyIsFresh(q)'
    BY <1>10, <1>12, <2>1 DEF Fine, CopyIsFresh, Generation, Work, Receipt
  <2>5. ASSUME job'[q].mem # None
        PROVE  Earned(job[q].mem)'
    <3>1. job[q].mem \in Receipt /\ Earned(job[q].mem)
      BY <2>1, <2>5 DEF Fine, Work
    <3>2. PICK t \in Receipt : t = job[q].mem
      BY <3>1
    <3>3. Earned(t)'
      BY <1>1, <1>9, <3>1, <3>2, EarnedStays
    <3> QED
      BY <2>1, <3>2, <3>3 DEF Earned
  <2> QED
    BY <2>2, <2>3, <2>4, <2>5 DEF Fine
<1>18. CASE job[p].next = "idle"
  <2>1. job'[p].pc = "idle" /\ job'[p].mem = None /\ job'[p].next = "idle"
    BY <1>8, <1>18 DEF Off
  <2>2. CopyFits(p)' /\ StageFits(p)' /\ CopyIsFresh(p)'
    BY <2>1 DEF CopyFits, StageFits, CopyIsFresh, Driving, Pairing, Going
  <2>3. Fine(p)'
    BY <1>9, <2>1, <2>2 DEF Fine
  <2> QED
    BY <1>9, <1>14, <1>15, <1>16, <1>17, <2>3 DEF JobInv
<1>19. CASE job[p].next # "idle"
  <2>1. s.status \notin Over /\ s.stage # "DONE" /\ Patient(s)
    BY <1>1, <1>2, <1>6, <1>10, <1>13, <1>19 DEF CopyFits, Valid, Over
  <2>2. CopyFits(p)'
    BY <1>1, <1>2, <1>6, <1>8, <1>9, <1>10, <1>19, <2>1 DEF CopyFits, Grows, Runs, Patient, Driving, Pairing, Going, Work
  <2>3. StageFits(p)'
    BY <1>1, <1>8, <1>19 DEF StageFits, Work
  <2>4. CopyIsFresh(p)'
    BY <1>8, <1>10, <1>12, <1>19, <2>1 DEF CopyIsFresh, Generation, Receipt
  <2>5. Earned(job[p].mem)'
    BY <1>8, <1>11, <1>19 DEF Earned
  <2>6. Fine(p)'
    BY <1>9, <2>2, <2>3, <2>4, <2>5 DEF Fine
  <2> QED
    BY <1>9, <1>14, <1>15, <1>16, <1>17, <2>6 DEF JobInv
<1> QED
  BY <1>18, <1>19

LEMMA PersistKeeps ==
  ASSUME JobInv, NEW p \in Procs, Persist(p)
  PROVE  JobInv'
BY NotWritten, IsWritten DEF Persist

-----------------------------------------------------------------------------
(* Changes of the copy.                                                    *)

\* r is m but for its status and its deadline.
Restates(m, r, status) ==
  /\ r \in Receipt /\ r.status = status /\ r.stage = m.stage /\ r.generation = m.generation
  /\ r.attempts = m.attempts /\ r.pending = m.pending /\ r.rounds = m.rounds

LEMMA Restated ==
  ASSUME NEW m \in Receipt, NEW status \in Statuses
  PROVE  /\ Restates(m, [m EXCEPT !.status = status], status)
         /\ \A b \in BOOLEAN : Restates(m, [m EXCEPT !.status = status, !.retryAt = b], status)
BY DEF Restates, Receipt

\* One more attempt of a stage.
LEMMA TriedFields ==
  ASSUME NEW m \in Receipt, Patient(m), NEW stage \in Active
  PROVE  LET t == [m EXCEPT !.attempts[stage] = @ + 1]
         IN  /\ t \in Receipt /\ t.status = m.status /\ t.stage = m.stage /\ t.generation = m.generation
             /\ t.pending = m.pending /\ t.rounds = m.rounds
             /\ t.attempts[stage] <= MaxRetry => Patient(t)
<1>1. m.attempts \in [Active -> 0..MaxRetry + 1] /\ m.attempts[stage] \in 0..MaxRetry
  BY DriverAssumption DEF Receipt, Patient
<1> DEFINE a == [m.attempts EXCEPT ![stage] = @ + 1]
<1>2. a \in [Active -> 0..MaxRetry + 1] /\ a[stage] = m.attempts[stage] + 1
      /\ \A s \in Active \ {stage} : a[s] = m.attempts[s]
  BY <1>1, DriverAssumption
<1>3. [m EXCEPT !.attempts[stage] = @ + 1] = [m EXCEPT !.attempts = a]
  BY DEF Receipt
<1> HIDE DEF a
<1>4. [m EXCEPT !.attempts = a] \in Receipt /\ [m EXCEPT !.attempts = a].attempts = a
  BY <1>2 DEF Receipt
<1>5. a[stage] <= MaxRetry => \A s \in Active : a[s] <= MaxRetry
  BY <1>2 DEF Patient
<1> QED
  BY <1>3, <1>4, <1>5 DEF Receipt, Patient

\* A driver that only restates its copy.
LEMMA WritesRestated ==
  ASSUME JobInv, NEW p \in Procs, job[p].pc \in Driving \ {"persist"},
         job[p].pc = "begin" => job[p].mem.status \notin Over,
         NEW status \in Statuses, NEW r, Restates(job[p].mem, r, status), Patient(job[p].mem),
         NEW next \in {"idle", "loop", "sleep"}, next # "idle" => status \notin Over,
         Write(p, r, next, FALSE), UNCHANGED <<idleServices, receipt>>, call' = call \/ Leave(p)
  PROVE  JobInv'
<1>1. /\ job[p].mem \in Receipt /\ Earned(job[p].mem) /\ job[p] \in Work /\ job \in [Procs -> Work]
  BY CopyFacts, InvTypes
<1>2. r \in Receipt /\ Earned(r) /\ Patient(r) /\ r.generation = job[p].mem.generation
      /\ r.rounds = job[p].mem.rounds /\ r.status = status
  BY <1>1, SameClaims DEF Restates, Patient
<1>3. r.rounds >= job[p].mem.rounds /\ job[p].left \in Nat
  BY <1>1, <1>2 DEF Receipt, Work
<1>4. Wrote(p, r, next, FALSE, job[p].left)
  BY <1>1, <1>2, WriteFields
<1> QED
  BY <1>2, <1>3, <1>4, Writes

-----------------------------------------------------------------------------
(* The steps.                                                              *)

LEMMA StartKeeps ==
  ASSUME JobInv, NEW p \in Procs, NEW budget \in Budgets, Start(p, budget)
  PROVE  JobInv'
<1> DEFINE m == IF receipt = None THEN Initial ELSE receipt
           j == [Off EXCEPT !.left = budget, !.next = "begin",
                   !.pc = IF receipt = None THEN "persist" ELSE "begin", !.mem = m]
<1>1. Initial \in Receipt /\ Earned(Initial) /\ Patient(Initial) /\ Initial.generation = 0
      /\ Initial.status = "RUNNING"
  <2>1. [s \in Active |-> 0] \in [Active -> 0..MaxRetry + 1] /\ \A s \in Active : 0 <= MaxRetry
    BY DriverAssumption
  <2> QED
    BY <2>1 DEF Initial, Receipt, Statuses, Active, Earned, Patient
<1>2. m \in Receipt /\ Earned(m) /\ m # None
  BY <1>1, ReceiptAssumption DEF JobInv, TypeOK, StageEarned
<1>3. /\ j \in Work /\ j.left = budget /\ j.next = "begin" /\ j.mem = m /\ j.guarded = FALSE
      /\ j.pc = IF receipt = None THEN "persist" ELSE "begin"
  BY <1>2, DriverAssumption DEF Off, Work, Driving
<1>4. job' = [job EXCEPT ![p] = j] /\ mode = "AUTOPILOT" /\ receipt' = receipt /\ UNCHANGED idleServices /\ call' = call
  BY DEF Start, services, idleServices
<1>5. receipt # None /\ receipt.status \notin Over => Runs(receipt)
  BY DEF JobInv, TypeOK, ReceiptFits, Valid, Runs, Over
<1>6. m = IF receipt = None THEN Initial ELSE receipt
  OBVIOUS
<1> HIDE DEF m, j
<1>7. /\ Typed' /\ ReviewsFit' /\ Grows /\ CallFits(p)'
  BY <1>4, ServicesRest
<1>8. job \in [Procs -> Work]
  BY InvTypes
<1>9. job' \in [Procs -> Work] /\ job'[p] = j /\ \A q \in Procs \ {p} : job'[q] = job[q]
  BY <1>3, <1>4, <1>8
<1>10. \A q \in Procs \ {p} : Fine(q)'
  BY <1>4, <1>7, <1>9, FineStays
<1>11. CopyFits(p)'
  <2>1. CASE receipt = None
    BY <1>1, <1>2, <1>3, <1>4, <1>6, <1>7, <1>9, <2>1 DEF CopyFits, Driving, Pairing, Going, Over, Grows
  <2>2. CASE receipt # None
    BY <1>2, <1>3, <1>4, <1>5, <1>6, <1>7, <1>9, <2>2 DEF CopyFits, Driving, Pairing, Going, Runs, Patient, Grows
  <2> QED
    BY <2>1, <2>2
<1>12. StageFits(p)'
  BY <1>3, <1>9 DEF StageFits
<1>13. CopyIsFresh(p)'
  BY <1>1, <1>2, <1>3, <1>4, <1>6, <1>9 DEF CopyIsFresh, Generation, Receipt
<1>14. Earned(job[p].mem)'
  <2>1. PICK r \in Receipt : r = m
    BY <1>2
  <2>2. Earned(r)'
    BY <1>2, <1>4, <1>7, <2>1, EarnedStays
  <2> QED
    BY <1>3, <1>9, <2>1, <2>2 DEF Earned
<1>15. Fine(p)'
  BY <1>7, <1>11, <1>12, <1>13, <1>14 DEF Fine
<1> QED
  BY <1>4, <1>7, <1>9, <1>10, <1>15, Frame

LEMMA BeginKeeps ==
  ASSUME JobInv, NEW p \in Procs, BeginOver(p) \/ Begin(p)
  PROVE  JobInv'
<1>1. /\ job[p].pc = "begin" /\ job[p].pc \in Driving /\ job[p].pc \in Driving \ {"persist"}
      /\ UNCHANGED idleServices /\ call' = call /\ receipt' = receipt
  BY DEF BeginOver, Begin, Doing, Driving, services, idleServices
<1>2. job[p].mem \in Receipt /\ CopyFits(p)
  BY <1>1, CopyFacts
<1>3. CASE BeginOver(p)
  <2>1. To(p, "idle")
    BY <1>3 DEF BeginOver
  <2> QED
    BY <1>1, <2>1, ServicesRest, Stops
<1>4. CASE Begin(p)
  <2>1. job[p].mem.status \notin Over /\ Runs(job[p].mem) /\ ~job[p].guarded
    BY <1>1, <1>2, <1>4 DEF Begin, CopyFits
  <2>2. CASE To(p, "loop") \/ To(p, "sleep")
    BY <1>1, <2>1, <2>2, GoesOn
  <2>3. CASE Write(p, [job[p].mem EXCEPT !.status = "WAITING_RETRY"], "sleep", FALSE)
    <3>1. "WAITING_RETRY" \in Statuses /\ "WAITING_RETRY" \notin Over
      BY DEF Statuses, Over
    <3>2. Restates(job[p].mem, [job[p].mem EXCEPT !.status = "WAITING_RETRY"], "WAITING_RETRY")
      BY <1>2, <3>1, Restated
    <3> QED
      BY <1>1, <2>1, <2>3, <3>1, <3>2, WritesRestated DEF Runs
  <2> QED
    BY <1>4, <2>2, <2>3 DEF Begin
<1> QED
  BY <1>3, <1>4

\* Pausing the copy, or leaving it to the user.
LEMMA Restatements ==
  ASSUME NEW m \in Receipt
  PROVE  /\ Restates(m, Paused(m), "PAUSED") /\ Restates(m, NeedsYou(m), "NEEDS_YOU")
         /\ "PAUSED" \in Statuses /\ "NEEDS_YOU" \in Statuses /\ "RUNNING" \in Statuses
         /\ "WAITING_RETRY" \in Statuses /\ "RUNNING" \notin Over /\ "WAITING_RETRY" \notin Over
<1>1. "PAUSED" \in Statuses /\ "NEEDS_YOU" \in Statuses
  BY DEF Statuses
<1>2. Restates(m, [m EXCEPT !.status = "PAUSED"], "PAUSED")
  BY <1>1, Restated
<1>3. Restates(m, [m EXCEPT !.status = "NEEDS_YOU", !.retryAt = FALSE], "NEEDS_YOU")
  BY <1>1, Restated
<1> QED
  BY <1>1, <1>2, <1>3 DEF Paused, NeedsYou, Statuses, Over

LEMMA StopKeeps ==
  ASSUME JobInv, NEW p \in Procs, Stop(p)
  PROVE  JobInv'
<1>1. /\ job[p].pc = "loop" /\ job[p].pc \in Driving \ {"persist"} /\ job[p].pc \in Driving
      /\ UNCHANGED idleServices /\ call' = call /\ receipt' = receipt
  BY DEF Stop, Doing, Driving, services, idleServices
<1>2. job[p].mem \in Receipt /\ Patient(job[p].mem)
  BY <1>1, CopyFacts DEF CopyFits, Going, Runs
<1>3. CASE Write(p, Paused(job[p].mem), "idle", FALSE)
  BY <1>1, <1>2, <1>3, Restatements, WritesRestated
<1>4. CASE Write(p, NeedsYou(job[p].mem), "idle", FALSE)
  BY <1>1, <1>2, <1>4, Restatements, WritesRestated
<1> QED
  BY <1>3, <1>4 DEF Stop

LEMMA WakeKeeps ==
  ASSUME JobInv, NEW p \in Procs, Wake(p)
  PROVE  JobInv'
<1>1. /\ job[p].pc = "sleep" /\ job[p].pc \in Driving \ {"persist"} /\ job[p].pc \in Driving
      /\ UNCHANGED idleServices /\ call' = call /\ receipt' = receipt
  BY DEF Wake, Doing, Driving, services, idleServices
<1>2. job[p].mem \in Receipt /\ Patient(job[p].mem)
  BY <1>1, CopyFacts DEF CopyFits, Going, Runs
<1>3. CASE Write(p, Paused(job[p].mem), "idle", FALSE)
  BY <1>1, <1>2, <1>3, Restatements, WritesRestated
<1>4. CASE Write(p, [job[p].mem EXCEPT !.status = "RUNNING", !.retryAt = FALSE], "loop", FALSE)
  <2>1. Restates(job[p].mem, [job[p].mem EXCEPT !.status = "RUNNING", !.retryAt = FALSE], "RUNNING")
    BY <1>2, Restated, Restatements
  <2> QED
    BY <1>1, <1>2, <1>4, <2>1, Restatements, WritesRestated
<1> QED
  BY <1>3, <1>4 DEF Wake

LEMMA RetryOrStopKeeps ==
  ASSUME JobInv, NEW p \in Procs, RetryOrStop(p)
  PROVE  JobInv'
<1> DEFINE m == job[p].mem
           stage == IF job[p].guarded THEN "WAIT_WEB" ELSE m.stage
           tried == [m EXCEPT !.attempts[stage] = @ + 1]
<1>1. /\ job[p].pc \in {"retry", "give_up"} /\ job[p].pc \in Driving \ {"persist"} /\ job[p].pc \in Driving
      /\ job[p].pc # "begin"
      /\ UNCHANGED idleServices /\ call' = call /\ receipt' = receipt
  BY DEF RetryOrStop, Doing, Driving, services, idleServices
<1>2. m \in Receipt /\ Patient(m) /\ stage \in Active /\ Earned(m) /\ job[p] \in Work
  <2>1. CopyFits(p) /\ m \in Receipt /\ Earned(m) /\ job[p] \in Work
    BY <1>1, CopyFacts
  <2>2. Patient(m) /\ (m.stage = "DONE" => job[p].guarded)
    BY <1>1, <2>1 DEF CopyFits, Going, Runs
  <2>3. m.stage \in Active \cup {"DONE"} /\ "WAIT_WEB" \in Active
    BY <2>1 DEF Receipt, Active
  <2> QED
    BY <2>1, <2>2, <2>3
<1>3. CASE job[p].abort
  <2>1. To(p, "idle") \/ Write(p, Paused(m), "idle", FALSE)
    BY <1>3 DEF RetryOrStop
  <2>2. CASE To(p, "idle")
    BY <1>1, <2>2, ServicesRest, Stops
  <2>3. CASE Write(p, Paused(m), "idle", FALSE)
    BY <1>1, <1>2, <2>3, Restatements, WritesRestated
  <2> QED
    BY <2>1, <2>2, <2>3
<1>4. CASE ~job[p].abort
  <2>1. /\ tried \in Receipt /\ tried.status = m.status /\ tried.stage = m.stage /\ tried.generation = m.generation
        /\ tried.pending = m.pending /\ tried.rounds = m.rounds
        /\ tried.attempts[stage] <= MaxRetry => Patient(tried)
    BY <1>2, TriedFields
  <2> DEFINE again == [tried EXCEPT !.status = "WAITING_RETRY", !.retryAt = TRUE]
             over == NeedsYou(tried)
  <2>2. \/ tried.attempts[stage] <= MaxRetry /\ Write(p, again, "sleep", FALSE)
        \/ Write(p, over, "idle", FALSE)
    BY <1>4 DEF RetryOrStop
  <2> HIDE DEF tried
  <2>3. Restates(tried, again, "WAITING_RETRY") /\ Restates(tried, over, "NEEDS_YOU")
    BY <2>1, Restated, Restatements
  <2> HIDE DEF again, over
  <2>4. ASSUME NEW r \in Receipt, NEW status, Restates(tried, r, status)
        PROVE  r.generation = m.generation /\ r.rounds = m.rounds /\ r.rounds >= m.rounds /\ Earned(r)
               /\ (Patient(tried) => Patient(r)) /\ r.status = status
    <3>1. r.generation = m.generation /\ r.rounds = m.rounds /\ r.stage = m.stage /\ r.pending = m.pending
          /\ r.attempts = tried.attempts /\ r.status = status
      BY <2>1, <2>4 DEF Restates
    <3>2. r.rounds >= m.rounds
      BY <3>1 DEF Receipt
    <3> QED
      BY <1>2, <3>1, <3>2, SameClaims DEF Patient
  <2>5. job[p].left \in Nat /\ job \in [Procs -> Work] /\ FALSE \in BOOLEAN
    BY <1>2, InvTypes DEF Work
  <2>6. CASE tried.attempts[stage] <= MaxRetry /\ Write(p, again, "sleep", FALSE)
    <3>1. again \in Receipt /\ again.status \notin Over
      BY <2>3, Restatements, <2>1 DEF Restates
    <3>2. Wrote(p, again, "sleep", FALSE, job[p].left)
      BY <2>5, <2>6, <3>1, WriteFields
    <3> QED
      BY <1>1, <2>1, <2>3, <2>4, <2>5, <2>6, <3>1, <3>2, Writes
  <2>7. CASE Write(p, over, "idle", FALSE)
    <3>1. over \in Receipt /\ over.status \in Over
      BY <2>3 DEF Restates, Over
    <3>2. Wrote(p, over, "idle", FALSE, job[p].left)
      BY <2>5, <2>7, <3>1, WriteFields
    <3> QED
      BY <1>1, <2>1, <2>3, <2>4, <2>5, <3>1, <3>2, Writes
  <2> QED
    BY <2>2, <2>6, <2>7
<1> QED
  BY <1>3, <1>4

LEMMA StageFailedKeeps ==
  ASSUME JobInv, NEW p \in Procs, StageFailed(p)
  PROVE  JobInv'
<1>1. /\ job[p].pc = "stage" /\ job[p].pc \in Driving /\ job[p].pc # "begin"
      /\ UNCHANGED idleServices /\ Leave(p) /\ receipt' = receipt
      /\ To(p, "retry") \/ To(p, "give_up")
  BY DEF StageFailed, Doing, Driving
<1>2. Runs(job[p].mem) /\ ~job[p].guarded
  BY <1>1, CopyFacts DEF CopyFits, Going
<1> QED
  BY <1>1, <1>2, GoesOn DEF Runs

\* The stage is over, one less is left, and the copy r is written.
LEMMA CountedFields ==
  ASSUME job \in [Procs -> Work], NEW p \in Procs, NEW r \in Receipt, job[p].left > 0,
         NEW next \in {"idle", "begin", "loop", "sleep", "poll"}, NEW guarded \in BOOLEAN,
         job' = [job EXCEPT ![p].mem = r, ![p].left = @ - 1, ![p].guarded = guarded,
                            ![p].pc = "persist", ![p].next = next]
  PROVE  Wrote(p, r, next, guarded, job[p].left - 1) /\ job[p].left - 1 \in Nat
<1>1. job[p] \in Work /\ job[p].left - 1 \in Nat
  BY DEF Work
<1> DEFINE j == [job[p] EXCEPT !.mem = r, !.left = @ - 1, !.guarded = guarded, !.pc = "persist", !.next = next]
<1>2. j \in Work /\ j.pc = "persist" /\ j.mem = r /\ j.next = next /\ j.guarded = guarded /\ j.left = job[p].left - 1
  BY <1>1 DEF Work, Driving
<1>3. job' = [job EXCEPT ![p] = j]
  OBVIOUS
<1> HIDE DEF j
<1>4. job'[p] = j
  BY <1>3
<1> QED
  BY <1>1, <1>2, <1>3, <1>4 DEF Wrote

\* What a decided review makes of the copy that waited for it.
LEMMA HeardFields ==
  ASSUME NEW m \in Receipt, m.stage = "WAIT_WEB", m.rounds = 0, Patient(m)
  PROVE  LET h == Heard(m)
         IN  /\ h \in Receipt /\ h.generation = m.generation /\ h.rounds = 1 /\ ~h.pending /\ Patient(h)
             /\ final = "APPROVED" => h.stage = "DONE"
             /\ final = "REVISION_REQUESTED" => h.stage = "REVISE" /\ h.status = "RUNNING"
             /\ final \notin {"APPROVED", "REVISION_REQUESTED"} => h.stage = "WAIT_WEB"
<1> DEFINE h == [m EXCEPT !.retryAt = FALSE, !.pending = FALSE, !.rounds = @ + 1, !.attempts["WAIT_WEB"] = 0]
           a == [m.attempts EXCEPT !["WAIT_WEB"] = 0]
<1>1. a \in [Active -> 0..MaxRetry + 1] /\ \A s \in Active : a[s] <= MaxRetry
  BY DriverAssumption DEF Receipt, Patient
<1>2. h = [m EXCEPT !.retryAt = FALSE, !.pending = FALSE, !.rounds = 1, !.attempts = a]
  BY DEF Receipt
<1> HIDE DEF a
<1> DEFINE g == [m EXCEPT !.retryAt = FALSE, !.pending = FALSE, !.rounds = 1, !.attempts = a]
<1>11. /\ m.generation \in Nat /\ m.status \in Statuses /\ m.stage \in Active \cup {"DONE"}
       /\ 1 \in 0..4 /\ FALSE \in BOOLEAN
  BY DEF Receipt
<1>12. g.generation = m.generation /\ g.rounds = 1 /\ g.attempts = a /\ g.stage = "WAIT_WEB"
  BY DEF Receipt
<1>13. g \in Receipt
  BY <1>1, <1>11 DEF Receipt
<1>17. ~g.pending
  BY DEF Receipt
<1>14. h = g
  BY <1>2
<1> HIDE DEF g
<1>3. /\ g \in Receipt /\ g.generation = m.generation /\ g.rounds = 1 /\ ~g.pending /\ g.attempts = a
      /\ g.stage = "WAIT_WEB"
  BY <1>12, <1>13, <1>17
<1>4. Heard(m) = IF final = "APPROVED" THEN [h EXCEPT !.stage = "DONE", !.status = "READY_FOR_YOU"]
                 ELSE IF final = "REVISION_REQUESTED" THEN [h EXCEPT !.stage = "REVISE", !.status = "RUNNING"]
                 ELSE NeedsYou(h)
  BY DEF Heard
<1> HIDE DEF h
<1>5. Restates(g, NeedsYou(g), "NEEDS_YOU")
  BY <1>3, Restatements
<1>15. ASSUME NEW stage \in Active \cup {"DONE"}, NEW status \in Statuses
       PROVE  LET x == [g EXCEPT !.stage = stage, !.status = status]
              IN  /\ x \in Receipt /\ x.generation = m.generation /\ x.rounds = 1 /\ ~x.pending
                  /\ Patient(x) /\ x.stage = stage /\ x.status = status
  <2> DEFINE x == [g EXCEPT !.stage = stage, !.status = status]
  <2>2. x \in Receipt
    BY <1>3 DEF Receipt
  <2>1. /\ x.generation = g.generation /\ x.rounds = g.rounds /\ x.pending = g.pending
        /\ x.attempts = g.attempts /\ x.stage = stage /\ x.status = status
    BY <1>3 DEF Receipt
  <2> HIDE DEF x
  <2>3. Patient(x)
    BY <1>1, <1>3, <2>1 DEF Patient
  <2> QED
    BY <1>3, <2>1, <2>2, <2>3 DEF x
<1>16. /\ "DONE" \in Active \cup {"DONE"} /\ "REVISE" \in Active \cup {"DONE"}
       /\ "READY_FOR_YOU" \in Statuses /\ "RUNNING" \in Statuses
  BY DEF Active, Statuses
<1>6. CASE final = "APPROVED"
  <2>1. Heard(m) = [g EXCEPT !.stage = "DONE", !.status = "READY_FOR_YOU"]
    BY <1>4, <1>6, <1>14
  <2> DEFINE x == [g EXCEPT !.stage = "DONE", !.status = "READY_FOR_YOU"]
  <2>2. /\ x \in Receipt /\ x.generation = m.generation /\ x.rounds = 1 /\ ~x.pending
        /\ Patient(x) /\ x.stage = "DONE" /\ x.status = "READY_FOR_YOU"
    <3>1. x \in Receipt
      BY <1>3, <1>16 DEF Receipt
    <3>2. /\ x.generation = g.generation /\ x.rounds = g.rounds /\ x.pending = g.pending
          /\ x.attempts = g.attempts /\ x.stage = "DONE" /\ x.status = "READY_FOR_YOU"
      BY <1>3 DEF Receipt
    <3> HIDE DEF x
    <3>3. Patient(x)
      BY <1>1, <1>3, <3>2 DEF Patient
    <3> QED
      BY <1>3, <3>1, <3>2, <3>3
  <2> HIDE DEF x
  <2>3. Heard(m) = x
    BY <2>1 DEF x
  <2> QED
    BY <1>6, <2>2, <2>3
<1>7. CASE final = "REVISION_REQUESTED"
  <2>1. Heard(m) = [g EXCEPT !.stage = "REVISE", !.status = "RUNNING"]
    BY <1>4, <1>7, <1>14
  <2> DEFINE x == [g EXCEPT !.stage = "REVISE", !.status = "RUNNING"]
  <2>2. /\ x \in Receipt /\ x.generation = m.generation /\ x.rounds = 1 /\ ~x.pending
        /\ Patient(x) /\ x.stage = "REVISE" /\ x.status = "RUNNING"
    BY <1>15, <1>16
  <2> HIDE DEF x
  <2>3. Heard(m) = x
    BY <2>1 DEF x
  <2> QED
    BY <1>7, <2>2, <2>3
<1>8. CASE final \notin {"APPROVED", "REVISION_REQUESTED"}
  <2>1. Heard(m) = NeedsYou(g)
    BY <1>4, <1>8, <1>14
  <2> QED
    BY <1>1, <1>3, <1>5, <1>8, <2>1 DEF Restates, Patient
<1> QED
  BY <1>6, <1>7, <1>8

\* What a service that returned makes of the copy.
LEMMA AdvancedFields ==
  ASSUME NEW m \in Receipt, m.stage \in {"EXECUTE", "PUBLISH", "DRAFT_PR", "PACKAGE_RESULT"}, Patient(m),
         m.status \notin Over
  PROVE  LET h == Advanced(m)
         IN  /\ h \in Receipt /\ h.generation = m.generation /\ h.rounds = m.rounds /\ h.pending = m.pending
             /\ Patient(h) /\ h.status \notin Over
             /\ m.stage = "EXECUTE" => h.stage = "PUBLISH"
             /\ m.stage = "PUBLISH" => h.stage = "DRAFT_PR"
             /\ m.stage = "DRAFT_PR" => h.stage = "PACKAGE_RESULT"
             /\ m.stage = "PACKAGE_RESULT" => h.stage = "WAIT_WEB"
<1> DEFINE to == After[m.stage]
           a == [m.attempts EXCEPT ![m.stage] = 0]
           x == IF m.stage = "PACKAGE_RESULT" THEN "RUNNING" ELSE m.status
<1>1. a \in [Active -> 0..MaxRetry + 1] /\ \A s \in Active : a[s] <= MaxRetry
  BY DriverAssumption DEF Receipt, Patient, Active
<1>2. /\ After["EXECUTE"] = "PUBLISH" /\ After["PUBLISH"] = "DRAFT_PR"
      /\ After["DRAFT_PR"] = "PACKAGE_RESULT" /\ After["PACKAGE_RESULT"] = "WAIT_WEB"
  BY DEF After
<1>3. x \in Statuses /\ x \notin Over
  BY DEF Receipt, Statuses, Over
<1>4. to \in Active
  BY <1>2 DEF Active
<1>5. Advanced(m) = [m EXCEPT !.stage = to, !.attempts = a, !.retryAt = FALSE, !.status = x]
  BY DEF Advanced, Receipt
<1> HIDE DEF a, x
<1> DEFINE g == [m EXCEPT !.stage = to, !.attempts = a, !.retryAt = FALSE, !.status = x]
<1> HIDE DEF to
<1>6. /\ g \in Receipt /\ g.generation = m.generation /\ g.rounds = m.rounds /\ g.pending = m.pending
      /\ g.attempts = a /\ g.status = x /\ g.stage = to
  BY <1>1, <1>3, <1>4 DEF Receipt
<1> QED
  BY <1>1, <1>2, <1>3, <1>5, <1>6 DEF Patient, to

LEMMA StageDoneKeeps ==
  ASSUME JobInv, NEW p \in Procs, StageDone(p)
  PROVE  JobInv'
<1> DEFINE m == job[p].mem
<1>1. /\ job[p].pc = "stage" /\ job[p].pc \in Driving /\ job[p].pc \in Driving \ {"persist"} /\ job[p].pc # "begin"
      /\ UNCHANGED idleServices /\ Leave(p) /\ receipt' = receipt /\ call[p].at = "returned"
  BY DEF StageDone, Doing, Driving
<1>2. /\ job[p] \in Work /\ job \in [Procs -> Work] /\ m \in Receipt /\ Earned(m) /\ Runs(m) /\ ~job[p].guarded
      /\ StageFits(p) /\ job[p].left > 0 /\ job[p].left \in Nat /\ Patient(m)
  BY <1>1, CopyFacts, InvTypes DEF CopyFits, Going, Runs, Work
<1>3. CASE /\ m.stage = "WAIT_WEB" /\ ~m.pending
           /\ Write(p, [m EXCEPT !.pending = TRUE, !.status = "WAITING_WEB"], "poll", TRUE)
  <2> DEFINE r == [m EXCEPT !.pending = TRUE, !.status = "WAITING_WEB"]
  <2>5. "WAITING_WEB" \in Statuses /\ m.rounds \in 0..4 /\ m.rounds >= m.rounds
    BY <1>2 DEF Receipt, Statuses
  <2>6. /\ r.generation = m.generation /\ r.rounds = m.rounds
        /\ r.stage = m.stage /\ r.attempts = m.attempts /\ r.status = "WAITING_WEB"
    BY <1>2 DEF Receipt
  <2>8. r.pending
    BY <1>2 DEF Receipt
  <2>7. r \in Receipt
    BY <1>2, <2>5 DEF Receipt
  <2>1. /\ r \in Receipt /\ r.generation = m.generation /\ r.rounds = m.rounds /\ r.rounds >= m.rounds
        /\ r.stage = m.stage /\ r.attempts = m.attempts /\ r.pending /\ r.status = "WAITING_WEB"
    BY <2>5, <2>6, <2>7, <2>8
  <2>2. "final" \in asked /\ m.rounds = 0
    BY <1>1, <1>2, <1>3 DEF StageFits
  <2> HIDE DEF r
  <2>3. Earned(r) /\ Patient(r) /\ r.status \notin Over
    BY <1>2, <1>3, <2>1, <2>2 DEF Earned, Patient, Over
  <2>4. Wrote(p, r, "poll", TRUE, job[p].left)
    BY <1>2, <1>3, <2>1, WriteFields DEF r
  <2> QED
    BY <1>1, <1>2, <2>1, <2>3, <2>4, Writes
<1>4. CASE /\ m.stage = "WAIT_WEB" /\ m.pending
           /\ job' = [job EXCEPT ![p].mem = Heard(m), ![p].left = @ - 1, ![p].guarded = TRUE,
                ![p].pc = "persist", ![p].next = IF final = "REVISION_REQUESTED" THEN "loop" ELSE "idle"]
  <2> DEFINE h == Heard(m)
             next == IF final = "REVISION_REQUESTED" THEN "loop" ELSE "idle"
  <2>1. m.rounds = 0 /\ final \in Decisions
    BY <1>1, <1>2, <1>4 DEF Earned, StageFits
  <2>2. /\ h \in Receipt /\ h.generation = m.generation /\ h.rounds = 1 /\ ~h.pending /\ Patient(h)
        /\ final = "APPROVED" => h.stage = "DONE"
        /\ final = "REVISION_REQUESTED" => h.stage = "REVISE" /\ h.status = "RUNNING"
        /\ final \notin {"APPROVED", "REVISION_REQUESTED"} => h.stage = "WAIT_WEB"
    BY <1>2, <1>4, <2>1, HeardFields
  <2> HIDE DEF h
  <2>3. Wrote(p, h, next, TRUE, job[p].left - 1) /\ job[p].left - 1 \in Nat
    BY <1>2, <1>4, <2>2, CountedFields DEF h
  <2>4. Earned(h)
    <3>1. delivery = "READY"
      BY <1>2, <1>4 DEF Earned
    <3>2. final = "APPROVED" => executor = "READY_FOR_PUBLISH"
      <4>1. ReviewsFit /\ mode = "AUTOPILOT"
        BY <1>1, InvTypes, CopyFacts
      <4>2. final = "APPROVED" => answer["final"] = "APPROVE"
        BY <4>1, DecisionFacts DEF ReviewsFit
      <4>3. answer["code"] = "none"
        BY <4>1 DEF ReviewsFit, Purposes
      <4> QED
        BY <3>1, <4>1, <4>2, <4>3 DEF ReviewsFit, Purposes
    <3>3. executor # "none"
      BY <1>2, <1>4 DEF Earned
    <3> QED
      BY <2>1, <2>2, <3>1, <3>2, <3>3, DecisionFacts DEF Earned
  <2>5. h.rounds >= m.rounds /\ (next # "idle" => h.status \notin Over) /\ next # "poll" /\ next \in {"idle", "loop"}
    BY <2>1, <2>2 DEF Over
  <2> HIDE DEF next
  <2> QED
    BY <1>1, <1>2, <2>2, <2>3, <2>4, <2>5, Writes
<1>5. CASE Write(p, NeedsYou(m), "idle", FALSE)
  BY <1>1, <1>2, <1>5, Restatements, WritesRestated
<1>6. CASE /\ m.stage # "WAIT_WEB"
           /\ job' = [job EXCEPT ![p].mem = Advanced(m), ![p].left = @ - 1, ![p].guarded = FALSE,
                ![p].pc = "persist", ![p].next = "loop"]
  <2> DEFINE h == Advanced(m)
  <2>1. m.stage \in {"EXECUTE", "PUBLISH", "DRAFT_PR", "PACKAGE_RESULT"}
    <3>1. m.stage # "REVISE"
      BY <1>1, <1>2 DEF StageFits
    <3> QED
      BY <1>2, <1>6, <3>1 DEF Receipt, Active, Runs
  <2>2. /\ h \in Receipt /\ h.generation = m.generation /\ h.rounds = m.rounds /\ h.pending = m.pending
        /\ Patient(h) /\ h.status \notin Over
        /\ m.stage = "EXECUTE" => h.stage = "PUBLISH"
        /\ m.stage = "PUBLISH" => h.stage = "DRAFT_PR"
        /\ m.stage = "DRAFT_PR" => h.stage = "PACKAGE_RESULT"
        /\ m.stage = "PACKAGE_RESULT" => h.stage = "WAIT_WEB"
    BY <1>2, <2>1, AdvancedFields DEF Runs
  <2> HIDE DEF h
  <2>3. Wrote(p, h, "loop", FALSE, job[p].left - 1) /\ job[p].left - 1 \in Nat
    BY <1>2, <1>6, <2>2, CountedFields DEF h
  <2>4. Earned(h)
    BY <1>1, <1>2, <2>1, <2>2 DEF Earned, StageFits
  <2>5. h.rounds >= m.rounds
    BY <1>2, <2>2 DEF Receipt
  <2> QED
    BY <1>1, <1>2, <2>2, <2>3, <2>4, <2>5, Writes
<1> QED
  BY <1>3, <1>4, <1>5, <1>6 DEF StageDone

\* A driver or a session calls a service.
LEMMA Enters ==
  ASSUME JobInv, NEW p \in Procs, NEW at \in {"execute", "publish", "draft", "package", "create", "revise", "adopt"},
         Enter(p, at), UNCHANGED idleServices, at = "adopt" => answer[call[p].purpose] # "none"
  PROVE  /\ Typed' /\ ReviewsFit' /\ Grows /\ CallFits(p)' /\ Moved(p, at)
<1>1. Typed /\ ReviewsFit /\ call \in [Procs -> Call] /\ at \in Places
  BY InvTypes DEF Typed, Places
<1>2. Moved(p, at)
  BY <1>1, GoesTo DEF Enter, GoTo
<1>3. Typed' /\ ReviewsFit' /\ Grows
  BY <1>1, <1>2, ServicesIdle DEF idleServices, Moved
<1>4. answer' = answer
  BY DEF idleServices, reviews
<1>5. CallFits(p)'
  BY <1>2, <1>4 DEF CallFits, Moved
<1> QED
  BY <1>2, <1>3, <1>5

\* The service of each stage.
LEMMA ServiceFacts ==
  ASSUME NEW stage \in Active
  PROVE  /\ Service[stage] \in {"execute", "publish", "draft", "package", "create", "revise"}
         /\ stage = "EXECUTE" => Service[stage] = "execute"
         /\ stage = "PUBLISH" => Service[stage] = "publish"
         /\ stage = "DRAFT_PR" => Service[stage] = "draft"
         /\ stage = "PACKAGE_RESULT" => Service[stage] = "package"
         /\ stage = "WAIT_WEB" => Service[stage] = "create"
         /\ stage = "REVISE" => Service[stage] = "revise"
BY DEF Active, Service

\* A driver enters a stage with a copy that has something to do.
LEMMA InStage ==
  ASSUME JobInv, NEW p \in Procs, job[p].pc \in {"loop", "poll"}, To(p, "stage"), receipt' = receipt,
         Typed', ReviewsFit', Grows, CallFits(p)', StageFits(p)', job[p].left > 0,
         \A q \in Procs \ {p} : call'[q] = call[q]
  PROVE  JobInv'
<1>1. job \in [Procs -> Work] /\ CopyFits(p) /\ job[p].mem # None /\ mode = "AUTOPILOT"
      /\ Runs(job[p].mem) /\ ~job[p].guarded
  BY InvTypes, CopyFacts DEF Driving, CopyFits, Going
<1>2. /\ job' \in [Procs -> Work] /\ \A q \in Procs \ {p} : job'[q] = job[q]
      /\ job'[p].pc = "stage" /\ job'[p].mem = job[p].mem /\ job'[p].next = job[p].next
      /\ job'[p].guarded = job[p].guarded /\ job'[p].left = job[p].left
  BY <1>1, ToFields DEF Driving
<1>3. CopyFits(p)'
  BY <1>1, <1>2 DEF CopyFits, Driving, Pairing, Going, Grows, Runs, Patient
<1> QED
  BY <1>2, <1>3, Turns

LEMMA RunStageKeeps ==
  ASSUME JobInv, NEW p \in Procs, RunStage(p)
  PROVE  JobInv'
<1> DEFINE m == job[p].mem
<1>1. /\ job[p].pc = "loop" /\ job[p].pc \in Driving /\ job[p].left > 0
      /\ UNCHANGED idleServices /\ receipt' = receipt
  BY DEF RunStage, Doing, Driving
<1>2. m \in Receipt /\ Runs(m) /\ ~job[p].guarded /\ m.stage \in Active
  BY <1>1, CopyFacts DEF CopyFits, Going, Runs, Receipt
<1>3. CASE m.pending
  <2>1. To(p, "poll") /\ call' = call
    BY <1>3 DEF RunStage
  <2> QED
    BY <1>1, <1>2, <1>3, <2>1, GoesOn
<1>4. CASE ~m.pending
  <2>1. To(p, "stage") /\ Enter(p, Service[m.stage])
    BY <1>4 DEF RunStage
  <2>2. PICK at \in {"execute", "publish", "draft", "package", "create", "revise"} : at = Service[m.stage]
    BY <1>2, ServiceFacts
  <2>3. Typed' /\ ReviewsFit' /\ Grows /\ CallFits(p)' /\ Moved(p, at)
    BY <1>1, <2>1, <2>2, Enters
  <2>4. job'[p].mem = m /\ job'[p].pc = "stage"
    BY <2>1, InvTypes, ToFields DEF Driving
  <2>5. StageFits(p)'
    BY <1>2, <1>4, <2>2, <2>3, <2>4, ServiceFacts DEF StageFits, Moved
  <2> QED
    BY <1>1, <2>1, <2>3, <2>5, InStage DEF Moved
<1> QED
  BY <1>3, <1>4

LEMMA PollKeeps ==
  ASSUME JobInv, NEW p \in Procs, Poll(p)
  PROVE  JobInv'
<1> DEFINE m == job[p].mem
<1>1. /\ job[p].pc = "poll" /\ job[p].pc \in Driving /\ UNCHANGED idleServices /\ receipt' = receipt
  BY DEF Poll, Doing, Driving
<1>2. /\ m \in Receipt /\ Runs(m) /\ ~job[p].guarded /\ m.pending /\ job[p].left > 0 /\ Earned(m)
      /\ m.stage = "WAIT_WEB"
  BY <1>1, CopyFacts DEF CopyFits, Going, Earned
<1>3. CASE To(p, "loop") /\ call' = call
  BY <1>1, <1>2, <1>3, GoesOn
<1>4. CASE /\ answer["final"] # "none" /\ To(p, "stage")
           /\ call' = [call EXCEPT ![p] = [at |-> "adopt", purpose |-> "final"]]
  <2>1. Typed /\ ReviewsFit /\ call \in [Procs -> Call]
    BY InvTypes DEF Typed
  <2>2. [at |-> "adopt", purpose |-> "final"] \in Call
    BY DEF Call, Places, Purposes
  <2>3. /\ call' \in [Procs -> Call] /\ call'[p].at = "adopt" /\ call'[p].purpose = "final"
        /\ \A q \in Procs \ {p} : call'[q] = call[q]
    BY <1>4, <2>1, <2>2
  <2>4. Typed' /\ ReviewsFit' /\ Grows
    BY <1>1, <2>1, <2>3, ServicesIdle DEF idleServices
  <2>5. answer' = answer
    BY <1>1 DEF idleServices, reviews
  <2>6. CallFits(p)'
    BY <1>4, <2>3, <2>5 DEF CallFits
  <2>7. job'[p].mem = m /\ job'[p].pc = "stage"
    BY <1>4, InvTypes, ToFields DEF Driving
  <2>8. StageFits(p)'
    BY <1>2, <2>3, <2>7 DEF StageFits
  <2> QED
    BY <1>1, <1>2, <1>4, <2>3, <2>4, <2>6, <2>8, InStage
<1> QED
  BY <1>3, <1>4 DEF Poll

LEMMA PollTroubleKeeps ==
  ASSUME JobInv, NEW p \in Procs, PollTrouble(p)
  PROVE  JobInv'
<1>1. /\ job[p].pc = "poll" /\ job[p].pc \in Driving /\ job[p].pc # "begin"
      /\ UNCHANGED idleServices /\ call' = call /\ receipt' = receipt
      /\ To(p, "retry") \/ To(p, "give_up")
  BY DEF PollTrouble, Doing, Driving, services, idleServices
<1>2. Runs(job[p].mem) /\ ~job[p].guarded
  BY <1>1, CopyFacts DEF CopyFits, Going
<1> QED
  BY <1>1, <1>2, GoesOn DEF Runs

\* A session of PAIR goes on.
LEMMA PairTurns ==
  ASSUME JobInv, NEW p \in Procs, job[p].pc \in Pairing, NEW x \in Pairing, To(p, x), receipt' = receipt,
         Typed', ReviewsFit', Grows, CallFits(p)', \A q \in Procs \ {p} : call'[q] = call[q],
         x \in {"pair_ask", "pair_poll", "pair_adopt"} => job[p].left > 0
  PROVE  JobInv'
<1>1. job \in [Procs -> Work] /\ CopyFits(p) /\ job[p].mem = None
  BY InvTypes DEF Fine, CopyFits, Driving, Pairing
<1>2. /\ job' \in [Procs -> Work] /\ \A q \in Procs \ {p} : job'[q] = job[q]
      /\ job'[p].pc = x /\ job'[p].mem = None /\ job'[p].left = job[p].left
  BY <1>1, ToFields DEF Pairing
<1>3. CopyFits(p)' /\ StageFits(p)'
  BY <1>2 DEF CopyFits, StageFits, Driving, Pairing, Going
<1> QED
  BY <1>2, <1>3, Turns DEF Pairing

LEMMA HarnessKeeps ==
  ASSUME JobInv, NEW p \in Procs, Harness(p)
  PROVE  JobInv'
<1>1. job[p].pc \in Pairing /\ UNCHANGED idleServices /\ receipt' = receipt
  BY DEF Harness, Doing, Pairing
<1>2. CASE call' = call /\ (To(p, "idle") \/ To(p, "pair"))
  BY <1>1, <1>2, ServicesRest, Stops, PairTurns DEF Pairing
<1>3. CASE /\ To(p, "pair_stage")
           /\ \E at \in {"execute", "publish", "draft", "package"} : Enter(p, at)
  <2>1. PICK at \in {"execute", "publish", "draft", "package"} : Enter(p, at)
    BY <1>3
  <2>2. Typed' /\ ReviewsFit' /\ Grows /\ CallFits(p)' /\ Moved(p, at)
    BY <1>1, <2>1, Enters
  <2> QED
    BY <1>1, <1>3, <2>2, PairTurns DEF Pairing, Moved
<1> QED
  BY <1>2, <1>3 DEF Harness

LEMMA PairKeeps ==
  ASSUME JobInv, NEW p \in Procs, PairOver(p) \/ PairAsk(p) \/ PairHear(p)
  PROVE  JobInv'
<1>1. CASE PairOver(p)
  <2>1. UNCHANGED idleServices /\ call' = call /\ receipt' = receipt /\ To(p, "idle")
    BY <1>1 DEF PairOver, services, idleServices
  <2> QED
    BY <2>1, ServicesRest, Stops
<1>2. CASE PairAsk(p)
  <2>1. /\ UNCHANGED idleServices /\ receipt' = receipt /\ job[p].pc \in Pairing /\ job[p].left > 0
        /\ To(p, "pair_ask") /\ Enter(p, "create")
    BY <1>2 DEF PairAsk, Doing, Pairing
  <2>2. Typed' /\ ReviewsFit' /\ Grows /\ CallFits(p)' /\ Moved(p, "create")
    BY <2>1, Enters
  <2> QED
    BY <2>1, <2>2, PairTurns DEF Pairing, Moved
<1>3. CASE PairHear(p)
  <2>1. /\ UNCHANGED idleServices /\ receipt' = receipt /\ job[p].pc \in Pairing
        /\ To(p, "pair_adopt") /\ Enter(p, "adopt") /\ answer[call[p].purpose] # "none"
    BY <1>3 DEF PairHear, Doing, Pairing
  <2>2. job[p].left > 0
    BY <1>3, InvTypes DEF PairHear, Doing, Fine, CopyFits
  <2>3. Typed' /\ ReviewsFit' /\ Grows /\ CallFits(p)' /\ Moved(p, "adopt")
    BY <2>1, Enters
  <2> QED
    BY <2>1, <2>2, <2>3, PairTurns DEF Pairing, Moved
<1> QED
  BY <1>1, <1>2, <1>3

LEMMA PairDoneKeeps ==
  ASSUME JobInv, NEW p \in Procs, PairDone(p)
  PROVE  JobInv'
<1>1. /\ UNCHANGED idleServices /\ receipt' = receipt /\ Leave(p)
      /\ job[p].pc \in {"pair_stage", "pair_ask", "pair_adopt"} /\ job[p].pc \in Pairing
  BY DEF PairDone, Pairing
<1>2. /\ Typed' /\ ReviewsFit' /\ Grows /\ CallFits(p)'
      /\ \A q \in Procs \ {p} : call'[q] = call[q]
  BY <1>1, ServicesRest
<1>3. job \in [Procs -> Work] /\ job[p] \in Work /\ CopyFits(p)
  BY InvTypes DEF Fine
<1>4. CASE To(p, "idle")
  BY <1>1, <1>2, <1>4, Stops
<1>5. CASE To(p, "harness")
  BY <1>1, <1>2, <1>5, PairTurns DEF Pairing
<1>6. CASE Doing(p, "pair_ask") /\ To(p, "pair_poll")
  <2>1. job[p].left > 0
    BY <1>3, <1>6 DEF Doing, CopyFits
  <2> QED
    BY <1>1, <1>2, <1>6, <2>1, PairTurns DEF Pairing
<1>7. CASE Doing(p, "pair_adopt") /\ job' = [job EXCEPT ![p].pc = "pair", ![p].left = @ - 1]
  <2>1. job[p].left > 0 /\ job[p].left \in Nat /\ job[p].mem = None
    BY <1>1, <1>3, <1>7 DEF Doing, CopyFits, Work, Driving
  <2> DEFINE j == [job[p] EXCEPT !.pc = "pair", !.left = @ - 1]
  <2>5. job[p].left - 1 \in Nat /\ "pair" \in Driving \cup Pairing \cup {"idle"}
    BY <2>1 DEF Pairing
  <2>6. j = [job[p] EXCEPT !.pc = "pair", !.left = job[p].left - 1]
    OBVIOUS
  <2>2. j \in Work /\ j.pc = "pair" /\ j.mem = None
    BY <1>3, <2>1, <2>5, <2>6 DEF Work
  <2>3. job' = [job EXCEPT ![p] = j]
    BY <1>7
  <2> HIDE DEF j
  <2>4. /\ job' \in [Procs -> Work] /\ (\A q \in Procs \ {p} : job'[q] = job[q])
        /\ job'[p].pc = "pair" /\ job'[p].mem = None
    BY <1>3, <2>2, <2>3
  <2>7. CopyFits(p)' /\ StageFits(p)'
    BY <2>4 DEF CopyFits, StageFits, Driving, Pairing, Going
  <2> QED
    BY <1>1, <1>2, <2>4, <2>7, Turns DEF Pairing
<1> QED
  BY <1>4, <1>5, <1>6, <1>7 DEF PairDone

LEMMA StartPairKeeps ==
  ASSUME JobInv, NEW p \in Procs, StartPair(p)
  PROVE  JobInv'
<1>1. UNCHANGED idleServices /\ call' = call /\ receipt' = receipt
  BY DEF StartPair, services, idleServices
<1>2. /\ Typed' /\ ReviewsFit' /\ Grows /\ CallFits(p)'
      /\ \A q \in Procs \ {p} : call'[q] = call[q]
  BY <1>1, ServicesRest
<1>3. job \in [Procs -> Work]
  BY InvTypes
<1> DEFINE j == [Off EXCEPT !.pc = "harness", !.left = MaxReviews]
<1>4. j \in Work /\ j.pc = "harness" /\ j.mem = None
  BY DriverAssumption DEF Work, Off, Pairing
<1>5. job' = [job EXCEPT ![p] = j]
  BY DEF StartPair
<1> HIDE DEF j
<1>6. /\ job' \in [Procs -> Work] /\ (\A q \in Procs \ {p} : job'[q] = job[q])
      /\ job'[p].pc = "harness" /\ job'[p].mem = None
  BY <1>3, <1>4, <1>5
<1>7. CopyFits(p)' /\ StageFits(p)'
  BY <1>6 DEF CopyFits, StageFits, Driving, Pairing, Going
<1> QED
  BY <1>1, <1>2, <1>6, <1>7, Turns DEF Driving

-----------------------------------------------------------------------------
(* Steps of the services, of others, and mishaps.                          *)

LEMMA ServedKeeps ==
  ASSUME JobInv, NEW p \in Procs, Served(p), job' = job, receipt' = receipt
  PROVE  JobInv'
<1>1. job \in [Procs -> Work] /\ CopyFits(p)
  BY InvTypes DEF Fine
<1>2. CopyFits(p)'
  BY <1>1 DEF Served, CopyFits, Grows, Runs, Patient
<1> QED
  BY <1>1, <1>2, Turns DEF Served

LEMMA ServeKeeps ==
  ASSUME JobInv, NEW p \in Procs, Serve(p)
  PROVE  JobInv'
<1>1. Typed /\ ReviewsFit /\ CallFits(p) /\ StageFits(p) /\ job' = job /\ receipt' = receipt /\ ServiceStep(p)
  BY InvTypes DEF Fine, Serve
<1>2. job[p].pc = "stage" => mode = "AUTOPILOT" /\ job[p].mem \in Receipt /\ Earned(job[p].mem)
  BY CopyFacts DEF Driving
<1>3. Served(p)
  BY <1>1, <1>2, ServiceKeeps
<1> QED
  BY <1>1, <1>3, ServedKeeps

LEMMA InterruptKeeps ==
  ASSUME JobInv, NEW p \in Procs, Interrupt(p)
  PROVE  JobInv'
<1>1. UNCHANGED idleServices /\ call' = call /\ receipt' = receipt
  BY DEF Interrupt
<1>2. /\ Typed' /\ ReviewsFit' /\ Grows /\ CallFits(p)'
      /\ \A q \in Procs \ {p} : call'[q] = call[q]
  BY <1>1, ServicesRest
<1>3. CASE job' = [job EXCEPT ![p].abort = TRUE]
  <2>1. job \in [Procs -> Work] /\ job[p] \in Work /\ CopyFits(p) /\ StageFits(p)
    BY InvTypes DEF Fine
  <2> DEFINE j == [job[p] EXCEPT !.abort = TRUE]
  <2>2. /\ j \in Work /\ j.pc = job[p].pc /\ j.mem = job[p].mem /\ j.next = job[p].next
        /\ j.guarded = job[p].guarded /\ j.left = job[p].left
    BY <2>1 DEF Work
  <2>3. job' = [job EXCEPT ![p] = j]
    BY <1>3
  <2> HIDE DEF j
  <2>4. /\ job' \in [Procs -> Work] /\ (\A q \in Procs \ {p} : job'[q] = job[q])
        /\ job'[p].pc = job[p].pc /\ job'[p].mem = job[p].mem /\ job'[p].next = job[p].next
        /\ job'[p].guarded = job[p].guarded /\ job'[p].left = job[p].left
    BY <2>1, <2>2, <2>3
  <2>5. CopyFits(p)'
    BY <1>2, <2>1, <2>4 DEF CopyFits, Grows, Runs, Patient
  <2>6. StageFits(p)'
    BY <1>1, <1>2, <2>1, <2>4 DEF StageFits, Grows
  <2> QED
    BY <1>1, <1>2, <2>4, <2>5, <2>6, Turns
<1>4. CASE To(p, "idle")
  BY <1>1, <1>2, <1>4, Stops
<1> QED
  BY <1>3, <1>4 DEF Interrupt

LEMMA CrashKeeps ==
  ASSUME JobInv, NEW p \in Procs, Crash(p)
  PROVE  JobInv'
<1>1. Typed /\ ReviewsFit /\ To(p, "idle") /\ ServiceCrash(p) /\ receipt' = receipt
  BY InvTypes DEF Crash
<1>2. UNCHANGED <<mode, executor, delivery, pull, asked, answer, codeReview, verdictFile, final>>
  BY <1>1 DEF ServiceCrash, reviews
<1>3. /\ call' \in [Procs -> Call] /\ call'[p].at = "idle" /\ \A q \in Procs \ {p} : call'[q] = call[q]
  BY <1>1 DEF ServiceCrash, Typed, NoCall, Call, Places, Resting, Purposes
<1>4. executorLock' \in Procs \cup {"free", "orphan"}
  BY <1>1 DEF ServiceCrash, ReleaseOf, Typed
<1>5. Typed' /\ ReviewsFit' /\ Grows
  BY <1>1, <1>2, <1>3, <1>4 DEF Typed, ReviewsFit, Grows
<1>6. CallFits(p)'
  BY <1>3 DEF CallFits
<1> QED
  BY <1>1, <1>3, <1>5, <1>6, Stops

LEMMA WorldStep ==
  ASSUME JobInv, WebAnswers \/ RemoveLock \/ MovePull, receipt' = receipt, job' = job
  PROVE  JobInv'
<1>1. Typed' /\ ReviewsFit' /\ Grows /\ call' = call /\ job \in [Procs -> Work]
  BY InvTypes, WorldKeeps
<1>2. \A q \in Procs : Fine(q)'
  BY <1>1, FineStays
<1> QED
  BY <1>1, <1>2, Frame

-----------------------------------------------------------------------------
(* The invariant.                                                          *)

LEMMA DriveKeeps ==
  ASSUME JobInv, NEW p \in Procs, Drive(p)
  PROVE  JobInv'
BY PersistKeeps, BeginKeeps, StopKeeps, RunStageKeeps, PollKeeps, StageDoneKeeps, StageFailedKeeps,
   RetryOrStopKeeps, WakeKeeps, HarnessKeeps, PairKeeps, PairDoneKeeps DEF Drive

LEMMA MishapKeeps ==
  ASSUME JobInv, Mishap
  PROVE  JobInv'
<1>1. ASSUME NEW p \in Procs, ServiceTrouble(p) /\ UNCHANGED <<receipt, job>>
      PROVE  JobInv'
  <2>1. Typed /\ ReviewsFit /\ CallFits(p) /\ StageFits(p)
    BY InvTypes DEF Fine
  <2> QED
    BY <1>1, <2>1, TroubleKeeps, ServedKeeps
<1>2. ASSUME NEW p \in Procs, PersistTrouble(p)
      PROVE  JobInv'
  BY <1>2, NotWritten DEF PersistTrouble
<1> QED
  BY <1>1, <1>2, PollTroubleKeeps, InterruptKeeps, CrashKeeps, WorldStep DEF Mishap

LEMMA Initially == Init => JobInv
<1> SUFFICES ASSUME Init PROVE JobInv
  OBVIOUS
<1>1. /\ mode \in Modes /\ executor = "none" /\ executorLock = "free" /\ delivery = "none" /\ pull = "none"
      /\ asked = {} /\ answer = [u \in Purposes |-> "none"] /\ codeReview = "none" /\ verdictFile = "none"
      /\ final = "none" /\ call = [p \in Procs |-> NoCall] /\ receipt = None /\ job = [p \in Procs |-> Off]
  BY DEF Init, VerdictInit
<1>2. NoCall \in Call /\ Off \in Work /\ Off.pc = "idle" /\ Off.mem = None /\ Off.next = "idle" /\ NoCall.at = "idle"
  BY DEF NoCall, Call, Places, Resting, Purposes, Off, Work
<1>3. TypeOK
  BY <1>1, <1>2 DEF TypeOK
<1>4. ReviewsFit
  BY <1>1, DecisionFacts DEF ReviewsFit
<1>5. StageEarned /\ ReceiptFits
  BY <1>1 DEF StageEarned, ReceiptFits
<1>6. ASSUME NEW p \in Procs
      PROVE  Fine(p)
  <2>1. job[p].pc = "idle" /\ job[p].mem = None /\ job[p].next = "idle" /\ call[p].at = "idle"
    BY <1>1, <1>2
  <2>2. CallFits(p)
    BY <2>1 DEF CallFits
  <2>3. CopyFits(p) /\ StageFits(p) /\ CopyIsFresh(p)
    BY <2>1 DEF CopyFits, StageFits, CopyIsFresh, Driving, Pairing, Going
  <2> QED
    BY <2>1, <2>2, <2>3 DEF Fine
<1> QED
  BY <1>3, <1>4, <1>5, <1>6 DEF JobInv

LEMMA StutterKeeps == JobInv /\ UNCHANGED vars => JobInv'
<1> SUFFICES ASSUME JobInv, UNCHANGED vars PROVE JobInv'
  OBVIOUS
<1>1. /\ UNCHANGED <<mode, result, pull, reviews>> /\ call' = call /\ receipt' = receipt /\ job' = job
  BY DEF vars, services
<1>2. Typed /\ ReviewsFit /\ call \in [Procs -> Call] /\ job \in [Procs -> Work]
  BY InvTypes DEF Typed
<1>3. Typed' /\ ReviewsFit' /\ Grows
  BY <1>1, <1>2, ServicesIdle
<1>4. \A q \in Procs : Fine(q)'
  BY <1>1, <1>3, FineStays
<1> QED
  BY <1>1, <1>2, <1>3, <1>4, Frame

LEMMA StepKeeps == JobInv /\ [Next]_vars => JobInv'
<1> SUFFICES ASSUME JobInv, [Next]_vars PROVE JobInv'
  OBVIOUS
<1>1. ASSUME NEW p \in Procs, Drive(p) \/ Serve(p) \/ Launch(p)
      PROVE  JobInv'
  BY <1>1, DriveKeeps, ServeKeeps, StartKeeps, StartPairKeeps DEF Launch
<1>2. CASE Others
  BY <1>2, WorldStep DEF Others
<1> QED
  BY <1>1, <1>2, MishapKeeps, StutterKeeps DEF Next

\* However many drivers there are, whatever crashes, is late or is repeated, the
\* receipt on disk claims only what was done, and every driver carries a copy it
\* may go on with (src/src/orchestration/autopilot-job.ts).
THEOREM JobInvariant == Spec => []JobInv
BY Initially, StepKeeps, PTL DEF Spec

\* A review is decided as the Web answered it, and in PAIR the final review is not
\* asked for before the code was approved (src/src/orchestration/revise.ts).
THEOREM ReviewsAreHonest == Spec => []VerdictsHonest
<1>1. JobInv => VerdictsHonest
  BY DEF JobInv, ReviewsFit, VerdictsHonest
<1> QED
  BY <1>1, JobInvariant, PTL

-----------------------------------------------------------------------------
(* What is written stands.                                                 *)

\* Only a driver that writes its copy changes the receipt.
LEMMA OnlyPersistWrites ==
  ASSUME [Next]_vars, receipt' # receipt
  PROVE  \E p \in Procs : Doing(p, "persist") /\ Current(p) /\ Written(p)
<1>1. Next
  BY DEF vars
<1>2. ASSUME NEW p \in Procs, Drive(p)
      PROVE  Doing(p, "persist") /\ Current(p) /\ Written(p)
  <2>1. Persist(p)
    BY <1>2 DEF Drive, BeginOver, Begin, Stop, RunStage, Poll, StageDone, StageFailed, RetryOrStop, Wake,
       Harness, PairOver, PairAsk, PairHear, PairDone
  <2> QED
    BY <2>1 DEF Persist, Unwritten
<1>3. \A p \in Procs : ~Serve(p) /\ ~Launch(p)
  BY DEF Serve, Launch, StartPair, Start
<1>4. ~Others /\ ~Mishap
  <2>1. \A p \in Procs : ~PersistTrouble(p) /\ ~PollTrouble(p) /\ ~Interrupt(p) /\ ~Crash(p)
    BY DEF PersistTrouble, PollTrouble, Unwritten, Interrupt, Crash
  <2> QED
    BY <2>1 DEF Others, Mishap
<1> QED
  BY <1>1, <1>2, <1>3, <1>4 DEF Next

LEMMA WriteStands ==
  ASSUME JobInv, NEW p \in Procs, Doing(p, "persist"), Current(p), Written(p), receipt # None
  PROVE  /\ receipt' # None /\ receipt'.generation = receipt.generation + 1
         /\ receipt.status \notin Over /\ receipt'.rounds >= receipt.rounds
<1>1. job[p].pc = "persist" /\ job[p].mem \in Receipt /\ job[p].mem # None /\ CopyIsFresh(p)
  BY CopyFacts DEF Doing, Driving
<1>2. receipt \in Receipt /\ job[p].mem.generation = receipt.generation
  BY InvTypes DEF Current, Generation
<1>3. receipt.status \notin Over /\ job[p].mem.rounds >= receipt.rounds
  BY <1>1, <1>2 DEF CopyIsFresh
<1>4. receipt' = [job[p].mem EXCEPT !.generation = @ + 1]
  BY DEF Written
<1>5. receipt' \in Receipt /\ receipt'.generation = receipt.generation + 1 /\ receipt'.rounds = job[p].mem.rounds
  BY <1>1, <1>2, <1>4 DEF Receipt
<1> QED
  BY <1>3, <1>5, ReceiptAssumption

\* A driver writes only over what it read or wrote last, so no write of another one
\* is lost, and a job that asks for the user, or is ready, is never taken back
\* (src/src/orchestration/autopilot-state.ts).
THEOREM JobIsKept == Spec => JobStands
<1> DEFINE Stands ==
      /\ receipt # None => receipt' # None /\ receipt'.generation \in {receipt.generation, receipt.generation + 1}
      /\ receipt # None /\ receipt.status \in Over => receipt' = receipt
      /\ receipt # None => receipt'.rounds >= receipt.rounds
<1>1. JobInv /\ [Next]_vars => [Stands]_vars
  <2> SUFFICES ASSUME JobInv, [Next]_vars PROVE Stands
    OBVIOUS
  <2>1. CASE receipt' = receipt
    <3>1. receipt # None => receipt.rounds \in 0..4
      BY InvTypes DEF Receipt
    <3> QED
      BY <2>1, <3>1
  <2>2. CASE receipt' # receipt
    BY <2>2, OnlyPersistWrites, WriteStands
  <2> QED
    BY <2>1, <2>2
<1> QED
  BY <1>1, JobInvariant, PTL DEF Spec, JobStands

=============================================================================
