------------------------ MODULE AgentExecutionProofs ------------------------
(***************************************************************************)
(* Proofs about AgentExecution, for any trees, limits and number of        *)
(* crashes and foreign edits: ExecutionInv is inductive, so the turns are  *)
(* counted before they are asked and what is READY was earned; and what a  *)
(* run was settled on stands.                                              *)
(***************************************************************************)
EXTENDS AgentExecution, TLAPS

-----------------------------------------------------------------------------
(* Receipts.                                                               *)

\* A receipt a working call may hold after n turns were asked.
Good(m, n) ==
  m \in Receipt /\ m.mode = mem.mode /\ OneReviewer(m) /\ m.state \notin Settled /\ n <= m.turns

\* The states in which a call can fail or be stopped: none of them is READY.
Ends == States \ {"READY_FOR_PUBLISH"}

\* A change of state leaves the rest of the receipt.
LEMMA BecomesFields ==
  ASSUME NEW m \in Receipt, NEW to \in States
  PROVE  /\ Becomes(m, to) \in Receipt /\ Becomes(m, to).state = to
         /\ Becomes(m, to).mode = m.mode /\ Becomes(m, to).turns = m.turns
         /\ Becomes(m, to).by = m.by /\ Becomes(m, to).digest = m.digest
         /\ Becomes(m, to).passed = m.passed /\ Becomes(m, to).verified = m.verified
         /\ Becomes(m, to).iterations = m.iterations
BY DEF Becomes, Receipt

\* invalidateChangeSetEvidence keeps the rounds.
LEMMA InvalidatedFields ==
  ASSUME NEW m \in Receipt
  PROVE  /\ Invalidated(m) \in Receipt /\ Invalidated(m).state = m.state
         /\ Invalidated(m).mode = m.mode /\ Invalidated(m).turns = m.turns
         /\ Invalidated(m).digest = m.digest /\ Invalidated(m).iterations = m.iterations
         /\ \A r \in Reviewers : Invalidated(m).by[r].rounds = m.by[r].rounds
<1> DEFINE by == [r \in Reviewers |-> [m.by[r] EXCEPT !.verdict = None, !.tree = None]]
<1>1. by \in [Reviewers -> Review] /\ \A r \in Reviewers : by[r].rounds = m.by[r].rounds
  BY DEF Receipt, Review
<1>2. Invalidated(m) = [m EXCEPT !.passed = FALSE, !.verified = None, !.by = by]
  BY DEF Invalidated, Receipt
<1> HIDE DEF by
<1> QED
  BY <1>1, <1>2 DEF Receipt

LEMMA GoodBecomes ==
  ASSUME NEW m, NEW n, Good(m, n), NEW to \in States \ Settled
  PROVE  Good(Becomes(m, to), n)
BY BecomesFields DEF Good, OneReviewer

LEMMA GoodInvalidated ==
  ASSUME NEW m, NEW n, Good(m, n)
  PROVE  Good(Invalidated(m), n)
BY InvalidatedFields DEF Good, OneReviewer, Reviewers, Receipt

LEMMA GoodDigest ==
  ASSUME NEW m, NEW n, Good(m, n), NEW t \in Trees
  PROVE  Good([m EXCEPT !.digest = t], n)
BY DEF Good, OneReviewer, Receipt

\* The turn about to be asked is counted.
LEMMA GoodCounted ==
  ASSUME NEW m, NEW n \in Nat, Good(m, n), TurnLeft(m)
  PROVE  Good(Counted(m), n + 1) /\ Good(Counted(m), n)
<1>1. m.turns \in Nat /\ m.turns + 1 \in 0..MaxTurns
  BY LimitsAssumption DEF Good, Receipt, TurnLeft
<1> QED
  BY <1>1 DEF Good, Counted, OneReviewer, Receipt

-----------------------------------------------------------------------------
(* The ends of a step.                                                     *)

\* What every step leaves in its type.
Moves ==
  /\ turn' \in [seen : Trees \cup {None}, again : BOOLEAN, of : Reviewers]
  /\ journal' \in {"whole", "torn"} /\ tree' \in Trees
  /\ outside' \in {"intact", "refs", "bundle"} /\ late' \in BOOLEAN /\ trouble' \in 0..MaxTrouble
  /\ calls' \in Nat /\ tested' \in Trees \cup {None}
  /\ looked' \in [Reviewers -> Trees \cup {None}] /\ meddled' \in BOOLEAN

\* What the call holds while it works.
LEMMA Held ==
  ASSUME ExecutionInv, at # "idle"
  PROVE  /\ Good(mem, calls) /\ published = None /\ lock = "held"
         /\ disk \in Receipt /\ disk.mode = mem.mode /\ OneReviewer(disk)
         /\ disk.state \notin Settled /\ calls <= disk.turns /\ calls \in Nat
BY DEF ExecutionInv, TypeOK, TurnsAreCounted, CallHolds, PublishedIsLast, Good

\* The call gives the lock back with a receipt that is not READY.
LEMMA LeftWell ==
  ASSUME Moves, published' = None, NEW m \in Receipt, Leave(m), OneReviewer(m),
         m.state # "READY_FOR_PUBLISH", calls' <= m.turns
  PROVE  ExecutionInv'
<1>1. disk' = m /\ mem' = None /\ at' = "idle" /\ lock' = "free" /\ disk' # None
  BY ReceiptAssumption DEF Leave
<1>2. TypeOK'
  BY <1>1 DEF Moves, TypeOK
<1>3. TurnsAreCounted'
  BY <1>1 DEF TurnsAreCounted
<1>4. CallHolds'
  BY <1>1 DEF CallHolds, OneReviewer, Reviewers
<1>5. ReadyIsEarned'
  BY <1>1 DEF ReadyIsEarned
<1> QED
  BY <1>1, <1>2, <1>3, <1>4, <1>5
     DEF ExecutionInv, Unmeddled, UnderReview, PublishedIsLast, Checking

\* An error or a stop closes a working receipt, and hands back no READY one.
LEMMA FailedWell ==
  ASSUME Moves, published' = None, NEW m, Good(m, calls'), NEW end \in Ends, Fails(m, end)
  PROVE  ExecutionInv'
<1> DEFINE f == [m EXCEPT !.state = IF @ \in Working \cup {"FAILED"} THEN end ELSE @]
<1>1. m \in Receipt /\ m.state # "READY_FOR_PUBLISH" /\ m.state \in States
  BY DEF Good, Settled, Receipt
<1>2. /\ f \in Receipt /\ f.state # "READY_FOR_PUBLISH" /\ f.turns = m.turns
      /\ f.by = m.by /\ f.mode = m.mode
  BY <1>1 DEF Receipt, Ends
<1>3. Leave(f)
  BY DEF Fails
<1> QED
  BY <1>2, <1>3, LeftWell DEF Good, OneReviewer

\* What holds while the call goes on, whatever it does next.
Core == TypeOK /\ TurnsAreCounted /\ CallHolds /\ ReadyIsEarned /\ PublishedIsLast

Steps == {"resume", "assess", "assessing", "implement", "implementing", "policy",
          "review", "reviewing", "conclude"} \cup Checking

LEMMA SavedWell ==
  ASSUME ExecutionInv, at # "idle", Moves, published' = None,
         NEW m, Good(m, calls'), NEW next \in Steps, Save(m, next)
  PROVE  Core'
<1>1. /\ disk' = m /\ mem' = m /\ at' = next /\ lock' = "held" /\ m \in Receipt
      /\ calls' <= m.turns /\ OneReviewer(m) /\ m.state \notin Settled
  BY Held DEF Save, Good
<1>2. disk' # None /\ at' # "idle" /\ disk'.state # "READY_FOR_PUBLISH"
  BY <1>1, ReceiptAssumption DEF Steps, Checking, Settled
<1>3. TypeOK'
  BY <1>1 DEF Moves, TypeOK, Steps
<1>4. CallHolds'
  BY <1>1, <1>2 DEF CallHolds, OneReviewer, Reviewers
<1> QED
  BY <1>1, <1>2, <1>3, <1>4 DEF Core, TurnsAreCounted, ReadyIsEarned, PublishedIsLast

LEMMA KeptWell ==
  ASSUME ExecutionInv, at # "idle", Moves, published' = None, calls' = calls,
         NEW m, Good(m, calls), NEW next \in Steps, Keep(m, next)
  PROVE  Core'
<1>1. /\ disk' = disk /\ mem' = m /\ at' = next /\ lock' = "held" /\ m \in Receipt
      /\ calls <= m.turns /\ OneReviewer(m) /\ m.state \notin Settled /\ m.mode = disk.mode
      /\ disk \in Receipt /\ OneReviewer(disk) /\ disk.state \notin Settled
      /\ calls <= disk.turns
  BY Held DEF Keep, Good
<1>2. disk' # None /\ mem' # None /\ at' # "idle" /\ disk'.state # "READY_FOR_PUBLISH"
  BY <1>1, ReceiptAssumption DEF Steps, Checking, Settled
<1>3. TypeOK'
  BY <1>1 DEF Moves, TypeOK, Steps
<1>4. CallHolds'
  BY <1>1, <1>2 DEF CallHolds, OneReviewer, Reviewers
<1> QED
  BY <1>1, <1>2, <1>3, <1>4 DEF Core, TurnsAreCounted, ReadyIsEarned, PublishedIsLast

\* Where nothing is being verified or reviewed, nothing more is asked.
LEMMA Onward ==
  ASSUME Core', at' \in {"resume", "assess", "assessing", "implement", "implementing", "policy"}
  PROVE  ExecutionInv'
BY DEF Core, ExecutionInv, Unmeddled, UnderReview, Checking

\* A transition of the receipt that goes on with the implementation.
LEMMA MovedWell ==
  ASSUME ExecutionInv, at # "idle", Moves, published' = None,
         NEW m, Good(m, calls'), NEW to \in States \ Settled,
         NEW next \in {"assess", "implement"}, Move(m, to, next)
  PROVE  ExecutionInv'
<1>1. Good(Becomes(m, to), calls')
  BY GoodBecomes
<1>2. CASE journal = "torn"
  BY <1>1, <1>2, FailedWell DEF Move, Ends, States, Settled
<1>3. CASE journal # "torn"
  <2>1. Save(Becomes(m, to), next) /\ at' = next
    BY <1>3 DEF Move, Save
  <2> QED
    BY <1>1, <2>1, SavedWell, Onward DEF Steps
<1> QED
  BY <1>2, <1>3

\* One that ends the call, with no READY receipt.
LEMMA MovedAway ==
  ASSUME ExecutionInv, at # "idle", Moves, published' = None,
         NEW m, Good(m, calls'), NEW to \in Ends, MoveAndLeave(m, to)
  PROVE  ExecutionInv'
<1>1. /\ Becomes(m, to) \in Receipt /\ OneReviewer(Becomes(m, to))
      /\ Becomes(m, to).state # "READY_FOR_PUBLISH" /\ calls' <= Becomes(m, to).turns
  BY BecomesFields DEF Good, OneReviewer, Ends
<1>2. CASE journal # "torn"
  BY <1>1, <1>2, LeftWell DEF MoveAndLeave
<1>3. CASE journal = "torn"
  <2> DEFINE f == [Becomes(m, to) EXCEPT !.state =
                     IF @ \in Working \cup {"FAILED"} THEN "FAILED" ELSE @]
  <2>1. /\ f \in Receipt /\ f.state # "READY_FOR_PUBLISH" /\ f.turns = Becomes(m, to).turns
        /\ f.by = Becomes(m, to).by /\ f.mode = Becomes(m, to).mode
    BY <1>1 DEF Receipt, States, Settled
  <2>2. Leave(f)
    BY <1>3 DEF MoveAndLeave, Fails
  <2> QED
    BY <1>1, <2>1, <2>2, LeftWell DEF OneReviewer
<1> QED
  BY <1>2, <1>3

\* A turn is asked: it is in the receipt on disk first.
LEMMA AskedWell ==
  ASSUME ExecutionInv, at # "idle", Moves, published' = None,
         NEW m, Good(m, calls + 1), NEW next \in {"assessing", "implementing"}, NEW repeated,
         Asks(m, next, repeated)
  PROVE  ExecutionInv'
<1>1. m.turns \in Nat /\ calls \in Nat /\ Good(m, calls)
  BY Held DEF Good, Receipt
<1>2. CASE outside = "bundle"
  BY <1>1, <1>2, FailedWell DEF Asks, Ends, States, Settled, Resumable
<1>3. CASE outside # "bundle"
  <2>1. Save(m, next) /\ calls' = calls + 1 /\ at' = next
    BY <1>3 DEF Asks, Save
  <2> QED
    BY <1>1, <2>1, SavedWell, Onward DEF Steps
<1> QED
  BY <1>2, <1>3

-----------------------------------------------------------------------------
(* The steps of a call.                                                    *)

TurnKept == turn' \in [seen : Trees \cup {None}, again : BOOLEAN, of : Reviewers]

\* However a step ends, the turn in progress keeps its type.
LEMMA TurnMoves ==
  ASSUME TypeOK
  PROVE  /\ \A m : Leave(m) => TurnKept
         /\ \A m, end : Fails(m, end) => TurnKept
         /\ \A m, to, next : Move(m, to, next) => TurnKept
         /\ \A m, to : MoveAndLeave(m, to) => TurnKept
         /\ \A m, end : GivesUp(m, end) => TurnKept /\ calls' = calls
         /\ \A m, next : \A again \in BOOLEAN :
              Asks(m, next, again) => TurnKept /\ calls' \in {calls, calls + 1}
         /\ Same => TurnKept
<1>1. turn \in [seen : Trees \cup {None}, again : BOOLEAN, of : Reviewers] /\ tree \in Trees
  BY DEF TypeOK
<1>2. \A m : Leave(m) => TurnKept
  BY DEF Leave, NoTurn, TurnKept, Reviewers
<1>3. \A m, end : Fails(m, end) => TurnKept
  BY <1>2 DEF Fails
<1>4. Same => TurnKept
  BY <1>1 DEF Same, TurnKept
<1>5. \A m, to, next : Move(m, to, next) => TurnKept
  BY <1>3, <1>4 DEF Move
<1>6. \A m, to : MoveAndLeave(m, to) => TurnKept
  BY <1>2, <1>3 DEF MoveAndLeave
<1>7. \A m, end : GivesUp(m, end) => TurnKept /\ calls' = calls
  BY <1>3 DEF GivesUp
<1>8. ASSUME NEW m, NEW next, NEW again \in BOOLEAN, Asks(m, next, again)
      PROVE  TurnKept /\ calls' \in {calls, calls + 1}
  <2>1. CASE outside = "bundle"
    BY <1>3, <1>8, <2>1 DEF Asks
  <2>2. CASE outside # "bundle"
    BY <1>1, <1>8, <2>2 DEF Asks, TurnKept
  <2> QED
    BY <2>1, <2>2
<1> QED
  BY <1>2, <1>3, <1>4, <1>5, <1>6, <1>7, <1>8

\* Every step of the call keeps the types of what it does not hold itself.
LEMMA WorkMoves ==
  ASSUME ExecutionInv, Work
  PROVE  Moves /\ published' = published
<1>1. TypeOK /\ calls \in Nat /\ tree \in Trees /\ turn.of \in Reviewers
  BY DEF ExecutionInv, TypeOK
<1>2. TurnKept /\ calls' \in {calls, calls + 1}
  <2>1. CASE Resume
    BY <1>1, <2>1, TurnMoves DEF Resume, told
  <2>2. CASE BeginAssessment
    BY <1>1, <2>2, TurnMoves DEF BeginAssessment
  <2>3. CASE EndAssessment
    BY <1>1, <2>3, TurnMoves DEF EndAssessment, TurnFails, AskAgain
  <2>4. CASE BeginImplementation
    BY <1>1, <2>4, TurnMoves DEF BeginImplementation
  <2>5. CASE EndImplementation
    BY <1>1, <2>5, TurnMoves DEF EndImplementation, TurnFails, AskAgain
  <2>6. CASE CheckPolicy
    BY <1>1, <2>6, TurnMoves DEF CheckPolicy, told
  <2>7. CASE BeginCommand
    <3>1. TypeOK => turn \in [seen : Trees \cup {None}, again : BOOLEAN, of : Reviewers]
      BY DEF TypeOK
    <3>2. [turn EXCEPT !.seen = tree]
            \in [seen : Trees \cup {None}, again : BOOLEAN, of : Reviewers]
      BY <1>1, <3>1
    <3> QED
      BY <1>1, <2>7, <3>2, TurnMoves DEF BeginCommand, told, TurnKept
  <2>8. CASE EndCommand
    BY <1>1, <2>8, TurnMoves DEF EndCommand
  <2>9. CASE EndVerification
    <3>1. \A r \in Reviewers : [turn EXCEPT !.of = r]
            \in [seen : Trees \cup {None}, again : BOOLEAN, of : Reviewers]
      BY <1>1 DEF TypeOK
    <3>2. calls' = calls
      BY <2>9 DEF EndVerification
    <3>3. CASE turn' = [turn EXCEPT !.of = IF mem.mode = "sol" THEN "sol" ELSE "terra"]
      BY <3>1, <3>2, <3>3 DEF TurnKept, Reviewers
    <3> QED
      BY <1>1, <2>9, <3>2, <3>3, TurnMoves DEF EndVerification
  <2>10. CASE BeginReview
    BY <1>1, <2>10, TurnMoves DEF BeginReview
  <2>11. CASE EndReview
    BY <1>1, <2>11, TurnMoves DEF EndReview, TurnFails, AskAgain
  <2>12. CASE Conclude
    <3>1. [turn EXCEPT !.of = "sol"]
            \in [seen : Trees \cup {None}, again : BOOLEAN, of : Reviewers]
      BY <1>1 DEF TypeOK, Reviewers
    <3> QED
      BY <1>1, <2>12, <3>1, TurnMoves DEF Conclude, told, TurnKept
  <2> QED
    BY <2>1, <2>2, <2>3, <2>4, <2>5, <2>6, <2>7, <2>8, <2>9, <2>10, <2>11, <2>12 DEF Work
<1>3. /\ journal' = journal /\ tree' = tree /\ outside' = outside /\ trouble' = trouble
      /\ late' \in BOOLEAN /\ published' = published /\ tested' \in Trees \cup {None}
      /\ meddled' \in BOOLEAN
  <2> USE DEF ExecutionInv, TypeOK, world, told
  <2>1. CASE Resume \/ CheckPolicy \/ BeginCommand \/ Conclude
    BY <2>1 DEF Resume, CheckPolicy, BeginCommand, Conclude
  <2>2. CASE BeginAssessment \/ BeginImplementation \/ EndVerification \/ BeginReview
    BY <2>2 DEF BeginAssessment, BeginImplementation, EndVerification, BeginReview
  <2>3. CASE EndAssessment \/ EndImplementation \/ EndReview
    BY <2>3 DEF EndAssessment, EndImplementation, EndReview, TurnFails, AskAgain
  <2>4. CASE EndCommand
    BY <2>4 DEF EndCommand
  <2> QED
    BY <2>1, <2>2, <2>3, <2>4 DEF Work
<1>4. looked' \in [Reviewers -> Trees \cup {None}]
  <2>1. looked \in [Reviewers -> Trees \cup {None}]
    BY DEF ExecutionInv, TypeOK
  <2>2. CASE BeginReview
    BY <1>1, <2>1, <2>2 DEF BeginReview
  <2>3. CASE BeginImplementation
    BY <2>3 DEF BeginImplementation
  <2>4. CASE ~BeginReview /\ ~BeginImplementation
    BY <2>1, <2>4 DEF Work, Resume, BeginAssessment, EndAssessment, EndImplementation,
       CheckPolicy, BeginCommand, EndCommand, EndVerification, EndReview, Conclude, told
  <2> QED
    BY <2>2, <2>3, <2>4
<1> QED
  BY <1>1, <1>2, <1>3, <1>4 DEF Moves, TurnKept, ExecutionInv, TypeOK

\* What every step of the call starts from.
LEMMA AtWork ==
  ASSUME ExecutionInv, Work
  PROVE  /\ at # "idle" /\ Moves /\ published' = None /\ Good(mem, calls)
         /\ calls \in Nat /\ mem \in Receipt /\ tree \in Trees
<1>1. at # "idle"
  BY DEF Work, Resume, BeginAssessment, EndAssessment, BeginImplementation,
     EndImplementation, CheckPolicy, BeginCommand, EndCommand, EndVerification, BeginReview,
     EndReview, Conclude
<1> QED
  BY <1>1, Held, WorkMoves DEF Good, ExecutionInv, TypeOK

\* What a turn, failed or asked again, does to the receipt.
LEMMA TurnFailsStep ==
  ASSUME ExecutionInv, Work, TurnFails
  PROVE  ExecutionInv'
<1>1. /\ at # "idle" /\ Moves /\ published' = None /\ Good(mem, calls) /\ calls' = calls
  BY AtWork DEF TurnFails
<1>2. PICK end \in {"AGENT_FAILED", "INTERRUPTED", "BUDGET_EXHAUSTED"} : Fails(mem, end)
  BY DEF TurnFails
<1>3. end \in Ends
  BY DEF Ends, States, Settled, Resumable
<1> QED
  BY <1>1, <1>2, <1>3, FailedWell

LEMMA GivenUp ==
  ASSUME ExecutionInv, Work, NEW m, Good(m, calls), NEW end \in Ends, GivesUp(m, end)
  PROVE  ExecutionInv'
BY AtWork, FailedWell DEF GivesUp

LEMMA EndList ==
  /\ {"FAILED", "AGENT_FAILED", "INTERRUPTED", "BUDGET_EXHAUSTED", "POLICY_BLOCKED",
      "REPLAN_REQUIRED", "HUMAN_REQUIRED", "WEB_REVIEW_REQUIRED", "VERIFICATION_FAILED"}
       \subseteq Ends
  /\ Working \cup Resumable \subseteq States \ Settled
  /\ {"CODEX_PREFLIGHT", "TERRA_FIXING", "TERRA_IMPLEMENTING", "TERRA_ASSESSING",
      "POLICY_CHECKING", "VERIFYING", "TERRA_REVIEWING", "SOL_REVIEWING",
      "VERIFICATION_FAILED"} \subseteq States \ Settled
BY DEF Ends, States, Settled, Resumable, Working

\* prepareExecution.
LEMMA ResumeStep ==
  ASSUME ExecutionInv, Resume
  PROVE  ExecutionInv'
<1>1. /\ at # "idle" /\ Moves /\ published' = None /\ Good(mem, calls) /\ calls' = calls
      /\ tree \in Trees /\ Good(mem, calls')
  BY AtWork DEF Work, Resume, told
<1> DEFINE m == [mem EXCEPT !.digest = tree]
<1>2. Good(m, calls') /\ Good(m, calls) /\ Good(Invalidated(m), calls')
  BY <1>1, GoodDigest, GoodInvalidated
<1> HIDE DEF m
<1>3. CASE \E end \in {"FAILED", "AGENT_FAILED"} : Fails(mem, end)
  BY <1>1, <1>3, EndList, FailedWell
<1>4. CASE Move(Invalidated(m), "TERRA_FIXING", "implement")
  BY <1>1, <1>2, <1>4, EndList, MovedWell
<1>5. CASE Move(m, "CODEX_PREFLIGHT", "assess") \/ Move(m, "TERRA_FIXING", "implement")
  BY <1>1, <1>2, <1>5, EndList, MovedWell
<1>6. ASSUME NEW next \in {"assess", "implement"}, Keep(m, next)
      PROVE  ExecutionInv'
  <2>1. at' = next
    BY <1>6 DEF Keep
  <2> QED
    BY <1>1, <1>2, <1>6, <2>1, KeptWell, Onward DEF Steps
<1> QED
  BY <1>3, <1>4, <1>5, <1>6 DEF Resume, m

\* runAssessment, up to the turn.
LEMMA BeginAssessmentStep ==
  ASSUME ExecutionInv, BeginAssessment
  PROVE  ExecutionInv'
<1>1. /\ at # "idle" /\ Moves /\ published' = None /\ Good(mem, calls) /\ calls \in Nat /\ Work
  BY AtWork DEF Work
<1> DEFINE m == [mem EXCEPT !.state = "TERRA_ASSESSING"]
<1>2. Good(m, calls)
  BY <1>1, GoodBecomes, EndList DEF Becomes
<1> HIDE DEF m
<1>3. ASSUME TurnLeft(m), Asks(Counted(m), "assessing", FALSE)
      PROVE  ExecutionInv'
  BY <1>1, <1>2, <1>3, GoodCounted, AskedWell
<1>4. CASE GivesUp(mem, "INTERRUPTED") \/ GivesUp(m, "FAILED") \/ GivesUp(m, "AGENT_FAILED")
             \/ GivesUp(m, "BUDGET_EXHAUSTED")
  BY <1>1, <1>2, <1>4, EndList, GivenUp
<1> QED
  BY <1>3, <1>4 DEF BeginAssessment, m

\* A turn asked again keeps what was asked before.
LEMMA AskedAgain ==
  ASSUME ExecutionInv, Work, AskAgain, at \in {"assessing", "implementing"}
  PROVE  ExecutionInv'
<1>1. /\ at # "idle" /\ Moves /\ published' = None /\ Good(mem, calls) /\ calls \in Nat
  BY AtWork
<1>2. ASSUME TurnLeft(mem), Asks(Counted(mem), at, TRUE)
      PROVE  ExecutionInv'
  BY <1>1, <1>2, GoodCounted, AskedWell
<1>3. CASE GivesUp(mem, "AGENT_FAILED") \/ GivesUp(mem, "BUDGET_EXHAUSTED")
  BY <1>1, <1>3, EndList, GivenUp
<1> QED
  BY <1>2, <1>3 DEF AskAgain

\* runAssessment, its answer.
LEMMA EndAssessmentStep ==
  ASSUME ExecutionInv, EndAssessment
  PROVE  ExecutionInv'
<1>1. /\ at # "idle" /\ Moves /\ published' = None /\ Good(mem, calls) /\ Work
      /\ at = "assessing"
  BY AtWork DEF Work, EndAssessment
<1>2. CASE TurnFails \/ AskAgain
  BY <1>1, <1>2, TurnFailsStep, AskedAgain
<1>3. CASE Fails(mem, "AGENT_FAILED") /\ calls' = calls
  BY <1>1, <1>3, EndList, FailedWell
<1>4. ASSUME NEW end \in {"REPLAN_REQUIRED", "HUMAN_REQUIRED", "POLICY_BLOCKED"},
             MoveAndLeave(mem, end), calls' = calls
      PROVE  ExecutionInv'
  BY <1>1, <1>4, EndList, MovedAway
<1>5. CASE Move(mem, "TERRA_IMPLEMENTING", "implement") /\ calls' = calls
  BY <1>1, <1>5, EndList, MovedWell
<1> QED
  BY <1>2, <1>3, <1>4, <1>5 DEF EndAssessment

\* runImplementation, up to the turn.
LEMMA BeginImplementationStep ==
  ASSUME ExecutionInv, BeginImplementation
  PROVE  ExecutionInv'
<1>1. /\ at # "idle" /\ Moves /\ published' = None /\ Good(mem, calls) /\ calls \in Nat /\ Work
  BY AtWork DEF Work
<1>2. CASE GivesUp(mem, "INTERRUPTED") \/ GivesUp(mem, "BUDGET_EXHAUSTED")
  BY <1>1, <1>2, EndList, GivenUp
<1>3. CASE ImplementationLeft(mem)
  <2> DEFINE n == [mem EXCEPT !.iterations = @ + 1]
             m == [Counted(mem) EXCEPT !.iterations = @ + 1]
  <2>1. Good(Counted(mem), calls + 1) /\ Good(Counted(mem), calls)
    BY <1>1, <1>3, GoodCounted DEF ImplementationLeft
  <2>2. mem.iterations + 1 \in 0..MaxIterations /\ Counted(mem).iterations = mem.iterations
    BY <1>1, <1>3, LimitsAssumption DEF ImplementationLeft, Good, Receipt, Counted
  <2>3. Good(m, calls + 1) /\ Good(n, calls)
    BY <1>1, <2>1, <2>2 DEF Good, OneReviewer, Receipt
  <2> HIDE DEF m, n
  <2>4. Good(Becomes(m, "TERRA_IMPLEMENTING"), calls + 1)
    BY <2>3, GoodBecomes, EndList
  <2>5. CASE GivesUp(n, "FAILED")
    BY <1>1, <2>3, <2>5, EndList, GivenUp
  <2>6. CASE Asks(Becomes(m, "TERRA_IMPLEMENTING"), "implementing", FALSE)
    BY <1>1, <2>4, <2>6, AskedWell
  <2> QED
    BY <1>2, <1>3, <2>5, <2>6 DEF BeginImplementation, m, n
<1> QED
  BY <1>2, <1>3 DEF BeginImplementation

\* runImplementation, its answer.
LEMMA EndImplementationStep ==
  ASSUME ExecutionInv, EndImplementation
  PROVE  ExecutionInv'
<1>1. /\ at # "idle" /\ Moves /\ published' = None /\ Good(mem, calls) /\ Work
      /\ at = "implementing"
  BY AtWork DEF Work, EndImplementation
<1>2. CASE TurnFails \/ AskAgain
  BY <1>1, <1>2, TurnFailsStep, AskedAgain
<1>3. CASE Fails(mem, "AGENT_FAILED") /\ calls' = calls
  BY <1>1, <1>3, EndList, FailedWell
<1>4. ASSUME NEW end \in {"REPLAN_REQUIRED", "HUMAN_REQUIRED", "POLICY_BLOCKED"},
             MoveAndLeave(mem, end), calls' = calls
      PROVE  ExecutionInv'
  BY <1>1, <1>4, EndList, MovedAway
<1>5. CASE Save(mem, "policy") /\ calls' = calls
  <2>1. at' = "policy"
    BY <1>5 DEF Save
  <2> QED
    BY <1>1, <1>5, <2>1, SavedWell, Onward DEF Steps
<1> QED
  BY <1>2, <1>3, <1>4, <1>5 DEF EndImplementation

\* inspectPolicy: only a tree the policy allows goes on.
LEMMA CheckPolicyStep ==
  ASSUME ExecutionInv, CheckPolicy
  PROVE  ExecutionInv'
<1>1. /\ at # "idle" /\ Moves /\ published' = None /\ Good(mem, calls) /\ tree \in Trees
      /\ calls' = calls /\ Work
  BY AtWork DEF Work, CheckPolicy, told
<1>2. CASE Fails(mem, "AGENT_FAILED") \/ Fails(mem, "POLICY_BLOCKED")
  BY <1>1, <1>2, EndList, FailedWell
<1> DEFINE n == [mem EXCEPT !.digest = tree, !.state = "POLICY_CHECKING"]
           m == [mem EXCEPT !.digest = tree, !.state = "VERIFYING"]
<1>3. Good(n, calls') /\ Good(m, calls') /\ m.digest = tree
  BY <1>1, EndList DEF Good, OneReviewer, Receipt
<1> HIDE DEF m, n
<1>4. CASE Fails(n, "FAILED")
  BY <1>1, <1>3, <1>4, EndList, FailedWell
<1>5. CASE Save(m, "verify") /\ tree \in Within
  <2>1. Core'
    BY <1>1, <1>3, <1>5, SavedWell DEF Steps, Checking
  <2>2. at' = "verify" /\ mem' = m /\ tree' = tree
    BY <1>5 DEF Save, CheckPolicy, world
  <2> QED
    BY <1>3, <1>5, <2>1, <2>2 DEF Core, ExecutionInv, Unmeddled, UnderReview
<1> QED
  BY <1>2, <1>4, <1>5 DEF CheckPolicy, m, n

\* runVerification, up to a command.
LEMMA BeginCommandStep ==
  ASSUME ExecutionInv, BeginCommand
  PROVE  ExecutionInv'
<1>1. /\ at # "idle" /\ Moves /\ published' = None /\ Good(mem, calls) /\ calls' = calls
      /\ Good(mem, calls') /\ at = "verify" /\ UNCHANGED <<tree, tested, meddled>>
  BY AtWork DEF Work, BeginCommand, told, world
<1>2. CASE Fails(mem, "INTERRUPTED") \/ Fails(mem, "AGENT_FAILED")
  BY <1>1, <1>2, EndList, FailedWell
<1>3. CASE Keep(mem, "command") /\ turn' = [turn EXCEPT !.seen = tree]
  <2>1. Core'
    BY <1>1, <1>3, KeptWell DEF Steps, Checking
  <2>2. at' = "command" /\ mem' = mem /\ turn'.seen = tree
    BY <1>3 DEF Keep, ExecutionInv, TypeOK
  <2>3. Unmeddled'
    BY <1>1, <2>2 DEF ExecutionInv, Unmeddled, Checking
  <2> QED
    BY <2>1, <2>2, <2>3 DEF Core, ExecutionInv, UnderReview
<1> QED
  BY <1>2, <1>3 DEF BeginCommand

\* A command passes or fails on the tree it was started on.
LEMMA EndCommandStep ==
  ASSUME ExecutionInv, EndCommand
  PROVE  ExecutionInv'
<1>1. /\ at # "idle" /\ Moves /\ published' = None /\ Good(mem, calls) /\ calls' = calls
      /\ Good(mem, calls') /\ at = "command" /\ UNCHANGED <<tree, meddled>>
  BY AtWork DEF Work, EndCommand, world
<1>2. CASE Fails(mem, "INTERRUPTED") \/ Fails(mem, "AGENT_FAILED")
             \/ Fails(mem, "VERIFICATION_FAILED")
  BY <1>1, <1>2, EndList, FailedWell
<1> DEFINE m == [mem EXCEPT !.passed = FALSE, !.verified = None]
<1>3. Good(m, calls')
  BY <1>1 DEF Good, OneReviewer, Receipt
<1> HIDE DEF m
<1>4. CASE Fails(m, "VERIFICATION_FAILED")
  BY <1>1, <1>3, <1>4, EndList, FailedWell
<1>5. CASE Keep(mem, "verified") /\ tested' = tree
  <2>1. Core'
    BY <1>1, <1>5, KeptWell DEF Steps, Checking
  <2>2. at' = "verified" /\ mem' = mem
    BY <1>5 DEF Keep
  <2>3. Unmeddled'
    BY <1>1, <1>5, <2>2 DEF ExecutionInv, Unmeddled, Checking
  <2> QED
    BY <2>1, <2>2, <2>3 DEF Core, ExecutionInv, UnderReview
<1> QED
  BY <1>2, <1>4, <1>5 DEF EndCommand, m

\* What was verified is the tree that was found, and no other if nobody wrote.
LEMMA EndVerificationStep ==
  ASSUME ExecutionInv, EndVerification
  PROVE  ExecutionInv'
<1>1. /\ at # "idle" /\ Moves /\ published' = None /\ Good(mem, calls) /\ calls' = calls
      /\ Good(mem, calls') /\ at = "verified" /\ tree \in Trees
      /\ UNCHANGED <<tree, tested, meddled, looked>>
  BY AtWork DEF Work, EndVerification, world
<1>2. /\ Good(Adopts, calls) /\ Good(Adopts, calls')
      /\ Adopts.digest = tree /\ Adopts.verified = tree /\ Adopts.mode = mem.mode
      /\ Adopts.passed = (tested \in Passing)
  <2> DEFINE p == tested \in Passing
  <2>1. p \in BOOLEAN /\ Adopts = [mem EXCEPT !.digest = tree, !.verified = tree, !.passed = p]
    BY DEF Adopts
  <2>2. (tested \in Passing) = p
    OBVIOUS
  <2> HIDE DEF p
  <2>3. /\ Adopts \in Receipt /\ Adopts.digest = tree /\ Adopts.verified = tree
        /\ Adopts.mode = mem.mode /\ Adopts.passed = p /\ Adopts.by = mem.by
        /\ Adopts.state = mem.state /\ Adopts.turns = mem.turns
    BY <1>1, <2>1 DEF Good, Receipt
  <2> QED
    BY <1>1, <2>2, <2>3 DEF Good, OneReviewer
<1> DEFINE failed == Becomes(Adopts, "VERIFICATION_FAILED")
<1>3. Good(failed, calls') /\ Good(Invalidated(failed), calls')
  BY <1>2, GoodBecomes, GoodInvalidated, EndList
<1> HIDE DEF failed
<1>4. CASE Fails(mem, "AGENT_FAILED")
  BY <1>1, <1>4, EndList, FailedWell
<1>5. CASE Adopts.passed /\ Keep(Adopts, "review")
             /\ turn' = [turn EXCEPT !.of = IF mem.mode = "sol" THEN "sol" ELSE "terra"]
  <2>1. Core'
    BY <1>1, <1>2, <1>5, KeptWell DEF Steps
  <2>2. /\ at' = "review" /\ mem' = Adopts
        /\ turn'.of = IF mem.mode = "sol" THEN "sol" ELSE "terra"
    BY <1>5 DEF Keep, ExecutionInv, TypeOK
  <2>3. Tested(tree)'
    BY <1>1, <1>2, <1>5 DEF Tested, ExecutionInv, Unmeddled, Checking
  <2>4. mem.mode \in Modes
    BY <1>1 DEF Good, Receipt
  <2>5. turn'.of \in Required(mem'.mode) /\ (mem'.mode = "both" => turn'.of # "sol")
    BY <1>2, <2>2, <2>4 DEF Required, Modes, Reviewers
  <2>6. mem'.digest = tree' /\ Verified(mem')
    BY <1>1, <1>2, <1>5, <2>2 DEF Verified
  <2>7. mem'.digest # None
    BY <1>1, <2>6, TreesAssumption
  <2>8. Tested(mem.digest)'
    BY <2>3, <2>6 DEF Tested
  <2>9. Verified(mem)'
    BY <2>6 DEF Verified
  <2> QED
    BY <2>1, <2>2, <2>5, <2>7, <2>8, <2>9
       DEF Core, ExecutionInv, UnderReview, Unmeddled, Checking, Required, Reviewers
<1>6. CASE Leave(failed) \/ Leave(Invalidated(failed))
  BY <1>1, <1>3, <1>6, LeftWell, EndList DEF Good, Settled
<1>7. CASE Save(Becomes(Invalidated(failed), "TERRA_FIXING"), "implement")
  <2>1. Good(Becomes(Invalidated(failed), "TERRA_FIXING"), calls')
    BY <1>3, GoodBecomes, EndList
  <2>2. at' = "implement"
    BY <1>7 DEF Save
  <2> QED
    BY <1>1, <1>7, <2>1, <2>2, SavedWell, Onward DEF Steps
<1>8. CASE Leave(Becomes(Invalidated(failed), "BUDGET_EXHAUSTED"))
  <2> DEFINE i == Invalidated(failed)
             b == Becomes(i, "BUDGET_EXHAUSTED")
  <2>1. i \in Receipt /\ OneReviewer(i) /\ calls' <= i.turns /\ "BUDGET_EXHAUSTED" \in States
    BY <1>3, EndList DEF Good, Ends
  <2> HIDE DEF i
  <2>2. /\ b \in Receipt /\ OneReviewer(b) /\ calls' <= b.turns
        /\ b.state # "READY_FOR_PUBLISH"
    BY <2>1, BecomesFields DEF OneReviewer
  <2> HIDE DEF b
  <2>3. Leave(b)
    BY <1>8 DEF b, i
  <2> QED
    BY <1>1, <2>2, <2>3, LeftWell
<1> QED
  BY <1>4, <1>5, <1>6, <1>7, <1>8 DEF EndVerification, AfterFailedCommands, failed

\* Nothing of what is under review depends on the counts and the state of the receipt.
LEMMA StillUnderReview ==
  ASSUME Core', at' \in {"review", "reviewing"},
         mem'.digest # None, Verified(mem'), Tested(mem.digest)',
         turn'.of \in Required(mem'.mode),
         mem'.mode = "both" /\ turn'.of = "sol" =>
           ApprovedBy(mem', "terra") /\ looked'["terra"] = mem'.digest,
         at' = "reviewing" =>
           mem'.by[turn'.of].rounds < MaxReviews /\ looked'[turn'.of] = turn'.seen
  PROVE  ExecutionInv'
<1>1. UnderReview'
  BY DEF UnderReview, Verified, ApprovedBy, Required, Reviewers
<1> QED
  BY <1>1 DEF Core, ExecutionInv, Unmeddled, Checking

\* runReview, up to the turn: the reviewer is shown the tree as it is.
LEMMA BeginReviewStep ==
  ASSUME ExecutionInv, BeginReview
  PROVE  ExecutionInv'
<1>1. /\ at # "idle" /\ Moves /\ published' = None /\ Good(mem, calls) /\ calls \in Nat /\ Work
      /\ at = "review" /\ tree \in Trees /\ UNCHANGED <<tree, tested, meddled>>
  BY AtWork DEF Work, BeginReview, world
<1>2. /\ mem.digest # None /\ Verified(mem) /\ Tested(mem.digest)
      /\ turn.of \in Required(mem.mode) /\ turn.of \in Reviewers
      /\ mem.mode = "both" /\ turn.of = "sol" =>
           ApprovedBy(mem, "terra") /\ looked["terra"] = mem.digest
      /\ looked \in [Reviewers -> Trees \cup {None}]
  BY <1>1 DEF ExecutionInv, UnderReview, TypeOK
<1> DEFINE m == Becomes(mem, ReviewState)
<1>3. /\ Good(m, calls) /\ m.digest = mem.digest /\ m.by = mem.by /\ m.passed = mem.passed
      /\ m.verified = mem.verified /\ m.mode = mem.mode /\ m.turns = mem.turns
  BY <1>1, GoodBecomes, BecomesFields, EndList DEF ReviewState, Good
<1> HIDE DEF m
<1>4. CASE \/ GivesUp(m, "INTERRUPTED") \/ GivesUp(m, "FAILED")
           \/ GivesUp(m, "BUDGET_EXHAUSTED")
  BY <1>1, <1>3, <1>4, EndList, GivenUp
<1>5. ASSUME ReviewLeft(mem, turn.of)
      PROVE  /\ Good(Counted(m), calls + 1) /\ Good(Counted(m), calls)
             /\ mem.by[turn.of].rounds < MaxReviews
             /\ Counted(m).digest = mem.digest /\ Counted(m).by = mem.by
             /\ Counted(m).passed = mem.passed /\ Counted(m).verified = mem.verified
             /\ Counted(m).mode = mem.mode
  <2>1. TurnLeft(m) /\ m \in Receipt
    BY <1>3, <1>5 DEF ReviewLeft, TurnLeft, Good
  <2> QED
    BY <1>1, <1>3, <1>5, <2>1, GoodCounted DEF ReviewLeft, Counted, Receipt
<1>6. CASE ReviewLeft(mem, turn.of) /\ GivesUp(Counted(m), "AGENT_FAILED")
  BY <1>1, <1>5, <1>6, EndList, GivenUp
<1>7. CASE /\ ReviewLeft(mem, turn.of) /\ ~Damage /\ Asks(Counted(m), "reviewing", FALSE)
           /\ looked' = [looked EXCEPT ![turn.of] = tree]
  <2>1. /\ Save(Counted(m), "reviewing") /\ calls' = calls + 1
        /\ turn' = [turn EXCEPT !.seen = tree, !.again = FALSE]
    BY <1>7 DEF Asks, Damage
  <2>2. Core'
    BY <1>1, <1>5, <1>7, <2>1, SavedWell DEF Steps
  <2>3. at' = "reviewing" /\ mem' = Counted(m) /\ turn'.seen = tree /\ turn'.of = turn.of
    BY <2>1 DEF Save, ExecutionInv, TypeOK
  <2>4. looked'[turn.of] = tree /\ (turn.of = "sol" => looked'["terra"] = looked["terra"])
    BY <1>2, <1>7 DEF Reviewers
  <2>5. /\ mem'.digest = mem.digest /\ mem'.by = mem.by /\ mem'.passed = mem.passed
        /\ mem'.verified = mem.verified /\ mem'.mode = mem.mode
    BY <1>5, <1>7, <2>3
  <2>6. mem'.digest # None /\ Verified(mem') /\ Tested(mem.digest)'
    BY <1>1, <1>2, <2>5 DEF Verified, Tested
  <2>7. /\ turn'.of \in Required(mem'.mode)
        /\ mem'.mode = "both" /\ turn'.of = "sol" =>
             ApprovedBy(mem', "terra") /\ looked'["terra"] = mem'.digest
    BY <1>2, <2>3, <2>4, <2>5 DEF ApprovedBy
  <2>8. mem'.by[turn'.of].rounds < MaxReviews /\ looked'[turn'.of] = turn'.seen
    BY <1>5, <1>7, <2>3, <2>4, <2>5
  <2> QED
    BY <2>2, <2>3, <2>6, <2>7, <2>8, StillUnderReview
<1> QED
  BY <1>4, <1>6, <1>7 DEF BeginReview, m

\* A reviewer asked again is asked about the same tree.
LEMMA ReviewAskedAgain ==
  ASSUME ExecutionInv, EndReview, AskAgain
  PROVE  ExecutionInv'
<1>1. /\ at # "idle" /\ Moves /\ published' = None /\ Good(mem, calls) /\ calls \in Nat /\ Work
      /\ at = "reviewing" /\ UNCHANGED <<tree, tested, meddled, looked>>
  BY AtWork DEF Work, EndReview
<1>2. /\ mem.digest # None /\ Verified(mem) /\ Tested(mem.digest)
      /\ turn.of \in Required(mem.mode)
      /\ mem.mode = "both" /\ turn.of = "sol" =>
           ApprovedBy(mem, "terra") /\ looked["terra"] = mem.digest
      /\ mem.by[turn.of].rounds < MaxReviews /\ looked[turn.of] = turn.seen
  BY <1>1 DEF ExecutionInv, UnderReview
<1>3. CASE GivesUp(mem, "AGENT_FAILED") \/ GivesUp(mem, "BUDGET_EXHAUSTED")
  BY <1>1, <1>3, EndList, GivenUp
<1>4. CASE outside # "bundle" /\ TurnLeft(mem) /\ Asks(Counted(mem), at, TRUE)
  <2>1. /\ Save(Counted(mem), "reviewing") /\ calls' = calls + 1
        /\ turn' = [turn EXCEPT !.seen = @, !.again = TRUE]
    BY <1>1, <1>4 DEF Asks
  <2>2. Good(Counted(mem), calls')
    BY <1>1, <1>4, <2>1, GoodCounted
  <2>3. Core'
    BY <1>1, <2>1, <2>2, SavedWell DEF Steps
  <2>4. at' = "reviewing" /\ mem' = Counted(mem) /\ turn'.seen = turn.seen /\ turn'.of = turn.of
    BY <2>1 DEF Save, ExecutionInv, TypeOK
  <2>5. /\ mem'.digest = mem.digest /\ mem'.by = mem.by /\ mem'.passed = mem.passed
        /\ mem'.verified = mem.verified /\ mem'.mode = mem.mode
    BY <1>1, <2>4 DEF Counted, Good, Receipt
  <2>6. mem'.digest # None /\ Verified(mem') /\ Tested(mem.digest)'
    BY <1>1, <1>2, <2>5 DEF Verified, Tested
  <2>7. /\ turn'.of \in Required(mem'.mode)
        /\ mem'.mode = "both" /\ turn'.of = "sol" =>
             ApprovedBy(mem', "terra") /\ looked'["terra"] = mem'.digest
        /\ mem'.by[turn'.of].rounds < MaxReviews /\ looked'[turn'.of] = turn'.seen
    BY <1>1, <1>2, <2>4, <2>5 DEF ApprovedBy
  <2> QED
    BY <2>3, <2>4, <2>6, <2>7, StillUnderReview
<1> QED
  BY <1>3, <1>4 DEF AskAgain

\* A review is counted for its reviewer, who looked at the tree it is about.
LEMMA EndReviewStep ==
  ASSUME ExecutionInv, EndReview
  PROVE  ExecutionInv'
<1>1. /\ at # "idle" /\ Moves /\ published' = None /\ Good(mem, calls) /\ calls \in Nat /\ Work
      /\ at = "reviewing" /\ tree \in Trees /\ UNCHANGED <<tree, tested, meddled, looked>>
  BY AtWork DEF Work, EndReview
<1>2. /\ mem.digest # None /\ Verified(mem) /\ Tested(mem.digest)
      /\ turn.of \in Required(mem.mode) /\ turn.of \in Reviewers
      /\ mem.mode = "both" /\ turn.of = "sol" =>
           ApprovedBy(mem, "terra") /\ looked["terra"] = mem.digest
      /\ mem.by[turn.of].rounds < MaxReviews /\ looked[turn.of] = turn.seen
  BY <1>1 DEF ExecutionInv, UnderReview, TypeOK
<1>3. CASE TurnFails
  BY <1>1, <1>3, TurnFailsStep
<1>4. CASE AskAgain
  BY <1>4, ReviewAskedAgain
<1>5. CASE calls' = calls /\ (Fails(mem, "AGENT_FAILED") \/ Fails(mem, "FAILED"))
  BY <1>1, <1>5, EndList, FailedWell
<1>6. ASSUME NEW verdict \in {"APPROVE", "REVISE", "REPLAN", "ESCALATE"},
             NEW named \in {tree, Base}, tree = turn.seen, tree = mem.digest,
             Save(Judged(verdict, named), "conclude"), Same, calls' = calls
      PROVE  ExecutionInv'
  <2> DEFINE j == Judged(verdict, named)
             o == turn.of
  <2>1. /\ mem \in Receipt /\ OneReviewer(mem) /\ mem.state \notin Settled
        /\ calls <= mem.turns /\ mem.by[o] \in Review /\ mem.by \in [Reviewers -> Review]
    BY <1>1, <1>2 DEF Good, Receipt
  <2>2. mem.by[o].rounds + 1 \in 0..MaxReviews /\ mem.by[o].rounds + 1 > 0
    BY <1>2, <2>1, LimitsAssumption DEF Review
  <2> DEFINE new == [rounds |-> mem.by[o].rounds + 1, verdict |-> verdict, tree |-> named]
  <2>3. new \in Review
    BY <1>1, <2>2, TreesAssumption DEF Review
  <2>4. j = [mem EXCEPT !.by = [mem.by EXCEPT ![o] = new]]
    BY <2>1 DEF Judged, Receipt
  <2>5. new.rounds > 0 /\ new.verdict # None
    BY <2>2, VerdictAssumption
  <2> HIDE DEF new, j, o
  <2>6. /\ j \in Receipt /\ j.by = [mem.by EXCEPT ![o] = new] /\ j.mode = mem.mode
        /\ j.state = mem.state /\ j.turns = mem.turns /\ j.digest = mem.digest
        /\ j.passed = mem.passed /\ j.verified = mem.verified
    BY <2>1, <2>3, <2>4 DEF Receipt
  <2>7. j.by[o] = new /\ \A r \in Reviewers \ {o} : j.by[r] = mem.by[r]
    BY <1>2, <2>1, <2>6 DEF o
  <2>8. Good(j, calls')
    <3>1. OneReviewer(j)
      BY <1>2, <2>1, <2>6, <2>7 DEF OneReviewer, Required, o
    <3> QED
      BY <1>6, <2>1, <2>6, <3>1 DEF Good
  <2>9. Core'
    BY <1>1, <1>6, <2>8, SavedWell DEF Steps, j
  <2>10. at' = "conclude" /\ mem' = j /\ turn'.of = o
    BY <1>6 DEF Save, Same, ExecutionInv, TypeOK, j, o
  <2>11. mem'.digest # None /\ Verified(mem)' /\ Tested(mem.digest)'
    BY <1>1, <1>2, <2>6, <2>10 DEF Verified, Tested
  <2>12. /\ turn'.of \in Required(mem'.mode) /\ looked'[turn'.of] = mem'.digest
         /\ mem'.by[turn'.of].rounds > 0 /\ mem'.by[turn'.of].verdict # None
    BY <1>1, <1>2, <1>6, <2>5, <2>6, <2>7, <2>10 DEF o
  <2>13. mem'.mode = "both" /\ turn'.of = "sol" =>
           ApprovedBy(mem, "terra")' /\ looked'["terra"] = mem'.digest
    BY <1>1, <1>2, <2>6, <2>7, <2>10 DEF ApprovedBy, o, Reviewers
  <2>14. UnderReview'
    BY <2>10, <2>11, <2>12, <2>13 DEF UnderReview, Required, Reviewers
  <2> QED
    BY <2>9, <2>10, <2>14 DEF Core, ExecutionInv, Unmeddled, Checking
<1> QED
  BY <1>3, <1>4, <1>5, <1>6 DEF EndReview

\* Only a change that its reviewers have all approved ends READY.
LEMMA ReadyWell ==
  ASSUME ExecutionInv, Work, at = "conclude", UNCHANGED <<world, told>>,
         mem.by[turn.of].tree = mem.digest,
         mem.by[turn.of].verdict \notin {"REVISE", "REPLAN", "ESCALATE"},
         ~(mem.mode = "both" /\ turn.of = "terra"),
         MoveAndLeave(mem, "READY_FOR_PUBLISH")
  PROVE  ExecutionInv'
<1>1. /\ Moves /\ published' = None /\ Good(mem, calls) /\ calls' = calls /\ mem \in Receipt
      /\ OneReviewer(mem) /\ calls <= mem.turns
      /\ UNCHANGED <<tree, tested, meddled, looked>>
  BY AtWork DEF told, world, Good
<1>2. /\ mem.digest # None /\ Verified(mem) /\ Tested(mem.digest)
      /\ turn.of \in Required(mem.mode) /\ turn.of \in Reviewers
      /\ mem.mode = "both" /\ turn.of = "sol" =>
           ApprovedBy(mem, "terra") /\ looked["terra"] = mem.digest
      /\ looked[turn.of] = mem.digest
      /\ mem.by[turn.of].rounds > 0 /\ mem.by[turn.of].verdict # None
  BY DEF ExecutionInv, UnderReview, TypeOK
<1> DEFINE m == Becomes(mem, "READY_FOR_PUBLISH")
<1>3. /\ m \in Receipt /\ m.state = "READY_FOR_PUBLISH" /\ m.mode = mem.mode
      /\ m.by = mem.by /\ m.digest = mem.digest /\ m.passed = mem.passed
      /\ m.verified = mem.verified /\ m.turns = mem.turns
  BY <1>1, BecomesFields DEF States, Settled
<1> HIDE DEF m
<1>4. Leave(m)
  <2>1. CASE journal = "torn"
    <3>1. [m EXCEPT !.state = IF @ \in Working \cup {"FAILED"} THEN "FAILED" ELSE @] = m
      BY <1>3 DEF Receipt, Working
    <3> QED
      BY <2>1, <3>1 DEF MoveAndLeave, Fails, m
  <2>2. CASE journal # "torn"
    BY <2>2 DEF MoveAndLeave, m
  <2> QED
    BY <2>1, <2>2
<1>5. disk' = m /\ mem' = None /\ at' = "idle" /\ lock' = "free" /\ disk' # None
  BY <1>3, <1>4, ReceiptAssumption DEF Leave
<1>6. ApprovedBy(mem, turn.of)
  <2>1. mem.by[turn.of].verdict = "APPROVE"
    BY <1>1, <1>2 DEF Receipt, Review
  <2> QED
    BY <1>2, <2>1 DEF ApprovedBy
<1>7. \A r \in Required(mem.mode) : ApprovedBy(mem, r) /\ looked[r] = mem.digest
  <2>1. mem.mode \in Modes
    BY <1>1 DEF Receipt
  <2> QED
    BY <1>2, <1>6, <2>1 DEF Required, Modes, Reviewers
<1>8. /\ disk'.digest # None /\ disk'.passed /\ disk'.verified = disk'.digest
      /\ \A r \in Required(disk'.mode) :
           /\ disk'.by[r].rounds > 0 /\ disk'.by[r].verdict = "APPROVE"
           /\ disk'.by[r].tree = disk'.digest /\ looked'[r] = disk'.digest
  <2>1. /\ disk'.digest = mem.digest /\ disk'.passed = mem.passed
        /\ disk'.verified = mem.verified /\ disk'.mode = mem.mode /\ disk'.by = mem.by
    BY <1>3, <1>5
  <2>2. looked' = looked
    BY <1>1
  <2>3. mem.digest # None /\ mem.passed /\ mem.verified = mem.digest
    BY <1>2 DEF Verified
  <2>4. \A r \in Required(mem.mode) :
          /\ mem.by[r].rounds > 0 /\ mem.by[r].verdict = "APPROVE"
          /\ mem.by[r].tree = mem.digest /\ looked[r] = mem.digest
    BY <1>7 DEF ApprovedBy
  <2> QED
    BY <2>1, <2>2, <2>3, <2>4
<1>9. ReadyIsEarned'
  <2>1. Complete(disk)'
    BY <1>8 DEF Complete, Verified, ApprovedBy, Required, Reviewers
  <2>2. \A r \in Required(disk'.mode) : looked'[r] = disk'.digest
    BY <1>8
  <2>3. ~meddled' => tested' = disk'.digest /\ disk'.digest \in Within \cap Passing
    BY <1>1, <1>2, <1>3, <1>5 DEF Tested
  <2> QED
    BY <1>1, <2>1, <2>2, <2>3 DEF ReadyIsEarned, Required, Reviewers
<1>10. TypeOK'
  BY <1>1, <1>3, <1>5 DEF Moves, TypeOK
<1>11. CallHolds'
  BY <1>1, <1>3, <1>5 DEF CallHolds, OneReviewer, Reviewers
<1>12. TurnsAreCounted'
  BY <1>1, <1>3, <1>5 DEF TurnsAreCounted
<1> QED
  BY <1>1, <1>5, <1>9, <1>10, <1>11, <1>12
     DEF ExecutionInv, Unmeddled, UnderReview, PublishedIsLast, Checking

\* What follows from a review.
LEMMA ConcludeStep ==
  ASSUME ExecutionInv, Conclude
  PROVE  ExecutionInv'
<1>1. /\ at # "idle" /\ Moves /\ published' = None /\ Good(mem, calls) /\ calls' = calls /\ Work
      /\ Good(mem, calls') /\ at = "conclude" /\ UNCHANGED <<world, told>>
      /\ UNCHANGED <<tree, tested, meddled, looked>>
  BY AtWork DEF Work, Conclude, told, world
<1>2. CASE Fails(mem, "AGENT_FAILED") \/ Fails(mem, "FAILED")
  BY <1>1, <1>2, EndList, FailedWell
<1>3. CASE Move(Invalidated(mem), "TERRA_FIXING", "implement")
  BY <1>1, <1>3, GoodInvalidated, EndList, MovedWell
<1>4. CASE MoveAndLeave(mem, "WEB_REVIEW_REQUIRED") \/ MoveAndLeave(mem, "HUMAN_REQUIRED")
  BY <1>1, <1>4, EndList, MovedAway
<1>5. CASE /\ mem.by[turn.of].tree = mem.digest
           /\ mem.by[turn.of].verdict \notin {"REVISE", "REPLAN", "ESCALATE"}
           /\ mem.mode = "both" /\ turn.of = "terra"
           /\ Keep(mem, "review") /\ turn' = [turn EXCEPT !.of = "sol"]
  <2>1. Core'
    BY <1>1, <1>5, KeptWell DEF Steps
  <2>2. at' = "review" /\ mem' = mem /\ turn'.of = "sol"
    BY <1>5 DEF Keep, ExecutionInv, TypeOK
  <2>3. /\ mem.digest # None /\ Verified(mem) /\ Tested(mem.digest)
        /\ looked["terra"] = mem.digest
        /\ mem.by["terra"].rounds > 0 /\ mem.by["terra"].verdict # None
    BY <1>1, <1>5 DEF ExecutionInv, UnderReview
  <2>4. ApprovedBy(mem, "terra")
    <3>1. mem.by["terra"].verdict = "APPROVE"
      BY <1>1, <1>5, <2>3 DEF Good, Receipt, Review, Reviewers
    <3> QED
      BY <1>5, <2>3, <3>1 DEF ApprovedBy
  <2>5. mem'.digest # None /\ Verified(mem') /\ Tested(mem.digest)'
    BY <1>1, <2>2, <2>3 DEF Verified, Tested
  <2>6. turn'.of \in Required(mem'.mode) /\ ApprovedBy(mem', "terra")
          /\ looked'["terra"] = mem'.digest
    BY <1>1, <1>5, <2>2, <2>3, <2>4 DEF Required, Reviewers, ApprovedBy
  <2> QED
    BY <2>1, <2>2, <2>5, <2>6, StillUnderReview
<1>6. CASE /\ mem.by[turn.of].tree = mem.digest
           /\ mem.by[turn.of].verdict \notin {"REVISE", "REPLAN", "ESCALATE"}
           /\ ~(mem.mode = "both" /\ turn.of = "terra")
           /\ MoveAndLeave(mem, "READY_FOR_PUBLISH")
  BY <1>1, <1>6, ReadyWell
<1> QED
  BY <1>2, <1>3, <1>4, <1>5, <1>6 DEF Conclude

LEMMA WorkStep == ASSUME ExecutionInv, Work PROVE ExecutionInv'
BY ResumeStep, BeginAssessmentStep, EndAssessmentStep, BeginImplementationStep,
   EndImplementationStep, CheckPolicyStep, BeginCommandStep, EndCommandStep,
   EndVerificationStep, BeginReviewStep, EndReviewStep, ConcludeStep DEF Work

-----------------------------------------------------------------------------
(* A new call, publication, and what happens around the call.              *)

\* The receipt a call finds, and what it makes of it for its own selection.
LEMMA FoundFields ==
  ASSUME ExecutionInv, at = "idle", NEW selection \in Modes
  PROVE  /\ Found(selection) \in Receipt /\ OneReviewer(Found(selection))
         /\ calls <= Found(selection).turns
         /\ disk # None => Found(selection) = disk
         /\ Found(selection).state = "READY_FOR_PUBLISH" => disk # None
<1>1. CASE disk = None
  <2>1. Found(selection) = Initial(selection)
    BY <1>1 DEF Found
  <2> DEFINE none == [rounds |-> 0, verdict |-> None, tree |-> None]
  <2>2. none \in Review /\ none.rounds = 0
    BY LimitsAssumption DEF Review
  <2> HIDE DEF none
  <2>3. Initial(selection) =
          [state |-> "READY_FOR_CODEX", mode |-> selection, digest |-> None, passed |-> FALSE,
           verified |-> None, by |-> [r \in Reviewers |-> none], iterations |-> 0, turns |-> 0]
    BY DEF Initial, none
  <2>4. /\ Initial(selection) \in Receipt /\ OneReviewer(Initial(selection))
        /\ Initial(selection).turns = 0 /\ Initial(selection).state = "READY_FOR_CODEX"
    BY <2>2, <2>3, LimitsAssumption DEF Receipt, States, Working, OneReviewer
  <2> QED
    BY <1>1, <2>1, <2>4 DEF ExecutionInv, TurnsAreCounted
<1>2. CASE disk # None
  BY <1>2 DEF Found, ExecutionInv, TypeOK, TurnsAreCounted, CallHolds
<1> QED
  BY <1>1, <1>2

\* A call that was let in works with its own selection.
LEMMA AdmittedFields ==
  ASSUME ExecutionInv, at = "idle", NEW selection \in Modes,
         Admits(Found(selection), selection)
  PROVE  LET m == [Found(selection) EXCEPT !.mode = selection]
         IN  /\ m \in Receipt /\ OneReviewer(m) /\ m.state = Found(selection).state
             /\ calls <= m.turns /\ m.turns = Found(selection).turns
             /\ m.state = "READY_FOR_PUBLISH" => m = Found(selection)
<1> DEFINE f == Found(selection)
           m == [f EXCEPT !.mode = selection]
<1>1. /\ f \in Receipt /\ OneReviewer(f) /\ calls <= f.turns
      /\ \/ selection = f.mode
         \/ f.mode = "both" /\ f.state # "READY_FOR_PUBLISH" /\ \A r \in Reviewers : f.by[r].rounds = 0
  BY FoundFields DEF Admits
<1> HIDE DEF f
<1>2. /\ m \in Receipt /\ m.mode = selection /\ m.by = f.by /\ m.state = f.state
      /\ m.turns = f.turns
  BY <1>1 DEF Receipt
<1>3. selection = f.mode => m = f
  BY <1>1 DEF Receipt
<1>4. OneReviewer(m)
  BY <1>1, <1>2 DEF OneReviewer
<1> QED
  BY <1>1, <1>2, <1>3, <1>4 DEF f

\* A call that ends at once leaves what was READY as it was.
LEMMA IdleWell ==
  ASSUME ExecutionInv, at = "idle", UNCHANGED <<journal, world, told>>,
         NEW m \in Receipt, Leave(m), OneReviewer(m), calls <= m.turns,
         m.state = "READY_FOR_PUBLISH" => m = disk
  PROVE  ExecutionInv'
<1>1. /\ disk' = m /\ mem' = None /\ at' = "idle" /\ lock' = "free" /\ disk' # None
      /\ turn' = NoTurn
  BY ReceiptAssumption DEF Leave
<1>2. UNCHANGED <<tree, outside, late, trouble, calls, tested, looked, meddled, published>>
  BY DEF world, told
<1>3. TypeOK'
  BY <1>1, <1>2 DEF ExecutionInv, TypeOK, NoTurn, Reviewers
<1>4. TurnsAreCounted' /\ CallHolds'
  BY <1>1, <1>2 DEF TurnsAreCounted, CallHolds, OneReviewer, Reviewers
<1>5. ReadyIsEarned'
  <2>1. CASE m.state = "READY_FOR_PUBLISH"
    <3>1. disk' = disk
      BY <1>1, <2>1
    <3> QED
      BY <1>2, <3>1 DEF ExecutionInv, ReadyIsEarned, Complete, Verified, ApprovedBy, Required,
         Reviewers
  <2>2. CASE m.state # "READY_FOR_PUBLISH"
    BY <1>1, <1>2, <2>2 DEF ExecutionInv, ReadyIsEarned, Reviewers
  <2> QED
    BY <2>1, <2>2
<1>6. PublishedIsLast'
  BY <1>1, <1>2 DEF ExecutionInv, PublishedIsLast
<1> QED
  BY <1>1, <1>3, <1>4, <1>5, <1>6 DEF ExecutionInv, Unmeddled, UnderReview, Checking

\* So does one that fails.
LEMMA IdleFails ==
  ASSUME ExecutionInv, at = "idle", UNCHANGED <<journal, world, told>>,
         NEW m \in Receipt, OneReviewer(m), calls <= m.turns, NEW end \in Ends, Fails(m, end),
         m.state = "READY_FOR_PUBLISH" => m = disk
  PROVE  ExecutionInv'
<1> DEFINE f == [m EXCEPT !.state = IF @ \in Working \cup {"FAILED"} THEN end ELSE @]
<1>1. /\ f \in Receipt /\ f.by = m.by /\ f.mode = m.mode /\ f.turns = m.turns
      /\ f.state = "READY_FOR_PUBLISH" => m.state = "READY_FOR_PUBLISH"
  BY DEF Receipt, Ends
<1>2. m.state = "READY_FOR_PUBLISH" => f = m
  BY DEF Receipt, Working
<1>3. Leave(f)
  BY DEF Fails
<1> HIDE DEF f
<1> QED
  BY <1>1, <1>2, <1>3, IdleWell DEF OneReviewer

\* A call that goes on holds the lock and the receipt.
LEMMA StartsWell ==
  ASSUME ExecutionInv, at = "idle", UNCHANGED <<journal, world, told>>, ~Damage,
         NEW m \in Receipt, OneReviewer(m), calls <= m.turns, NEW to \in States \ Settled,
         Starts(m, to)
  PROVE  ExecutionInv'
<1> DEFINE b == Becomes(m, to)
<1>1. /\ b \in Receipt /\ b.state = to /\ b.mode = m.mode /\ b.by = m.by /\ b.turns = m.turns
      /\ to # "READY_FOR_PUBLISH"
  BY BecomesFields DEF Settled
<1> HIDE DEF b
<1>2. CASE Fails(b, "FAILED")
  BY <1>1, <1>2, EndList, IdleFails DEF OneReviewer
<1>3. CASE disk' = b /\ mem' = disk' /\ at' = "resume" /\ lock' = "held" /\ turn' = NoTurn
  <2>1. UNCHANGED <<tree, outside, late, trouble, calls, tested, looked, meddled, published>>
    BY DEF world, told
  <2>2. published = None /\ disk' # None
    BY <1>1, <1>3, ReceiptAssumption DEF ExecutionInv, PublishedIsLast, Damage
  <2>3. TypeOK'
    BY <1>1, <1>3, <2>1 DEF ExecutionInv, TypeOK, NoTurn, Reviewers
  <2>4. TurnsAreCounted' /\ CallHolds'
    BY <1>1, <1>3, <2>1, <2>2 DEF TurnsAreCounted, CallHolds, OneReviewer, Reviewers
  <2>5. ReadyIsEarned' /\ PublishedIsLast'
    BY <1>1, <1>3, <2>1, <2>2 DEF ReadyIsEarned, PublishedIsLast
  <2> QED
    BY <1>3, <2>3, <2>4, <2>5, Onward DEF Core
<1> QED
  BY <1>2, <1>3 DEF Starts, b

\* executeRun: the lock, the receipt and the gates before any work.
LEMMA CallStep ==
  ASSUME ExecutionInv, NEW selection \in Modes, Call(selection)
  PROVE  ExecutionInv'
<1> DEFINE f == Found(selection)
           m == [f EXCEPT !.mode = selection]
<1>1. /\ at = "idle" /\ UNCHANGED <<journal, world, told>> /\ tree \in Trees
  BY DEF Call, ExecutionInv, TypeOK
<1>2. /\ f \in Receipt /\ OneReviewer(f) /\ calls <= f.turns /\ (disk # None => f = disk)
      /\ (f.state = "READY_FOR_PUBLISH" => disk # None)
  BY <1>1, FoundFields
<1>3. CASE ~Admits(f, selection)
  <2>1. Fails(f, "FAILED")
    BY <1>3 DEF Call
  <2> HIDE DEF f
  <2> QED
    BY <1>1, <1>2, <2>1, EndList, IdleFails
<1>4. CASE Admits(f, selection)
  <2>1. /\ m \in Receipt /\ OneReviewer(m) /\ m.state = f.state /\ calls <= m.turns
        /\ m.state = "READY_FOR_PUBLISH" => m = f
    BY <1>1, <1>4, AdmittedFields
  <2>2. \/ \E end \in {"INTERRUPTED", "AGENT_FAILED", "FAILED"} : Fails(m, end)
        \/ m.state \in Settled /\ Leave(disk)
        \/ m.state \notin Settled /\ ~Damage /\
             \E x \in {m, Reconciled(m)} : \E to \in {"CODEX_PREFLIGHT", "TERRA_FIXING", m.state} :
               Starts(x, to)
    BY <1>4 DEF Call
  <2> HIDE DEF m, f
  <2>3. CASE \E end \in {"INTERRUPTED", "AGENT_FAILED", "FAILED"} : Fails(m, end)
    BY <1>1, <1>2, <2>1, <2>3, EndList, IdleFails
  <2>4. CASE m.state \in Settled /\ Leave(disk)
    <3>1. disk \in Receipt
      <4>1. CASE disk = None
        <5>1. f = Initial(selection)
          BY <4>1 DEF f, Found
        <5> QED
          BY <2>1, <2>4, <5>1 DEF Initial, Settled
      <4>2. CASE disk # None
        BY <1>2, <4>2
      <4> QED
        BY <4>1, <4>2
    <3>2. disk # None
      BY <3>1, ReceiptAssumption
    <3> QED
      BY <1>1, <1>2, <2>4, <3>1, <3>2, IdleWell
  <2>5. ASSUME m.state \notin Settled, ~Damage, NEW x \in {m, Reconciled(m)},
               NEW to \in {"CODEX_PREFLIGHT", "TERRA_FIXING", m.state}, Starts(x, to)
        PROVE  ExecutionInv'
    <3>1. to \in States \ Settled
      BY <2>1, <2>5, EndList DEF Receipt
    <3>2. x \in Receipt /\ OneReviewer(x) /\ calls <= x.turns
      <4>1. CASE x = m
        BY <2>1, <4>1
      <4>2. CASE x = Reconciled(m)
        <5> DEFINE i == Invalidated(m)
        <5>1. /\ i \in Receipt /\ i.mode = m.mode /\ i.turns = m.turns
              /\ \A r \in Reviewers : i.by[r].rounds = m.by[r].rounds
          BY <2>1, InvalidatedFields
        <5> HIDE DEF i
        <5>2. LET d == [i EXCEPT !.digest = tree]
              IN  d \in Receipt /\ OneReviewer(d) /\ calls <= d.turns
          BY <1>1, <2>1, <5>1 DEF Receipt, OneReviewer
        <5> QED
          BY <2>1, <4>2, <5>2 DEF Reconciled, i
      <4> QED
        BY <4>1, <4>2
    <3> QED
      BY <1>1, <2>5, <3>1, <3>2, StartsWell
  <2> QED
    BY <2>2, <2>3, <2>4, <2>5
<1> QED
  BY <1>3, <1>4

\* Publication asks for both approvals, of the one tree it finds.
LEMMA PublishStep ==
  ASSUME ExecutionInv, Publish
  PROVE  ExecutionInv'
<1>1. /\ at = "idle" /\ disk \in Receipt /\ disk.state = "READY_FOR_PUBLISH"
      /\ tree = disk.digest /\ tree \in Trees /\ published' = tree /\ outside' = "refs"
      /\ UNCHANGED <<disk, journal, lock, at, mem, turn, tree, late, trouble, calls, tested,
                     looked, meddled>>
      /\ \A r \in Reviewers : disk.by[r].rounds > 0
  BY DEF Publish, ExactlyApproved, ApprovedBy, ExecutionInv, TypeOK
<1>2. disk.mode = "both"
  <2>1. disk.mode \in Modes /\ OneReviewer(disk) /\ disk.by \in [Reviewers -> Review]
    BY <1>1, ReceiptAssumption DEF ExecutionInv, CallHolds, Receipt
  <2>2. ASSUME NEW r \in Reviewers, r # disk.mode, disk.mode # "both" PROVE FALSE
    <3>1. disk.by[r].rounds = 0
      BY <2>1, <2>2 DEF OneReviewer
    <3> QED
      BY <1>1, <2>2, <3>1
  <2> QED
    BY <2>1, <2>2 DEF Modes, Reviewers
<1>3. \A r \in Reviewers : looked[r] = tree
  BY <1>1, <1>2, ReceiptAssumption DEF ExecutionInv, ReadyIsEarned, Required
<1>4. TypeOK'
  BY <1>1 DEF ExecutionInv, TypeOK
<1>5. ReadyIsEarned'
  BY <1>1, <1>3 DEF ExecutionInv, ReadyIsEarned, Complete, Verified, ApprovedBy, Required,
     Reviewers
<1>6. TurnsAreCounted' /\ CallHolds'
  BY <1>1 DEF ExecutionInv, TurnsAreCounted, CallHolds, OneReviewer, Reviewers
<1> QED
  BY <1>1, <1>4, <1>5, <1>6
     DEF ExecutionInv, PublishedIsLast, Unmeddled, UnderReview, Checking

\* What others write, edit, move or stop touches no receipt: an edit during the
\* verification is what Unmeddled speaks of.
LEMMA AroundStep ==
  ASSUME ExecutionInv, AgentWrites \/ AgentStops \/ Meddle
  PROVE  ExecutionInv'
<1> DEFINE others == <<disk, journal, lock, at, mem, turn, calls, tested, looked, published>>
<1>0. TypeOK /\ PublishedIsLast /\ MaxTrouble \in Nat
  BY PolicyAssumption DEF ExecutionInv
<1>1. /\ UNCHANGED others /\ tree' \in Trees /\ late' \in BOOLEAN /\ trouble' \in 0..MaxTrouble
      /\ outside' \in {"intact", "refs", "bundle"}
      /\ published # None => outside' = outside
  <2>1. CASE AgentWrites
    BY <1>0, <2>1 DEF AgentWrites, TypeOK
  <2>2. CASE AgentStops
    BY <1>0, <2>2 DEF AgentStops, told, TypeOK
  <2>3. CASE Meddle
    <3>1. UNCHANGED others /\ tree' \in Trees /\ late' \in BOOLEAN
      BY <1>0, <2>3 DEF Meddle, TypeOK
    <3>2. trouble' \in 0..MaxTrouble
      BY <1>0, <2>3 DEF Meddle, TypeOK
    <3>3. /\ outside' \in {"intact", "refs", "bundle"}
          /\ published # None => outside' = outside
      BY <1>0, <2>3 DEF Meddle, Damage, TypeOK, PublishedIsLast
    <3> QED
      BY <3>1, <3>2, <3>3
  <2> QED
    BY <2>1, <2>2, <2>3
<1>2. meddled' \in BOOLEAN /\ (meddled => meddled') /\ (at \in Checking /\ ~meddled' => tree' = tree)
  <2>1. CASE AgentWrites \/ Meddle
    <3>1. meddled' = (meddled \/ at \in Checking)
      BY <2>1 DEF AgentWrites, Meddle
    <3> QED
      BY <3>1
  <2>2. CASE AgentStops
    BY <1>0, <2>2 DEF AgentStops, told, TypeOK
  <2> QED
    BY <2>1, <2>2
<1>3. TypeOK'
  BY <1>1, <1>2 DEF ExecutionInv, TypeOK
<1>4. TurnsAreCounted' /\ CallHolds'
  BY <1>1 DEF ExecutionInv, TurnsAreCounted, CallHolds, OneReviewer, Reviewers
<1>5. Unmeddled'
  BY <1>1, <1>2 DEF ExecutionInv, Unmeddled, Checking
<1>6. UnderReview'
  <2>1. Tested(mem.digest) => Tested(mem.digest)'
    BY <1>1, <1>2 DEF Tested
  <2> QED
    BY <1>1, <2>1 DEF ExecutionInv, UnderReview, Verified, ApprovedBy, Required, Reviewers
<1>7. ReadyIsEarned'
  BY <1>1, <1>2 DEF ExecutionInv, ReadyIsEarned, Complete, Verified, ApprovedBy, Required,
     Reviewers
<1>8. PublishedIsLast'
  BY <1>1, <1>2 DEF ExecutionInv, PublishedIsLast
<1> QED
  BY <1>3, <1>4, <1>5, <1>6, <1>7, <1>8 DEF ExecutionInv

\* A dead call leaves the receipt as it last wrote it, an operator its lock.
LEMMA CrashStep ==
  ASSUME ExecutionInv, Crash \/ RemoveLock
  PROVE  ExecutionInv'
<1>1. CASE Crash
  <2>1. /\ at # "idle" /\ at' = "idle" /\ mem' = None /\ lock' = "orphaned"
        /\ UNCHANGED <<disk, tree, outside, calls, tested, looked, meddled, published>>
        /\ turn' = NoTurn
    BY <1>1 DEF Crash, told
  <2>0. trouble' \in 0..MaxTrouble /\ late' \in BOOLEAN /\ journal' \in {"whole", "torn"}
    <3>1. trouble \in 0..MaxTrouble /\ late \in BOOLEAN /\ journal \in {"whole", "torn"}
      BY DEF ExecutionInv, TypeOK
    <3>2. trouble' \in 0..MaxTrouble
      BY <1>1, <3>1, PolicyAssumption DEF Crash
    <3>3. late' \in BOOLEAN
      <4> DEFINE asked == at \in {"assessing", "implementing", "reviewing"}
      <4>1. asked \in BOOLEAN
        OBVIOUS
      <4>2. late' \in {late, asked}
        BY <1>1 DEF Crash
      <4> HIDE DEF asked
      <4> QED
        BY <3>1, <4>1, <4>2
    <3> QED
      BY <1>1, <3>1, <3>2, <3>3 DEF Crash
  <2>2. TypeOK'
    BY <2>0, <2>1 DEF ExecutionInv, TypeOK, NoTurn, Reviewers
  <2>3. TurnsAreCounted' /\ CallHolds'
    BY <2>1 DEF ExecutionInv, TurnsAreCounted, CallHolds, OneReviewer, Reviewers
  <2>4. ReadyIsEarned'
    BY <2>1 DEF ExecutionInv, ReadyIsEarned, Complete, Verified, ApprovedBy, Required,
       Reviewers
  <2> QED
    BY <2>1, <2>2, <2>3, <2>4
       DEF ExecutionInv, PublishedIsLast, Unmeddled, UnderReview, Checking
<1>2. CASE RemoveLock
  <2>1. /\ lock = "orphaned" /\ lock' = "free"
        /\ UNCHANGED <<disk, journal, at, mem, turn, tree, outside, late, trouble, calls,
                       tested, looked, meddled, published>>
    BY <1>2 DEF RemoveLock, world, told
  <2>2. at = "idle"
    BY <2>1 DEF ExecutionInv, CallHolds
  <2>3. TypeOK'
    BY <2>1 DEF ExecutionInv, TypeOK
  <2>4. TurnsAreCounted' /\ CallHolds'
    BY <2>1, <2>2 DEF ExecutionInv, TurnsAreCounted, CallHolds, OneReviewer, Reviewers
  <2>5. ReadyIsEarned'
    BY <2>1 DEF ExecutionInv, ReadyIsEarned, Complete, Verified, ApprovedBy, Required,
       Reviewers
  <2> QED
    BY <2>1, <2>2, <2>3, <2>4, <2>5
       DEF ExecutionInv, PublishedIsLast, Unmeddled, UnderReview, Checking
<1> QED
  BY <1>1, <1>2

\* A stuttering step changes nothing.
LEMMA StillStep ==
  ASSUME ExecutionInv, UNCHANGED vars
  PROVE  ExecutionInv'
<1>1. UNCHANGED <<disk, journal, lock, at, mem, turn, tree, outside, late, trouble, calls,
                  tested, looked, meddled, published>>
  BY DEF vars, world, told
<1>2. TypeOK'
  BY <1>1 DEF ExecutionInv, TypeOK
<1>3. TurnsAreCounted' /\ CallHolds'
  BY <1>1 DEF ExecutionInv, TurnsAreCounted, CallHolds, OneReviewer, Reviewers
<1>4. Unmeddled' /\ UnderReview'
  BY <1>1 DEF ExecutionInv, Unmeddled, UnderReview, Checking, Verified, ApprovedBy, Required,
     Reviewers, Tested
<1>5. ReadyIsEarned' /\ PublishedIsLast'
  BY <1>1 DEF ExecutionInv, ReadyIsEarned, Complete, Verified, ApprovedBy, Required, Reviewers,
     PublishedIsLast
<1> QED
  BY <1>2, <1>3, <1>4, <1>5 DEF ExecutionInv

-----------------------------------------------------------------------------
(* The theorems.                                                           *)

LEMMA ExecutionStep == ExecutionInv /\ [Next]_vars => ExecutionInv'
BY WorkStep, PublishStep, CallStep, AroundStep, CrashStep, StillStep DEF Next

\* Every turn is counted on disk before it is asked, so the budget holds over all the
\* calls of a run, whatever dies; and what is READY was tested and approved as it is.
THEOREM ExecutionInvariant == Spec => []ExecutionInv
<1>1. Init => ExecutionInv
  <2> SUFFICES ASSUME Init PROVE ExecutionInv
    OBVIOUS
  <2>1. TypeOK
    <3>1. turn \in [seen : Trees \cup {None}, again : BOOLEAN, of : Reviewers]
      BY DEF Init, NoTurn, Reviewers
    <3>2. looked \in [Reviewers -> Trees \cup {None}]
      BY DEF Init
    <3>3. trouble \in 0..MaxTrouble /\ tree \in Trees
      BY TreesAssumption, PolicyAssumption DEF Init
    <3> QED
      BY <3>1, <3>2, <3>3 DEF Init, TypeOK
  <2> QED
    BY <2>1 DEF Init, ExecutionInv, TurnsAreCounted, CallHolds, Unmeddled, UnderReview,
       Checking, ReadyIsEarned, PublishedIsLast
<1> QED
  BY <1>1, ExecutionStep, PTL DEF Spec

\* A READY receipt is about one tree, shown to and approved by every reviewer its mode
\* asks for, and only that tree is published.
THEOREM ReadyWasEarned == Spec => []ReadyIsEarned
<1>1. ExecutionInv => ReadyIsEarned
  BY DEF ExecutionInv
<1> QED
  BY <1>1, ExecutionInvariant, PTL

\* No later call, error or foreign edit takes back what a run was settled on.
THEOREM WhatIsSettledStands == Spec => SettledStands
<1>1. ASSUME ExecutionInv, [Next]_vars, disk # None, disk.state \in Settled \ {"FAILED"}
      PROVE  /\ disk' # None /\ disk'.state = disk.state
             /\ disk.state = "READY_FOR_PUBLISH" => disk' = disk
  <2>1. at = "idle" /\ disk \in Receipt
    BY <1>1 DEF ExecutionInv, TypeOK, CallHolds
  <2>2. ASSUME NEW selection \in Modes, Call(selection)
        PROVE  /\ disk' # None /\ disk'.state = disk.state
               /\ disk.state = "READY_FOR_PUBLISH" => disk' = disk
    <3> DEFINE m == [disk EXCEPT !.mode = selection]
    <3>1. /\ Found(selection) = disk
          /\ m \in Receipt /\ m.state = disk.state
      BY <1>1, <2>1 DEF Found, Receipt
    <3>2. Admits(disk, selection) /\ disk.state = "READY_FOR_PUBLISH" => m = disk
      BY <2>1 DEF Admits, Receipt
    <3>3. \/ Fails(disk, "FAILED")
          \/ Admits(disk, selection) /\ \E end \in {"INTERRUPTED", "AGENT_FAILED", "FAILED"} : Fails(m, end)
          \/ Leave(disk)
      BY <1>1, <2>2, <3>1 DEF Call
    <3>4. ASSUME NEW x \in {disk, m}, NEW end, Fails(x, end)
          PROVE  disk' = x
      <4>1. x \in Receipt /\ x.state \notin Working \cup {"FAILED"}
        BY <1>1, <2>1, <3>1, <3>4 DEF Settled, Working
      <4>2. [x EXCEPT !.state = IF @ \in Working \cup {"FAILED"} THEN end ELSE @] = x
        BY <4>1 DEF Receipt
      <4> QED
        BY <3>4, <4>2 DEF Fails, Leave
    <3> HIDE DEF m
    <3>5. disk' \in {disk, m} /\ (disk.state = "READY_FOR_PUBLISH" => disk' = disk)
      BY <3>2, <3>3, <3>4 DEF Leave
    <3> QED
      BY <2>1, <3>1, <3>5, ReceiptAssumption
  <2>3. CASE ~\E selection \in Modes : Call(selection)
    <3>1. ~Work
      BY <1>1, <2>1, AtWork
    <3>2. disk' = disk
      BY <1>1, <2>3, <3>1 DEF Next, Publish, AgentWrites, AgentStops, Meddle, Crash, RemoveLock,
         vars
    <3> QED
      BY <1>1, <3>2
  <2> QED
    BY <2>2, <2>3
<1>2. ExecutionInv /\ [Next]_vars =>
        (disk # None /\ disk.state \in Settled \ {"FAILED"} =>
           disk' # None /\ disk'.state = disk.state
           /\ (disk.state = "READY_FOR_PUBLISH" => disk' = disk))
  BY <1>1
<1> QED
  BY <1>2, ExecutionInvariant, PTL DEF Spec, SettledStands
=============================================================================
