--------------------------- MODULE AgentExecution ---------------------------
(***************************************************************************)
(* The agent execution of one prepared run: assess, then implement, check  *)
(* the paths, verify and review until the change is approved or a limit or *)
(* an error ends it.  One call at a time holds the lock file; it works on  *)
(* a copy of the receipt and writes it back whole.  Agents, editors and    *)
(* others' git commands change the worktree at any moment, a call can die  *)
(* at any moment, and an agent whose turn timed out may still be writing.  *)
(***************************************************************************)
EXTENDS ExecutionGates

CONSTANTS
  Within,      \* trees the path policy allows
  Passing,     \* trees the required commands pass on
  MaxTrouble   \* crashes, foreign edits and damage to refs or bundle
ASSUME PolicyAssumption == Within \subseteq Trees /\ Passing \subseteq Trees /\ MaxTrouble \in Nat

VARIABLES
  disk,       \* the receipt file, or None
  journal,    \* "torn" once a dying process left half a line in it
  lock,       \* "free", "held" or "orphaned"
  at,         \* what the call that holds the lock does next
  mem,        \* its copy of the receipt
  turn,       \* the turn or command in progress: the tree it began with, whether it
              \* repeats one with invalid output, and whose review is next
  tree,       \* content of the worktree
  outside,    \* "intact", or what was changed: "refs" or "bundle"
  late,       \* an agent goes on after its turn was given up
  trouble,
  \* What happened, as no receipt tells it.
  calls,      \* turns asked of the agents
  tested,     \* the tree the required commands last ran on
  looked,     \* the tree each reviewer was last asked about
  meddled,    \* the tree changed between the policy check and the end of verification
  published   \* the tree that was published

world == <<tree, outside, late, trouble>>
told == <<calls, tested, looked, meddled, published>>
vars == <<disk, journal, lock, at, mem, turn, world, told>>

NoTurn == [seen |-> None, again |-> FALSE, of |-> "terra"]

Init ==
  /\ disk = None /\ mem = None /\ journal = "whole" /\ lock = "free" /\ at = "idle"
  /\ turn = NoTurn
  /\ tree = Base /\ outside = "intact" /\ late = FALSE /\ trouble = 0
  /\ calls = 0 /\ tested = None /\ looked = [r \in Reviewers |-> None]
  /\ meddled = FALSE /\ published = None

-----------------------------------------------------------------------------
\* How a step of the call ends.  The call leaves: the lock goes with it.
Leave(m) == disk' = m /\ mem' = None /\ at' = "idle" /\ lock' = "free" /\ turn' = NoTurn

Keep(m, next) == mem' = m /\ at' = next /\ UNCHANGED <<disk, lock>>
Save(m, next) == disk' = m /\ mem' = m /\ at' = next /\ UNCHANGED lock
Same == turn' = [turn EXCEPT !.seen = None, !.again = FALSE]

Becomes(m, to) == [m EXCEPT !.state = to]

\* Mutant: an error overwrites what a run was settled on.
FailsWhatever(m, end) == Leave(Becomes(m, end))

\* The error path closes a working receipt, whether the table allows it or not.
Fails(m, end) == Leave([m EXCEPT !.state = IF @ \in Working \cup {"FAILED"} THEN end ELSE @])

\* The state changes in memory, then the event and the receipt are written; a
\* torn journal takes no event.
Move(m, to, next) ==
  IF journal = "torn" THEN Fails(Becomes(m, to), "FAILED") ELSE Save(Becomes(m, to), next) /\ Same
MoveAndLeave(m, to) ==
  IF journal = "torn" THEN Fails(Becomes(m, to), "FAILED") ELSE Leave(Becomes(m, to))

\* The first step of an admitted call takes the lock.
Starts(m, to) ==
  IF journal = "torn" /\ to # m.state THEN Fails(Becomes(m, to), "FAILED")
  ELSE disk' = Becomes(m, to) /\ mem' = disk' /\ at' = "resume" /\ lock' = "held" /\ turn' = NoTurn

\* Reading the change set fails once HEAD left the base commit; the bundle is
\* compared with its first snapshot around every turn.
Moved == outside = "refs"
Damage == outside # "intact"

-----------------------------------------------------------------------------
\* A call takes the lock and reads the receipt.  It must fit the selection, the
\* bundle, the refs and the worktree; a settled run is handed back as it is, and
\* a READY one must be complete.
Found(selection) == IF disk = None THEN Initial(selection) ELSE disk
Reconciled(m) == IF m.digest \in {None, tree} THEN m ELSE [Invalidated(m) EXCEPT !.digest = tree]
Reopened == {"TERRA_REVIEWING", "SOL_REVIEWING", "VERIFYING", "VERIFICATION_FAILED"}
Fits(m) ==
  /\ m.digest = None => tree = Base
  /\ m.state = "READY_FOR_PUBLISH" => m.digest = tree /\ Complete(m)

Call(selection) ==
  LET found == Found(selection)
      m == [found EXCEPT !.mode = selection] IN
  /\ at = "idle" /\ lock = "free"
  /\ IF ~Admits(found, selection) THEN Fails(found, "FAILED")
     ELSE \/ Fails(m, "INTERRUPTED")
          \/ Damage /\ Fails(m, "AGENT_FAILED")
          \/ ~Damage /\ ~Fits(m) /\ Fails(m, "FAILED")
          \/ /\ ~Damage /\ Fits(m)
             /\ IF m.state \in Settled THEN Leave(disk)
                ELSE IF m.state = "READY_FOR_CODEX" THEN Starts(m, "CODEX_PREFLIGHT")
                ELSE IF m.digest \notin {None, tree} /\ m.state \in Reopened
                  THEN Starts(Reconciled(m), "TERRA_FIXING")
                ELSE Starts(Reconciled(m), m.state)
  /\ UNCHANGED <<journal, world, told>>

\* The runtime may be missing or slow.  A run found between its steps starts
\* again from fixing, whatever it was doing.
Resume ==
  /\ at = "resume"
  /\ \/ \E end \in {"FAILED", "AGENT_FAILED"} : Fails(mem, end)
     \/ /\ ~Moved
        /\ LET m == [mem EXCEPT !.digest = tree] IN
             CASE mem.state \in {"POLICY_CHECKING", "VERIFYING", "TERRA_REVIEWING",
                                 "SOL_REVIEWING", "VERIFICATION_FAILED", "AGENT_FAILED"} ->
                    Move(Invalidated(m), "TERRA_FIXING", "implement")
               [] mem.state = "INTERRUPTED" ->
                    IF tree = Base THEN Move(m, "CODEX_PREFLIGHT", "assess")
                    ELSE Move(m, "TERRA_FIXING", "implement")
               [] mem.state \in {"CODEX_PREFLIGHT", "TERRA_ASSESSING"} ->
                    Keep(m, "assess") /\ Same
               [] OTHER -> Keep(m, "implement") /\ Same
     \/ Moved /\ Fails(mem, "AGENT_FAILED")
  /\ UNCHANGED <<journal, world, told>>

-----------------------------------------------------------------------------
\* Mutant: the turn is counted in memory, and on disk with the next receipt.
AsksThenCounts(m, next, repeated) ==
  /\ mem' = m /\ at' = next /\ calls' = calls + 1 /\ UNCHANGED <<disk, lock>>
  /\ turn' = [turn EXCEPT !.seen = IF repeated THEN @ ELSE tree, !.again = repeated]

\* Every turn is counted in the receipt on disk before the agent is asked.
Asks(m, next, repeated) ==
  IF outside = "bundle" THEN Fails(m, "AGENT_FAILED") /\ UNCHANGED calls
  ELSE /\ Save(m, next) /\ calls' = calls + 1
       /\ turn' = [turn EXCEPT !.seen = IF repeated THEN @ ELSE tree, !.again = repeated]
Counted(m) == [m EXCEPT !.turns = @ + 1]
GivesUp(m, end) == Fails(m, end) /\ UNCHANGED calls

BeginAssessment ==
  LET m == [mem EXCEPT !.state = "TERRA_ASSESSING"] IN
  /\ at = "assess"
  /\ \/ GivesUp(mem, "INTERRUPTED")
     \/ /\ journal = "torn" /\ mem.state = "CODEX_PREFLIGHT" /\ GivesUp(m, "FAILED")
     \/ /\ journal = "whole" \/ mem.state = "TERRA_ASSESSING"
        /\ IF Damage THEN GivesUp(m, "AGENT_FAILED")
           ELSE IF ~TurnLeft(m) THEN GivesUp(m, "BUDGET_EXHAUSTED")
           ELSE Asks(Counted(m), "assessing", FALSE)
  /\ UNCHANGED <<journal, world, tested, looked, meddled, published>>

\* A failed turn, one that took too long, a cancelled one, and one whose output
\* is no answer: that one is asked again once, as a turn of its own.
TurnFails ==
  /\ \/ Fails(mem, "AGENT_FAILED") /\ late' \in BOOLEAN
     \/ Fails(mem, "INTERRUPTED") /\ late' \in BOOLEAN
     \/ /\ turn.again /\ Fails(mem, "AGENT_FAILED") /\ UNCHANGED late
     \/ Fails(mem, "BUDGET_EXHAUSTED") /\ UNCHANGED late
  /\ UNCHANGED calls

AskAgain ==
  /\ ~turn.again /\ UNCHANGED late
  /\ IF outside = "bundle" THEN GivesUp(mem, "AGENT_FAILED")
     ELSE IF ~TurnLeft(mem) THEN GivesUp(mem, "BUDGET_EXHAUSTED")
     ELSE Asks(Counted(mem), at, TRUE)

EndAssessment ==
  /\ at = "assessing"
  /\ \/ TurnFails
     \/ AskAgain
     \/ /\ Damage \/ tree # turn.seen
        /\ Fails(mem, "AGENT_FAILED") /\ UNCHANGED <<calls, late>>
     \/ /\ ~Damage /\ tree = turn.seen
        /\ \/ \E end \in {"REPLAN_REQUIRED", "HUMAN_REQUIRED", "POLICY_BLOCKED"} :
                MoveAndLeave(mem, end)
           \/ Move(mem, "TERRA_IMPLEMENTING", "implement")
        /\ UNCHANGED <<calls, late>>
  /\ UNCHANGED <<journal, tree, outside, trouble, tested, looked, meddled, published>>

\* The iteration is counted with its turn, before the turn is taken.
BeginImplementation ==
  LET m == [Counted(mem) EXCEPT !.iterations = @ + 1] IN
  /\ at = "implement"
  /\ \/ GivesUp(mem, "INTERRUPTED")
     \/ ~ImplementationLeft(mem) /\ GivesUp(mem, "BUDGET_EXHAUSTED")
     \/ /\ ImplementationLeft(mem)
        /\ IF journal = "torn" /\ mem.state = "TERRA_FIXING"
             THEN GivesUp([mem EXCEPT !.iterations = @ + 1], "FAILED")
             ELSE Asks(Becomes(m, "TERRA_IMPLEMENTING"), "implementing", FALSE)
  /\ tested' = None /\ looked' = [r \in Reviewers |-> None] /\ meddled' = FALSE
  /\ UNCHANGED <<journal, world, published>>

EndImplementation ==
  /\ at = "implementing"
  /\ \/ TurnFails
     \/ AskAgain
     \/ /\ outside = "bundle"
        /\ Fails(mem, "AGENT_FAILED") /\ UNCHANGED <<calls, late>>
     \/ /\ outside # "bundle"
        /\ \/ \E end \in {"REPLAN_REQUIRED", "HUMAN_REQUIRED", "POLICY_BLOCKED"} :
                MoveAndLeave(mem, end)
           \/ Save(mem, "policy") /\ Same
        /\ UNCHANGED <<calls, late>>
  /\ UNCHANGED <<journal, tree, outside, trouble, tested, looked, meddled, published>>

CheckPolicy ==
  /\ at = "policy"
  /\ IF Moved THEN Fails(mem, "AGENT_FAILED")
     ELSE IF tree \notin Within THEN Fails(mem, "POLICY_BLOCKED")
     ELSE IF journal = "torn"
       THEN Fails([mem EXCEPT !.digest = tree, !.state = "POLICY_CHECKING"], "FAILED")
     ELSE Save([mem EXCEPT !.digest = tree, !.state = "VERIFYING"], "verify") /\ Same
  /\ UNCHANGED <<journal, world, told>>

-----------------------------------------------------------------------------
\* Verification reads the tree anew; only a command that changes it is caught.
BeginCommand ==
  /\ at = "verify"
  /\ \/ Fails(mem, "INTERRUPTED")
     \/ Moved /\ Fails(mem, "AGENT_FAILED")
     \/ ~Moved /\ Keep(mem, "command") /\ turn' = [turn EXCEPT !.seen = tree]
  /\ UNCHANGED <<journal, world, told>>

EndCommand ==
  /\ at = "command"
  /\ \/ /\ Fails([mem EXCEPT !.passed = FALSE, !.verified = None], "VERIFICATION_FAILED")
        /\ UNCHANGED tested
     \/ Fails(mem, "INTERRUPTED") /\ UNCHANGED tested
     \/ Moved /\ Fails(mem, "AGENT_FAILED") /\ UNCHANGED tested
     \/ ~Moved /\ tree # turn.seen /\ Fails(mem, "VERIFICATION_FAILED") /\ UNCHANGED tested
     \/ ~Moved /\ tree = turn.seen /\ Keep(mem, "verified") /\ Same /\ tested' = tree
  /\ UNCHANGED <<journal, world, calls, looked, meddled, published>>

\* The digest that counts as verified is that of the tree found at the end.
Adopts == [mem EXCEPT !.digest = tree, !.verified = tree, !.passed = tested \in Passing]

\* The service compares the iterations with the configured maximum, which the
\* bundle's own may undercut; the next turn then meets the lower one.
AfterFailedCommands(m) ==
  {"TERRA_FIXING"} \cup (IF m.iterations >= MaxIterations THEN {"BUDGET_EXHAUSTED"} ELSE {})

EndVerification ==
  LET failed == Becomes(Adopts, "VERIFICATION_FAILED") IN
  /\ at = "verified"
  /\ \/ Moved /\ Fails(mem, "AGENT_FAILED")
     \/ /\ ~Moved /\ Adopts.passed /\ Keep(Adopts, "review")
        /\ turn' = [turn EXCEPT !.of = IF mem.mode = "sol" THEN "sol" ELSE "terra"]
     \/ ~Moved /\ ~Adopts.passed /\ journal = "torn" /\ Leave(failed)
     \/ /\ ~Moved /\ ~Adopts.passed /\ journal = "whole"
        /\ \E next \in AfterFailedCommands(mem) :
             IF next \notin Successors["VERIFICATION_FAILED"]
               THEN Leave(Invalidated(failed))
             ELSE IF next = "TERRA_FIXING"
               THEN Save(Becomes(Invalidated(failed), next), "implement") /\ Same
             ELSE Leave(Becomes(Invalidated(failed), next))
  /\ UNCHANGED <<journal, world, calls, tested, looked, meddled, published>>

-----------------------------------------------------------------------------
ReviewState == IF turn.of = "terra" THEN "TERRA_REVIEWING" ELSE "SOL_REVIEWING"

BeginReview ==
  LET m == Becomes(mem, ReviewState) IN
  /\ at = "review"
  /\ \/ GivesUp(m, "INTERRUPTED") /\ UNCHANGED looked
     \/ journal = "torn" /\ GivesUp(m, "FAILED") /\ UNCHANGED looked
     \/ /\ journal = "whole"
        /\ IF ~ReviewLeft(mem, turn.of) THEN GivesUp(m, "BUDGET_EXHAUSTED") /\ UNCHANGED looked
           ELSE IF Damage THEN GivesUp(Counted(m), "AGENT_FAILED") /\ UNCHANGED looked
           ELSE Asks(Counted(m), "reviewing", FALSE) /\ looked' = [looked EXCEPT ![turn.of] = tree]
  /\ UNCHANGED <<journal, world, tested, meddled, published>>

\* A review counts for the digest it names, if nothing moved while it was made.
Judged(verdict, named) ==
  [mem EXCEPT !.by[turn.of] = [rounds |-> @.rounds + 1, verdict |-> verdict, tree |-> named]]

EndReview ==
  /\ at = "reviewing"
  /\ \/ TurnFails
     \/ AskAgain
     \/ /\ Damage \/ tree # turn.seen
        /\ Fails(mem, "AGENT_FAILED") /\ UNCHANGED <<calls, late>>
     \/ /\ ~Damage /\ tree = turn.seen /\ tree # mem.digest
        /\ Fails(mem, "FAILED") /\ UNCHANGED <<calls, late>>
     \/ /\ ~Damage /\ tree = turn.seen /\ tree = mem.digest
        /\ \/ Fails(mem, IF turn.of = "terra" THEN "AGENT_FAILED" ELSE "FAILED") \* old thread
           \/ \E verdict \in {"APPROVE", "REVISE", "REPLAN", "ESCALATE"}, named \in {tree, Base} :
                Save(Judged(verdict, named), "conclude") /\ Same
        /\ UNCHANGED <<calls, late>>
  /\ UNCHANGED <<journal, tree, outside, trouble, tested, looked, meddled, published>>

\* What follows from a review that is in the receipt.  An answer that names
\* unknown criteria, another digest or open points ends the call.
Conclude ==
  LET review == mem.by[turn.of]
      more == mem.mode = "both" /\ turn.of = "terra" IN
  /\ at = "conclude"
  /\ \/ Fails(mem, "AGENT_FAILED")
     \/ review.tree # mem.digest /\ Fails(mem, "FAILED")
     \/ /\ review.tree = mem.digest
        /\ CASE review.verdict = "REVISE" -> Move(Invalidated(mem), "TERRA_FIXING", "implement")
             [] review.verdict = "REPLAN" -> MoveAndLeave(mem, "WEB_REVIEW_REQUIRED")
             [] review.verdict = "ESCALATE" -> MoveAndLeave(mem, "HUMAN_REQUIRED")
             [] OTHER -> \/ Fails(mem, "FAILED")
                         \/ IF more THEN Keep(mem, "review") /\ turn' = [turn EXCEPT !.of = "sol"]
                            ELSE MoveAndLeave(mem, "READY_FOR_PUBLISH")
  /\ UNCHANGED <<journal, world, told>>

\* Mutant: publication does not compare the tree with the approved digest.
PublishesWhatItFinds ==
  /\ at = "idle" /\ lock = "free" /\ disk # None /\ ExactlyApproved(disk) /\ ~Damage
  /\ published' = tree /\ outside' = "refs"
  /\ UNCHANGED <<disk, journal, lock, at, mem, turn, tree, late, trouble,
                 calls, tested, looked, meddled>>

\* Publication holds the same lock and commits the tree it finds unchanged.
Publish ==
  /\ at = "idle" /\ lock = "free" /\ disk # None
  /\ ExactlyApproved(disk) /\ ~Damage /\ tree = disk.digest /\ tree # Base
  /\ published' = tree /\ outside' = "refs"
  /\ UNCHANGED <<disk, journal, lock, at, mem, turn, tree, late, trouble,
                 calls, tested, looked, meddled>>

-----------------------------------------------------------------------------
Checking == {"verify", "command", "verified"}

\* The implementer writes what it likes, also after it was given up on.
AgentWrites ==
  /\ at = "implementing" \/ late
  /\ tree' \in Trees
  /\ meddled' = (meddled \/ at \in Checking)
  /\ UNCHANGED <<disk, journal, lock, at, mem, turn, outside, late, trouble,
                 calls, tested, looked, published>>

AgentStops ==
  /\ late /\ late' = FALSE
  /\ UNCHANGED <<disk, journal, lock, at, mem, turn, tree, outside, trouble, told>>

\* Somebody edits the worktree, moves a ref or touches the bundle; or repairs that.
Meddle ==
  /\ trouble < MaxTrouble /\ trouble' = trouble + 1
  /\ \/ tree' \in Trees \ {tree} /\ UNCHANGED outside
     \/ ~Damage /\ outside' \in {"refs", "bundle"} /\ UNCHANGED tree
     \/ Damage /\ published = None /\ outside' = "intact" /\ UNCHANGED tree
  /\ meddled' = (meddled \/ at \in Checking)
  /\ UNCHANGED <<disk, journal, lock, at, mem, turn, late, calls, tested, looked, published>>

\* The call dies, perhaps in the middle of an event line; nobody but an operator
\* removes its lock.
Crash ==
  /\ at # "idle" /\ trouble < MaxTrouble /\ trouble' = trouble + 1
  /\ at' = "idle" /\ mem' = None /\ lock' = "orphaned"
  /\ \/ UNCHANGED journal
     \/ at \in {"resume", "assess", "assessing", "implement", "implementing", "policy",
                "verified", "review", "conclude"} /\ journal' = "torn"
  /\ late' \in {late, (at \in {"assessing", "implementing", "reviewing"})}
  /\ turn' = NoTurn /\ UNCHANGED <<disk, tree, outside, told>>

RemoveLock ==
  /\ lock = "orphaned" /\ lock' = "free"
  /\ UNCHANGED <<disk, journal, at, mem, turn, world, told>>

Work ==
  \/ Resume \/ BeginAssessment \/ EndAssessment \/ BeginImplementation
  \/ EndImplementation \/ CheckPolicy \/ BeginCommand \/ EndCommand \/ EndVerification
  \/ BeginReview \/ EndReview \/ Conclude

Next ==
  \/ Work \/ Publish \/ (\E selection \in Modes : Call(selection))
  \/ AgentWrites \/ AgentStops \/ Meddle \/ Crash \/ RemoveLock

Spec == Init /\ [][Next]_vars

-----------------------------------------------------------------------------
TypeOK ==
  /\ disk \in Receipt \cup {None} /\ mem \in Receipt \cup {None} /\ journal \in {"whole", "torn"}
  /\ lock \in {"free", "held", "orphaned"} /\ tree \in Trees
  /\ turn \in [seen : Trees \cup {None}, again : BOOLEAN, of : Reviewers]
  /\ outside \in {"intact", "refs", "bundle"} /\ late \in BOOLEAN /\ trouble \in 0..MaxTrouble
  /\ at \in {"idle", "resume", "assess", "assessing", "implement", "implementing",
            "policy", "review", "reviewing", "conclude"} \cup Checking
  /\ calls \in Nat /\ tested \in Trees \cup {None} /\ looked \in [Reviewers -> Trees \cup {None}]
  /\ meddled \in BOOLEAN /\ published \in Trees \cup {None}

\* However often a run is started, dies and is started again, no agent is asked
\* a turn that the receipt on disk has not counted before (syncBudget), so the
\* configured maximum holds over all its calls together.
TurnsAreCounted ==
  /\ at # "idle" => mem # None /\ lock = "held" /\ calls <= mem.turns
  /\ calls <= (IF disk = None THEN 0 ELSE disk.turns)

\* What the call that holds the lock works on: a receipt that is not settled, in the
\* one mode the run has, whose other reviewer was never asked.
OneReviewer(m) == m.mode # "both" => \A r \in Reviewers \ {m.mode} : m.by[r].rounds = 0
CallHolds ==
  /\ at = "idle" => mem = None /\ lock # "held"
  /\ at # "idle" => /\ lock = "held" /\ disk # None /\ mem # None /\ mem.mode = disk.mode
                    /\ disk.state \notin Settled /\ mem.state \notin Settled
                    /\ OneReviewer(mem)
  /\ disk # None => OneReviewer(disk)

\* What the commands ran on is what the reviewers are shown, unless somebody wrote in
\* between; the second reviewer is asked about what the first one approved.
Tested(digest) == ~meddled => tested = digest /\ digest \in Within \cap Passing
Unmeddled ==
  at \in Checking /\ ~meddled =>
    /\ tree = mem.digest /\ tree \in Within
    /\ at = "command" => turn.seen = tree
    /\ at = "verified" => tested = tree
UnderReview ==
  at \in {"review", "reviewing", "conclude"} =>
    /\ mem.digest # None /\ Verified(mem) /\ Tested(mem.digest)
    /\ turn.of \in Required(mem.mode)
    /\ mem.mode = "both" /\ turn.of = "sol" =>
         ApprovedBy(mem, "terra") /\ looked["terra"] = mem.digest
    /\ at = "reviewing" => mem.by[turn.of].rounds < MaxReviews /\ looked[turn.of] = turn.seen
    /\ at = "conclude" =>
         /\ looked[turn.of] = mem.digest
         /\ mem.by[turn.of].rounds > 0 /\ mem.by[turn.of].verdict # None

\* A READY receipt is about one tree: every reviewer its mode asks for was shown
\* exactly that tree and approved it, and, unless somebody wrote while it was
\* being verified, the commands passed on it and the paths were allowed.
\* Nothing else is ever published.
ReadyIsEarned ==
  /\ disk # None /\ disk.state = "READY_FOR_PUBLISH" =>
       /\ Complete(disk)
       /\ \A r \in Required(disk.mode) : looked[r] = disk.digest
       /\ ~meddled => tested = disk.digest /\ disk.digest \in Within \cap Passing
  /\ published # None => \A r \in Reviewers : looked[r] = published

\* Publication moves the refs for good, so nothing of the run goes on after it.
PublishedIsLast == published # None => outside = "refs" /\ at = "idle"

\* What holds of every state, whatever dies, writes on or is edited: the turns are
\* counted, and what is READY was earned.
ExecutionInv ==
  /\ TypeOK /\ TurnsAreCounted /\ CallHolds /\ Unmeddled /\ UnderReview
  /\ ReadyIsEarned /\ PublishedIsLast

\* What a run was settled on stays, whoever calls it again, cancels it, breaks
\* its bundle or moves its worktree; a READY receipt is not touched at all.
\* (FAILED is not among them: an error on the way in reopens it.)
SettledStands ==
  [][disk # None /\ disk.state \in Settled \ {"FAILED"} =>
       disk' # None /\ disk'.state = disk.state
       /\ (disk.state = "READY_FOR_PUBLISH" => disk' = disk)]_vars

=============================================================================
