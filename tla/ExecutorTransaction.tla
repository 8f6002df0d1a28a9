------------------------ MODULE ExecutorTransaction ------------------------
(***************************************************************************)
(* The executor (executor/service.ts) takes one registered Web pack through *)
(* apply, verification and review to READY_FOR_PUBLISH, one durable receipt *)
(* write or one worktree write at a time, and may die between any two.      *)
(* A repair, proposed by the reviewer or later by the Web, goes through the *)
(* same worktree and the same gates.                                        *)
(*                                                                          *)
(* A file's bytes and mode are one image; absence is an image too, so that  *)
(* create, replace and delete operations are one kind.  The digest of a     *)
(* change-set is the images it was computed from; <<>> is no digest.        *)
(*                                                                          *)
(* Others write to the worktree as well: editors, and the commands of the   *)
(* verification.  Operators clear stale locks; nothing else does.           *)
(***************************************************************************)
EXTENDS Integers, Sequences

CONSTANTS
  NumOps,         \* operations of the registered pack, one path each
  Strategies,     \* review strategies a job may be frozen with: "web", "model"
  MaxGenerations, \* MAX_REPAIR_GENERATIONS (4)
  MaxEdits        \* bound on what others do to the worktree

ASSUME OpsAssumption == NumOps \in Nat \ {0}
ASSUME StrategyAssumption == Strategies \subseteq {"web", "model"}
ASSUME BoundsAssumption == MaxGenerations \in Nat \ {0} /\ MaxEdits \in Nat

Paths == 1..NumOps

\* Images of a path: the locked base, the pack's, each repair generation's,
\* and one that no authority knows.
Base == 0
Pack == 1
Fix(generation) == 1 + generation
Foreign == 2 + MaxGenerations
Image == Base..Foreign
Tree == [Paths -> Image]
Uniform(image) == [p \in Paths |-> image]

NoDigest == <<>>
Digest == Tree \cup {NoDigest}

Terminal == {"ESCALATE_TO_WEB", "FAILED"}
ReceiptState ==
  {"NONE", "PREPARED", "APPLYING", "APPLIED", "VERIFYING", "REVIEWING",
   "REVIEWING_WEB", "REPAIR_APPLYING", "REPAIR_APPLIED", "READY_FOR_PUBLISH"}
    \cup Terminal
Receipt == [state : ReceiptState, applied : SUBSET Paths, digest : Digest,
            passed : Digest, verdict : {"NONE", "APPROVE", "REVISE", "ESCALATE"},
            reviewed : Digest]
Repair == [by : {"none", "model", "web"}, post : UNION {[S -> Image] : S \in SUBSET Paths},
           state : {"NONE", "PROPOSED", "APPLYING", "APPLIED", "VERIFIED"},
           source : Digest, final : Digest]
Generation == [by : {"model", "web"}, source : Digest, final : Digest]

NoReceipt == [state |-> "NONE", applied |-> {}, digest |-> NoDigest,
              passed |-> NoDigest, verdict |-> "NONE", reviewed |-> NoDigest]
NoRepair == [by |-> "none", post |-> <<>>, state |-> "NONE",
             source |-> NoDigest, final |-> NoDigest]

VARIABLES
  files,     \* the worktree
  stray,     \* an unregistered file lies in the worktree
  head,      \* the tree of the worktree's HEAD commit
  strategy,  \* the review strategy frozen with the job
  receipt,   \* the executor receipt: transaction, verification and review
  repair,    \* its current repair
  history,   \* its archived, verified repairs
  lock,      \* the executor lock file exists
  pc,        \* where the executor process is, "idle" when there is none
  at,        \* the operation it works on
  fault,     \* the terminal state it is about to write
  unresolved \* the rollback met an ambiguous target

VARIABLES
  looked,    \* history: the edits made when the target about to be replaced was read
  calls,     \* history: reviewer calls issued
  edits,     \* history: what others did to the worktree
  rejected,  \* history: a gate said no
  verified,  \* history: the trees the verifier passed
  approved   \* history: the trees the reviewer approved

workspace == <<files, stray, head, strategy>>
durable == <<receipt, repair, history>>
process == <<lock, pc, at, fault, unresolved>>
ghosts == <<looked, calls, edits, rejected, verified, approved>>
vars == <<workspace, durable, process, ghosts>>

Init ==
  /\ files = Uniform(Base) /\ stray = FALSE /\ head = Uniform(Base)
  /\ strategy \in Strategies
  /\ receipt = NoReceipt /\ repair = NoRepair /\ history = <<>>
  /\ lock = FALSE /\ pc = "idle" /\ at = 1
  /\ fault = "FAILED" /\ unresolved = FALSE
  /\ looked = 0 /\ calls = 0 /\ edits = 0 /\ rejected = FALSE
  /\ verified = {} /\ approved = {}

-----------------------------------------------------------------------------
(* What the worktree is compared with.                                     *)

AtBase == head = Uniform(Base)
Clean == files = head /\ ~stray

\* effectiveFinal: the current repair's image, else the pack's.  The images of
\* archived repairs are not kept.
Effective ==
  [p \in Paths |->
     IF repair.state \in {"APPLIED", "VERIFIED"} /\ p \in DOMAIN repair.post
     THEN repair.post[p] ELSE Pack]

\* Mutant: only the set of changed paths is compared, not their images.
AttestedByPaths == AtBase /\ ~stray /\ \A p \in Paths : files[p] # Base

\* attestExecutorChangeSet: HEAD is the base, the changed paths are the expected
\* ones and every path has its expected image.
Attested == AtBase /\ ~stray /\ files = Effective

Last(s) == s[Len(s)]

\* selectedReviewReady and finalWebRepairCompletesModelAuthority: the single
\* verdict of the reviewer covers the tree, through the repair it proposed or
\* through the chain of verified repairs.
Anchor ==
  IF history = <<>> THEN NoDigest
  ELSE IF history[1].source # receipt.reviewed THEN NoDigest
  ELSE IF receipt.verdict = (IF history[1].by = "web" THEN "APPROVE" ELSE "REVISE")
  THEN Last(history).final ELSE NoDigest
Covers(tree) == (receipt.verdict = "APPROVE" /\ receipt.reviewed = tree) \/ Anchor = tree
Reviewed(tree) ==
  \/ repair.by = "none" /\ receipt.verdict = "APPROVE" /\ receipt.reviewed = tree
  \/ /\ repair.by = "model" /\ repair.state = "VERIFIED" /\ repair.final = tree
     /\ receipt.verdict = "REVISE" /\ receipt.reviewed = repair.source
  \/ /\ repair.by = "web" /\ repair.state = "VERIFIED" /\ repair.final = tree
     /\ Covers(repair.source)

\* assertReadyEvidence
ReadyEvidence ==
  /\ receipt.digest # NoDigest /\ receipt.passed = receipt.digest
  /\ strategy = "web" =>
       /\ receipt.verdict = "NONE"
       /\ repair.by # "none" =>
            repair.state = "VERIFIED" /\ repair.final = receipt.digest
  /\ strategy = "model" => Reviewed(receipt.digest)

\* assertReviewAuthority, which publication asks for: no repair under the web
\* strategy, and under the others none that the Web proposed.
PublishAuthority ==
  IF strategy = "web" THEN repair.by = "none"
  ELSE repair.by # "web" /\ Reviewed(receipt.digest)

-----------------------------------------------------------------------------
(* Starting, failing, dying.                                               *)

Goto(label) == pc' = label /\ UNCHANGED <<lock, at, fault, unresolved>>
GotoAt(label, op) == pc' = label /\ at' = op /\ UNCHANGED <<lock, fault, unresolved>>
FailTo(state) == pc' = "failing" /\ fault' = state /\ UNCHANGED <<lock, at, unresolved>>
\* The process ends, and with it its local variables.
Ended == pc' = "idle" /\ at' = 1 /\ fault' = "FAILED" /\ unresolved' = FALSE
Release == Ended /\ lock' = FALSE
Enter(label) ==
  /\ pc = "idle" /\ ~lock
  /\ lock' = TRUE /\ pc' = label
  /\ UNCHANGED <<at, fault, unresolved>>

\* A fresh execution registers the pack again, which wants a clean worktree at
\* the base, backs every preimage up and writes the first receipt.
StartFresh ==
  /\ Enter("dispatch")
  /\ receipt.state = "NONE" /\ Clean /\ AtBase
  /\ receipt' = [receipt EXCEPT !.state = "PREPARED"]
  /\ UNCHANGED <<workspace, repair, history, ghosts>>

\* assertNoAmbiguousReviewResume
AmbiguousReview == receipt.state = "REVIEWING" /\ receipt.verdict = "NONE"

Resumable == receipt.state \notin Terminal \cup {"NONE", "READY_FOR_PUBLISH"}

\* attestExecutorResumeChangedPaths: no path is changed but the pack's.
Resume ==
  /\ Resumable /\ ~AmbiguousReview
  /\ AtBase /\ ~stray
  /\ Enter("dispatch")
  /\ UNCHANGED <<workspace, durable, ghosts>>

ResumeRefused ==
  /\ Resumable
  /\ pc = "idle" /\ ~lock
  /\ AmbiguousReview \/ ~AtBase \/ stray
  /\ lock' = TRUE /\ pc' = "failing"
  /\ fault' = IF AmbiguousReview THEN "FAILED" ELSE "ESCALATE_TO_WEB"
  /\ UNCHANGED <<at, unresolved, workspace, durable, ghosts>>

\* failToWeb and failTerminal
Fail ==
  /\ pc = "failing"
  /\ receipt' = [receipt EXCEPT !.state = fault]
  /\ Release
  /\ UNCHANGED <<workspace, repair, history, ghosts>>

\* Replacing a file (writeExactWorktreeFile) puts the image next to the target and
\* renames it: the target is overwritten whatever it holds by then, and a crash
\* may leave the temporary file.
Writing == {"install", "restore", "reinstall", "unrestore"}
Put(image, label) ==
  /\ files' = [files EXCEPT ![at] = image]
  /\ Goto(label)
  /\ looked' = 0
  /\ UNCHANGED <<stray, head, strategy, durable, calls, edits, rejected, verified, approved>>

Crash ==
  /\ pc # "idle"
  /\ Ended /\ looked' = 0
  /\ stray' \in {stray, stray \/ pc \in Writing}
  /\ UNCHANGED <<files, head, strategy, durable, lock, calls, edits, rejected, verified, approved>>

\* An error that is no ExecutorError is thrown on: the receipt stays resumable.
Abort ==
  /\ pc \in {"gates", "verify", "review", "call", "ready"}
  /\ Release
  /\ UNCHANGED <<workspace, durable, ghosts>>

ClearLock ==
  /\ pc = "idle" /\ lock
  /\ lock' = FALSE
  /\ UNCHANGED <<pc, at, fault, unresolved, workspace, durable, ghosts>>

-----------------------------------------------------------------------------
(* Applying the pack (executor/applier.ts).                                *)

\* Either the pack is still to be applied, or a repair is, or the gates are next.
OpenApply ==
  /\ pc = "dispatch" /\ repair.state = "NONE"
  /\ receipt.state \in {"PREPARED", "APPLYING"}
  /\ receipt' = [receipt EXCEPT !.state = "APPLYING"]
  /\ GotoAt("apply", 1)
  /\ UNCHANGED <<workspace, repair, history, ghosts>>

\* The rollback goes through the operations in reverse.
Undo(state) ==
  pc' = "undo" /\ at' = NumOps /\ fault' = state /\ UNCHANGED <<lock, unresolved>>

\* classifyTarget: neither the preimage nor the postimage is ambiguous.
Inspect ==
  /\ pc = "apply" /\ at \in Paths
  /\ \/ files[at] = Base /\ Goto("write")
     \/ files[at] = Pack /\ Goto("recheck")
     \/ files[at] \notin {Base, Pack} /\ Undo("FAILED")
  /\ UNCHANGED <<workspace, durable, ghosts>>

\* Mutant: the preimage is read again, and trusted as it was classified.
WriteUnread ==
  /\ pc = "write"
  /\ looked' = edits /\ Goto("install")
  /\ UNCHANGED <<workspace, durable, calls, edits, rejected, verified, approved>>

\* The preimage is read once more before it is replaced.
Write ==
  /\ pc = "write"
  /\ looked' = edits
  /\ IF files[at] = Base THEN Goto("install") ELSE Undo("ESCALATE_TO_WEB")
  /\ UNCHANGED <<workspace, durable, calls, edits, rejected, verified, approved>>

Install == pc = "install" /\ Put(Pack, "recheck")

Flag ==
  /\ pc = "recheck"
  /\ IF files[at] = Pack
     THEN /\ receipt' = [receipt EXCEPT !.applied = @ \cup {at}]
          /\ GotoAt("apply", at + 1)
     ELSE Undo("ESCALATE_TO_WEB") /\ UNCHANGED receipt
  /\ UNCHANGED <<workspace, repair, history, ghosts>>

Applied ==
  /\ pc = "apply" /\ at \notin Paths
  /\ receipt' = [receipt EXCEPT !.state = "APPLIED"]
  /\ Goto("gates")
  /\ UNCHANGED <<workspace, repair, history, ghosts>>

\* rollbackAppliedOperations, last operation first: only those flagged applied.
\* What was restored is unflagged by a write of its own.
UndoSkip ==
  /\ pc = "undo" /\ at \in Paths
  /\ \/ at \notin receipt.applied /\ UNCHANGED unresolved
     \/ at \in receipt.applied /\ files[at] \notin {Base, Pack} /\ unresolved' = TRUE
  /\ at' = at - 1
  /\ UNCHANGED <<pc, lock, fault, workspace, durable, ghosts>>

UndoClassify ==
  /\ pc = "undo" /\ at \in receipt.applied /\ files[at] = Pack
  /\ looked' = edits /\ Goto("restore")
  /\ UNCHANGED <<workspace, durable, calls, edits, rejected, verified, approved>>

Restore == pc = "restore" /\ Put(Base, "undo")

UndoFlag ==
  /\ pc = "undo" /\ at \in receipt.applied /\ files[at] = Base
  /\ receipt' = [receipt EXCEPT !.applied = @ \ {at}]
  /\ GotoAt("undo", at - 1)
  /\ UNCHANGED <<workspace, repair, history, ghosts>>

Undone ==
  /\ pc = "undo" /\ at \notin Paths
  /\ receipt' = [receipt EXCEPT !.state = IF unresolved THEN "APPLYING" ELSE "PREPARED"]
  /\ pc' = "failing" /\ unresolved' = FALSE
  /\ fault' = IF unresolved THEN "FAILED" ELSE fault
  /\ UNCHANGED <<lock, at, workspace, repair, history, ghosts>>

-----------------------------------------------------------------------------
(* The gates.                                                              *)

OpenGates ==
  /\ pc = "dispatch" /\ repair.state = "NONE"
  /\ receipt.state \in {"APPLIED", "VERIFYING", "REVIEWING"}
  /\ Goto("gates")
  /\ UNCHANGED <<workspace, durable, ghosts>>

\* The digest is computed and, unless this very digest has passed, verification
\* is entered.
EnterGates ==
  /\ pc = "gates"
  /\ \/ ~Attested /\ FailTo("ESCALATE_TO_WEB") /\ UNCHANGED receipt
     \/ /\ Attested /\ receipt.passed = files
        /\ receipt' = [receipt EXCEPT !.digest = files]
        /\ Goto(IF strategy = "web" THEN "ready" ELSE "review")
     \/ /\ Attested /\ receipt.passed # files
        /\ receipt' = [receipt EXCEPT !.digest = files, !.state = "VERIFYING"]
        /\ Goto("verify")
  /\ UNCHANGED <<workspace, repair, history, ghosts>>

\* The verifier answers for what lay in the worktree; the digest is attested
\* again before its answer counts.
VerifyDrift ==
  /\ pc = "verify" /\ ~Attested
  /\ FailTo("ESCALATE_TO_WEB")
  /\ UNCHANGED <<workspace, durable, ghosts>>

VerifyPass ==
  /\ pc = "verify" /\ Attested
  /\ verified' = verified \cup {files}
  /\ receipt' = [receipt EXCEPT !.passed = receipt.digest]
  /\ Goto(CASE repair.state = "APPLIED" -> "seal"
            [] repair.state = "NONE" /\ strategy = "web" -> "ready"
            [] OTHER -> "review")
  /\ UNCHANGED <<workspace, repair, history, looked, calls, edits, rejected, approved>>

\* The pack's rejection is written in one receipt, a repair's in two.
VerifyFail ==
  /\ pc = "verify" /\ Attested
  /\ rejected' = TRUE
  /\ receipt' = [receipt EXCEPT
       !.passed = NoDigest,
       !.state = IF repair.state = "NONE" THEN "ESCALATE_TO_WEB" ELSE @]
  /\ IF repair.state = "NONE" THEN Release ELSE FailTo("ESCALATE_TO_WEB")
  /\ UNCHANGED <<workspace, repair, history, looked, calls, edits, verified, approved>>

\* The single reviewer is called once its turn is durably reserved; a budget
\* that is used up (its wall clock at any time) is terminal.
ReviewKnown ==
  /\ pc = "review" /\ receipt.verdict = "APPROVE" /\ receipt.reviewed = receipt.digest
  /\ Goto("ready")
  /\ UNCHANGED <<workspace, durable, ghosts>>

AskReviewer ==
  /\ pc = "review" /\ ~(receipt.verdict = "APPROVE" /\ receipt.reviewed = receipt.digest)
  /\ receipt' = [receipt EXCEPT !.state = "REVIEWING"]
  /\ \/ calls' = calls + 1 /\ Goto("call")
     \/ calls' = calls /\ FailTo("FAILED")
  /\ UNCHANGED <<workspace, repair, history, looked, edits, rejected, verified, approved>>

\* The reviewer's answer is worth nothing if the worktree drifted meanwhile, or
\* if its tokens overran the budget.
AnswerLost ==
  /\ pc = "call"
  /\ \/ ~Attested /\ FailTo("ESCALATE_TO_WEB")
     \/ Attested /\ FailTo("FAILED")
  /\ UNCHANGED <<workspace, durable, ghosts>>

Answered(verdict) ==
  [receipt EXCEPT !.verdict = verdict, !.reviewed = receipt.digest]

Approve ==
  /\ pc = "call" /\ Attested
  /\ receipt' = Answered("APPROVE")
  /\ approved' = approved \cup {files}
  /\ Goto("ready")
  /\ UNCHANGED <<workspace, repair, history, looked, calls, edits, rejected, verified>>

Reject(verdict) ==
  /\ pc = "call" /\ Attested
  /\ receipt' = [Answered(verdict) EXCEPT !.state = "ESCALATE_TO_WEB"]
  /\ rejected' = TRUE
  /\ Release
  /\ UNCHANGED <<workspace, repair, history, looked, calls, edits, verified, approved>>

\* bindReviewerRepair: the model's REVISE carries its own repair, of some of the
\* registered paths.
Proposal(by, paths, generation, source) ==
  [by |-> by, post |-> [p \in paths |-> Fix(generation)], state |-> "PROPOSED",
   source |-> source, final |-> NoDigest]

ReviseWith(paths) ==
  /\ pc = "call" /\ Attested
  /\ receipt' = Answered("REVISE")
  /\ repair' = Proposal("model", paths, 1, receipt.digest)
  /\ Goto("dispatch")
  /\ UNCHANGED <<workspace, history, ghosts>>

Ready ==
  /\ pc = "ready"
  /\ IF ReadyEvidence /\ Attested
     THEN receipt' = [receipt EXCEPT !.state = "READY_FOR_PUBLISH"] /\ Release
     ELSE FailTo("ESCALATE_TO_WEB") /\ UNCHANGED receipt
  /\ UNCHANGED <<workspace, repair, history, ghosts>>

-----------------------------------------------------------------------------
(* Applying a repair (executor/repair.ts).                                 *)

Patched == DOMAIN repair.post

\* Mutant: the intent to write is not recorded first.
OpenRepairSilently ==
  /\ pc = "dispatch" /\ repair.state \in {"PROPOSED", "APPLYING"}
  /\ GotoAt("repair", 1)
  /\ UNCHANGED <<workspace, durable, ghosts>>

OpenRepair ==
  /\ pc = "dispatch" /\ repair.state \in {"PROPOSED", "APPLYING"}
  /\ repair' = [repair EXCEPT !.state = "APPLYING"]
  /\ receipt' = [receipt EXCEPT !.state = "REPAIR_APPLYING"]
  /\ GotoAt("repair", 1)
  /\ UNCHANGED <<workspace, history, ghosts>>

Unrepair(state) ==
  pc' = "unrepair" /\ at' = NumOps /\ fault' = state /\ UNCHANGED <<lock, unresolved>>

\* Mutant: a path the repair does not touch is not stepped over.
InspectRepairStuck ==
  /\ pc = "repair" /\ at \in Paths
  /\ IF at \notin Patched THEN GotoAt("repair", at)
     ELSE IF files[at] = repair.post[at] THEN GotoAt("repair", at + 1)
     ELSE IF files[at] = repair.source[at] THEN Goto("rewrite")
     ELSE Unrepair("FAILED")
  /\ UNCHANGED <<workspace, durable, ghosts>>

\* classifyRepair: the target holds the source's image or the repair's.
InspectRepair ==
  /\ pc = "repair" /\ at \in Paths
  /\ IF at \notin Patched \/ files[at] = repair.post[at] THEN GotoAt("repair", at + 1)
     ELSE IF files[at] = repair.source[at] THEN Goto("rewrite")
     ELSE Unrepair("FAILED")
  /\ UNCHANGED <<workspace, durable, ghosts>>

Rewrite ==
  /\ pc = "rewrite"
  /\ looked' = edits
  /\ IF files[at] = repair.source[at] THEN Goto("reinstall")
     ELSE Unrepair("ESCALATE_TO_WEB")
  /\ UNCHANGED <<workspace, durable, calls, edits, rejected, verified, approved>>

Reinstall == pc = "reinstall" /\ Put(repair.post[at], "rerecheck")

RecheckRepair ==
  /\ pc = "rerecheck"
  /\ IF files[at] = repair.post[at] THEN GotoAt("repair", at + 1)
     ELSE Unrepair("ESCALATE_TO_WEB")
  /\ UNCHANGED <<workspace, durable, ghosts>>

RepairApplied ==
  /\ pc = "repair" /\ at \notin Paths
  /\ repair' = [repair EXCEPT !.state = "APPLIED"]
  /\ receipt' = [receipt EXCEPT !.state = "REPAIR_APPLIED", !.passed = NoDigest]
  /\ Goto("dispatch")
  /\ UNCHANGED <<workspace, history, ghosts>>

\* rollbackRepairs restores the source's images and stops at the first target it
\* cannot classify.
UnrepairStep ==
  /\ pc = "unrepair" /\ at \in Paths
  /\ IF at \notin Patched \/ files[at] = repair.source[at]
     THEN GotoAt("unrepair", at - 1) /\ UNCHANGED looked
     ELSE IF files[at] = repair.post[at]
     THEN Goto("unrestore") /\ looked' = edits
     ELSE FailTo("FAILED") /\ UNCHANGED looked
  /\ UNCHANGED <<workspace, durable, calls, edits, rejected, verified, approved>>

Unrestore == pc = "unrestore" /\ Put(repair.source[at], "unrepair")

\* The receipt goes back to the review that proposed the repair, then fails.
Unrepaired ==
  /\ pc = "unrepair" /\ at \notin Paths
  /\ repair' = [repair EXCEPT !.state = "PROPOSED"]
  /\ receipt' = [receipt EXCEPT !.state =
       IF repair.by = "web" THEN "REVIEWING_WEB" ELSE "REVIEWING"]
  /\ Goto("failing")
  /\ UNCHANGED <<workspace, history, ghosts>>

\* completeAdaptiveRepair: the new digest goes through the verifier, the repair is
\* sealed, and only then is the result READY again.
CheckRepair ==
  /\ pc = "dispatch" /\ repair.state = "APPLIED"
  /\ IF Attested
     THEN /\ receipt' = [receipt EXCEPT !.digest = files, !.state = "VERIFYING"]
          /\ repair' = [repair EXCEPT !.final = files]
          /\ Goto("verify")
     ELSE FailTo("ESCALATE_TO_WEB") /\ UNCHANGED <<receipt, repair>>
  /\ UNCHANGED <<workspace, history, ghosts>>

Seal ==
  /\ pc = "seal"
  /\ repair' = [repair EXCEPT !.state = "VERIFIED"]
  /\ Goto("ready")
  /\ UNCHANGED <<workspace, receipt, history, ghosts>>

ResumeSealed ==
  /\ pc = "dispatch" /\ repair.state = "VERIFIED"
  /\ Goto("ready")
  /\ UNCHANGED <<workspace, durable, ghosts>>

-----------------------------------------------------------------------------
(* What others do: the Web proposes a repair of a READY result, the result  *)
(* is published, the worktree is edited.                                    *)

\* archiveVerifiedRepair
Archived ==
  IF repair.by = "none" THEN history
  ELSE Append(history, [by |-> repair.by, source |-> repair.source, final |-> repair.final])

Archivable ==
  /\ repair.state = "VERIFIED" /\ repair.final = receipt.digest
  /\ Len(history) < MaxGenerations - 1

\* bindWebReviewRepair, which takes no lock.
BindRepair(paths) ==
  /\ receipt.state = "READY_FOR_PUBLISH" /\ receipt.passed = receipt.digest
  /\ repair.by # "none" => Archivable
  /\ \A p \in paths : files[p] = receipt.digest[p]
  /\ history' = Archived
  /\ repair' = Proposal("web", paths, Len(history') + 1, receipt.digest)
  /\ receipt' = [receipt EXCEPT !.state = "REVIEWING_WEB"]
  /\ UNCHANGED <<workspace, process, ghosts>>

\* Mutant: the worktree is committed as it is.
PublishUnattested ==
  /\ receipt.state = "READY_FOR_PUBLISH" /\ AtBase
  /\ receipt.passed = receipt.digest /\ PublishAuthority
  /\ head' = files
  /\ UNCHANGED <<files, stray, strategy, durable, process, ghosts>>

\* publishReadyExecutorSnapshot as a single step: the commit and its push are not
\* told apart here.  A published result is not published again, since
\* attestReadyExecutorSnapshot asks for the digest that was published.
Publish ==
  /\ receipt.state = "READY_FOR_PUBLISH" /\ AtBase
  /\ Attested /\ receipt.passed = receipt.digest /\ PublishAuthority
  /\ head' = files
  /\ UNCHANGED <<files, stray, strategy, durable, process, ghosts>>

\* An editor, or a command of the verification, changes a file or leaves one.
Interfere ==
  /\ edits < MaxEdits /\ edits' = edits + 1
  /\ \/ \E p \in Paths, image \in {Base, Pack, Foreign} :
          files' = [files EXCEPT ![p] = image] /\ UNCHANGED stray
     \/ stray' = ~stray /\ UNCHANGED files
  /\ UNCHANGED <<head, strategy, durable, process, looked, calls, rejected, verified, approved>>

ApplyStep ==
  \/ OpenApply \/ Inspect \/ Write \/ Install \/ Flag \/ Applied
  \/ UndoSkip \/ UndoClassify \/ Restore \/ UndoFlag \/ Undone
GateStep ==
  \/ OpenGates \/ EnterGates \/ VerifyDrift \/ VerifyPass \/ VerifyFail
  \/ ReviewKnown \/ AskReviewer \/ AnswerLost \/ Approve
  \/ \E verdict \in {"REVISE", "ESCALATE"} : Reject(verdict)
  \/ \E paths \in (SUBSET Paths) \ {{}} : ReviseWith(paths)
  \/ Ready
RepairStep ==
  \/ OpenRepair \/ InspectRepair \/ Rewrite \/ Reinstall \/ RecheckRepair
  \/ RepairApplied \/ UnrepairStep \/ Unrestore \/ Unrepaired
  \/ CheckRepair \/ Seal \/ ResumeSealed
Step == ApplyStep \/ GateStep \/ RepairStep \/ Fail

Next ==
  \/ StartFresh \/ Resume \/ ResumeRefused
  \/ Step \/ Abort \/ Crash \/ ClearLock
  \/ \E paths \in (SUBSET Paths) \ {{}} : BindRepair(paths)
  \/ Publish \/ Interfere

Spec == Init /\ [][Next]_vars

\* A running executor takes its next step; the verifier and the reviewer answer
\* or time out (spawnBounded).
FairSpec == Spec /\ WF_vars(Step)

-----------------------------------------------------------------------------
(* Properties.                                                             *)

\* Places in the application of the pack, at the gates, and in that of a repair.
ApplyPc == {"apply", "write", "install", "recheck", "undo", "restore"}
GatePc == {"gates", "verify", "review", "call"}
RepairPc == {"repair", "rewrite", "reinstall", "rerecheck", "unrepair", "unrestore"}

\* Every variable holds a value of its kind.
TypeOK ==
  /\ files \in Tree /\ stray \in BOOLEAN /\ head \in Tree /\ strategy \in Strategies
  /\ receipt \in Receipt
  /\ repair \in Repair
  /\ history \in Seq(Generation)
  /\ lock \in BOOLEAN /\ at \in 0..NumOps + 1
  /\ pc \in {"idle", "dispatch", "failing", "ready", "seal"} \cup ApplyPc \cup GatePc \cup RepairPc
  /\ fault \in Terminal /\ unresolved \in BOOLEAN
  /\ looked \in Nat /\ calls \in Nat /\ edits \in 0..MaxEdits
  /\ rejected \in BOOLEAN
  /\ verified \subseteq Tree /\ approved \subseteq Tree

\* The tree a result became READY with lies in the worktree at that moment, the
\* verifier has passed that very tree, and under the model strategy it is the
\* tree the reviewer approved or comes from a chain of repairs that starts at the
\* tree the reviewer saw (service.ts: READY is written after one more
\* attestation).
ReadyIsExact ==
  [][ receipt'.state = "READY_FOR_PUBLISH" /\ receipt.state # "READY_FOR_PUBLISH" =>
        /\ files = receipt'.digest /\ ~stray
        /\ files \in verified
        /\ strategy = "model" => files \in approved \/ repair.state = "VERIFIED" ]_vars

\* What is published was passed by the verifier as it is, whatever happened to
\* the worktree between READY and the publication (executor-ready.ts).
PublishedIsVerified == AtBase \/ head \in verified

\* The paid reviewer is called at most once for a pack, through every crash and
\* resume (reserveReviewTurn, assertNoAmbiguousReviewResume).
ReviewerCalledOnce == calls <= 1

\* A foreign image is overwritten by the executor only if it appeared after the
\* executor last read that file (applier.ts and repair.ts read again right before
\* they replace).
OverwritesOnlyUnseen ==
  [][ \A p \in Paths :
        files[p] = Foreign /\ files'[p] # Foreign /\ edits' = edits => edits > looked ]_vars

\* An image of a repair is in the worktree only while the receipt accounts for it:
\* an archived generation, or the current one past PROPOSED (repair.ts writes
\* APPLYING first and PROPOSED only after the rollback).
WriteAhead ==
  \A p \in Paths, generation \in 1..MaxGenerations :
    files[p] = Fix(generation) =>
      \/ generation <= Len(history)
      \/ generation = Len(history) + 1 /\ repair.state \in {"APPLYING", "APPLIED", "VERIFIED"}

\* Repairs form a chain of trees that all passed the verifier: each starts where
\* the one before it ended (archiveVerifiedRepair, validateRepairHistory).
ChainUnbroken ==
  /\ \A i \in 1..Len(history) : history[i].final \in verified
  /\ \A i \in 1..Len(history) - 1 : history[i].final = history[i + 1].source
  /\ history # <<>> => repair.source = Last(history).final

\* The first generation of an execution goes back to the Web for a cause: somebody
\* touched the worktree, a gate said no, or a dead executor left its temporary file
\* there.  Later generations and published results also go back without one.
EscalatesForCause ==
  receipt.state = "ESCALATE_TO_WEB" /\ history = <<>> /\ AtBase
    => edits > 0 \/ rejected \/ stray

\* The pack as registered, and the generation of the current repair.
PackTree == Uniform(Pack)
Fixed == Len(history) + 1

\* What is to be published was verified, with its repair.
Sealed == repair.state \in {"NONE", "VERIFIED"} /\ receipt.digest = Effective /\ receipt.passed = Effective

\* What the place of the process says of its receipt and of the repair.
AtPlace ==
  /\ pc # "idle" => Resumable
  /\ pc \in ApplyPc => repair.state = "NONE" /\ receipt.state = "APPLYING"
  /\ pc \in RepairPc => repair.state = "APPLYING" /\ receipt.state = "REPAIR_APPLYING"
  /\ pc \in {"write", "install", "recheck", "restore"} => at \in Paths
  /\ pc \in {"rewrite", "reinstall", "rerecheck", "unrestore"} => at \in Patched
  /\ pc \in {"apply", "repair"} => at >= 1
  /\ pc \in {"undo", "unrepair"} => at <= NumOps
  /\ pc \in GatePc \/ (pc = "ready" /\ repair.state = "NONE") => receipt.state \in {"APPLIED", "VERIFYING", "REVIEWING"}
  /\ pc \in {"gates", "review", "call"} => repair.state = "NONE"
  /\ pc = "verify" => repair.state \in {"NONE", "APPLIED"}
  /\ pc = "seal" => repair.state = "APPLIED"
  /\ pc \in {"verify", "review", "call", "seal"} => receipt.digest = Effective
  /\ pc \in {"verify", "seal"} /\ repair.state = "APPLIED" => repair.final = Effective
  /\ pc \in {"review", "call", "seal"} => receipt.passed = Effective
  /\ pc \in {"review", "call"} => strategy = "model"
  /\ pc = "ready" => Sealed /\ (strategy = "model" /\ repair.by = "none" => receipt.verdict = "APPROVE")

\* A digest that passed is the current one; a repair starts and ends at verified trees.
DigestsFit ==
  /\ receipt.state = "NONE" => receipt = NoReceipt /\ repair = NoRepair
  /\ receipt.passed \in {NoDigest, receipt.digest} \cap (verified \cup {NoDigest})
  /\ repair.by = "none" => repair = NoRepair /\ history = <<>> /\ receipt.digest \in {NoDigest, PackTree}
  /\ repair.by # "none" =>
       /\ repair.state # "NONE" /\ Fixed <= MaxGenerations
       /\ Patched \subseteq Paths /\ \A p \in Patched : repair.post[p] = Fix(Fixed)
       /\ repair.source \in verified /\ \A p \in Paths : repair.source[p] < Fix(Fixed)
       /\ history = <<>> => repair.source = PackTree
  /\ repair.state \in {"PROPOSED", "APPLYING"} => receipt.digest = repair.source
  /\ repair.state = "APPLIED" /\ receipt.passed # NoDigest => receipt.digest = Effective /\ repair.final = Effective
  /\ repair.state = "VERIFIED" => Sealed /\ repair.final = Effective
  /\ receipt.state = "READY_FOR_PUBLISH" => Sealed

\* What was reviewed: the tree the verdict is about, and what a repair rests on.
ReviewsFit ==
  /\ receipt.verdict = "APPROVE" => receipt.reviewed \in approved
  /\ receipt.verdict # "NONE" => strategy = "model"
  /\ repair.by = "none" /\ receipt.verdict # "NONE" /\ receipt.state \notin Terminal =>
       receipt.verdict = "APPROVE" /\ receipt.reviewed = PackTree
  /\ repair.by = "model" =>
       strategy = "model" /\ history = <<>> /\ receipt.verdict = "REVISE" /\ receipt.reviewed = repair.source
  /\ strategy = "model" /\ repair.by = "none" /\ receipt.state = "READY_FOR_PUBLISH" => receipt.verdict = "APPROVE"
  /\ strategy = "model" /\ repair.by = "web" /\ history = <<>> =>
       receipt.verdict = "APPROVE" /\ receipt.reviewed = repair.source

\* A turn of the reviewer that was spent left its mark on the receipt.
TurnMarked ==
  calls > 0 => \/ receipt.verdict # "NONE" \/ receipt.state \in Terminal
               \/ receipt.state = "REVIEWING" /\ pc \in {"idle", "call", "failing"}

\* An image of the current repair lies where the repair put it, and behind the
\* rollback there is none.
ImagesFit ==
  \A p \in Paths : files[p] = Fix(Fixed) =>
    /\ repair.by # "none" => p \in Patched
    /\ pc \in {"unrepair", "unrestore"} => p <= at

\* Nobody's image lies where the executor is about to write, unless it came since.
NothingUnseen ==
  looked <= edits /\ (pc \in Writing => looked < edits \/ files[at] # Foreign)

\* As long as nobody interferes and no gate says no, the worktree holds what the
\* receipt says ...
Undisturbed == edits = 0 /\ ~rejected /\ ~stray /\ AtBase /\ history = <<>>
TreeTrue ==
  Undisturbed =>
    /\ receipt.state # "ESCALATE_TO_WEB"
    /\ receipt.state = "NONE" => files = Uniform(Base)
    /\ repair.state = "NONE" => \A p \in Paths : files[p] \in {Base, Pack}
    /\ repair.state = "NONE" /\ receipt.state \in {"APPLIED", "VERIFYING", "REVIEWING", "READY_FOR_PUBLISH"} =>
         files = PackTree
    /\ repair.state = "PROPOSED" => files = PackTree
    /\ repair.state = "APPLYING" =>
         \A p \in Paths : files[p] = Pack \/ (p \in Patched /\ files[p] = repair.post[p])
    /\ repair.state \in {"APPLIED", "VERIFIED"} => files = Effective

\* ... and every step finds there what it looks for.
PlaceTrue ==
  Undisturbed =>
    /\ pc = "failing" => fault = "FAILED"
    /\ pc \notin {"undo", "restore", "unrepair", "unrestore"}
    /\ pc \in {"apply", "write", "install", "recheck"} => \A p \in Paths : p < at => files[p] = Pack
    /\ pc = "write" => files[at] = Base
    /\ pc = "recheck" => files[at] = Pack
    /\ pc \in {"repair", "rewrite", "reinstall", "rerecheck"} =>
         \A p \in Patched : p < at => files[p] = repair.post[p]
    /\ pc = "rewrite" => files[at] = Pack
    /\ pc = "rerecheck" => files[at] = repair.post[at]

\* What every state of the executor keeps: its types, the reserved turn, the write-ahead
\* of repairs, the chain of their generations, the cause of what went back, and what
\* these rest on.
ExecutorInv ==
  /\ TypeOK /\ ReviewerCalledOnce /\ WriteAhead /\ ChainUnbroken /\ EscalatesForCause
  /\ AtPlace /\ DigestsFit /\ ReviewsFit /\ TurnMarked /\ ImagesFit /\ NothingUnseen
  /\ TreeTrue /\ PlaceTrue /\ PublishedIsVerified

\* A started executor comes to an end: it seals, fails, aborts or dies.
RunsEnd == pc # "idle" ~> pc = "idle"
=============================================================================
