---------------------------- MODULE Preparation ----------------------------
(***************************************************************************)
(* Preparation of a run: an accepted bundle gets a receipt, a journal, a   *)
(* delivery branch and an isolated worktree at its base commit.  A run is  *)
(* prepared once; a failure removes what was created, as far as it is      *)
(* still this run's, and leaves a receipt that is never resumed.           *)
(***************************************************************************)
EXTENDS Intake

Stages == <<"ACCEPTED", "RESOLVING_REPOSITORY", "FETCHING_BASE", "VERIFYING_BASE",
  "CREATING_WORKTREE", "VERIFYING_WORKTREE", "READY_FOR_CODEX">>
Ready == Len(Stages)
Ends == {"BLOCKED", "FAILED"}

\* "none": no run directory; "bare": a directory without a receipt.
RunState == {Stages[i] : i \in 1..Ready} \cup Ends \cup {"none", "bare"}
Event == [from : RunState, to : RunState]
Torn == [from |-> "none", to |-> "none"]

\* A branch has the base commit for its tip or another; "by" is who created it.
Branch == [tip : {"base", "moved"}, by : Archives \cup {"others"}]
NoBranch == [tip |-> "base", by |-> "nobody"]

VARIABLES
  run,      \* state in each receipt
  journal,  \* events of each run
  branch,   \* delivery branches of the repository
  worktree, \* worktree of each run: "none", "detached", "clean" or "edited"
  locks,    \* lock files: owner, "free" or "orphan"
  touched   \* branches others created, moved or deleted

prepared == <<run, journal, branch, worktree, touched>>

LockNames == ({"run"} \X Archives) \cup ({"branch"} \X Branches) \cup {<<"watch", "inbox">>}
Take(p, name) == locks[name] = "free" /\ locks' = [locks EXCEPT ![name] = p]
ReleaseRun(p) ==
  locks' = [n \in LockNames |-> IF locks[n] = p /\ n[1] # "watch" THEN "free" ELSE locks[n]]
Orphan(p) == locks' = [n \in LockNames |-> IF locks[n] = p THEN "orphan" ELSE locks[n]]

Mine(p) == job[p].archive
MyBranch(p) == BranchOf[job[p].archive]

PreparationInit ==
  /\ run = [a \in Archives |-> "none"] /\ journal = [a \in Archives |-> <<>>]
  /\ branch = [b \in Branches |-> NoBranch] /\ worktree = [a \in Archives |-> "none"]
  /\ locks = [n \in LockNames |-> "free"] /\ touched = {}

\* The journal is read to its last record, which must be whole, and extended.
Whole(a) == \A i \in DOMAIN journal[a] : journal[a][i] # Torn

Journals(a, from, to) ==
  /\ Whole(a)
  /\ journal' = [journal EXCEPT ![a] = Append(@, [from |-> from, to |-> to])]

\* Every error removes what was created and closes the run.
Fail(p, end) == job' = [job EXCEPT ![p].pc = "clean", ![p].end = end]

-----------------------------------------------------------------------------
TakeRunLock(p) ==
  /\ job[p].pc = "lock"
  /\ \/ Take(p, <<"run", Mine(p)>>) /\ GoTo(p, "receipt")
     \/ locks[<<"run", Mine(p)>>] # "free" /\ Answer(p, "failed") /\ UNCHANGED locks
  /\ UNCHANGED <<prepared, files, accepted, rejected, misread>>

\* Mutant: the worktree is looked at and not the receipt.
LooksReady(a) ==
  worktree[a] = "clean" /\ branch[BranchOf[a]].tip = "base" /\ branch[BranchOf[a]] # NoBranch

\* A run is never prepared twice: one that is ready and untouched is answered
\* with its receipt, every other one is refused and left as it is.
Untouched(a) ==
  /\ run[a] = Stages[Ready] /\ worktree[a] = "clean" /\ branch[BranchOf[a]].tip = "base"
  /\ branch[BranchOf[a]] # NoBranch

ExistingRun(p) ==
  /\ job[p].pc = "receipt" /\ run[Mine(p)] # "none"
  /\ Answer(p, IF Untouched(Mine(p)) THEN "ready" ELSE "failed") /\ ReleaseRun(p)
  /\ UNCHANGED <<prepared, files, accepted, rejected, misread>>

MakeRunDirectory(p) ==
  /\ job[p].pc = "receipt" /\ run[Mine(p)] = "none"
  /\ run' = [run EXCEPT ![Mine(p)] = "bare"] /\ GoTo(p, "open")
  /\ UNCHANGED <<journal, branch, worktree, touched, locks, files, accepted, rejected, misread>>

OpenRun(p) ==
  /\ job[p].pc = "open"
  /\ run' = [run EXCEPT ![Mine(p)] = Stages[1]]
  /\ IF Deliverable(Mine(p)) THEN GoTo(p, "branch_lock") ELSE Fail(p, "BLOCKED")
  /\ UNCHANGED <<journal, branch, worktree, touched, locks, files, accepted, rejected, misread>>

TakeBranchLock(p) ==
  /\ job[p].pc = "branch_lock"
  /\ \/ Take(p, <<"branch", MyBranch(p)>>) /\ GoTo(p, "announce")
     \/ locks[<<"branch", MyBranch(p)>>] # "free" /\ Fail(p, "FAILED") /\ UNCHANGED locks
  /\ UNCHANGED <<prepared, files, accepted, rejected, misread>>

\* Mutant: the receipt is written first.
RecordThenAnnounce(p) ==
  /\ job[p].pc = "announce"
  /\ run' = [run EXCEPT ![Mine(p)] = Stages[job[p].stage + 1]]
  /\ job' = [job EXCEPT ![p].pc = "record", ![p].stage = @ + 1]
  /\ UNCHANGED <<journal, branch, worktree, touched, locks, files, accepted, rejected, misread>>

\* A stage is announced in the journal, then written to the receipt.
Announce(p) ==
  /\ job[p].pc = "announce" /\ Journals(Mine(p), Stages[job[p].stage], Stages[job[p].stage + 1])
  /\ job' = [job EXCEPT ![p].pc = "record", ![p].stage = @ + 1]
  /\ UNCHANGED <<run, branch, worktree, touched, locks, files, accepted, rejected, misread>>

\* The work that a stage names comes after its receipt.
WorkOf(stage) ==
  CASE Stages[stage] = "RESOLVING_REPOSITORY" -> "resolve"
    [] Stages[stage] = "FETCHING_BASE" -> "fetch"
    [] Stages[stage] = "CREATING_WORKTREE" -> "add"
    [] Stages[stage] = "READY_FOR_CODEX" -> "finish"
    [] OTHER -> "announce"

Record(p) ==
  /\ job[p].pc = "record"
  /\ run' = [run EXCEPT ![Mine(p)] = Stages[job[p].stage]] /\ GoTo(p, WorkOf(job[p].stage))
  /\ UNCHANGED <<journal, branch, worktree, touched, locks, files, accepted, rejected, misread>>

\* Repository, remote and branch name are those of the trusted configuration,
\* or the run is refused; a branch of that name already there fails it.
ResolveRepository(p) ==
  /\ job[p].pc = "resolve"
  /\ \/ branch[MyBranch(p)] = NoBranch /\ GoTo(p, "announce")
     \/ \E end \in Ends : Fail(p, end)
  /\ UNCHANGED <<prepared, locks, files, accepted, rejected, misread>>

\* The base commit is fetched if need be, and is an ancestor of its branch.
PrepareBase(p) ==
  /\ job[p].pc = "fetch" /\ (GoTo(p, "announce") \/ \E end \in Ends : Fail(p, end))
  /\ UNCHANGED <<prepared, locks, files, accepted, rejected, misread>>

\* First a detached worktree without files, which is surely this run's own.
AddWorktree(p) ==
  /\ job[p].pc = "add"
  /\ IF worktree[Mine(p)] = "none" /\ branch[MyBranch(p)] = NoBranch
     THEN /\ worktree' = [worktree EXCEPT ![Mine(p)] = "detached"]
          /\ job' = [job EXCEPT ![p].pc = "make_branch", ![p].added = TRUE]
     ELSE Fail(p, "FAILED") /\ UNCHANGED worktree
  /\ UNCHANGED <<run, journal, branch, touched, locks, files, accepted, rejected, misread>>

\* git creates the branch only where there is none.
MakeBranch(p) ==
  /\ job[p].pc = "make_branch"
  /\ IF branch[MyBranch(p)] = NoBranch
     THEN /\ branch' = [branch EXCEPT ![MyBranch(p)] = [tip |-> "base", by |-> Mine(p)]]
          /\ job' = [job EXCEPT ![p].pc = "tip", ![p].branched = TRUE]
     ELSE Fail(p, "FAILED") /\ UNCHANGED branch
  /\ UNCHANGED <<run, journal, worktree, touched, locks, files, accepted, rejected, misread>>

ReadTip(p) ==
  /\ job[p].pc = "tip"
  /\ IF branch[MyBranch(p)] = NoBranch THEN Fail(p, "FAILED")
     ELSE job' = [job EXCEPT ![p].pc = "populate", ![p].tip = branch[MyBranch(p)].tip]
  /\ UNCHANGED <<prepared, locks, files, accepted, rejected, misread>>

\* HEAD is attached, the files are written, and the result is looked at once:
\* on the branch, at the base commit, clean.
Populate(p) ==
  /\ job[p].pc = "populate"
  /\ worktree' = [worktree EXCEPT ![Mine(p)] = "clean"]
  /\ IF branch[MyBranch(p)].tip = "base" /\ branch[MyBranch(p)] # NoBranch
     THEN GoTo(p, "announce") ELSE Fail(p, "FAILED")
  /\ UNCHANGED <<run, journal, branch, touched, locks, files, accepted, rejected, misread>>

FinishRun(p) ==
  /\ job[p].pc = "finish" /\ Answer(p, "ready") /\ ReleaseRun(p)
  /\ UNCHANGED <<prepared, files, accepted, rejected, misread>>

-----------------------------------------------------------------------------
\* Mutant: the branch is taken for one that this run created.
RemoveAll(p) ==
  /\ job[p].pc = "clean"
  /\ worktree' = IF job[p].added THEN [worktree EXCEPT ![Mine(p)] = "none"] ELSE worktree
  /\ GoTo(p, "compare")
  /\ UNCHANGED <<run, journal, branch, touched, locks, files, accepted, rejected, misread>>

\* What this run created is removed, but a branch that moved is kept.
RemoveWorktree(p) ==
  /\ job[p].pc = "clean"
  /\ worktree' = IF job[p].added THEN [worktree EXCEPT ![Mine(p)] = "none"] ELSE worktree
  /\ GoTo(p, IF job[p].branched THEN "compare" ELSE "close")
  /\ UNCHANGED <<run, journal, branch, touched, locks, files, accepted, rejected, misread>>

\* Mutant: the branch is removed without a look at its tip.
CompareNoTip(p) ==
  /\ job[p].pc = "compare" /\ GoTo(p, "delete")
  /\ UNCHANGED <<prepared, locks, files, accepted, rejected, misread>>

CompareTip(p) ==
  /\ job[p].pc = "compare"
  /\ GoTo(p, IF /\ branch[MyBranch(p)] # NoBranch
                /\ job[p].tip \in {"none", branch[MyBranch(p)].tip} THEN "delete" ELSE "close")
  /\ UNCHANGED <<prepared, locks, files, accepted, rejected, misread>>

\* git does not delete a branch that some worktree is on.
CheckedOut(b) == \E a \in Archives : BranchOf[a] = b /\ worktree[a] \in {"clean", "edited"}

DeleteBranch(p) ==
  /\ job[p].pc = "delete"
  /\ branch' = IF CheckedOut(MyBranch(p)) THEN branch ELSE [branch EXCEPT ![MyBranch(p)] = NoBranch]
  /\ GoTo(p, "close")
  /\ UNCHANGED <<run, journal, worktree, touched, locks, files, accepted, rejected, misread>>

\* The end is announced, unless the journal fails, and written.
AnnounceEnd(p) ==
  /\ job[p].pc = "close"
  /\ \/ Journals(Mine(p), Stages[job[p].stage], job[p].end)
     \/ ~Whole(Mine(p)) /\ UNCHANGED journal
  /\ GoTo(p, "end")
  /\ UNCHANGED <<run, branch, worktree, touched, locks, files, accepted, rejected, misread>>

RecordEnd(p) ==
  /\ job[p].pc = "end"
  /\ run' = [run EXCEPT ![Mine(p)] = job[p].end]
  /\ Answer(p, IF job[p].end = "BLOCKED" THEN "blocked" ELSE "failed") /\ ReleaseRun(p)
  /\ UNCHANGED <<journal, branch, worktree, touched, files, accepted, rejected, misread>>

\* An error of the machine.  An event may be cut short, and but for the first its
\* stage is then taken for reached.  While the error is handled another one is
\* swallowed: a worktree is not removed, or the receipt stays as it is.
WorkPc == {"open", "branch_lock", "record", "resolve", "fetch", "add", "make_branch",
  "tip", "populate", "finish"}
PreparationTrouble(p) ==
  /\ \/ job[p].pc \in WorkPc /\ Fail(p, "FAILED") /\ UNCHANGED <<journal, locks>>
     \/ /\ job[p].pc = "announce"
        /\ \/ journal' = [journal EXCEPT ![Mine(p)] = Append(@, Torn)]
           \/ UNCHANGED journal
        /\ job' = [job EXCEPT ![p].pc = "clean", ![p].end = "FAILED", ![p].stage = IF @ = 1 THEN 1 ELSE @ + 1]
        /\ UNCHANGED locks
     \/ /\ job[p].pc = "clean" /\ GoTo(p, IF job[p].branched THEN "compare" ELSE "close")
        /\ UNCHANGED <<journal, locks>>
     \/ job[p].pc \in {"lock", "receipt", "end"} /\ Answer(p, "failed") /\ ReleaseRun(p) /\ UNCHANGED journal
  /\ UNCHANGED <<run, branch, worktree, touched, files, accepted, rejected, misread>>

PreparationStep(p) ==
  \/ TakeRunLock(p) \/ ExistingRun(p) \/ MakeRunDirectory(p) \/ OpenRun(p) \/ TakeBranchLock(p)
  \/ Announce(p) \/ Record(p) \/ ResolveRepository(p) \/ PrepareBase(p)
  \/ AddWorktree(p) \/ MakeBranch(p) \/ ReadTip(p) \/ Populate(p) \/ FinishRun(p)
  \/ RemoveWorktree(p) \/ CompareTip(p) \/ DeleteBranch(p) \/ AnnounceEnd(p) \/ RecordEnd(p)
=============================================================================
