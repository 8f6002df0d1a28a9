------------------------------- MODULE Inbox -------------------------------
(***************************************************************************)
(* The inbox and its users: scans, alone or repeated by the one watcher,   *)
(* prepare the archives that stopped changing and remember the outcome in  *)
(* an index; other processes prepare archives directly.  Others replace    *)
(* files, and work on branches and worktrees.                              *)
(***************************************************************************)
EXTENDS Preparation, FiniteSets

CONSTANTS
  MaxVersion,      \* versions others give a file
  MaxTrouble,      \* crashes, errors, and steps of others on branches and worktrees
  MaxCalls         \* scans and preparations started

ASSUME InboxAssumption ==
  /\ MaxVersion \in Nat /\ MaxTrouble \in Nat /\ MaxCalls \in Nat

Versions == 0..MaxVersion
Results == {"none", "ready", "rejected", "blocked", "failed"}
Entry == [version : Versions, result : Results]
NoEntry == [version |-> 0, result |-> "none"]

VARIABLES
  index,  \* what the index says of each file
  trouble, calls

Callers == {"nobody", "command", "scan", "watch"}
Scanners == {"scan", "watch"}

\* Where a process is: about to start, taking an archive in, building, cleaning up.
StartPc == {"idle", "watching", "choose", "stabilize", "copy"}
IntakePc == {"find", "judge", "lock"}
BuildPc == {"announce", "record", "resolve", "fetch", "add", "make_branch", "tip", "populate", "finish"}
CleanPc == {"clean", "compare", "delete", "close", "end"}
HoldPc == {"receipt", "open", "branch_lock"} \cup BuildPc \cup CleanPc

\* What a process carries: who called it, the file and version it observed, the
\* files a scan has still to look at and its copy of the index; the archive it
\* copied and the stage, worktree and branch it got to.
Job == [pc : StartPc \cup IntakePc \cup HoldPc \cup {"answered"}, caller : Callers,
  file : Files \cup {"none"}, version : Versions, todo : SUBSET Files,
  copy : [Files -> Entry], archive : Archives \cup {"none"}, stage : 1..Ready, added : BOOLEAN,
  branched : BOOLEAN, tip : {"none", "base", "moved"}, end : Ends \cup {"none"}, result : Results]

Resting(caller) ==
  [pc |-> IF caller = "watch" THEN "watching" ELSE "idle", caller |-> IF caller = "watch" THEN caller ELSE "nobody",
   file |-> "none", version |-> 0, todo |-> {}, copy |-> [f \in Files |-> NoEntry],
   archive |-> "none", stage |-> 1, added |-> FALSE,
   branched |-> FALSE, tip |-> "none", end |-> "none", result |-> "none"]

vars == <<files, accepted, rejected, misread, job, run, journal, branch, worktree, locks, touched,
  index, trouble, calls>>
stores == <<files, accepted, rejected, misread, run, journal, branch, worktree, touched>>
counts == <<trouble, calls>>

Init ==
  /\ files \in [Files -> [archive : Archives, version : {0}]]
  /\ accepted = {} /\ rejected = [a \in Archives |-> "none"] /\ misread = {}
  /\ job = [p \in Procs |-> Resting("nobody")]
  /\ PreparationInit
  /\ index = [f \in Files |-> NoEntry]
  /\ trouble = 0 /\ calls = 0

Count == calls < MaxCalls /\ calls' = calls + 1 /\ UNCHANGED trouble

-----------------------------------------------------------------------------
\* wco prepare: the archive in a file, once.
Prepare(p, f) ==
  /\ Idle(p) /\ Count
  /\ job' = [job EXCEPT ![p].pc = "copy", ![p].caller = "command", ![p].file = f]
  /\ UNCHANGED <<stores, locks, index>>

StartWatch(p) ==
  /\ Idle(p) /\ Take(p, <<"watch", "inbox">>)
  /\ job' = [job EXCEPT ![p] = Resting("watch")]
  /\ UNCHANGED <<stores, index, counts>>

StopWatch(p) ==
  /\ job[p].pc = "watching"
  /\ job' = [job EXCEPT ![p] = Resting("nobody")]
  /\ locks' = [locks EXCEPT ![<<"watch", "inbox">>] = "free"]
  /\ UNCHANGED <<stores, index, counts>>

\* A scan reads the index once, when it starts.
StartScan(p) ==
  /\ Idle(p) \/ job[p].pc = "watching"
  /\ Count
  /\ job' = [job EXCEPT ![p].pc = "choose", ![p].todo = Files, ![p].copy = index,
                        ![p].caller = IF @ = "watch" THEN @ ELSE "scan"]
  /\ UNCHANGED <<stores, locks, index>>

\* A file whose index entry is of this version and final is skipped.
Skipped(p, f) ==
  /\ job[p].copy[f].version = files[f].version
  /\ job[p].copy[f].result \in {"ready", "rejected"}

Observe(p, f) ==
  /\ job[p].pc = "choose" /\ f \in job[p].todo
  /\ job' = [job EXCEPT ![p].todo = @ \ {f}, ![p].file = f, ![p].version = files[f].version,
                        ![p].pc = IF Skipped(p, f) THEN "choose" ELSE "stabilize"]
  /\ UNCHANGED <<stores, locks, index, counts>>

\* A file that changed while it was watched is left for a later scan.
Stabilize(p) ==
  /\ job[p].pc = "stabilize"
  /\ GoTo(p, IF files[job[p].file].version = job[p].version THEN "copy" ELSE "choose")
  /\ UNCHANGED <<stores, locks, index, counts>>

Clear(j) == [Resting("nobody") EXCEPT !.caller = j.caller, !.todo = j.todo, !.copy = j.copy, !.pc = "choose"]

\* Mutant: the entry is of the file as it is now.
NoteCurrent(p) ==
  /\ job[p].pc = "answered" /\ job[p].caller \in Scanners
  /\ job' = [job EXCEPT ![p] = [Clear(job[p]) EXCEPT
       !.copy[job[p].file] = [version |-> files[job[p].file].version, result |-> job[p].result]]]
  /\ UNCHANGED <<stores, locks, index, counts>>

\* The outcome is noted under the version that was observed.
Note(p) ==
  /\ job[p].pc = "answered" /\ job[p].caller \in Scanners
  /\ job' = [job EXCEPT ![p] = [Clear(job[p]) EXCEPT
       !.copy[job[p].file] = [version |-> job[p].version, result |-> job[p].result]]]
  /\ UNCHANGED <<stores, locks, index, counts>>

Return(p) ==
  /\ job[p].pc = "answered" /\ job[p].caller = "command"
  /\ job' = [job EXCEPT ![p] = Resting("nobody")]
  /\ UNCHANGED <<stores, locks, index, counts>>

\* The index is written as a whole, over what another scan may have written.
EndScan(p) ==
  /\ job[p].pc = "choose" /\ job[p].todo = {}
  /\ index' = job[p].copy
  /\ job' = [job EXCEPT ![p] = Resting(job[p].caller)]
  /\ UNCHANGED <<stores, locks, counts>>

TakeIn(p) == IntakeStep(p) /\ UNCHANGED <<run, journal, branch, worktree, touched, locks, index, counts>>
PrepareRun(p) == PreparationStep(p) /\ UNCHANGED <<files, accepted, rejected, misread, index, counts>>

Troubled == trouble < MaxTrouble /\ trouble' = trouble + 1 /\ UNCHANGED calls

Trouble(p) ==
  /\ \/ IntakeTrouble(p) /\ UNCHANGED <<run, journal, branch, worktree, touched, locks>>
     \/ PreparationTrouble(p) /\ UNCHANGED <<files, accepted, rejected, misread>>
  /\ UNCHANGED index /\ Troubled

\* The process dies; its locks stay, and an event being written may be cut short.
Crash(p) ==
  /\ ~Idle(p) /\ Orphan(p)
  /\ job' = [job EXCEPT ![p] = Resting("nobody")]
  /\ \/ UNCHANGED journal
     \/ job[p].pc = "announce" /\ journal' = [journal EXCEPT ![Mine(p)] = Append(@, Torn)]
  /\ UNCHANGED <<files, accepted, rejected, misread, run, branch, worktree, touched, index>>
  /\ Troubled

RemoveLock ==
  /\ \E n \in LockNames : locks[n] = "orphan" /\ locks' = [locks EXCEPT ![n] = "free"]
  /\ UNCHANGED <<stores, job, index, counts>>

Replace(f, a) ==
  /\ files[f].version < MaxVersion
  /\ files' = [files EXCEPT ![f] = [archive |-> a, version |-> @.version + 1]]
  /\ UNCHANGED <<accepted, rejected, misread, job, run, journal, branch, worktree, locks, touched, index, counts>>

\* Editors and git commands in the repository; the executor is one of them.
Interfere ==
  /\ Troubled
  /\ \/ \E a \in Archives :
          /\ worktree[a] = "clean" /\ worktree' = [worktree EXCEPT ![a] = "edited"]
          /\ UNCHANGED <<branch, touched>>
     \/ \E b \in Branches :
          /\ \/ branch[b] # NoBranch /\ branch' = [branch EXCEPT ![b].tip = "moved"]
             \/ branch[b] # NoBranch /\ branch' = [branch EXCEPT ![b] = NoBranch]
             \/ branch[b] = NoBranch /\ \E t \in {"base", "moved"} :
                  branch' = [branch EXCEPT ![b] = [tip |-> t, by |-> "others"]]
          /\ touched' = touched \cup {b} /\ UNCHANGED worktree
  /\ UNCHANGED <<files, accepted, rejected, misread, job, run, journal, locks, index>>

Next ==
  \/ \E p \in Procs :
       \/ \E f \in Files : Prepare(p, f) \/ Observe(p, f)
       \/ StartWatch(p) \/ StopWatch(p) \/ StartScan(p)
       \/ Stabilize(p) \/ Note(p) \/ Return(p) \/ EndScan(p)
       \/ TakeIn(p) \/ PrepareRun(p) \/ Trouble(p) \/ Crash(p)
  \/ RemoveLock \/ Interfere
  \/ \E f \in Files, a \in Archives : Replace(f, a)

Spec == Init /\ [][Next]_vars

-----------------------------------------------------------------------------
\* Every variable has its type.
TypeOK ==
  /\ files \in [Files -> [archive : Archives, version : Versions]]
  /\ accepted \subseteq Archives /\ misread \subseteq Archives
  /\ rejected \in [Archives -> Refusals \cup {"none"}]
  /\ job \in [Procs -> Job]
  /\ run \in [Archives -> RunState] /\ journal \in [Archives -> Seq(Event)]
  /\ branch \in [Branches -> Branch \cup {NoBranch}]
  /\ worktree \in [Archives -> {"none", "detached", "clean", "edited"}]
  /\ locks \in [LockNames -> Procs \cup {"free", "orphan"}] /\ touched \subseteq Branches
  /\ index \in [Files -> Entry]
  /\ trouble \in 0..MaxTrouble /\ calls \in 0..MaxCalls

\* The worktree of a ready run is on a branch that the run created, unless others
\* took the branch away.
OwnsBranch(a) == BranchOf[a] \in touched \/ branch[BranchOf[a]].by = a

\* A run is ready for good: its worktree is there and nobody is about to change that.
Settled(a) ==
  /\ run[a] = Stages[Ready] /\ worktree[a] # "none"
  /\ \A q \in Procs : Mine(q) = a /\ job[q].pc \in HoldPc => job[q].pc = "receipt"

\* Whoever is told that a run is ready finds its worktree, and the branch the
\* worktree is on is that run's own: two runs that ask for one branch never both
\* stand ready on it.  Only the receipt may outlive the worktree, when the cleanup
\* of a late error is itself cut short.
ReadyOwnsItsBranch ==
  /\ \A a \in Archives : run[a] = Stages[Ready] /\ worktree[a] # "none" => OwnsBranch(a)
  /\ \A p \in Procs : job[p].result = "ready" => Settled(Mine(p))

\* The events up to the one that led to a stage, in order.
Announced(a, k) ==
  /\ Len(journal[a]) >= k - 1
  /\ \A j \in 1..(k - 1) : journal[a][j] = [from |-> Stages[j], to |-> Stages[j + 1]]

\* The receipt never runs ahead of the journal: each stage it shows was announced,
\* in order, and nothing was announced that was not the stage's.
JournalLeads == \A a \in Archives : \A k \in 1..Ready : run[a] = Stages[k] => Announced(a, k)

\* Whoever works on a run holds its lock, and the lock of a branch it may remove.
HoldsLocks(p) ==
  job[p].pc \in HoldPc =>
    /\ locks[<<"run", Mine(p)>>] = p
    /\ job[p].pc \in BuildPc \/ job[p].branched => locks[<<"branch", MyBranch(p)>>] = p

\* What a process carries fits where it is.
Carries(p) ==
  LET j == job[p]
  IN  /\ j.pc \in StartPc => j.archive = "none"
      /\ j.pc \in IntakePc \cup HoldPc => j.archive \in Archives
      /\ j.pc # "answered" => j.result = "none"
      /\ j.pc \in StartPc \cup IntakePc \cup {"receipt", "open", "branch_lock"} =>
           j.stage = 1 /\ ~j.branched /\ j.tip = "none"
      /\ j.pc \in {"tip", "populate", "compare", "delete"} => j.branched
      /\ j.pc \in CleanPc => j.end \in Ends

\* The stage of a process is the last it announced, and its receipt and its worktree
\* are as far as its place says.
AtStage(p) ==
  LET a == Mine(p)
      j == job[p]
  IN  /\ j.pc \in HoldPc \ {"receipt"} => run[a] # "none"
      /\ j.pc \in HoldPc \ ({"receipt", "finish"} \cup CleanPc) => run[a] # Stages[Ready]
      /\ j.pc \in {"open", "branch_lock"} \cup BuildPc => Len(journal[a]) = j.stage - 1 /\ Announced(a, j.stage)
      /\ j.pc = "announce" => j.stage < Ready
      /\ j.pc = "record" => j.stage > 1
      /\ j.pc = "resolve" => j.stage = 2
      /\ j.pc = "fetch" => j.stage = 3
      /\ j.pc \in {"add", "make_branch", "tip", "populate"} => j.stage = 5
      /\ j.pc = "finish" => j.stage = Ready /\ run[a] = Stages[Ready]
      /\ (j.pc = "announce" /\ j.stage = 5) \/ (j.pc \in {"announce", "record", "finish"} /\ j.stage > 5) =>
           worktree[a] \in {"clean", "edited"} /\ j.branched

\* A branch that a process may yet remove is its run's own.
KnowsItsBranch(p) ==
  job[p].branched /\ job[p].pc \in HoldPc \ {"close", "end"} => OwnsBranch(Mine(p))

\* What is refused has a flaw, unless the disk failed while it was checked.
RefusedForCause(a) == rejected[a] # "none" => ~Sound(a) \/ a \in misread

\* What is said of a file, now or earlier, holds for the archive that was seen.
Decided(a, result) ==
  /\ result = "ready" => Settled(a)
  /\ result = "rejected" => ~Executable(a) \/ (rejected[a] = "rejected" /\ RefusedForCause(a))
EntryHolds(f, e) ==
  /\ e.version <= files[f].version
  /\ e.version = files[f].version => Decided(files[f].archive, e.result)
Observed(p) ==
  LET j == job[p]
  IN  /\ \A f \in Files : EntryHolds(f, j.copy[f])
      /\ j.result \in {"ready", "rejected"} => j.archive \in Archives /\ Decided(j.archive, j.result)
      /\ j.pc \in {"stabilize", "copy"} => j.file \in Files
      /\ j.caller \in Scanners /\ j.pc \notin StartPc \ {"stabilize", "copy"} =>
           /\ j.file \in Files /\ j.version <= files[j.file].version
           /\ j.archive # "none" /\ j.version = files[j.file].version => files[j.file].archive = j.archive

\* A run that was not begun has no journal, and a ready one is on its branch.
RunFits(a) ==
  /\ run[a] = "none" => journal[a] = <<>>
  /\ run[a] = Stages[Ready] => worktree[a] # "detached" /\ (worktree[a] # "none" => OwnsBranch(a))

\* The types, the journal ahead of the receipts, and what they rest on.
InboxInv ==
  /\ TypeOK /\ JournalLeads
  /\ \A a \in Archives : RunFits(a) /\ RefusedForCause(a)
  /\ \A f \in Files : EntryHolds(f, index[f])
  /\ \A p \in Procs : HoldsLocks(p) /\ Carries(p) /\ AtStage(p) /\ KnowsItsBranch(p) /\ Observed(p)

\* The failure of one run never takes the branch of another run, or of others, away:
\* what a cleanup sets out to delete its run created itself, unless others exchanged
\* it, and carries no work that others committed since the run saw its tip.
KeepsForeignBranch ==
  [][\A p \in Procs : job[p].pc # "delete" /\ job'[p].pc = "delete" =>
       LET b == branch[MyBranch(p)]
       IN  /\ MyBranch(p) \notin touched => b.by = Mine(p)
           /\ job[p].tip # "none" => b.tip = job[p].tip]_vars

\* A file that a scan would skip holds an archive that is decided: its run is ready
\* for good, it is too old to be executed, or a refusal is stored for it that every
\* later look will find, one that a flaw of the archive called for or, if it is a good
\* one, an error of the disk while it was checked.  The index is never ahead of that.
SkipsOnlyDecided ==
  \A f \in Files : index[f].version = files[f].version => Decided(files[f].archive, index[f].result)
=============================================================================
