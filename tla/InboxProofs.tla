----------------------------- MODULE InboxProofs -----------------------------
(***************************************************************************)
(* Proofs about Inbox, for any number of processes, archives, files,       *)
(* calls, crashes, errors and steps of others: InboxInv is inductive, so   *)
(* receipts follow the journal, a run that is ready has its worktree and   *)
(* its branch, a skipped file is ready, too old or refused for a flaw or   *)
(* after an error of the disk, and no cleanup takes a branch away that its *)
(* run did not create.                                                     *)
(***************************************************************************)
EXTENDS Inbox, TLAPS

-----------------------------------------------------------------------------
(* Constants.                                                              *)

\* The stages are distinct, and none is an end.
LEMMA StageFacts ==
  /\ Ready = 7
  /\ \A i \in 1..7 : Stages[i] \in RunState /\ Stages[i] \notin Ends \cup {"none", "bare"}
  /\ \A i, j \in 1..7 : Stages[i] = Stages[j] => i = j
  /\ Ends \cup {"none", "bare"} \subseteq RunState
  /\ "none" \notin Ends
<1>1. Ready = 7
  BY DEF Ready, Stages
<1>2. \A i \in 1..7 : \/ i = 1 /\ Stages[i] = "ACCEPTED"
                      \/ i = 2 /\ Stages[i] = "RESOLVING_REPOSITORY"
                      \/ i = 3 /\ Stages[i] = "FETCHING_BASE"
                      \/ i = 4 /\ Stages[i] = "VERIFYING_BASE"
                      \/ i = 5 /\ Stages[i] = "CREATING_WORKTREE"
                      \/ i = 6 /\ Stages[i] = "VERIFYING_WORKTREE"
                      \/ i = 7 /\ Stages[i] = "READY_FOR_CODEX"
  BY DEF Stages
<1>3. \A i, j \in 1..7 : Stages[i] = Stages[j] => i = j
  BY <1>2
<1>4. \A i \in 1..7 : Stages[i] \notin Ends \cup {"none", "bare"}
  BY <1>2 DEF Ends
<1>5. \A i \in 1..7 : Stages[i] \in RunState
  BY <1>1 DEF RunState
<1>6. Ends \cup {"none", "bare"} \subseteq RunState /\ "none" \notin Ends
  BY DEF RunState, Ends
<1> QED
  BY <1>1, <1>3, <1>4, <1>5, <1>6

\* The work of each stage.
LEMMA WorkFacts ==
  /\ WorkOf(2) = "resolve" /\ WorkOf(3) = "fetch" /\ WorkOf(4) = "announce"
  /\ WorkOf(5) = "add" /\ WorkOf(6) = "announce" /\ WorkOf(7) = "finish"
BY DEF WorkOf, Stages

-----------------------------------------------------------------------------
(* What a process carries.                                                 *)

LEMMA JobFacts ==
  ASSUME TypeOK, NEW p \in Procs
  PROVE  /\ job[p] \in Job /\ job[p].pc \in StartPc \cup IntakePc \cup HoldPc \cup {"answered"}
         /\ job[p].caller \in Callers /\ job[p].file \in Files \cup {"none"} /\ job[p].version \in Versions
         /\ job[p].todo \in SUBSET Files /\ job[p].copy \in [Files -> Entry]
         /\ job[p].archive \in Archives \cup {"none"} /\ job[p].stage \in 1..Ready
         /\ job[p].added \in BOOLEAN /\ job[p].branched \in BOOLEAN
         /\ job[p].tip \in {"none", "base", "moved"} /\ job[p].end \in Ends \cup {"none"}
         /\ job[p].result \in Results
<1>1. job[p] \in Job
  BY DEF TypeOK
<1> QED
  BY <1>1 DEF Job

\* Only p's job changes, to a record of its type.
Becomes(p, j) ==
  /\ job' \in [Procs -> Job] /\ job'[p] = j
  /\ \A q \in Procs \ {p} : job'[q] = job[q]

LEMMA Update ==
  ASSUME TypeOK, NEW p \in Procs, NEW j \in Job, job' = [job EXCEPT ![p] = j]
  PROVE  Becomes(p, j)
BY DEF TypeOK, Becomes

LEMMA Gone ==
  ASSUME TypeOK, NEW p \in Procs, NEW at \in StartPc \cup IntakePc \cup HoldPc, GoTo(p, at)
  PROVE  Becomes(p, [job[p] EXCEPT !.pc = at])
<1>0. job[p] \in Job
  BY JobFacts
<1>1. [job[p] EXCEPT !.pc = at] \in Job
  BY <1>0 DEF Job
<1>2. job' = [job EXCEPT ![p] = [job[p] EXCEPT !.pc = at]]
  BY DEF GoTo
<1> QED
  BY <1>1, <1>2, Update

LEMMA Answered ==
  ASSUME TypeOK, NEW p \in Procs, NEW r \in Results, Answer(p, r)
  PROVE  Becomes(p, [job[p] EXCEPT !.pc = "answered", !.result = r])
<1>0. job[p] \in Job
  BY JobFacts
<1>1. [job[p] EXCEPT !.pc = "answered", !.result = r] \in Job
  BY <1>0 DEF Job
<1>2. job' = [job EXCEPT ![p] = [job[p] EXCEPT !.pc = "answered", !.result = r]]
  BY DEF Answer
<1> QED
  BY <1>1, <1>2, Update

LEMMA Failed ==
  ASSUME TypeOK, NEW p \in Procs, NEW e \in Ends, Fail(p, e)
  PROVE  Becomes(p, [job[p] EXCEPT !.pc = "clean", !.end = e])
<1>0. "clean" \in HoldPc /\ job[p] \in Job
  BY JobFacts DEF HoldPc, CleanPc
<1>1. [job[p] EXCEPT !.pc = "clean", !.end = e] \in Job
  BY <1>0 DEF Job
<1>2. job' = [job EXCEPT ![p] = [job[p] EXCEPT !.pc = "clean", !.end = e]]
  BY DEF Fail
<1> QED
  BY <1>1, <1>2, Update

LEMMA AtRest ==
  ASSUME NEW c \in Callers
  PROVE  Resting(c) \in Job
<1>1. 1 \in 1..Ready
  BY StageFacts
<1>2. [f \in Files |-> NoEntry] \in [Files -> Entry]
  BY InboxAssumption DEF NoEntry, Entry, Versions, Results
<1>3. 0 \in Versions /\ {} \in SUBSET Files
  BY InboxAssumption DEF Versions
<1>4. CASE c = "watch"
  <2>1. Resting(c) = [pc |-> "watching", caller |-> "watch", file |-> "none", version |-> 0, todo |-> {},
          copy |-> [f \in Files |-> NoEntry], archive |-> "none", stage |-> 1, added |-> FALSE,
          branched |-> FALSE, tip |-> "none", end |-> "none", result |-> "none"]
    BY <1>4 DEF Resting
  <2> QED
    BY <1>1, <1>2, <1>3, <2>1 DEF Job, Callers, Results, StartPc
<1>5. CASE c # "watch"
  <2>1. Resting(c) = [pc |-> "idle", caller |-> "nobody", file |-> "none", version |-> 0, todo |-> {},
          copy |-> [f \in Files |-> NoEntry], archive |-> "none", stage |-> 1, added |-> FALSE,
          branched |-> FALSE, tip |-> "none", end |-> "none", result |-> "none"]
    BY <1>5 DEF Resting
  <2> QED
    BY <1>1, <1>2, <1>3, <2>1 DEF Job, Callers, Results, StartPc
<1> QED
  BY <1>4, <1>5

LEMMA Cleared ==
  ASSUME NEW j \in Job
  PROVE  Clear(j) \in Job
<1>1. Resting("nobody") \in Job
  BY AtRest DEF Callers
<1>2. j.caller \in Callers /\ j.todo \in SUBSET Files /\ j.copy \in [Files -> Entry]
  BY DEF Job
<1> QED
  BY <1>1, <1>2 DEF Clear, Job, StartPc

-----------------------------------------------------------------------------
(* What a step of one process leaves alone.                                *)

Fits(p) == HoldsLocks(p) /\ Carries(p) /\ AtStage(p) /\ KnowsItsBranch(p) /\ Observed(p)
LeadsIn(a) == \A k \in 1..Ready : run[a] = Stages[k] => Announced(a, k)
SameRun(a) == run'[a] = run[a] /\ journal'[a] = journal[a] /\ worktree'[a] = worktree[a]

\* The locks of runs and branches.
WorkLocks == LockNames \ {<<"watch", "inbox">>}

\* A refusal is stored once, for a cause.
RefusalsStand ==
  /\ \A a \in Archives : rejected'[a] = rejected[a] \/ (rejected[a] = "none" /\ (~Sound(a) \/ a \in misread'))
  /\ misread \subseteq misread'

LEMMA RefusalStays ==
  ASSUME NEW a \in Archives, RefusalsStand, RefusedForCause(a)
  PROVE  RefusedForCause(a)' /\ (rejected[a] # "none" => rejected'[a] = rejected[a])
<1>1. Sound(a)' <=> Sound(a)
  BY DEF Sound, SafeEntries, OneRoot, ChecksumsMatch, BundleValid, ContractValid, CommandsAllowed, PayloadDeclared
<1> QED
  BY <1>1 DEF RefusalsStand, RefusedForCause

\* A process changes a run only while it holds it, a branch only while it holds that,
\* and nothing of a run that is settled.
Keeps(p) ==
  /\ \A q \in Procs \ {p} : job'[q] = job[q]
  /\ \A q \in Procs \ {p}, n \in WorkLocks : locks[n] = q => locks'[n] = q
  /\ \A a \in Archives : SameRun(a) \/ (job[p].pc \in HoldPc /\ Mine(p) = a)
  /\ \A b \in Branches : branch'[b] = branch[b] \/ (locks[<<"branch", b>>] = p /\ b = MyBranch(p))
  /\ files' = files /\ touched' = touched /\ RefusalsStand
  /\ job'[p].pc \in HoldPc => job'[p].archive = job[p].archive
  /\ Mine(p) \in Archives /\ Settled(Mine(p)) =>
       SameRun(Mine(p)) /\ (job'[p].pc \in HoldPc => job'[p].pc = "receipt")

LEMMA NameFacts ==
  ASSUME NEW a \in Archives
  PROVE  /\ <<"run", a>> \in LockNames /\ <<"branch", BranchOf[a]>> \in LockNames
         /\ <<"run", a>> \in WorkLocks /\ <<"branch", BranchOf[a]>> \in WorkLocks
         /\ BranchOf[a] \in Branches
BY IntakeAssumption DEF LockNames, WorkLocks

LEMMA SettledStays ==
  ASSUME InboxInv, NEW p \in Procs, Keeps(p), NEW a \in Archives, Settled(a)
  PROVE  Settled(a)'
<1>1. SameRun(a)
  BY DEF Keeps
<1>2. ASSUME NEW q \in Procs, job'[q].archive = a, job'[q].pc \in HoldPc
      PROVE  job'[q].pc = "receipt"
  BY <1>2 DEF Keeps, Settled, Mine
<1> QED
  BY <1>1, <1>2 DEF Settled, SameRun, Mine

LEMMA DecidedStays ==
  ASSUME InboxInv, NEW p \in Procs, Keeps(p), NEW a \in Archives, NEW result, Decided(a, result)
  PROVE  Decided(a, result)'
<1>1. RefusedForCause(a) /\ RefusalsStand
  BY DEF InboxInv, Keeps
<1>2. RefusedForCause(a)' /\ (rejected[a] # "none" => rejected'[a] = rejected[a])
  BY <1>1, RefusalStays
<1> QED
  BY <1>2, SettledStays DEF Decided, Executable

LEMMA EntryStays ==
  ASSUME InboxInv, NEW p \in Procs, Keeps(p), NEW f \in Files, NEW e, EntryHolds(f, e)
  PROVE  EntryHolds(f, e)'
<1>1. files[f].archive \in Archives
  BY DEF InboxInv, TypeOK
<1>2. e.version <= files'[f].version
  BY DEF EntryHolds, Keeps
<1>3. ASSUME e.version = files'[f].version  PROVE Decided(files[f].archive, e.result)'
  <2>1. Decided(files[f].archive, e.result)
    BY <1>3 DEF EntryHolds, Keeps
  <2> QED
    <3>1. PICK a \in Archives : a = files[f].archive
      BY <1>1
    <3>2. Decided(a, e.result)'
      BY <2>1, <3>1, DecidedStays
    <3>3. files' = files
      BY DEF Keeps
    <3> QED
      BY <3>1, <3>2, <3>3 DEF Decided
<1> QED
  BY <1>2, <1>3 DEF EntryHolds, Keeps

LEMMA OthersStay ==
  ASSUME InboxInv, NEW p \in Procs, Keeps(p), NEW q \in Procs \ {p}
  PROVE  Fits(q)'
<1>0. Fits(q) /\ HoldsLocks(p) /\ Carries(p) /\ HoldsLocks(q) /\ Carries(q)
  BY DEF InboxInv, Fits
<1>1. job'[q] = job[q]
  BY DEF Keeps
<1>2. ASSUME job[q].pc \in HoldPc
      PROVE  HoldsLocks(q)' /\ KnowsItsBranch(q)' /\ AtStage(q)'
  <2>1. Mine(q) \in Archives /\ locks[<<"run", Mine(q)>>] = q
    BY <1>0, <1>2 DEF HoldsLocks, Carries, Mine
  <2>2. SameRun(Mine(q))
    BY <2>1, <1>0 DEF Keeps, HoldsLocks
  <2>3. locks'[<<"run", Mine(q)>>] = q
    BY <2>1, NameFacts DEF Keeps
  <2>6. AtStage(q)'
    BY <1>0, <1>1, <2>2 DEF Fits, AtStage, SameRun, Mine, Announced
  <2>4. CASE job[q].pc \in BuildPc \/ job[q].branched
    <3>1. locks[<<"branch", MyBranch(q)>>] = q
      BY <2>4, <1>2, <1>0 DEF HoldsLocks
    <3>2. locks'[<<"branch", MyBranch(q)>>] = q
      BY <3>1, <2>1, NameFacts DEF Keeps, MyBranch, Mine
    <3>3. branch'[MyBranch(q)] = branch[MyBranch(q)] /\ touched' = touched
      BY <3>1, <2>1, NameFacts DEF Keeps, MyBranch, Mine
    <3>4. KnowsItsBranch(q)'
      BY <1>0, <1>1, <3>3 DEF Fits, KnowsItsBranch, OwnsBranch, MyBranch, Mine
    <3>5. HoldsLocks(q)'
      BY <1>1, <2>3, <3>2 DEF HoldsLocks, Mine, MyBranch
    <3> QED
      BY <2>6, <3>4, <3>5
  <2>5. CASE ~(job[q].pc \in BuildPc \/ job[q].branched)
    <3>1. job'[q].pc \notin BuildPc /\ ~job'[q].branched
      BY <2>5, <1>1
    <3>2. HoldsLocks(q)'
      BY <3>1, <2>3, <1>1 DEF HoldsLocks, Mine
    <3> QED
      BY <2>6, <3>1, <3>2 DEF KnowsItsBranch
  <2> QED
    BY <2>4, <2>5
<1>3. ASSUME job[q].pc \notin HoldPc
      PROVE  HoldsLocks(q)' /\ KnowsItsBranch(q)' /\ AtStage(q)'
  <2>1. HoldsLocks(q)' /\ KnowsItsBranch(q)'
    BY <1>1, <1>3 DEF HoldsLocks, KnowsItsBranch
  <2>2. AtStage(q)'
    BY <1>1, <1>3 DEF AtStage, HoldPc, BuildPc
  <2> QED
    BY <2>1, <2>2
<1>4. Carries(q)'
  BY <1>0, <1>1 DEF Carries
<1>5. Observed(q)'
  <2>1. Observed(q)
    BY <1>0 DEF Fits
  <2>2. ASSUME NEW f \in Files  PROVE EntryHolds(f, job[q].copy[f])'
    <3>1. PICK e : e = job[q].copy[f]
      OBVIOUS
    <3>2. EntryHolds(f, e)'
      BY <3>1, <2>1, EntryStays DEF Observed
    <3> QED
      BY <1>1, <3>1, <3>2 DEF EntryHolds
  <2>3. ASSUME job[q].result \in {"ready", "rejected"}
        PROVE  job[q].archive \in Archives /\ Decided(job[q].archive, job[q].result)'
    <3>1. PICK a \in Archives : a = job[q].archive
      BY <2>1, <2>3 DEF Observed
    <3>2. Decided(a, job[q].result)
      BY <3>1, <2>1, <2>3 DEF Observed
    <3>3. PICK result : result = job[q].result
      OBVIOUS
    <3>4. Decided(a, result)'
      BY <3>2, <3>3, DecidedStays
    <3> QED
      BY <1>1, <3>1, <3>3, <3>4 DEF Decided
  <2>4. files' = files
    BY DEF Keeps
  <2> QED
    BY <1>1, <2>1, <2>2, <2>3, <2>4 DEF Observed
<1> QED
  BY <1>2, <1>3, <1>4, <1>5 DEF Fits

\* A step of one process keeps the invariant if it keeps what the process carries and
\* the run it holds.
LEMMA StepKeeps ==
  ASSUME InboxInv, NEW p \in Procs, Keeps(p), TypeOK', Fits(p)',
         index' = index \/ \A f \in Files : EntryHolds(f, index'[f]),
         \A a \in Archives : run[a] = Stages[Ready] /\ worktree[a] # "none" /\ OwnsBranch(a) /\ SameRun(a) => OwnsBranch(a)',
         \A a \in Archives : ~SameRun(a) => RunFits(a)' /\ LeadsIn(a)'
  PROVE  InboxInv'
<1>1. ASSUME NEW a \in Archives  PROVE RunFits(a)' /\ LeadsIn(a)'
  <2>1. CASE SameRun(a)
    <3>1. RunFits(a) /\ LeadsIn(a)
      BY DEF InboxInv, JournalLeads, LeadsIn
    <3> QED
      BY <2>1, <3>1 DEF RunFits, LeadsIn, SameRun, Announced
  <2>2. CASE ~SameRun(a)
    BY <2>2
  <2> QED
    BY <2>1, <2>2
<1>2. \A q \in Procs : Fits(q)'
  BY OthersStay
<1>3. ASSUME NEW f \in Files  PROVE EntryHolds(f, index[f])'
  <2>1. PICK e : e = index'[f]
    OBVIOUS
  <2>2. EntryHolds(f, e)
    BY <2>1 DEF InboxInv
  <2>3. EntryHolds(f, e)'
    BY <2>2, EntryStays
  <2> QED
    BY <2>1, <2>3 DEF EntryHolds
<1>4. ASSUME NEW a \in Archives  PROVE RefusedForCause(a)'
  BY RefusalStays DEF InboxInv, Keeps
<1> QED
  BY <1>1, <1>2, <1>3, <1>4 DEF InboxInv, JournalLeads, LeadsIn, Fits

-----------------------------------------------------------------------------
(* Steps of a process at work on the run it holds.                         *)

SameCall(p) ==
  /\ job' \in [Procs -> Job] /\ \A q \in Procs \ {p} : job'[q] = job[q]
  /\ job'[p].copy = job[p].copy /\ job'[p].file = job[p].file /\ job'[p].version = job[p].version
  /\ job'[p].caller = job[p].caller /\ job'[p].archive = job[p].archive

Works(p) ==
  /\ SameCall(p)
  /\ \A n \in LockNames : locks[n] \notin {"free", p} => locks'[n] = locks[n]
  /\ \A a \in Archives : a # Mine(p) => SameRun(a)
  /\ \A b \in Branches : branch'[b] = branch[b] \/ (b = MyBranch(p) /\ (job[p].pc \in BuildPc \/ job[p].branched))
  /\ UNCHANGED <<files, touched, accepted, rejected, misread, index>>

LEMMA WorksKeeps ==
  ASSUME InboxInv, NEW p \in Procs, job[p].pc \in HoldPc \ {"receipt"}, Works(p)
  PROVE  Keeps(p)
<1>1. HoldsLocks(p) /\ Carries(p) /\ Mine(p) \in Archives
  BY DEF InboxInv, Carries, Mine
<1>2. ~Settled(Mine(p))
  BY DEF Settled
<1>3. \A b \in Branches : branch'[b] = branch[b] \/ (locks[<<"branch", b>>] = p /\ b = MyBranch(p))
  <2>1. job[p].pc \in BuildPc \/ job[p].branched => locks[<<"branch", MyBranch(p)>>] = p
    BY <1>1 DEF HoldsLocks
  <2> QED
    BY <2>1 DEF Works
<1>4. \A q \in Procs \ {p}, n \in WorkLocks : locks[n] = q => locks'[n] = q
  BY IntakeAssumption DEF Works, WorkLocks
<1> QED
  BY <1>1, <1>2, <1>3, <1>4 DEF Works, SameCall, Keeps, Mine, RefusalsStand

\* The claims about files stand while a process is at work.
LEMMA WorkObserved ==
  ASSUME InboxInv, NEW p \in Procs, job[p].pc \in IntakePc \cup HoldPc, Keeps(p), SameCall(p),
         job'[p].pc \in IntakePc \cup HoldPc \cup {"answered"},
         job'[p].result \in {"ready", "rejected"} => Decided(Mine(p), job[p].result)'
  PROVE  Observed(p)'
<1>0. Observed(p) /\ Carries(p) /\ files' = files
  BY DEF InboxInv, Keeps
<1>1. ASSUME NEW f \in Files  PROVE EntryHolds(f, job[p].copy[f])'
  <2>1. PICK e : e = job[p].copy[f]
    OBVIOUS
  <2>2. EntryHolds(f, e)'
    BY <1>0, <2>1, EntryStays DEF Observed
  <2> QED
    BY <2>1, <2>2 DEF EntryHolds, SameCall
<1>2. job[p].pc \notin StartPc \ {"stabilize", "copy"} /\ job'[p].pc \notin StartPc
  BY DEF StartPc, IntakePc, HoldPc, BuildPc, CleanPc
<1>3. job'[p].archive \in Archives
  BY <1>0 DEF Carries, SameCall
<1>4. job'[p].pc \notin {"stabilize", "copy"}
  BY <1>2 DEF StartPc
<1> QED
  BY <1>0, <1>1, <1>2, <1>3, <1>4 DEF Observed, SameCall, Mine

\* A process that goes on holding its run.
LEMMA HolderKeeps ==
  ASSUME InboxInv, NEW p \in Procs, job[p].pc \in HoldPc \ {"receipt"}, Works(p), TypeOK',
         job'[p].pc \in (HoldPc \ {"receipt"}) \cup {"answered"},
         job'[p].result \in {"ready", "rejected"} => Decided(Mine(p), job[p].result)',
         HoldsLocks(p)', Carries(p)', AtStage(p)', KnowsItsBranch(p)',
         \A a \in Archives : run[a] = Stages[Ready] /\ worktree[a] # "none" /\ OwnsBranch(a) /\ SameRun(a) => OwnsBranch(a)',
         \A a \in Archives : a = Mine(p) /\ ~SameRun(a) => RunFits(a)' /\ LeadsIn(a)'
  PROVE  InboxInv'
<1>1. Keeps(p)
  BY WorksKeeps
<1>2. Observed(p)'
  BY <1>1, WorkObserved DEF Works
<1>3. \A a \in Archives : ~SameRun(a) => a = Mine(p)
  BY DEF Works
<1> QED
  BY <1>1, <1>2, <1>3, StepKeeps DEF Fits, Works

\* Where a process is among its places, for the provers.
LEMMA PlaceFacts ==
  /\ StartPc \cap HoldPc = {} /\ IntakePc \cap HoldPc = {} /\ "answered" \notin HoldPc
  /\ BuildPc \subseteq HoldPc /\ CleanPc \subseteq HoldPc /\ BuildPc \cap CleanPc = {}
  /\ {"receipt", "open", "branch_lock"} \cap (BuildPc \cup CleanPc) = {}
  /\ {"receipt", "open", "branch_lock"} \subseteq HoldPc
  /\ {"announce", "record", "resolve", "fetch", "add", "make_branch", "tip", "populate", "finish"} = BuildPc
  /\ {"clean", "compare", "delete", "close", "end"} = CleanPc
BY DEF StartPc, IntakePc, HoldPc, BuildPc, CleanPc

\* What holds of a process at its place.
LEMMA HolderFacts ==
  ASSUME InboxInv, NEW p \in Procs, job[p].pc \in HoldPc
  PROVE  /\ Mine(p) \in Archives /\ MyBranch(p) \in Branches
         /\ locks[<<"run", Mine(p)>>] = p /\ <<"run", Mine(p)>> \in LockNames
         /\ <<"branch", MyBranch(p)>> \in LockNames
         /\ job[p].pc \in BuildPc \/ job[p].branched => locks[<<"branch", MyBranch(p)>>] = p
         /\ job[p].result = "none" /\ TypeOK /\ Carries(p) /\ AtStage(p) /\ KnowsItsBranch(p)
<1>1. HoldsLocks(p) /\ Carries(p) /\ AtStage(p) /\ KnowsItsBranch(p) /\ TypeOK
  BY DEF InboxInv
<1>2. Mine(p) \in Archives /\ job[p].result = "none"
  BY <1>1, PlaceFacts DEF Carries, Mine
<1> QED
  BY <1>1, <1>2, NameFacts DEF HoldsLocks, MyBranch, Mine

\* What whoever builds a run knows of it.
LEMMA BuilderFacts ==
  ASSUME InboxInv, NEW p \in Procs, job[p].pc \in {"open", "branch_lock"} \cup BuildPc
  PROVE  /\ Len(journal[Mine(p)]) = job[p].stage - 1 /\ Announced(Mine(p), job[p].stage)
         /\ run[Mine(p)] # "none" /\ (job[p].pc # "finish" => run[Mine(p)] # Stages[Ready])
<1>1. job[p].pc \in HoldPc /\ job[p].pc # "receipt" /\ job[p].pc \notin CleanPc
  BY PlaceFacts
<1>2. AtStage(p)
  BY <1>1, HolderFacts
<1> QED
  BY <1>1, <1>2 DEF AtStage

\* An error leads to the cleanup.
LEMMA FailFits ==
  ASSUME InboxInv, NEW p \in Procs, job[p].pc \in HoldPc \ {"close", "end", "receipt"}, NEW e \in Ends, Fail(p, e),
         UNCHANGED <<branch, touched, locks>>, run'[Mine(p)] # "none"
  PROVE  /\ SameCall(p) /\ job'[p].pc = "clean" /\ job'[p].result = "none"
         /\ HoldsLocks(p)' /\ Carries(p)' /\ AtStage(p)' /\ KnowsItsBranch(p)'
<1>1. Becomes(p, [job[p] EXCEPT !.pc = "clean", !.end = e]) /\ job[p] \in Job
  BY Failed, JobFacts DEF InboxInv
<1>2. /\ job'[p].pc = "clean" /\ job'[p].end = e /\ SameCall(p)
      /\ job'[p].result = job[p].result /\ job'[p].branched = job[p].branched
      /\ job'[p].archive = job[p].archive
  BY <1>1 DEF Becomes, SameCall, Job
<1>3. HoldsLocks(p)'
  BY <1>2, HolderFacts, PlaceFacts DEF HoldsLocks, Mine, MyBranch
<1>4. Carries(p)'
  <2>1. "clean" \notin StartPc \cup IntakePc \cup {"receipt", "open", "branch_lock"}
    BY DEF StartPc, IntakePc
  <2> QED
    BY <1>2, <2>1, HolderFacts DEF Carries, Mine
<1>5. AtStage(p)'
  BY <1>2, PlaceFacts DEF AtStage, Mine
<1>6. KnowsItsBranch(p)'
  <2>1. job[p].branched => OwnsBranch(Mine(p))
    BY HolderFacts DEF KnowsItsBranch
  <2> QED
    BY <1>2, <2>1 DEF KnowsItsBranch, OwnsBranch, Mine
<1> QED
  BY <1>2, <1>3, <1>4, <1>5, <1>6, HolderFacts

SameProgress(p) ==
  /\ job'[p].stage = job[p].stage /\ job'[p].branched = job[p].branched
  /\ job'[p].tip = job[p].tip /\ job'[p].end = job[p].end

LEMMA GoneFits ==
  ASSUME TypeOK, NEW p \in Procs, NEW at \in StartPc \cup IntakePc \cup HoldPc, GoTo(p, at)
  PROVE  SameCall(p) /\ SameProgress(p) /\ job'[p].pc = at /\ job'[p].result = job[p].result
<1>1. Becomes(p, [job[p] EXCEPT !.pc = at]) /\ job[p] \in Job
  BY Gone, JobFacts
<1> QED
  BY <1>1 DEF Becomes, SameCall, SameProgress, Job

\* Whoever has answered holds nothing and says what it must.
LEMMA AnsweredFits ==
  ASSUME InboxInv, NEW p \in Procs, NEW r \in Results, Answer(p, r)
  PROVE  /\ SameCall(p) /\ job'[p].pc = "answered" /\ job'[p].result = r
         /\ HoldsLocks(p)' /\ Carries(p)' /\ AtStage(p)' /\ KnowsItsBranch(p)'
<1>1. Becomes(p, [job[p] EXCEPT !.pc = "answered", !.result = r]) /\ job[p] \in Job
  BY Answered, JobFacts DEF InboxInv
<1>2. SameCall(p) /\ job'[p].pc = "answered" /\ job'[p].result = r
  BY <1>1 DEF Becomes, SameCall, Job
<1>3. "answered" \notin StartPc \cup IntakePc \cup HoldPc \cup BuildPc \cup CleanPc
  BY DEF StartPc, IntakePc, HoldPc, BuildPc, CleanPc
<1> QED
  BY <1>2, <1>3 DEF HoldsLocks, Carries, AtStage, KnowsItsBranch

\* Of the stores, what a step leaves alone keeps its type.
LEMMA OpenRunKeeps ==
  ASSUME InboxInv, NEW p \in Procs, OpenRun(p), UNCHANGED <<index, trouble, calls>>
  PROVE  InboxInv'
<1>0. job[p].pc = "open" /\ job[p].pc \in HoldPc \ {"close", "end", "receipt"}
  BY DEF OpenRun, HoldPc
<1>1. run' = [run EXCEPT ![Mine(p)] = Stages[1]] /\ UNCHANGED <<journal, branch, worktree, touched, locks, files, accepted, rejected, misread, index, trouble, calls>>
  BY DEF OpenRun
<1>2. /\ run' \in [Archives -> RunState] /\ run'[Mine(p)] = Stages[1]
      /\ \A a \in Archives : a # Mine(p) => SameRun(a)
  <2>1. Mine(p) \in Archives
    BY <1>0, HolderFacts
  <2>3. Stages[1] \in RunState
    BY StageFacts
  <2>2. run \in [Archives -> RunState]
    BY DEF InboxInv, TypeOK
  <2> QED
    BY <1>1, <2>1, <2>2, <2>3 DEF SameRun
<1>3. Stages[1] # "none" /\ Stages[1] # Stages[Ready]
  BY StageFacts
<1>4. SameCall(p) /\ job'[p].pc \in HoldPc \ {"receipt"} /\ job'[p].result = "none"
      /\ HoldsLocks(p)' /\ Carries(p)' /\ AtStage(p)' /\ KnowsItsBranch(p)'
  <2>1. CASE GoTo(p, "branch_lock")
    <3>1. SameCall(p) /\ SameProgress(p) /\ job'[p].pc = "branch_lock" /\ job'[p].result = job[p].result
      BY <2>1, GoneFits, PlaceFacts DEF InboxInv
    <3>2. HoldsLocks(p)' /\ KnowsItsBranch(p)'
      BY <1>0, <1>1, <3>1, HolderFacts, PlaceFacts DEF HoldsLocks, KnowsItsBranch, OwnsBranch, SameCall, SameProgress, Mine, MyBranch
    <3>3. Carries(p)'
      <4>1. "branch_lock" \notin StartPc \cup IntakePc \cup CleanPc
        BY DEF StartPc, IntakePc, CleanPc
      <4> QED
        BY <1>0, <3>1, <4>1, HolderFacts DEF Carries, SameCall, SameProgress, Mine
    <3>4. AtStage(p)'
      <4>1. Len(journal'[Mine(p)]) = job'[p].stage - 1 /\ Announced(Mine(p), job[p].stage)
        BY <1>0, <1>1, <3>1, BuilderFacts DEF SameProgress
      <4>2. Announced(Mine(p), job[p].stage)'
        BY <1>1, <3>1, <4>1 DEF Announced, SameCall, SameProgress, Mine
      <4>3. "branch_lock" \notin {"announce", "record", "resolve", "fetch", "add", "make_branch", "tip", "populate", "finish"}
        OBVIOUS
      <4> QED
        BY <1>2, <1>3, <3>1, <4>1, <4>2, <4>3 DEF AtStage, SameCall, Mine
    <3> QED
      BY <1>0, <3>1, <3>2, <3>3, <3>4, HolderFacts, PlaceFacts
  <2>2. CASE Fail(p, "BLOCKED")
    BY <2>2, <1>0, <1>1, <1>2, <1>3, FailFits, PlaceFacts DEF Ends
  <2> QED
    BY <2>1, <2>2 DEF OpenRun
<1>5. TypeOK'
  BY <1>1, <1>2, <1>4 DEF InboxInv, TypeOK, SameCall
<1>6. Works(p)
  BY <1>1, <1>2, <1>4 DEF Works
<1>7. \A a \in Archives : a = Mine(p) => RunFits(a)' /\ LeadsIn(a)'
  BY <1>1, <1>2, <1>3, StageFacts, HolderFacts, <1>0 DEF RunFits, LeadsIn, Announced, TypeOK
<1> QED
  BY <1>0, <1>1, <1>4, <1>5, <1>6, <1>7, HolderKeeps DEF OwnsBranch

\* A step from building to building.
LEMMA BuildKeeps ==
  ASSUME InboxInv, NEW p \in Procs, job[p].pc \in BuildPc, SameCall(p), job'[p].pc \in BuildPc, job'[p].result = "none",
         job'[p].pc \in {"tip", "populate"} => job'[p].branched,
         UNCHANGED <<locks, files, touched, accepted, rejected, misread, index>>,
         \A a \in Archives : a # Mine(p) => SameRun(a),
         \A b \in Branches : b # MyBranch(p) => branch'[b] = branch[b],
         TypeOK', AtStage(p)', KnowsItsBranch(p)',
         \A a \in Archives : run[a] = Stages[Ready] /\ worktree[a] # "none" /\ OwnsBranch(a) /\ SameRun(a) => OwnsBranch(a)',
         \A a \in Archives : a = Mine(p) /\ ~SameRun(a) => RunFits(a)' /\ LeadsIn(a)'
  PROVE  InboxInv'
<1>1. job[p].pc \in HoldPc \ {"receipt"} /\ job'[p].pc \in HoldPc \ {"receipt"}
  BY PlaceFacts
<1>2. Works(p)
  BY DEF Works
<1>3. HoldsLocks(p)'
  BY <1>1, HolderFacts DEF HoldsLocks, SameCall, Mine, MyBranch
<1>4. Carries(p)'
  <2>1. job'[p].pc \notin StartPc \cup IntakePc \cup {"receipt", "open", "branch_lock"} \cup CleanPc /\ job'[p].pc \notin {"compare", "delete", "answered"}
    BY PlaceFacts DEF StartPc, IntakePc, CleanPc, BuildPc
  <2>2. job'[p].archive \in Archives
    BY <1>1, HolderFacts DEF SameCall, Mine
  <2> QED
    BY <2>1, <2>2 DEF Carries
<1> QED
  BY <1>1, <1>2, <1>3, <1>4, HolderKeeps

\* An error that changes nothing else.
LEMMA FailKeeps ==
  ASSUME InboxInv, NEW p \in Procs, job[p].pc \in HoldPc \ {"close", "end", "receipt"}, NEW e \in Ends, Fail(p, e),
         UNCHANGED <<run, journal, branch, worktree, touched, locks, files, accepted, rejected, misread, index>>,
         UNCHANGED counts \/ (trouble' \in 0..MaxTrouble /\ calls' = calls)
  PROVE  InboxInv'
<1>1. run[Mine(p)] # "none"
  BY HolderFacts DEF AtStage
<1>2. /\ SameCall(p) /\ job'[p].pc = "clean" /\ job'[p].result = "none"
      /\ HoldsLocks(p)' /\ Carries(p)' /\ AtStage(p)' /\ KnowsItsBranch(p)'
  BY <1>1, FailFits
<1>3. TypeOK'
  BY <1>2 DEF InboxInv, TypeOK, SameCall, counts
<1>4. Works(p) /\ \A a \in Archives : SameRun(a)
  BY <1>2 DEF Works, SameRun
<1>5. job'[p].pc \in HoldPc \ {"receipt"}
  BY <1>2, PlaceFacts
<1> QED
  BY <1>2, <1>3, <1>4, <1>5, HolderKeeps DEF OwnsBranch

\* A step from cleanup to cleanup.
LEMMA CleanKeeps ==
  ASSUME InboxInv, NEW p \in Procs, job[p].pc \in CleanPc, SameCall(p), SameProgress(p), job'[p].pc \in CleanPc,
         job'[p].result = "none", job'[p].pc \in {"compare", "delete"} => job[p].branched,
         UNCHANGED <<run, locks, files, touched, accepted, rejected, misread, index>>,
         \A a \in Archives : a # Mine(p) => SameRun(a),
         \A b \in Branches : branch'[b] = branch[b] \/ (b = MyBranch(p) /\ job[p].branched),
         TypeOK', KnowsItsBranch(p)',
         \A a \in Archives : run[a] = Stages[Ready] /\ worktree[a] # "none" /\ OwnsBranch(a) /\ SameRun(a) => OwnsBranch(a)',
         \A a \in Archives : a = Mine(p) /\ ~SameRun(a) => RunFits(a)' /\ LeadsIn(a)'
  PROVE  InboxInv'
<1>1. job[p].pc \in HoldPc \ {"receipt"} /\ job'[p].pc \in HoldPc \ {"receipt"}
  BY PlaceFacts
<1>2. Works(p)
  BY DEF Works
<1>3. job'[p].pc \notin BuildPc
  BY PlaceFacts
<1>4. HoldsLocks(p)'
  BY <1>1, <1>3, HolderFacts DEF HoldsLocks, SameCall, SameProgress, Mine, MyBranch
<1>5. Carries(p)'
  <2>1. job'[p].pc \notin StartPc \cup IntakePc \cup {"receipt", "open", "branch_lock"} \cup {"tip", "populate"}
    BY PlaceFacts DEF StartPc, IntakePc, CleanPc, BuildPc
  <2>2. job'[p].archive \in Archives /\ job'[p].end \in Ends
    BY <1>1, HolderFacts DEF SameCall, SameProgress, Mine, Carries
  <2> QED
    BY <2>1, <2>2 DEF Carries, SameProgress
<1>6. AtStage(p)'
  <2>1. run'[job'[p].archive] # "none"
    <3>1. run[Mine(p)] # "none"
      BY <1>1, HolderFacts DEF AtStage
    <3> QED
      BY <3>1 DEF SameCall, Mine
  <2>2. job'[p].pc \notin {"open", "branch_lock", "announce", "record", "resolve", "fetch", "add", "make_branch", "tip", "populate", "finish"}
    BY DEF CleanPc
  <2>3. job'[p].pc \notin {"open", "branch_lock"} \cup BuildPc
    BY <1>3, <2>2
  <2>4. job'[p].pc \notin HoldPc \ ({"receipt", "finish"} \cup CleanPc)
    OBVIOUS
  <2> QED
    BY <2>1, <2>2, <2>3, <2>4 DEF AtStage, Mine
<1> QED
  BY <1>1, <1>2, <1>4, <1>5, <1>6, HolderKeeps

LEMMA TakeFacts ==
  ASSUME TypeOK, NEW p \in Procs, NEW n \in LockNames, Take(p, n)
  PROVE  /\ locks' \in [LockNames -> Procs \cup {"free", "orphan"}] /\ locks'[n] = p
         /\ \A m \in LockNames \ {n} : locks'[m] = locks[m]
         /\ \A m \in LockNames : locks[m] # "free" => locks'[m] = locks[m]
BY DEF TypeOK, Take

LEMMA TakeBranchLockKeeps ==
  ASSUME InboxInv, NEW p \in Procs, TakeBranchLock(p), UNCHANGED <<index, trouble, calls>>
  PROVE  InboxInv'
<1>0. job[p].pc = "branch_lock" /\ job[p].pc \in HoldPc \ {"close", "end", "receipt"}
  BY DEF TakeBranchLock, HoldPc
<1>1. UNCHANGED <<run, journal, branch, worktree, touched, files, accepted, rejected, misread, index, trouble, calls>>
  BY DEF TakeBranchLock, prepared
<1>2. CASE Take(p, <<"branch", MyBranch(p)>>) /\ GoTo(p, "announce")
  <2>1. SameCall(p) /\ SameProgress(p) /\ job'[p].pc = "announce" /\ job'[p].result = job[p].result
    BY <1>2, GoneFits, PlaceFacts DEF InboxInv
  <2>2. /\ locks' \in [LockNames -> Procs \cup {"free", "orphan"}] /\ locks'[<<"branch", MyBranch(p)>>] = p
        /\ \A m \in LockNames : locks[m] # "free" => locks'[m] = locks[m]
    BY <1>0, <1>2, HolderFacts, TakeFacts
  <2>3. HoldsLocks(p)'
    <3>1. locks'[<<"run", Mine(p)>>] = p
      BY <1>0, <2>2, HolderFacts, IntakeAssumption
    <3> QED
      BY <2>1, <2>2, <3>1 DEF HoldsLocks, SameCall, Mine, MyBranch
  <2>4. KnowsItsBranch(p)'
    <3>1. ~job[p].branched
      BY <1>0, HolderFacts DEF Carries
    <3> QED
      BY <2>1, <3>1 DEF KnowsItsBranch, SameProgress
  <2>5. Carries(p)'
    <3>1. "announce" \notin StartPc \cup IntakePc \cup CleanPc
      BY DEF StartPc, IntakePc, CleanPc
    <3> QED
      BY <1>0, <2>1, <3>1, HolderFacts DEF Carries, SameCall, SameProgress, Mine
  <2>6. AtStage(p)'
    <3>1. /\ Len(journal[Mine(p)]) = job[p].stage - 1 /\ Announced(Mine(p), job[p].stage)
          /\ run[Mine(p)] # "none" /\ run[Mine(p)] # Stages[Ready]
      BY <1>0, HolderFacts, PlaceFacts DEF AtStage
    <3>2. job[p].stage = 1 /\ Ready = 7
      BY <1>0, HolderFacts, StageFacts DEF Carries
    <3>3. /\ Len(journal'[job'[p].archive]) = job'[p].stage - 1 /\ job'[p].stage = 1
          /\ run'[job'[p].archive] # "none" /\ run'[job'[p].archive] # Stages[Ready]
      BY <1>1, <2>1, <3>1, <3>2 DEF SameCall, SameProgress, Mine
    <3>4. Announced(Mine(p), job[p].stage)'
      BY <1>1, <2>1, <3>1 DEF Announced, SameCall, SameProgress, Mine
    <3> QED
      BY <2>1, <3>2, <3>3, <3>4, PlaceFacts DEF AtStage, Mine
  <2>7. TypeOK'
    BY <1>1, <2>1, <2>2 DEF InboxInv, TypeOK, SameCall
  <2>8. Works(p)
    BY <1>1, <2>1, <2>2 DEF Works, SameRun
  <2>9. job'[p].pc \in HoldPc \ {"receipt"} /\ job'[p].result = "none"
    BY <1>0, <2>1, HolderFacts, PlaceFacts
  <2>10. \A a \in Archives : SameRun(a)
    BY <1>1 DEF SameRun
  <2> QED
    BY <1>0, <1>1, <2>3, <2>4, <2>5, <2>6, <2>7, <2>8, <2>9, <2>10, HolderKeeps DEF OwnsBranch
<1>3. CASE Fail(p, "FAILED") /\ UNCHANGED locks
  <2>1. "FAILED" \in Ends
    BY DEF Ends
  <2> QED
    BY <1>0, <1>1, <1>3, <2>1, FailKeeps DEF counts
<1> QED
  BY <1>2, <1>3 DEF TakeBranchLock

\* What the journal says grows, and keeps what it said.
LEMMA JournalsFacts ==
  ASSUME TypeOK, NEW a \in Archives, NEW x \in RunState, NEW y \in RunState, Journals(a, x, y)
  PROVE  /\ journal' \in [Archives -> Seq(Event)] /\ Len(journal'[a]) = Len(journal[a]) + 1
         /\ journal'[a][Len(journal[a]) + 1] = [from |-> x, to |-> y]
         /\ \A i \in 1..Len(journal[a]) : journal'[a][i] = journal[a][i]
         /\ \A b \in Archives \ {a} : journal'[b] = journal[b]
<1>1. journal \in [Archives -> Seq(Event)] /\ journal[a] \in Seq(Event) /\ [from |-> x, to |-> y] \in Event
  BY DEF TypeOK, Event
<1>2. journal' = [journal EXCEPT ![a] = Append(journal[a], [from |-> x, to |-> y])]
  BY DEF Journals
<1>3. Append(journal[a], [from |-> x, to |-> y]) \in Seq(Event)
  BY <1>1
<1>4. journal'[a] = Append(journal[a], [from |-> x, to |-> y]) /\ journal' \in [Archives -> Seq(Event)]
      /\ \A b \in Archives \ {a} : journal'[b] = journal[b]
  BY <1>1, <1>2, <1>3
<1> QED
  BY <1>1, <1>4

LEMMA LeadsStays ==
  ASSUME NEW a \in Archives, LeadsIn(a), run'[a] = run[a], Len(journal[a]) \in Nat, Len(journal'[a]) \in Nat,
         Len(journal'[a]) >= Len(journal[a]), \A i \in 1..Len(journal[a]) : journal'[a][i] = journal[a][i]
  PROVE  LeadsIn(a)'
<1>1. ASSUME NEW k \in 1..Ready, run'[a] = Stages[k]  PROVE Announced(a, k)'
  <2>1. Announced(a, k) /\ k \in Int
    BY <1>1, StageFacts DEF LeadsIn
  <2>2. ASSUME NEW j \in 1..(k - 1)  PROVE journal'[a][j] = [from |-> Stages[j], to |-> Stages[j + 1]]
    <3>1. Len(journal[a]) >= k - 1
      BY <2>1 DEF Announced
    <3>2. j \in 1..Len(journal[a])
      BY <2>1, <3>1
    <3>3. journal[a][j] = [from |-> Stages[j], to |-> Stages[j + 1]]
      BY <2>1 DEF Announced
    <3> QED
      BY <3>2, <3>3
  <2>3. Len(journal'[a]) >= k - 1
    BY <2>1 DEF Announced
  <2> QED
    BY <2>2, <2>3 DEF Announced
<1> QED
  BY <1>1 DEF LeadsIn

\* The branch of a run that is held is known as before.
LEMMA KnowledgeStays ==
  ASSUME InboxInv, NEW p \in Procs, job[p].pc \in HoldPc \ {"close", "end"}, SameCall(p),
         job'[p].branched = job[p].branched, branch' = branch, touched' = touched
  PROVE  KnowsItsBranch(p)'
<1>1. job[p].branched => OwnsBranch(Mine(p))
  BY HolderFacts DEF KnowsItsBranch
<1> QED
  BY <1>1 DEF KnowsItsBranch, OwnsBranch, SameCall, Mine

LEMMA AnnounceKeeps ==
  ASSUME InboxInv, NEW p \in Procs, Announce(p), UNCHANGED <<index, trouble, calls>>
  PROVE  InboxInv'
<1> DEFINE a == Mine(p)
           k == job[p].stage
<1>0. job[p].pc = "announce" /\ job[p].pc \in BuildPc /\ job[p].pc \in HoldPc
  BY PlaceFacts DEF Announce
<1>1. /\ UNCHANGED <<run, branch, worktree, touched, locks, files, accepted, rejected, misread, index, trouble, calls>>
      /\ Journals(a, Stages[k], Stages[k + 1])
      /\ job' = [job EXCEPT ![p] = [job[p] EXCEPT !.pc = "record", !.stage = k + 1]]
  BY DEF Announce
<1>2. k \in 1..6 /\ k + 1 \in 1..7 /\ Ready = 7 /\ a \in Archives /\ TypeOK
  <2>1. k < Ready /\ TypeOK
    BY <1>0, HolderFacts DEF AtStage
  <2>2. k \in 1..Ready
    BY <2>1, JobFacts
  <2>3. Ready = 7
    BY StageFacts
  <2>4. Mine(p) \in Archives
    BY <1>0, HolderFacts
  <2> QED
    BY <2>1, <2>2, <2>3, <2>4
<1>3. [job[p] EXCEPT !.pc = "record", !.stage = k + 1] \in Job /\ job[p] \in Job
  <2>1. "record" \in HoldPc
    BY PlaceFacts
  <2>2. job[p] \in Job /\ k + 1 \in 1..Ready
    BY <1>2, JobFacts
  <2> QED
    BY <2>1, <2>2 DEF Job
<1>4. /\ SameCall(p) /\ job'[p].pc = "record" /\ job'[p].stage = k + 1 /\ job'[p].branched = job[p].branched
      /\ job'[p].result = job[p].result
  <2>1. Becomes(p, [job[p] EXCEPT !.pc = "record", !.stage = k + 1])
    BY <1>1, <1>2, <1>3, Update
  <2> QED
    BY <1>3, <2>1 DEF Becomes, SameCall, Job
<1>5. Stages[k] \in RunState /\ Stages[k + 1] \in RunState
  BY <1>2, StageFacts
<1>6. /\ journal' \in [Archives -> Seq(Event)] /\ Len(journal'[a]) = Len(journal[a]) + 1
      /\ journal'[a][Len(journal[a]) + 1] = [from |-> Stages[k], to |-> Stages[k + 1]]
      /\ \A i \in 1..Len(journal[a]) : journal'[a][i] = journal[a][i]
      /\ \A b \in Archives \ {a} : journal'[b] = journal[b]
  BY <1>1, <1>2, <1>5, JournalsFacts
<1>7. Len(journal[a]) = k - 1 /\ Announced(a, k) /\ run[a] # "none" /\ run[a] # Stages[Ready]
  BY <1>0, BuilderFacts
<1>8. Len(journal'[a]) = k /\ \A j \in 1..k : journal'[a][j] = [from |-> Stages[j], to |-> Stages[j + 1]]
  <2>1. Len(journal'[a]) = k /\ journal'[a][k] = [from |-> Stages[k], to |-> Stages[k + 1]]
    <3>1. Len(journal[a]) + 1 = k
      BY <1>2, <1>7
    <3> QED
      BY <1>6, <3>1
  <2>2. ASSUME NEW j \in 1..(k - 1)  PROVE journal'[a][j] = [from |-> Stages[j], to |-> Stages[j + 1]]
    <3>1. j \in 1..Len(journal[a])
      BY <1>2, <1>7
    <3>2. journal[a][j] = [from |-> Stages[j], to |-> Stages[j + 1]]
      BY <1>7 DEF Announced
    <3> QED
      BY <1>6, <3>1, <3>2
  <2>3. \A j \in 1..k : j = k \/ j \in 1..(k - 1)
    BY <1>2
  <2> QED
    BY <2>1, <2>2, <2>3
<1>9. AtStage(p)'
  <2>1. Announced(Mine(p), job[p].stage)'
    BY <1>2, <1>4, <1>8 DEF Announced, SameCall, Mine
  <2>2. Len(journal'[job'[p].archive]) = job'[p].stage - 1 /\ run'[job'[p].archive] # "none" /\ run'[job'[p].archive] # Stages[Ready]
    BY <1>1, <1>2, <1>4, <1>7, <1>8 DEF SameCall, Mine
  <2>3. k = 5 \/ k > 5 => worktree[a] \in {"clean", "edited"} /\ job[p].branched
    BY <1>0, HolderFacts DEF AtStage
  <2>4. job'[p].stage > 5 => worktree'[job'[p].archive] \in {"clean", "edited"} /\ job'[p].branched
    BY <1>1, <1>2, <1>4, <2>3 DEF SameCall, Mine
  <2> QED
    BY <1>2, <1>4, <2>1, <2>2, <2>4, PlaceFacts DEF AtStage, Mine
<1>10. KnowsItsBranch(p)'
  BY <1>0, <1>1, <1>4, KnowledgeStays, PlaceFacts
<1>11. TypeOK'
  BY <1>1, <1>2, <1>4, <1>6 DEF TypeOK, SameCall
<1>12. \A b \in Archives : b # a => SameRun(b)
  BY <1>1, <1>6 DEF SameRun
<1>13. ASSUME NEW c \in Archives, c = a  PROVE RunFits(c)' /\ LeadsIn(c)'
    <3>1. RunFits(c)'
      BY <1>1, <1>7, <1>13 DEF RunFits
    <3>2. LeadsIn(c)
      BY DEF InboxInv, JournalLeads, LeadsIn
    <3>3. LeadsIn(c)'
      <4>1. Len(journal[c]) \in Nat /\ Len(journal'[c]) \in Nat /\ Len(journal'[c]) >= Len(journal[c])
        BY <1>2, <1>7, <1>8, <1>13
      <4>2. run'[c] = run[c] /\ \A i \in 1..Len(journal[c]) : journal'[c][i] = journal[c][i]
        BY <1>1, <1>6, <1>13
      <4> QED
        BY <4>1, <4>2, <3>2, LeadsStays
    <3> QED
      BY <3>1, <3>3
<1> QED
  <2>1. job'[p].pc \in BuildPc /\ job'[p].pc \notin {"tip", "populate"} /\ job'[p].result = "none"
    BY <1>0, <1>4, HolderFacts, PlaceFacts
  <2> QED
    BY <1>0, <1>1, <1>4, <1>9, <1>10, <1>11, <1>12, <1>13, <2>1, BuildKeeps DEF OwnsBranch

LEMMA RecordKeeps ==
  ASSUME InboxInv, NEW p \in Procs, Record(p), UNCHANGED <<index, trouble, calls>>
  PROVE  InboxInv'
<1> DEFINE a == Mine(p)
           k == job[p].stage
<1>0. job[p].pc = "record" /\ job[p].pc \in BuildPc /\ job[p].pc \in HoldPc
  BY PlaceFacts DEF Record
<1>1. /\ UNCHANGED <<journal, branch, worktree, touched, locks, files, accepted, rejected, misread, index, trouble, calls>>
      /\ run' = [run EXCEPT ![a] = Stages[k]] /\ GoTo(p, WorkOf(k))
  BY DEF Record
<1>2. k \in 2..7 /\ Ready = 7 /\ a \in Archives /\ TypeOK
  <2>1. k > 1 /\ TypeOK /\ a \in Archives
    BY <1>0, HolderFacts DEF AtStage
  <2>2. k \in 1..Ready
    BY <2>1, JobFacts
  <2> QED
    BY <2>1, <2>2, StageFacts
<1>3. WorkOf(k) \in {"resolve", "fetch", "announce", "add", "finish"}
      /\ (WorkOf(k) = "resolve" => k = 2) /\ (WorkOf(k) = "fetch" => k = 3) /\ (WorkOf(k) = "announce" => k \in {4, 6})
      /\ (WorkOf(k) = "add" => k = 5) /\ (WorkOf(k) = "finish" <=> k = 7)
  BY <1>2, WorkFacts
<1>4. WorkOf(k) \in BuildPc /\ WorkOf(k) \in StartPc \cup IntakePc \cup HoldPc
  BY <1>3, PlaceFacts
<1>5. SameCall(p) /\ SameProgress(p) /\ job'[p].pc = WorkOf(k) /\ job'[p].result = job[p].result
  BY <1>1, <1>2, <1>4, GoneFits
<1>6. Stages[k] \in RunState /\ Stages[k] # "none" /\ (Stages[k] = Stages[Ready] <=> k = 7)
  BY <1>2, StageFacts
<1>7. run' \in [Archives -> RunState] /\ run'[a] = Stages[k] /\ \A b \in Archives \ {a} : run'[b] = run[b]
  BY <1>1, <1>2, <1>6 DEF TypeOK
<1>8. Len(journal[a]) = k - 1 /\ Announced(a, k) /\ (k > 5 => worktree[a] \in {"clean", "edited"} /\ job[p].branched)
  BY <1>0, HolderFacts, PlaceFacts DEF AtStage
<1>9. AtStage(p)'
  <2>1. Announced(Mine(p), job[p].stage)'
    BY <1>1, <1>5, <1>8 DEF Announced, SameCall, SameProgress, Mine
  <2>2. job'[p].archive = a /\ job'[p].stage = k /\ job'[p].branched = job[p].branched
    BY <1>5 DEF SameCall, SameProgress, Mine
  <2>3. Len(journal'[a]) = k - 1 /\ run'[a] # "none" /\ (run'[a] = Stages[Ready] <=> k = 7)
        /\ (k > 5 => worktree'[a] \in {"clean", "edited"} /\ job'[p].branched)
    BY <1>1, <1>6, <1>7, <1>8, <2>2
  <2> QED
    BY <1>2, <1>3, <1>5, <2>1, <2>2, <2>3 DEF AtStage, Mine
<1>10. KnowsItsBranch(p)'
  BY <1>0, <1>1, <1>5, KnowledgeStays, PlaceFacts DEF SameProgress
<1>11. TypeOK'
  BY <1>1, <1>2, <1>5, <1>7 DEF TypeOK, SameCall
<1>12. \A b \in Archives : b # a => SameRun(b)
  BY <1>1, <1>7 DEF SameRun
<1>13. ASSUME NEW c \in Archives, c = a  PROVE RunFits(c)' /\ LeadsIn(c)'
  <2>1. LeadsIn(c)'
    <3>1. ASSUME NEW i \in 1..Ready, run'[c] = Stages[i]  PROVE Announced(c, i)'
      <4>1. i = k
        <5>1. i \in 1..7 /\ k \in 1..7 /\ Stages[i] = Stages[k]
          BY <1>2, <1>7, <1>13, <3>1
        <5> QED
          BY <5>1, StageFacts
      <4> QED
        BY <4>1, <1>1, <1>8, <1>13 DEF Announced
    <3> QED
      BY <3>1 DEF LeadsIn
  <2>2. RunFits(c)'
    <3>1. k = 7 => OwnsBranch(a)
      <4>1. KnowsItsBranch(p)
        BY <1>0, HolderFacts
      <4>3. k = 7 => job[p].branched
        BY <1>8
      <4>2. job[p].pc \in HoldPc \ {"close", "end"}
        BY <1>0
      <4> QED
        BY <4>1, <4>2, <4>3 DEF KnowsItsBranch
    <3>2. k = 7 => worktree[a] \in {"clean", "edited"}
      BY <1>8
    <3> QED
      BY <1>1, <1>6, <1>7, <1>13, <3>1, <3>2 DEF RunFits, OwnsBranch
  <2> QED
    BY <2>1, <2>2
<1>14. job'[p].pc \in BuildPc /\ job'[p].pc \notin {"tip", "populate"} /\ job'[p].result = "none"
  BY <1>0, <1>3, <1>4, <1>5, HolderFacts
<1> QED
  BY <1>0, <1>1, <1>5, <1>9, <1>10, <1>11, <1>12, <1>13, <1>14, BuildKeeps DEF OwnsBranch

\* Nothing but the place of a builder changes, on the way to the next announcement.
LEMMA GoesOn ==
  ASSUME InboxInv, NEW p \in Procs, job[p].pc \in {"resolve", "fetch"}, GoTo(p, "announce"),
         UNCHANGED <<run, journal, branch, worktree, touched, locks, files, accepted, rejected, misread, index, trouble, calls>>
  PROVE  InboxInv'
<1>0. job[p].pc \in BuildPc /\ job[p].pc \in HoldPc
  BY PlaceFacts
<1>1. SameCall(p) /\ SameProgress(p) /\ job'[p].pc = "announce" /\ job'[p].result = job[p].result
  BY GoneFits, PlaceFacts DEF InboxInv
<1>2. /\ Len(journal[Mine(p)]) = job[p].stage - 1 /\ Announced(Mine(p), job[p].stage)
      /\ run[Mine(p)] # "none" /\ run[Mine(p)] # Stages[Ready] /\ job[p].stage \in {2, 3}
  BY <1>0, HolderFacts, PlaceFacts DEF AtStage
<1>3. AtStage(p)'
  <2>1. Announced(Mine(p), job[p].stage)'
    BY <1>1, <1>2 DEF Announced, SameCall, SameProgress, Mine
  <2>2. Ready = 7
    BY StageFacts
  <2>3. job'[p].archive = Mine(p) /\ job'[p].stage = job[p].stage
    BY <1>1 DEF SameCall, SameProgress, Mine
  <2> QED
    BY <1>1, <1>2, <2>1, <2>2, <2>3 DEF AtStage, Mine
<1>4. KnowsItsBranch(p)'
  BY <1>0, <1>1, KnowledgeStays DEF SameProgress
<1>5. TypeOK'
  BY <1>1 DEF InboxInv, TypeOK, SameCall
<1>6. \A a \in Archives : SameRun(a)
  BY DEF SameRun
<1>7. job'[p].pc \in BuildPc /\ job'[p].pc \notin {"tip", "populate"} /\ job'[p].result = "none"
  BY <1>0, <1>1, HolderFacts, PlaceFacts
<1> QED
  BY <1>0, <1>1, <1>3, <1>4, <1>5, <1>6, <1>7, BuildKeeps DEF OwnsBranch

LEMMA ResolveOrPrepareKeeps ==
  ASSUME InboxInv, NEW p \in Procs, ResolveRepository(p) \/ PrepareBase(p), UNCHANGED <<index, trouble, calls>>
  PROVE  InboxInv'
<1>0. job[p].pc \in {"resolve", "fetch"} /\ job[p].pc \in HoldPc \ {"close", "end", "receipt"}
  BY DEF ResolveRepository, PrepareBase, HoldPc, BuildPc
<1>1. UNCHANGED <<run, journal, branch, worktree, touched, locks, files, accepted, rejected, misread, index, trouble, calls>>
  BY DEF ResolveRepository, PrepareBase, prepared
<1>2. GoTo(p, "announce") \/ \E end \in Ends : Fail(p, end)
  BY DEF ResolveRepository, PrepareBase
<1>3. ASSUME NEW e \in Ends, Fail(p, e)  PROVE InboxInv'
  BY <1>0, <1>1, <1>3, FailKeeps DEF counts
<1> QED
  BY <1>0, <1>1, <1>2, <1>3, GoesOn

LEMMA AddWorktreeKeeps ==
  ASSUME InboxInv, NEW p \in Procs, AddWorktree(p), UNCHANGED <<index, trouble, calls>>
  PROVE  InboxInv'
<1> DEFINE a == Mine(p)
           k == job[p].stage
<1>0. job[p].pc = "add" /\ job[p].pc \in BuildPc /\ job[p].pc \in HoldPc \ {"close", "end", "receipt"}
  BY DEF AddWorktree, HoldPc, BuildPc
<1>1. UNCHANGED <<run, journal, branch, touched, locks, files, accepted, rejected, misread, index, trouble, calls>>
  BY DEF AddWorktree
<1>2. CASE Fail(p, "FAILED") /\ UNCHANGED worktree
  <2>1. "FAILED" \in Ends
    BY DEF Ends
  <2> QED
    BY <1>0, <1>1, <1>2, <2>1, FailKeeps DEF counts
<1>3. CASE /\ worktree' = [worktree EXCEPT ![a] = "detached"]
           /\ job' = [job EXCEPT ![p].pc = "make_branch", ![p].added = TRUE]
  <2>1. TypeOK /\ a \in Archives /\ AtStage(p) /\ job[p].result = "none"
    BY <1>0, HolderFacts
  <2>2. [job[p] EXCEPT !.pc = "make_branch", !.added = TRUE] \in Job /\ job[p] \in Job
    <3>1. "make_branch" \in HoldPc
      BY PlaceFacts
    <3>2. job[p] \in Job
      BY <2>1, JobFacts
    <3> QED
      BY <3>1, <3>2 DEF Job
  <2>3. job' = [job EXCEPT ![p] = [job[p] EXCEPT !.pc = "make_branch", !.added = TRUE]]
    BY <1>3
  <2>4. SameCall(p) /\ SameProgress(p) /\ job'[p].pc = "make_branch" /\ job'[p].result = job[p].result
    <3>1. Becomes(p, [job[p] EXCEPT !.pc = "make_branch", !.added = TRUE])
      BY <2>1, <2>2, <2>3, Update
    <3> QED
      BY <2>2, <3>1 DEF Becomes, SameCall, SameProgress, Job
  <2>5. /\ Len(journal[a]) = k - 1 /\ Announced(a, k) /\ run[a] # "none" /\ run[a] # Stages[Ready] /\ k = 5
    BY <1>0, <2>1, PlaceFacts DEF AtStage
  <2>6. AtStage(p)'
    <3>1. Announced(Mine(p), job[p].stage)'
      BY <1>1, <2>4, <2>5 DEF Announced, SameCall, SameProgress, Mine
    <3>2. job'[p].archive = a /\ job'[p].stage = k
      BY <2>4 DEF SameCall, SameProgress, Mine
    <3> QED
      BY <1>1, <2>4, <2>5, <3>1, <3>2 DEF AtStage, Mine
  <2>7. KnowsItsBranch(p)'
    BY <1>0, <1>1, <2>4, KnowledgeStays DEF SameProgress
  <2>8. worktree' \in [Archives -> {"none", "detached", "clean", "edited"}] /\ \A b \in Archives \ {a} : worktree'[b] = worktree[b]
    BY <1>3, <2>1 DEF TypeOK
  <2>9. TypeOK'
    BY <1>1, <2>1, <2>4, <2>8 DEF TypeOK, SameCall
  <2>10. \A b \in Archives : b # a => SameRun(b)
    BY <1>1, <2>8 DEF SameRun
  <2>11. ASSUME NEW c \in Archives, c = a  PROVE RunFits(c)' /\ LeadsIn(c)'
    <3>1. RunFits(c)' 
      BY <1>1, <2>5, <2>11 DEF RunFits
    <3>2. LeadsIn(c)
      BY DEF InboxInv, JournalLeads, LeadsIn
    <3> QED
      BY <1>1, <3>1, <3>2 DEF LeadsIn, Announced
  <2>12. job'[p].pc \in BuildPc /\ job'[p].pc \notin {"tip", "populate"} /\ job'[p].result = "none"
    BY <2>1, <2>4, PlaceFacts
  <2> QED
    BY <1>0, <1>1, <2>4, <2>6, <2>7, <2>9, <2>10, <2>11, <2>12, BuildKeeps DEF OwnsBranch
<1> QED
  BY <1>2, <1>3 DEF AddWorktree

LEMMA MakeBranchKeeps ==
  ASSUME InboxInv, NEW p \in Procs, MakeBranch(p), UNCHANGED <<index, trouble, calls>>
  PROVE  InboxInv'
<1> DEFINE a == Mine(p)
           k == job[p].stage
           x == MyBranch(p)
<1>0. job[p].pc = "make_branch" /\ job[p].pc \in BuildPc /\ job[p].pc \in HoldPc \ {"close", "end", "receipt"}
  BY DEF MakeBranch, HoldPc, BuildPc
<1>1. UNCHANGED <<run, journal, worktree, touched, locks, files, accepted, rejected, misread, index, trouble, calls>>
  BY DEF MakeBranch
<1>2. CASE Fail(p, "FAILED") /\ UNCHANGED branch
  <2>1. "FAILED" \in Ends
    BY DEF Ends
  <2> QED
    BY <1>0, <1>1, <1>2, <2>1, FailKeeps DEF counts
<1>3. CASE /\ branch[x] = NoBranch
           /\ branch' = [branch EXCEPT ![x] = [tip |-> "base", by |-> a]]
           /\ job' = [job EXCEPT ![p].pc = "tip", ![p].branched = TRUE]
  <2>1. TypeOK /\ a \in Archives /\ x \in Branches /\ AtStage(p) /\ job[p].result = "none"
    BY <1>0, HolderFacts
  <2>2. [job[p] EXCEPT !.pc = "tip", !.branched = TRUE] \in Job /\ job[p] \in Job
    <3>1. "tip" \in HoldPc
      BY PlaceFacts
    <3>2. job[p] \in Job
      BY <2>1, JobFacts
    <3> QED
      BY <3>1, <3>2 DEF Job
  <2>3. job' = [job EXCEPT ![p] = [job[p] EXCEPT !.pc = "tip", !.branched = TRUE]]
    BY <1>3
  <2>4. SameCall(p) /\ job'[p].pc = "tip" /\ job'[p].result = job[p].result /\ job'[p].branched /\ job'[p].stage = k
    <3>1. Becomes(p, [job[p] EXCEPT !.pc = "tip", !.branched = TRUE])
      BY <2>1, <2>2, <2>3, Update
    <3> QED
      BY <2>2, <3>1 DEF Becomes, SameCall, Job
  <2>5. /\ Len(journal[a]) = k - 1 /\ Announced(a, k) /\ run[a] # "none" /\ run[a] # Stages[Ready] /\ k = 5
    BY <1>0, <2>1, PlaceFacts DEF AtStage
  <2>6. AtStage(p)'
    <3>1. Announced(Mine(p), job[p].stage)'
      BY <1>1, <2>4, <2>5 DEF Announced, SameCall, Mine
    <3>2. job'[p].archive = a
      BY <2>4 DEF SameCall, Mine
    <3> QED
      BY <1>1, <2>4, <2>5, <3>1, <3>2 DEF AtStage, Mine
  <2>7. /\ branch' \in [Branches -> Branch \cup {NoBranch}] /\ branch'[x].by = a
        /\ \A b \in Branches \ {x} : branch'[b] = branch[b]
    <3>1. [tip |-> "base", by |-> a] \in Branch
      BY <2>1 DEF Branch
    <3> QED
      BY <1>3, <2>1, <3>1 DEF TypeOK
  <2>8. KnowsItsBranch(p)'
    BY <2>4, <2>7 DEF KnowsItsBranch, OwnsBranch, SameCall, Mine, MyBranch
  <2>9. TypeOK'
    BY <1>1, <2>1, <2>4, <2>7 DEF TypeOK, SameCall
  <2>10. \A b \in Archives : SameRun(b)
    BY <1>1 DEF SameRun
  <2>11. ASSUME NEW c \in Archives, OwnsBranch(c)  PROVE OwnsBranch(c)'
    <3>1. CASE BranchOf[c] = x
      <4>1. branch[x].by = "nobody" /\ c # "nobody"
        BY <1>3, IntakeAssumption DEF NoBranch
      <4> QED
        BY <1>1, <2>11, <3>1, <4>1 DEF OwnsBranch
    <3>2. CASE BranchOf[c] # x
      BY <1>1, <2>7, <2>11, <3>2, NameFacts DEF OwnsBranch
    <3> QED
      BY <3>1, <3>2
  <2>12. job'[p].pc \in BuildPc /\ job'[p].result = "none"
    BY <2>1, <2>4, PlaceFacts
  <2> QED
    BY <1>0, <1>1, <2>4, <2>6, <2>7, <2>8, <2>9, <2>10, <2>11, <2>12, BuildKeeps
<1> QED
  BY <1>2, <1>3 DEF MakeBranch

LEMMA ReadTipKeeps ==
  ASSUME InboxInv, NEW p \in Procs, ReadTip(p), UNCHANGED <<index, trouble, calls>>
  PROVE  InboxInv'
<1> DEFINE a == Mine(p)
           k == job[p].stage
<1>0. job[p].pc = "tip" /\ job[p].pc \in BuildPc /\ job[p].pc \in HoldPc \ {"close", "end", "receipt"}
  BY DEF ReadTip, HoldPc, BuildPc
<1>1. UNCHANGED <<run, journal, branch, worktree, touched, locks, files, accepted, rejected, misread, index, trouble, calls>>
  BY DEF ReadTip, prepared
<1>2. CASE Fail(p, "FAILED")
  <2>1. "FAILED" \in Ends
    BY DEF Ends
  <2> QED
    BY <1>0, <1>1, <1>2, <2>1, FailKeeps DEF counts
<1>3. CASE /\ branch[MyBranch(p)] # NoBranch
           /\ job' = [job EXCEPT ![p].pc = "populate", ![p].tip = branch[MyBranch(p)].tip]
  <2>1. TypeOK /\ a \in Archives /\ MyBranch(p) \in Branches /\ AtStage(p) /\ Carries(p) /\ job[p].result = "none"
    BY <1>0, HolderFacts
  <2>2. branch[MyBranch(p)].tip \in {"base", "moved"}
    BY <1>3, <2>1 DEF TypeOK, Branch
  <2> DEFINE t == branch[MyBranch(p)].tip
  <2>4. job' = [job EXCEPT ![p] = [job[p] EXCEPT !.pc = "populate", !.tip = t]]
    BY <1>3
  <2>12. t \in {"base", "moved"} /\ job[p] \in Job /\ "populate" \in HoldPc
    BY <2>1, <2>2, JobFacts, PlaceFacts
  <2> HIDE DEF t
  <2>3. [job[p] EXCEPT !.pc = "populate", !.tip = t] \in Job
    BY <2>12 DEF Job
  <2>5. SameCall(p) /\ job'[p].pc = "populate" /\ job'[p].result = job[p].result /\ job'[p].branched = job[p].branched
        /\ job'[p].stage = k
    <3>1. Becomes(p, [job[p] EXCEPT !.pc = "populate", !.tip = t])
      BY <2>1, <2>3, <2>4, Update
    <3> QED
      BY <2>12, <3>1 DEF Becomes, SameCall, Job
  <2>6. /\ Len(journal[a]) = k - 1 /\ Announced(a, k) /\ run[a] # "none" /\ run[a] # Stages[Ready] /\ k = 5
    BY <1>0, <2>1, PlaceFacts DEF AtStage
  <2>7. AtStage(p)'
    <3>1. Announced(Mine(p), job[p].stage)'
      BY <1>1, <2>5, <2>6 DEF Announced, SameCall, Mine
    <3>2. job'[p].archive = a
      BY <2>5 DEF SameCall, Mine
    <3> QED
      BY <1>1, <2>5, <2>6, <3>1, <3>2 DEF AtStage, Mine
  <2>8. KnowsItsBranch(p)'
    BY <1>0, <1>1, <2>5, KnowledgeStays
  <2>9. TypeOK'
    BY <1>1, <2>1, <2>5 DEF TypeOK, SameCall
  <2>10. \A b \in Archives : SameRun(b)
    BY <1>1 DEF SameRun
  <2>11. job'[p].pc \in BuildPc /\ job'[p].result = "none" /\ job'[p].branched
    BY <1>0, <2>1, <2>5, PlaceFacts DEF Carries
  <2> QED
    BY <1>0, <1>1, <2>5, <2>7, <2>8, <2>9, <2>10, <2>11, BuildKeeps DEF OwnsBranch
<1> QED
  BY <1>2, <1>3 DEF ReadTip

LEMMA PopulateKeeps ==
  ASSUME InboxInv, NEW p \in Procs, Populate(p), UNCHANGED <<index, trouble, calls>>
  PROVE  InboxInv'
<1> DEFINE a == Mine(p)
           k == job[p].stage
<1>0. job[p].pc = "populate" /\ job[p].pc \in BuildPc /\ job[p].pc \in HoldPc \ {"close", "end", "receipt"}
  BY DEF Populate, HoldPc, BuildPc
<1>1. /\ UNCHANGED <<run, journal, branch, touched, locks, files, accepted, rejected, misread, index, trouble, calls>>
      /\ worktree' = [worktree EXCEPT ![a] = "clean"]
  BY DEF Populate
<1>2. TypeOK /\ a \in Archives /\ AtStage(p) /\ Carries(p) /\ job[p].result = "none" /\ job[p].branched
  BY <1>0, HolderFacts DEF Carries
<1>3. /\ Len(journal[a]) = k - 1 /\ Announced(a, k) /\ run[a] # "none" /\ run[a] # Stages[Ready] /\ k = 5
  BY <1>0, <1>2, PlaceFacts DEF AtStage
<1>4. /\ worktree' \in [Archives -> {"none", "detached", "clean", "edited"}] /\ worktree'[a] = "clean"
      /\ \A b \in Archives \ {a} : worktree'[b] = worktree[b]
  BY <1>1, <1>2 DEF TypeOK
<1>5. \A b \in Archives : b # a => SameRun(b)
  BY <1>1, <1>4 DEF SameRun
<1>6. ASSUME NEW c \in Archives, c = a  PROVE RunFits(c)' /\ LeadsIn(c)'
  <2>1. RunFits(c)'
    BY <1>1, <1>3, <1>6 DEF RunFits
  <2>2. LeadsIn(c)
    BY DEF InboxInv, JournalLeads, LeadsIn
  <2> QED
    BY <1>1, <2>1, <2>2 DEF LeadsIn, Announced
<1>7. CASE GoTo(p, "announce")
  <2>1. SameCall(p) /\ SameProgress(p) /\ job'[p].pc = "announce" /\ job'[p].result = job[p].result
    BY <1>2, <1>7, GoneFits, PlaceFacts
  <2>2. AtStage(p)'
    <3>1. Announced(Mine(p), job[p].stage)'
      BY <1>1, <1>3, <2>1 DEF Announced, SameCall, SameProgress, Mine
    <3>2. job'[p].archive = a /\ job'[p].stage = k /\ job'[p].branched
      BY <1>2, <2>1 DEF SameCall, SameProgress, Mine
    <3>3. Ready = 7
      BY StageFacts
    <3> QED
      BY <1>1, <1>3, <1>4, <2>1, <3>1, <3>2, <3>3 DEF AtStage, Mine
  <2>3. KnowsItsBranch(p)'
    BY <1>0, <1>1, <2>1, KnowledgeStays DEF SameProgress
  <2>4. TypeOK'
    BY <1>1, <1>2, <1>4, <2>1 DEF TypeOK, SameCall
  <2>5. job'[p].pc \in BuildPc /\ job'[p].pc \notin {"tip", "populate"} /\ job'[p].result = "none"
    BY <1>2, <2>1, PlaceFacts
  <2> QED
    BY <1>0, <1>1, <1>5, <1>6, <2>1, <2>2, <2>3, <2>4, <2>5, BuildKeeps DEF OwnsBranch
<1>8. CASE Fail(p, "FAILED")
  <2>1. "FAILED" \in Ends
    BY DEF Ends
  <2>2. run'[a] # "none"
    BY <1>1, <1>3
  <2>3. /\ SameCall(p) /\ job'[p].pc = "clean" /\ job'[p].result = "none"
        /\ HoldsLocks(p)' /\ Carries(p)' /\ AtStage(p)' /\ KnowsItsBranch(p)'
    BY <1>0, <1>1, <1>8, <2>1, <2>2, FailFits
  <2>4. TypeOK'
    BY <1>1, <1>2, <1>4, <2>3 DEF TypeOK, SameCall
  <2>5. Works(p)
    BY <1>1, <1>5, <2>3 DEF Works
  <2>6. job'[p].pc \in HoldPc \ {"receipt"}
    BY <2>3, PlaceFacts
  <2> QED
    BY <1>0, <1>1, <1>6, <2>3, <2>4, <2>5, <2>6, HolderKeeps DEF OwnsBranch
<1> QED
  BY <1>7, <1>8 DEF Populate

\* Of two processes, one holds a run.
LEMMA OneHolder ==
  ASSUME InboxInv, NEW p \in Procs, job[p].pc \in HoldPc, NEW q \in Procs, job[q].pc \in HoldPc, Mine(q) = Mine(p)
  PROVE  q = p
BY HolderFacts

LEMMA ReleaseFacts ==
  ASSUME TypeOK, NEW p \in Procs, ReleaseRun(p)
  PROVE  /\ locks' \in [LockNames -> Procs \cup {"free", "orphan"}]
         /\ \A n \in LockNames : locks[n] \notin {"free", p} => locks'[n] = locks[n]
BY DEF TypeOK, ReleaseRun

LEMMA FinishRunKeeps ==
  ASSUME InboxInv, NEW p \in Procs, FinishRun(p), UNCHANGED <<index, trouble, calls>>
  PROVE  InboxInv'
<1> DEFINE a == Mine(p)
<1>0. job[p].pc = "finish" /\ job[p].pc \in HoldPc \ {"receipt"}
  BY PlaceFacts DEF FinishRun
<1>1. /\ UNCHANGED <<run, journal, branch, worktree, touched, files, accepted, rejected, misread, index, trouble, calls>>
      /\ Answer(p, "ready") /\ ReleaseRun(p)
  BY DEF FinishRun, prepared
<1>2. TypeOK /\ a \in Archives /\ AtStage(p)
  BY <1>0, HolderFacts
<1>3. /\ SameCall(p) /\ job'[p].pc = "answered" /\ job'[p].result = "ready"
      /\ HoldsLocks(p)' /\ Carries(p)' /\ AtStage(p)' /\ KnowsItsBranch(p)'
  BY <1>1, AnsweredFits DEF Results
<1>4. Decided(Mine(p), job[p].result)'
  <2>1. run'[job'[p].archive] = Stages[Ready] /\ worktree'[job'[p].archive] # "none"
    <3>1. run[a] = Stages[Ready] /\ job[p].stage = 7
      BY <1>0, <1>2, StageFacts DEF AtStage
    <3>2. worktree[a] \in {"clean", "edited"}
      BY <1>0, <1>2, <3>1 DEF AtStage
    <3> QED
      BY <1>1, <1>3, <3>1, <3>2 DEF SameCall, Mine
  <2>2. ASSUME NEW q \in Procs, job'[q].archive = job'[p].archive, job'[q].pc \in HoldPc
        PROVE  job'[q].pc = "receipt"
    <3>1. q # p
      BY <1>3, <2>2, PlaceFacts
    <3>2. job[q].pc \in HoldPc /\ Mine(q) = Mine(p)
      BY <1>3, <2>2, <3>1 DEF SameCall, Mine
    <3> QED
      BY <1>0, <3>1, <3>2, OneHolder
  <2> QED
    BY <1>3, <2>1, <2>2 DEF Decided, Settled, Mine
<1>5. locks' \in [LockNames -> Procs \cup {"free", "orphan"}] /\ \A n \in LockNames : locks[n] \notin {"free", p} => locks'[n] = locks[n]
  BY <1>1, <1>2, ReleaseFacts
<1>6. TypeOK'
  BY <1>1, <1>2, <1>3, <1>5 DEF TypeOK, SameCall
<1>7. \A b \in Archives : SameRun(b)
  BY <1>1 DEF SameRun
<1>8. Works(p)
  BY <1>1, <1>3, <1>5, <1>7 DEF Works
<1> QED
  BY <1>0, <1>1, <1>3, <1>4, <1>6, <1>7, <1>8, HolderKeeps DEF OwnsBranch

-----------------------------------------------------------------------------
(* The cleanup.                                                            *)

LEMMA RemoveWorktreeKeeps ==
  ASSUME InboxInv, NEW p \in Procs, RemoveWorktree(p), UNCHANGED <<index, trouble, calls>>
  PROVE  InboxInv'
<1> DEFINE a == Mine(p)
           at == IF job[p].branched THEN "compare" ELSE "close"
<1>0. job[p].pc = "clean" /\ job[p].pc \in CleanPc /\ job[p].pc \in HoldPc \ {"close", "end"}
  BY DEF RemoveWorktree, HoldPc, CleanPc
<1>1. /\ UNCHANGED <<run, journal, branch, touched, locks, files, accepted, rejected, misread, index, trouble, calls>>
      /\ worktree' = [worktree EXCEPT ![a] = "none"] \/ worktree' = worktree
      /\ GoTo(p, at)
  BY DEF RemoveWorktree
<1>2. TypeOK /\ a \in Archives /\ job[p].result = "none" /\ job[p].branched \in BOOLEAN
  BY <1>0, HolderFacts, JobFacts
<1>3. at \in CleanPc /\ at \in HoldPc /\ (at \in {"compare", "delete"} => job[p].branched)
  BY PlaceFacts
<1>4. SameCall(p) /\ SameProgress(p) /\ job'[p].pc = at /\ job'[p].result = job[p].result
  BY <1>1, <1>2, <1>3, GoneFits
<1>5. /\ worktree' \in [Archives -> {"none", "detached", "clean", "edited"}]
      /\ worktree'[a] \in {"none", worktree[a]} /\ \A b \in Archives \ {a} : worktree'[b] = worktree[b]
  BY <1>1, <1>2 DEF TypeOK
<1>6. \A b \in Archives : b # a => SameRun(b)
  BY <1>1, <1>5 DEF SameRun
<1>7. KnowsItsBranch(p)'
  BY <1>0, <1>1, <1>4, KnowledgeStays DEF SameProgress
<1>8. TypeOK'
  BY <1>1, <1>2, <1>4, <1>5 DEF TypeOK, SameCall
<1>9. ASSUME NEW c \in Archives, c = a  PROVE RunFits(c)' /\ LeadsIn(c)'
  <2>1. RunFits(c) /\ LeadsIn(c)
    BY DEF InboxInv, JournalLeads, LeadsIn
  <2>2. RunFits(c)'
    BY <1>1, <1>5, <1>9, <2>1 DEF RunFits, OwnsBranch
  <2> QED
    BY <1>1, <2>1, <2>2 DEF LeadsIn, Announced
<1> QED
  BY <1>0, <1>1, <1>2, <1>3, <1>4, <1>6, <1>7, <1>8, <1>9, CleanKeeps DEF OwnsBranch

\* From one place of the cleanup to another, before its end.
LEMMA CleanGoesOn ==
  ASSUME InboxInv, NEW p \in Procs, job[p].pc \in CleanPc \ {"close", "end"}, NEW at \in CleanPc, GoTo(p, at),
         at \in {"compare", "delete"} => job[p].branched,
         UNCHANGED <<run, journal, branch, worktree, touched, locks, files, accepted, rejected, misread, index>>,
         UNCHANGED counts \/ (trouble' \in 0..MaxTrouble /\ calls' = calls)
  PROVE  InboxInv'
<1>0. job[p].pc \in HoldPc \ {"close", "end"} /\ at \in HoldPc
  BY PlaceFacts
<1>1. SameCall(p) /\ SameProgress(p) /\ job'[p].pc = at /\ job'[p].result = "none"
  <2>1. TypeOK /\ job[p].result = "none"
    BY <1>0, HolderFacts
  <2> QED
    BY <1>0, <2>1, GoneFits
<1>2. KnowsItsBranch(p)'
  BY <1>0, <1>1, KnowledgeStays DEF SameProgress
<1>3. TypeOK'
  BY <1>1 DEF InboxInv, TypeOK, SameCall, counts
<1>4. \A a \in Archives : SameRun(a)
  BY DEF SameRun
<1> QED
  BY <1>1, <1>2, <1>3, <1>4, CleanKeeps DEF OwnsBranch

LEMMA CompareTipKeeps ==
  ASSUME InboxInv, NEW p \in Procs, CompareTip(p), UNCHANGED <<index, trouble, calls>>
  PROVE  InboxInv'
<1>0. job[p].pc = "compare" /\ job[p].pc \in CleanPc \ {"close", "end"} /\ job[p].branched
  <2>1. job[p].pc = "compare" /\ job[p].pc \in HoldPc
    BY PlaceFacts DEF CompareTip
  <2> QED
    BY <2>1, HolderFacts, PlaceFacts DEF Carries
<1>1. UNCHANGED <<run, journal, branch, worktree, touched, locks, files, accepted, rejected, misread, index, trouble, calls>>
  BY DEF CompareTip, prepared
<1>2. GoTo(p, "delete") \/ GoTo(p, "close")
  BY DEF CompareTip
<1> QED
  BY <1>0, <1>1, <1>2, CleanGoesOn, PlaceFacts DEF counts

LEMMA DeleteBranchKeeps ==
  ASSUME InboxInv, NEW p \in Procs, DeleteBranch(p), UNCHANGED <<index, trouble, calls>>
  PROVE  InboxInv'
<1> DEFINE x == MyBranch(p)
<1>0. job[p].pc = "delete" /\ job[p].pc \in CleanPc /\ job[p].pc \in HoldPc
  BY PlaceFacts DEF DeleteBranch
<1>1. /\ UNCHANGED <<run, journal, worktree, touched, locks, files, accepted, rejected, misread, index, trouble, calls>>
      /\ branch' = branch \/ (~CheckedOut(x) /\ branch' = [branch EXCEPT ![x] = NoBranch])
      /\ GoTo(p, "close")
  BY DEF DeleteBranch
<1>2. TypeOK /\ x \in Branches /\ job[p].result = "none" /\ job[p].branched
  BY <1>0, HolderFacts DEF Carries
<1>3. SameCall(p) /\ SameProgress(p) /\ job'[p].pc = "close" /\ job'[p].result = job[p].result
  BY <1>1, <1>2, GoneFits, PlaceFacts
<1>4. branch' \in [Branches -> Branch \cup {NoBranch}] /\ \A b \in Branches : branch'[b] = branch[b] \/ (b = x /\ ~CheckedOut(x))
  BY <1>1, <1>2 DEF TypeOK
<1>5. KnowsItsBranch(p)'
  BY <1>3 DEF KnowsItsBranch
<1>6. TypeOK'
  BY <1>1, <1>2, <1>3, <1>4 DEF TypeOK, SameCall
<1>7. \A a \in Archives : SameRun(a)
  BY <1>1 DEF SameRun
<1>8. ASSUME NEW a \in Archives, run[a] = Stages[Ready], worktree[a] # "none", OwnsBranch(a)
      PROVE  OwnsBranch(a)'
  <2>1. worktree[a] \in {"clean", "edited"}
    <3>1. worktree[a] # "detached"
      BY <1>8 DEF InboxInv, RunFits
    <3>2. worktree[a] \in {"none", "detached", "clean", "edited"}
      BY <1>2 DEF TypeOK
    <3> QED
      BY <1>8, <3>1, <3>2
  <2>2. BranchOf[a] = x => CheckedOut(x)
    BY <2>1 DEF CheckedOut
  <2>3. branch'[BranchOf[a]] = branch[BranchOf[a]]
    BY <1>4, <2>2, NameFacts
  <2> QED
    BY <1>1, <1>8, <2>3 DEF OwnsBranch
<1>9. \A b \in Branches : branch'[b] = branch[b] \/ (b = MyBranch(p) /\ job[p].branched)
  BY <1>2, <1>4
<1>10. job'[p].pc \in CleanPc /\ job'[p].result = "none" /\ job'[p].pc \notin {"compare", "delete"}
  BY <1>2, <1>3, PlaceFacts
<1> QED
  BY <1>0, <1>1, <1>3, <1>5, <1>6, <1>7, <1>8, <1>9, <1>10, CleanKeeps

LEMMA AnnounceEndKeeps ==
  ASSUME InboxInv, NEW p \in Procs, AnnounceEnd(p), UNCHANGED <<index, trouble, calls>>
  PROVE  InboxInv'
<1> DEFINE a == Mine(p)
<1>0. job[p].pc = "close" /\ job[p].pc \in CleanPc /\ job[p].pc \in HoldPc
  BY PlaceFacts DEF AnnounceEnd
<1>1. /\ UNCHANGED <<run, branch, worktree, touched, locks, files, accepted, rejected, misread, index, trouble, calls>>
      /\ GoTo(p, "end")
      /\ Journals(a, Stages[job[p].stage], job[p].end) \/ journal' = journal
  BY DEF AnnounceEnd
<1>2. TypeOK /\ a \in Archives /\ job[p].result = "none" /\ job[p].end \in Ends /\ job[p].stage \in 1..7 /\ run[a] # "none"
  <2>1. TypeOK /\ a \in Archives /\ job[p].result = "none" /\ Carries(p) /\ AtStage(p)
    BY <1>0, HolderFacts
  <2>2. job[p].stage \in 1..7
    BY <2>1, JobFacts, StageFacts
  <2> QED
    BY <1>0, <2>1, <2>2 DEF Carries, AtStage
<1>3. SameCall(p) /\ SameProgress(p) /\ job'[p].pc = "end" /\ job'[p].result = job[p].result
  BY <1>1, <1>2, GoneFits, PlaceFacts
<1>4. Stages[job[p].stage] \in RunState /\ job[p].end \in RunState
  BY <1>2, StageFacts
<1>5. /\ journal' \in [Archives -> Seq(Event)] /\ Len(journal[a]) \in Nat /\ Len(journal'[a]) \in Nat
      /\ Len(journal'[a]) >= Len(journal[a]) /\ \A i \in 1..Len(journal[a]) : journal'[a][i] = journal[a][i]
      /\ \A b \in Archives \ {a} : journal'[b] = journal[b]
  <2>1. journal \in [Archives -> Seq(Event)] /\ Len(journal[a]) \in Nat
    BY <1>2 DEF TypeOK
  <2>2. CASE journal' = journal
    BY <2>1, <2>2
  <2>3. CASE Journals(a, Stages[job[p].stage], job[p].end)
    <3>1. /\ journal' \in [Archives -> Seq(Event)] /\ Len(journal'[a]) = Len(journal[a]) + 1
          /\ \A i \in 1..Len(journal[a]) : journal'[a][i] = journal[a][i]
          /\ \A b \in Archives \ {a} : journal'[b] = journal[b]
      BY <1>2, <1>4, <2>3, JournalsFacts
    <3> QED
      BY <2>1, <3>1
  <2> QED
    BY <1>1, <2>2, <2>3
<1>6. \A b \in Archives : b # a => SameRun(b)
  BY <1>1, <1>5 DEF SameRun
<1>7. KnowsItsBranch(p)'
  BY <1>3 DEF KnowsItsBranch
<1>8. TypeOK'
  BY <1>1, <1>2, <1>3, <1>5 DEF TypeOK, SameCall
<1>9. ASSUME NEW c \in Archives, c = a  PROVE RunFits(c)' /\ LeadsIn(c)'
  <2>1. RunFits(c) /\ LeadsIn(c)
    BY DEF InboxInv, JournalLeads, LeadsIn
  <2>2. RunFits(c)'
    BY <1>1, <1>2, <1>9, <2>1 DEF RunFits, OwnsBranch
  <2>3. LeadsIn(c)'
    BY <1>1, <1>5, <1>9, <2>1, LeadsStays
  <2> QED
    BY <2>2, <2>3
<1>10. job'[p].pc \in CleanPc /\ job'[p].result = "none" /\ job'[p].pc \notin {"compare", "delete"}
  BY <1>2, <1>3, PlaceFacts
<1> QED
  BY <1>0, <1>1, <1>3, <1>6, <1>7, <1>8, <1>9, <1>10, CleanKeeps DEF OwnsBranch

LEMMA RecordEndKeeps ==
  ASSUME InboxInv, NEW p \in Procs, RecordEnd(p), UNCHANGED <<index, trouble, calls>>
  PROVE  InboxInv'
<1> DEFINE a == Mine(p)
           r == IF job[p].end = "BLOCKED" THEN "blocked" ELSE "failed"
<1>0. job[p].pc = "end" /\ job[p].pc \in CleanPc /\ job[p].pc \in HoldPc \ {"receipt"}
  BY PlaceFacts DEF RecordEnd
<1>1. /\ UNCHANGED <<journal, branch, worktree, touched, files, accepted, rejected, misread, index, trouble, calls>>
      /\ run' = [run EXCEPT ![a] = job[p].end] /\ Answer(p, r) /\ ReleaseRun(p)
  BY DEF RecordEnd
<1>2. TypeOK /\ a \in Archives /\ job[p].end \in Ends
  BY <1>0, HolderFacts DEF Carries
<1>3. r \in {"blocked", "failed"} /\ r \in Results
  BY DEF Results
<1>4. /\ SameCall(p) /\ job'[p].pc = "answered" /\ job'[p].result = r
      /\ HoldsLocks(p)' /\ Carries(p)' /\ AtStage(p)' /\ KnowsItsBranch(p)'
  BY <1>1, <1>3, AnsweredFits
<1>5. locks' \in [LockNames -> Procs \cup {"free", "orphan"}] /\ \A n \in LockNames : locks[n] \notin {"free", p} => locks'[n] = locks[n]
  BY <1>1, <1>2, ReleaseFacts
<1>6. job[p].end \in RunState /\ job[p].end # "none" /\ \A i \in 1..Ready : job[p].end # Stages[i]
  BY <1>2, StageFacts
<1>7. run' \in [Archives -> RunState] /\ run'[a] = job[p].end /\ \A b \in Archives \ {a} : run'[b] = run[b]
  BY <1>1, <1>2, <1>6 DEF TypeOK
<1>8. TypeOK'
  BY <1>1, <1>2, <1>4, <1>5, <1>7 DEF TypeOK, SameCall
<1>9. \A b \in Archives : b # a => SameRun(b)
  BY <1>1, <1>7 DEF SameRun
<1>10. Works(p)
  BY <1>1, <1>4, <1>5, <1>9 DEF Works
<1>11. ASSUME NEW c \in Archives, c = a  PROVE RunFits(c)' /\ LeadsIn(c)'
  <2>1. Ready \in 1..Ready
    BY StageFacts
  <2> QED
    BY <1>6, <1>7, <1>11, <2>1 DEF RunFits, LeadsIn
<1> QED
  BY <1>0, <1>1, <1>3, <1>4, <1>8, <1>10, <1>11, HolderKeeps DEF OwnsBranch

-----------------------------------------------------------------------------
(* Taking a run.                                                           *)

LEMMA TakeRunLockKeeps ==
  ASSUME InboxInv, NEW p \in Procs, TakeRunLock(p), UNCHANGED <<index, trouble, calls>>
  PROVE  InboxInv'
<1> DEFINE a == Mine(p)
<1>0. job[p].pc = "lock" /\ job[p].pc \in IntakePc
  BY DEF TakeRunLock, IntakePc
<1>1. UNCHANGED <<run, journal, branch, worktree, touched, files, accepted, rejected, misread, index, trouble, calls>>
  BY DEF TakeRunLock, prepared
<1>2. TypeOK /\ Carries(p) /\ a \in Archives
  BY <1>0 DEF InboxInv, Carries, Mine
<1>3. \A b \in Archives : SameRun(b)
  BY <1>1 DEF SameRun
<1>4. CASE Take(p, <<"run", a>>) /\ GoTo(p, "receipt")
  <2>1. SameCall(p) /\ SameProgress(p) /\ job'[p].pc = "receipt" /\ job'[p].result = job[p].result
    BY <1>2, <1>4, GoneFits, PlaceFacts
  <2>2. /\ locks' \in [LockNames -> Procs \cup {"free", "orphan"}] /\ locks'[<<"run", a>>] = p
        /\ \A m \in LockNames : locks[m] # "free" => locks'[m] = locks[m]
    BY <1>2, <1>4, NameFacts, TakeFacts
  <2>3. job[p].result = "none" /\ job[p].stage = 1 /\ ~job[p].branched /\ job[p].tip = "none"
    BY <1>0, <1>2 DEF Carries
  <2>4. "receipt" \notin BuildPc \cup CleanPc \cup StartPc
    BY DEF BuildPc, CleanPc, StartPc
  <2>5. HoldsLocks(p)'
    BY <2>1, <2>2, <2>3, <2>4 DEF HoldsLocks, SameCall, SameProgress, Mine
  <2>6. Carries(p)'
    BY <1>2, <2>1, <2>3, <2>4 DEF Carries, SameCall, SameProgress, Mine
  <2>7. AtStage(p)'
    BY <2>1, <2>4 DEF AtStage
  <2>8. KnowsItsBranch(p)'
    BY <2>1, <2>3 DEF KnowsItsBranch, SameProgress
  <2>9. Keeps(p)
    <3>1. \A q \in Procs \ {p}, n \in WorkLocks : locks[n] = q => locks'[n] = q
      BY <2>2, IntakeAssumption DEF WorkLocks
    <3> QED
      BY <1>1, <1>2, <1>3, <2>1, <3>1 DEF Keeps, SameCall, RefusalsStand
  <2>10. TypeOK'
    BY <1>1, <1>2, <2>1, <2>2 DEF TypeOK, SameCall
  <2>11. Observed(p)'
    BY <1>0, <2>1, <2>3, <2>9, PlaceFacts, WorkObserved
  <2> QED
    BY <1>1, <1>3, <2>5, <2>6, <2>7, <2>8, <2>9, <2>10, <2>11, StepKeeps DEF Fits, OwnsBranch
<1>5. CASE Answer(p, "failed") /\ UNCHANGED locks
  <2>1. /\ SameCall(p) /\ job'[p].pc = "answered" /\ job'[p].result = "failed"
        /\ HoldsLocks(p)' /\ Carries(p)' /\ AtStage(p)' /\ KnowsItsBranch(p)'
    BY <1>5, AnsweredFits DEF Results
  <2>2. Keeps(p)
    BY <1>1, <1>3, <1>5, <2>1, PlaceFacts DEF Keeps, SameCall, RefusalsStand
  <2>3. TypeOK'
    BY <1>1, <1>2, <1>5, <2>1 DEF TypeOK, SameCall
  <2>4. Observed(p)'
    BY <1>0, <2>1, <2>2, WorkObserved
  <2> QED
    BY <1>1, <1>3, <2>1, <2>2, <2>3, <2>4, StepKeeps DEF Fits, OwnsBranch
<1> QED
  BY <1>4, <1>5 DEF TakeRunLock

\* Whoever holds a run that it has not looked at answers, and lets it go.
LEMMA LetsGo ==
  ASSUME InboxInv, NEW p \in Procs, job[p].pc \in IntakePc \cup HoldPc, NEW r \in Results, Answer(p, r), ReleaseRun(p),
         r = "ready" => job[p].pc = "receipt" /\ run[Mine(p)] = Stages[Ready] /\ worktree[Mine(p)] # "none",
         r # "rejected", UNCHANGED <<run, journal, branch, worktree, touched, files, accepted, rejected, misread, index>>,
         UNCHANGED counts \/ (trouble' \in 0..MaxTrouble /\ calls' = calls)
  PROVE  InboxInv'
<1> DEFINE a == Mine(p)
<1>1. TypeOK /\ a \in Archives
  BY DEF InboxInv, Carries, Mine
<1>2. /\ SameCall(p) /\ job'[p].pc = "answered" /\ job'[p].result = r
      /\ HoldsLocks(p)' /\ Carries(p)' /\ AtStage(p)' /\ KnowsItsBranch(p)'
  BY AnsweredFits
<1>3. locks' \in [LockNames -> Procs \cup {"free", "orphan"}] /\ \A n \in LockNames : locks[n] \notin {"free", p} => locks'[n] = locks[n]
  BY <1>1, ReleaseFacts
<1>4. \A b \in Archives : SameRun(b)
  BY DEF SameRun
<1>5. Keeps(p)
  <2>1. \A q \in Procs \ {p}, n \in WorkLocks : locks[n] = q => locks'[n] = q
    BY <1>3, IntakeAssumption DEF WorkLocks
  <2> QED
    BY <1>1, <1>2, <1>4, <2>1, PlaceFacts DEF Keeps, SameCall, RefusalsStand
<1>6. TypeOK'
  BY <1>1, <1>2, <1>3 DEF TypeOK, SameCall, counts
<1>7. Decided(Mine(p), job[p].result)'
  <2>1. ASSUME r = "ready"  PROVE Settled(Mine(p))'
    <3>1. ASSUME NEW q \in Procs, job'[q].archive = job'[p].archive, job'[q].pc \in HoldPc
          PROVE  job'[q].pc = "receipt"
      <4>1. q # p
        BY <1>2, <3>1, PlaceFacts
      <4>2. job[q].pc \in HoldPc /\ Mine(q) = Mine(p)
        BY <1>2, <3>1, <4>1 DEF SameCall, Mine
      <4> QED
        BY <2>1, <4>1, <4>2, OneHolder, PlaceFacts
    <3> QED
      BY <1>2, <2>1, <3>1 DEF Settled, SameCall, Mine
  <2> QED
    BY <1>2, <2>1 DEF Decided
<1>8. Observed(p)'
  BY <1>2, <1>5, <1>7, WorkObserved
<1> QED
  BY <1>2, <1>4, <1>5, <1>6, <1>8, StepKeeps DEF Fits, OwnsBranch

LEMMA ExistingRunKeeps ==
  ASSUME InboxInv, NEW p \in Procs, ExistingRun(p), UNCHANGED <<index, trouble, calls>>
  PROVE  InboxInv'
<1> DEFINE r == IF Untouched(Mine(p)) THEN "ready" ELSE "failed"
<1>0. job[p].pc = "receipt" /\ job[p].pc \in HoldPc
  BY PlaceFacts DEF ExistingRun
<1>1. /\ UNCHANGED <<run, journal, branch, worktree, touched, files, accepted, rejected, misread, index, trouble, calls>>
      /\ Answer(p, r) /\ ReleaseRun(p)
  BY DEF ExistingRun, prepared
<1>2. r \in Results /\ r # "rejected"
  BY DEF Results
<1>3. r = "ready" => run[Mine(p)] = Stages[Ready] /\ worktree[Mine(p)] # "none"
  BY DEF Untouched
<1> QED
  BY <1>0, <1>1, <1>2, <1>3, LetsGo DEF counts

LEMMA MakeRunDirectoryKeeps ==
  ASSUME InboxInv, NEW p \in Procs, MakeRunDirectory(p), UNCHANGED <<index, trouble, calls>>
  PROVE  InboxInv'
<1> DEFINE a == Mine(p)
<1>0. job[p].pc = "receipt" /\ job[p].pc \in HoldPc
  BY PlaceFacts DEF MakeRunDirectory
<1>1. /\ UNCHANGED <<journal, branch, worktree, touched, locks, files, accepted, rejected, misread, index, trouble, calls>>
      /\ run[a] = "none" /\ run' = [run EXCEPT ![a] = "bare"] /\ GoTo(p, "open")
  BY DEF MakeRunDirectory
<1>2. TypeOK /\ a \in Archives /\ Carries(p) /\ job[p].result = "none" /\ HoldsLocks(p)
  BY <1>0, HolderFacts DEF InboxInv
<1>3. SameCall(p) /\ SameProgress(p) /\ job'[p].pc = "open" /\ job'[p].result = "none"
  BY <1>1, <1>2, GoneFits, PlaceFacts
<1>4. "bare" \in RunState /\ Ready = 7 /\ \A i \in 1..7 : Stages[i] # "bare" /\ Stages[i] # "none"
  BY StageFacts
<1>5. run' \in [Archives -> RunState] /\ run'[a] = "bare" /\ \A b \in Archives \ {a} : run'[b] = run[b]
  BY <1>1, <1>2, <1>4 DEF TypeOK
<1>6. \A b \in Archives : b # a => SameRun(b)
  BY <1>1, <1>5 DEF SameRun
<1>7. job[p].stage = 1 /\ ~job[p].branched /\ job[p].tip = "none"
  BY <1>0, <1>2 DEF Carries
<1>8. "open" \notin BuildPc \cup CleanPc \cup StartPc \cup IntakePc /\ "open" \in HoldPc
  BY DEF BuildPc, CleanPc, StartPc, IntakePc, HoldPc
<1>9. HoldsLocks(p)'
  BY <1>0, <1>1, <1>2, <1>3, <1>7, <1>8 DEF HoldsLocks, SameCall, SameProgress, Mine
<1>10. Carries(p)'
  BY <1>2, <1>3, <1>7, <1>8 DEF Carries, SameCall, SameProgress, Mine
<1>11. journal[a] = <<>>
  BY <1>1, <1>2 DEF InboxInv, RunFits
<1>12. AtStage(p)'
  <2>1. Len(journal'[a]) = 0 /\ job'[p].archive = a /\ job'[p].stage = 1
    BY <1>1, <1>3, <1>7, <1>11 DEF SameCall, SameProgress, Mine
  <2>2. Announced(Mine(p), job[p].stage)'
    BY <2>1 DEF Announced, Mine
  <2>3. run'[a] # "none" /\ run'[a] # Stages[Ready]
    BY <1>4, <1>5
  <2> QED
    BY <1>3, <2>1, <2>2, <2>3 DEF AtStage, Mine
<1>13. KnowsItsBranch(p)'
  BY <1>3, <1>7 DEF KnowsItsBranch, SameProgress
<1>14. ~Settled(a)
  BY <1>1, <1>4 DEF Settled
<1>15. Keeps(p)
  BY <1>0, <1>1, <1>3, <1>6, <1>14 DEF Keeps, SameCall, Mine, RefusalsStand
<1>16. TypeOK'
  BY <1>1, <1>2, <1>3, <1>5 DEF TypeOK, SameCall
<1>17. Observed(p)'
  BY <1>0, <1>3, <1>8, <1>15, WorkObserved
<1>18. ASSUME NEW c \in Archives, ~SameRun(c)  PROVE RunFits(c)' /\ LeadsIn(c)'
  <2>1. c = a
    BY <1>6, <1>18
  <2> QED
    BY <1>4, <1>5, <2>1 DEF RunFits, LeadsIn
<1> QED
  BY <1>1, <1>9, <1>10, <1>12, <1>13, <1>15, <1>16, <1>17, <1>18, StepKeeps DEF Fits, OwnsBranch

LEMMA TroubleKeeps ==
  ASSUME InboxInv, NEW p \in Procs, PreparationTrouble(p), UNCHANGED <<files, accepted, rejected, misread, index>>, Troubled
  PROVE  InboxInv'
<1> DEFINE a == Mine(p)
           k == job[p].stage
<1>0. trouble' \in 0..MaxTrouble /\ calls' = calls
  BY InboxAssumption DEF InboxInv, TypeOK, Troubled
<1>1. UNCHANGED <<run, branch, worktree, touched, files, accepted, rejected, misread, index>>
  BY DEF PreparationTrouble
<1>2. CASE job[p].pc \in WorkPc /\ Fail(p, "FAILED") /\ UNCHANGED <<journal, locks>>
  <2>1. job[p].pc \in HoldPc \ {"close", "end", "receipt"}
    BY <1>2 DEF WorkPc, HoldPc, BuildPc
  <2>2. "FAILED" \in Ends
    BY DEF Ends
  <2> QED
    BY <1>0, <1>1, <1>2, <2>1, <2>2, FailKeeps
<1>3. CASE job[p].pc = "clean" /\ GoTo(p, IF job[p].branched THEN "compare" ELSE "close") /\ UNCHANGED <<journal, locks>>
  <2>1. job[p].pc \in CleanPc \ {"close", "end"}
    BY <1>3, PlaceFacts
  <2>2. CASE job[p].branched
    BY <1>0, <1>1, <1>3, <2>1, <2>2, CleanGoesOn, PlaceFacts
  <2>3. CASE ~job[p].branched
    BY <1>0, <1>1, <1>3, <2>1, <2>3, CleanGoesOn, PlaceFacts
  <2> QED
    BY <2>2, <2>3
<1>4. CASE job[p].pc \in {"lock", "receipt", "end"} /\ Answer(p, "failed") /\ ReleaseRun(p) /\ UNCHANGED journal
  <2>1. job[p].pc \in IntakePc \cup HoldPc
    BY <1>4, PlaceFacts DEF IntakePc
  <2>2. "failed" \in Results
    BY DEF Results
  <2> QED
    BY <1>0, <1>1, <1>4, <2>1, <2>2, LetsGo
<1>5. CASE /\ job[p].pc = "announce"
           /\ journal' = [journal EXCEPT ![Mine(p)] = Append(@, Torn)] \/ UNCHANGED journal
           /\ job' = [job EXCEPT ![p].pc = "clean", ![p].end = "FAILED", ![p].stage = IF @ = 1 THEN 1 ELSE @ + 1]
           /\ UNCHANGED locks
  <2>0. job[p].pc \in BuildPc /\ job[p].pc \in HoldPc \ {"close", "end", "receipt"}
    BY <1>5, PlaceFacts
  <2>1. TypeOK /\ a \in Archives /\ AtStage(p) /\ job[p].result = "none"
    BY <2>0, HolderFacts
  <2>2. k < Ready /\ run[a] # "none" /\ run[a] # Stages[Ready]
    BY <1>5, <2>0, <2>1, PlaceFacts DEF AtStage
  <2>3. k \in 1..7 /\ Ready = 7
    BY <2>1, JobFacts, StageFacts
  <2> DEFINE l == IF k = 1 THEN 1 ELSE k + 1
  <2>4. [job[p] EXCEPT !.pc = "clean", !.end = "FAILED", !.stage = l] \in Job /\ job[p] \in Job
    <3>1. "clean" \in HoldPc /\ "FAILED" \in Ends /\ l \in 1..Ready
      BY <2>2, <2>3, PlaceFacts DEF Ends
    <3>2. job[p] \in Job
      BY <2>1, JobFacts
    <3> HIDE DEF l
    <3> QED
      BY <3>1, <3>2 DEF Job
  <2>5. job' = [job EXCEPT ![p] = [job[p] EXCEPT !.pc = "clean", !.end = "FAILED", !.stage = l]]
    BY <1>5
  <2> HIDE DEF l
  <2>6. SameCall(p) /\ job'[p].pc = "clean" /\ job'[p].end = "FAILED" /\ job'[p].result = "none" /\ job'[p].branched = job[p].branched
    <3>1. Becomes(p, [job[p] EXCEPT !.pc = "clean", !.end = "FAILED", !.stage = l])
      BY <2>1, <2>4, <2>5, Update
    <3> QED
      BY <2>1, <2>4, <3>1 DEF Becomes, SameCall, Job
  <2>7. /\ journal' \in [Archives -> Seq(Event)] /\ Len(journal[a]) \in Nat /\ Len(journal'[a]) \in Nat
        /\ Len(journal'[a]) >= Len(journal[a]) /\ \A i \in 1..Len(journal[a]) : journal'[a][i] = journal[a][i]
        /\ \A b \in Archives \ {a} : journal'[b] = journal[b]
    <3>1. journal \in [Archives -> Seq(Event)] /\ journal[a] \in Seq(Event) /\ Len(journal[a]) \in Nat
      BY <2>1 DEF TypeOK
    <3>2. Torn \in Event
      BY StageFacts DEF Torn, Event
    <3>3. CASE UNCHANGED journal
      BY <3>1, <3>3
    <3>4. CASE journal' = [journal EXCEPT ![a] = Append(@, Torn)]
      <4>1. Append(journal[a], Torn) \in Seq(Event) /\ Len(Append(journal[a], Torn)) = Len(journal[a]) + 1
            /\ \A i \in 1..Len(journal[a]) : Append(journal[a], Torn)[i] = journal[a][i]
        BY <3>1, <3>2
      <4> QED
        BY <2>1, <3>1, <3>4, <4>1
    <3> QED
      BY <1>5, <3>3, <3>4
  <2>8. \A b \in Archives : b # a => SameRun(b)
    BY <1>1, <2>7 DEF SameRun
  <2>9. KnowsItsBranch(p)'
    BY <1>1, <2>0, <2>6, KnowledgeStays
  <2>10. HoldsLocks(p)'
    BY <1>5, <2>0, <2>6, HolderFacts, PlaceFacts DEF HoldsLocks, SameCall, Mine, MyBranch
  <2>11. Carries(p)'
    <3>1. "clean" \notin StartPc \cup IntakePc \cup {"receipt", "open", "branch_lock"}
      BY DEF StartPc, IntakePc
    <3>2. job'[p].archive \in Archives /\ "FAILED" \in Ends
      BY <2>1, <2>6 DEF SameCall, Mine, Ends
    <3> QED
      BY <2>6, <3>1, <3>2 DEF Carries
  <2>12. AtStage(p)'
    <3>1. run'[job'[p].archive] # "none"
      BY <1>1, <2>2, <2>6 DEF SameCall, Mine
    <3> QED
      BY <2>6, <3>1, PlaceFacts DEF AtStage, Mine
  <2>13. TypeOK'
    BY <1>0, <1>1, <1>5, <2>1, <2>6, <2>7 DEF TypeOK, SameCall
  <2>14. Works(p)
    BY <1>1, <1>5, <2>6, <2>8 DEF Works
  <2>15. ASSUME NEW c \in Archives, c = a  PROVE RunFits(c)' /\ LeadsIn(c)'
    <3>1. RunFits(c) /\ LeadsIn(c)
      BY DEF InboxInv, JournalLeads, LeadsIn
    <3>2. LeadsIn(c)'
      BY <1>1, <2>7, <2>15, <3>1, LeadsStays
    <3>3. RunFits(c)'
      BY <1>1, <2>2, <2>15, <3>1 DEF RunFits, OwnsBranch
    <3> QED
      BY <3>2, <3>3
  <2>16. job'[p].pc \in HoldPc \ {"receipt"}
    BY <2>6, PlaceFacts
  <2> QED
    BY <1>1, <2>0, <2>6, <2>9, <2>10, <2>11, <2>12, <2>13, <2>14, <2>15, <2>16, HolderKeeps DEF OwnsBranch
<1> QED
  BY <1>2, <1>3, <1>4, <1>5 DEF PreparationTrouble

-----------------------------------------------------------------------------
(* Steps that touch no run.                                                *)

\* A step of a process that neither held a run nor takes one.
Aside(p) ==
  /\ job' \in [Procs -> Job] /\ \A q \in Procs \ {p} : job'[q] = job[q]
  /\ job[p].pc \notin HoldPc /\ job'[p].pc \notin HoldPc
  /\ \A q \in Procs \ {p}, n \in WorkLocks : locks[n] = q => locks'[n] = q
  /\ UNCHANGED <<files, run, journal, branch, worktree, touched>> /\ RefusalsStand

LEMMA AsideKeeps ==
  ASSUME InboxInv, NEW p \in Procs, Aside(p), TypeOK', Carries(p)',
         Keeps(p) => Observed(p)',
         index' = index \/ \A f \in Files : EntryHolds(f, index'[f])
  PROVE  InboxInv'
<1>1. \A a \in Archives : SameRun(a)
  BY DEF Aside, SameRun
<1>2. Keeps(p)
  BY <1>1 DEF Aside, Keeps
<1>3. job'[p].pc \notin BuildPc \cup {"open", "branch_lock"}
  BY PlaceFacts DEF Aside
<1>4. HoldsLocks(p)' /\ AtStage(p)' /\ KnowsItsBranch(p)'
  BY <1>3, PlaceFacts DEF Aside, HoldsLocks, AtStage, KnowsItsBranch
<1>5. touched' = touched /\ branch' = branch
  BY DEF Aside
<1> QED
  BY <1>1, <1>2, <1>4, <1>5, StepKeeps DEF Fits, OwnsBranch

\* The copy of the index stands.
LEMMA CopyStays ==
  ASSUME InboxInv, NEW p \in Procs, Keeps(p), job'[p].copy = job[p].copy, NEW f \in Files
  PROVE  EntryHolds(f, job[p].copy[f])'
<1>1. PICK e : e = job[p].copy[f]
  OBVIOUS
<1>2. EntryHolds(f, e)
  BY <1>1 DEF InboxInv, Observed
<1>3. EntryHolds(f, e)'
  BY <1>2, EntryStays
<1> QED
  BY <1>1, <1>3 DEF EntryHolds

LEMMA NoClaim ==
  ASSUME TypeOK, NEW f \in Files
  PROVE  EntryHolds(f, NoEntry)
<1>1. files[f].version \in Versions
  BY DEF TypeOK
<1>2. 0 <= files[f].version
  BY <1>1, InboxAssumption DEF Versions
<1> QED
  BY <1>2 DEF EntryHolds, NoEntry, Decided

LEMMA CopyArchiveKeeps ==
  ASSUME InboxInv, NEW p \in Procs, CopyArchive(p), UNCHANGED <<run, journal, branch, worktree, touched, locks, index, trouble, calls>>
  PROVE  InboxInv'
<1> DEFINE a == files[job[p].file].archive
<1>0. job[p].pc = "copy" /\ job[p].pc \in StartPc /\ TypeOK /\ Carries(p) /\ Observed(p)
  BY DEF CopyArchive, StartPc, InboxInv
<1>1. UNCHANGED <<files, accepted, rejected, misread>> /\ job' = [job EXCEPT ![p] = [job[p] EXCEPT !.pc = "find", !.archive = a]]
  BY DEF CopyArchive
<1>2. job[p].file \in Files /\ a \in Archives
  BY <1>0 DEF Observed, TypeOK
<1>3. [job[p] EXCEPT !.pc = "find", !.archive = a] \in Job /\ job[p] \in Job
  <2> HIDE DEF a
  <2>1. "find" \in IntakePc
    BY DEF IntakePc
  <2>2. job[p] \in Job
    BY <1>0, JobFacts
  <2>3. [job[p] EXCEPT !.pc = "find", !.archive = a] \in Job
    BY <1>2, <2>1, <2>2 DEF Job
  <2> QED
    BY <2>2, <2>3
<1>4. Becomes(p, [job[p] EXCEPT !.pc = "find", !.archive = a])
  BY <1>0, <1>1, <1>3, Update
<1>5. /\ job'[p].pc = "find" /\ job'[p].archive = a /\ job'[p].copy = job[p].copy /\ job'[p].file = job[p].file
      /\ job'[p].version = job[p].version /\ job'[p].caller = job[p].caller /\ SameProgress(p) /\ job'[p].result = job[p].result
      /\ job' \in [Procs -> Job] /\ \A q \in Procs \ {p} : job'[q] = job[q]
  BY <1>3, <1>4 DEF Becomes, SameProgress, Job
<1>6. Aside(p)
  BY <1>0, <1>1, <1>5, PlaceFacts DEF Aside, IntakePc, RefusalsStand
<1>7. TypeOK'
  BY <1>0, <1>1, <1>5 DEF TypeOK
<1>8. Carries(p)'
  <2>1. "find" \notin StartPc \cup HoldPc \cup CleanPc
    BY DEF StartPc, HoldPc, BuildPc, CleanPc
  <2> QED
    BY <1>0, <1>2, <1>5, <2>1 DEF Carries, SameProgress
<1>9. ASSUME Keeps(p)  PROVE Observed(p)'
  <2>1. \A f \in Files : EntryHolds(f, job[p].copy[f])'
    BY <1>5, <1>9, CopyStays
  <2>2. job'[p].result = "none"
    BY <1>0, <1>5 DEF Carries
  <2>3. job[p].caller \in Scanners => job[p].version <= files[job[p].file].version
    BY <1>0 DEF Observed
  <2> QED
    BY <1>1, <1>2, <1>5, <2>1, <2>2, <2>3 DEF Observed
<1> QED
  BY <1>6, <1>7, <1>8, <1>9, AsideKeeps

\* What is stored of archives keeps its type, and refusals stand.
StoresFit ==
  /\ accepted' \subseteq Archives /\ misread' \subseteq Archives
  /\ rejected' \in [Archives -> Refusals \cup {"none"}] /\ RefusalsStand

\* What is answered of an archive without a run.
Answers(p, r) ==
  /\ Answer(p, r)
  /\ \A a \in Archives : a = Mine(p) /\ r = "rejected" =>
       ~Executable(a) \/ (rejected'[a] = "rejected" /\ RefusedForCause(a)')

\* An archive is answered for, or waits for its run.
LEMMA TakenInKeeps ==
  ASSUME InboxInv, NEW p \in Procs, job[p].pc \in {"find", "judge"},
         NEW r \in {"failed", "rejected", "blocked"}, NEW at \in {"judge", "lock"},
         GoTo(p, at) \/ Answers(p, r), StoresFit,
         UNCHANGED <<files, run, journal, branch, worktree, touched, locks, index>>,
         UNCHANGED counts \/ (trouble' \in 0..MaxTrouble /\ calls' = calls)
  PROVE  InboxInv'
<1>0. job[p].pc \in IntakePc /\ TypeOK /\ Carries(p) /\ at \in IntakePc /\ r \in Results
  BY DEF IntakePc, InboxInv, Results
<1>1. CASE GoTo(p, at)
  <2>1. SameCall(p) /\ SameProgress(p) /\ job'[p].pc = at /\ job'[p].result = job[p].result
    BY <1>0, <1>1, GoneFits
  <2>2. Aside(p)
    BY <1>0, <2>1, PlaceFacts DEF Aside, SameCall, StoresFit
  <2>3. TypeOK'
    BY <1>0, <2>1 DEF TypeOK, SameCall, counts, StoresFit
  <2>4. Carries(p)'
    <3>1. at \notin StartPc \cup HoldPc \cup CleanPc /\ at \notin {"tip", "populate", "compare", "delete", "answered"}
      BY DEF StartPc, HoldPc, BuildPc, CleanPc
    <3>2. job[p].archive \in Archives /\ job[p].result = "none" /\ job[p].stage = 1 /\ ~job[p].branched /\ job[p].tip = "none"
      BY <1>0, PlaceFacts DEF Carries, IntakePc
    <3> QED
      BY <1>0, <2>1, <3>1, <3>2 DEF Carries, SameCall, SameProgress
  <2>5. ASSUME Keeps(p)  PROVE Observed(p)'
    <3>1. job'[p].result = "none"
      BY <1>0, <2>1 DEF Carries, IntakePc
    <3> QED
      BY <1>0, <2>1, <2>5, <3>1, WorkObserved
  <2> QED
    BY <2>2, <2>3, <2>4, <2>5, AsideKeeps
<1>2. CASE Answers(p, r)
  <2>1. SameCall(p) /\ job'[p].pc = "answered" /\ job'[p].result = r /\ Carries(p)'
    BY <1>0, <1>2, AnsweredFits DEF Answers
  <2>2. Aside(p)
    BY <1>0, <2>1, PlaceFacts DEF Aside, SameCall, StoresFit
  <2>3. TypeOK'
    BY <1>0, <2>1 DEF TypeOK, SameCall, counts, StoresFit
  <2>4. Decided(Mine(p), job[p].result)'
    <3>1. PICK a \in Archives : a = Mine(p)
      BY <1>0 DEF Carries, Mine
    <3>2. Decided(a, r)'
      BY <1>2, <3>1 DEF Answers, Decided, Executable
    <3> QED
      BY <2>1, <3>1, <3>2 DEF Decided, SameCall, Mine
  <2>5. Keeps(p) => Observed(p)'
    BY <1>0, <2>1, <2>4, WorkObserved
  <2> QED
    BY <2>1, <2>2, <2>3, <2>5, AsideKeeps
<1> QED
  BY <1>1, <1>2

\* A refusal is stored, unless there is one, and what is stored is answered.
LEMMA RefuseFits ==
  ASSUME InboxInv, NEW p \in Procs, NEW a \in Archives, a = Mine(p), NEW as \in Refusals, Refuse(p, a, as),
         accepted' = accepted, misread \subseteq misread', misread' \subseteq Archives,
         ~Sound(a) \/ a \in misread'
  PROVE  StoresFit /\ \E r \in Refusals : Answers(p, r)
<1> DEFINE stored == IF rejected[a] = "none" THEN as ELSE rejected[a]
<1>1. rejected \in [Archives -> Refusals \cup {"none"}] /\ accepted \subseteq Archives /\ RefusedForCause(a)
  BY DEF InboxInv, TypeOK
<1>2. stored \in Refusals /\ rejected' = [rejected EXCEPT ![a] = stored] /\ Answer(p, stored)
  BY <1>1 DEF Refuse
<1>3. rejected[a] = "none" \/ stored = rejected[a]
  OBVIOUS
<1> HIDE DEF stored
<1>4. rejected'[a] = stored /\ \A b \in Archives \ {a} : rejected'[b] = rejected[b]
  BY <1>1, <1>2
<1>5. RefusalsStand
  BY <1>3, <1>4 DEF RefusalsStand
<1>6. RefusedForCause(a)'
  BY <1>1, <1>5, RefusalStays
<1>7. StoresFit
  BY <1>1, <1>2, <1>5 DEF StoresFit
<1>8. Answers(p, stored)
  BY <1>2, <1>4, <1>6 DEF Answers
<1> QED
  BY <1>2, <1>7, <1>8

LEMMA IntakeKeeps ==
  ASSUME InboxInv, NEW p \in Procs, FindReceipt(p) \/ Judge(p) \/ FindTrouble(p) \/ JudgeTrouble(p),
         UNCHANGED <<run, journal, branch, worktree, touched, locks, index>>,
         UNCHANGED counts \/ (trouble' \in 0..MaxTrouble /\ calls' = calls)
  PROVE  InboxInv'
<1>0. job[p].pc \in {"find", "judge"} /\ Carries(p) /\ UNCHANGED files
  BY DEF FindReceipt, Judge, FindTrouble, JudgeTrouble, InboxInv
<1>1. PICK a \in Archives : a = Mine(p)
  BY <1>0 DEF Carries, IntakePc, Mine
<1>2. /\ rejected \in [Archives -> Refusals \cup {"none"}] /\ accepted \subseteq Archives
      /\ misread \subseteq Archives /\ RefusedForCause(a)
  BY <1>1 DEF InboxInv, TypeOK
<1>3. UNCHANGED <<rejected, misread>> /\ accepted' \subseteq Archives => StoresFit
  BY <1>2 DEF StoresFit, RefusalsStand
<1>4. Taken(p) => GoTo(p, "lock") \/ Answers(p, "rejected")
  BY DEF Taken, Answers, Mine
<1>5. Answer(p, "failed") => Answers(p, "failed")
  BY DEF Answers
<1>6. StoresFit /\ (GoTo(p, "judge") \/ GoTo(p, "lock") \/ \E r \in {"failed", "rejected", "blocked"} : Answers(p, r))
  <2>1. CASE FindReceipt(p)
    <3>1. StoresFit
      BY <1>2, <1>3, <2>1 DEF FindReceipt
    <3>2. ASSUME rejected[a] # "none"
          PROVE  \E r \in {"failed", "rejected", "blocked"} : Answers(p, r)
      <4>1. PICK r \in Refusals : r = rejected[a]
        BY <1>1, <1>2, <3>2
      <4>2. Answer(p, r) /\ rejected'[a] = r
        BY <1>1, <2>1, <3>2, <4>1 DEF FindReceipt, Mine
      <4>3. RefusedForCause(a)'
        BY <1>1, <1>2, <3>1, RefusalStays DEF StoresFit
      <4>4. Answers(p, r)
        BY <1>1, <4>2, <4>3 DEF Answers
      <4> QED
        BY <4>1, <4>4 DEF Refusals
    <3>3. CASE rejected[a] = "none"
      BY <1>1, <1>4, <2>1, <3>1, <3>3 DEF FindReceipt, Mine
    <3> QED
      BY <3>1, <3>2, <3>3
  <2>2. CASE FindTrouble(p)
    BY <1>2, <1>3, <1>4, <1>5, <2>2 DEF FindTrouble
  <2>3. ASSUME Accept(p, a), UNCHANGED <<rejected, misread>>
        PROVE  StoresFit /\ (GoTo(p, "lock") \/ Answers(p, "rejected"))
    BY <1>1, <1>2, <1>3, <1>4, <2>3 DEF Accept
  <2>4. CASE Judge(p)
    <3>1. CASE Sound(a)
      BY <1>1, <2>3, <2>4, <3>1 DEF Judge, Mine
    <3>2. CASE ~Sound(a)
      <4>1. Refuse(p, a, RefusalOf(a)) /\ UNCHANGED <<accepted, misread>>
        BY <1>1, <2>4, <3>2 DEF Judge, Mine
      <4>2. RefusalOf(a) \in Refusals
        BY DEF RefusalOf, Refusals
      <4>3. StoresFit /\ \E r \in Refusals : Answers(p, r)
        BY <1>1, <1>2, <3>2, <4>1, <4>2, RefuseFits
      <4> QED
        BY <4>3 DEF Refusals
    <3> QED
      BY <3>1, <3>2
  <2>5. CASE JudgeTrouble(p)
    <3>1. CASE Answer(p, "failed") /\ UNCHANGED <<accepted, rejected, misread>>
      BY <1>2, <1>3, <1>5, <3>1
    <3>2. CASE (\E as \in Refusals : Refuse(p, a, as)) /\ misread' = misread \cup {a} /\ UNCHANGED accepted
      <4>1. PICK as \in Refusals : Refuse(p, a, as)
        BY <3>2
      <4>2. StoresFit /\ \E r \in Refusals : Answers(p, r)
        BY <1>1, <1>2, <3>2, <4>1, RefuseFits
      <4> QED
        BY <4>2 DEF Refusals
    <3>3. CASE Accept(p, a) /\ UNCHANGED <<rejected, misread>>
      BY <2>3, <3>3
    <3> QED
      BY <1>1, <2>5, <3>1, <3>2, <3>3 DEF JudgeTrouble, Mine
  <2> QED
    BY <2>1, <2>2, <2>4, <2>5
<1> QED
  BY <1>0, <1>6, TakenInKeeps

\* Calls, scans and the watcher: a process that holds no run starts or goes on afresh.
LEMMA CallKeeps ==
  ASSUME InboxInv, NEW p \in Procs, NEW j \in Job, Becomes(p, j),
         job[p].pc \notin HoldPc, j.pc \in StartPc, j.archive = "none", j.stage = 1, ~j.branched,
         j.tip = "none", j.result = "none", \A f \in Files : EntryHolds(f, j.copy[f]),
         j.pc \in {"stabilize", "copy"} => j.file \in Files /\ (j.caller \in Scanners => j.version <= files[j.file].version),
         \A q \in Procs \ {p}, n \in WorkLocks : locks[n] = q => locks'[n] = q,
         locks' \in [LockNames -> Procs \cup {"free", "orphan"}], UNCHANGED stores,
         index' = index \/ (index' \in [Files -> Entry] /\ \A f \in Files : EntryHolds(f, index'[f])),
         trouble' \in 0..MaxTrouble, calls' \in 0..MaxCalls
  PROVE  InboxInv'
<1>0. TypeOK /\ job'[p] = j /\ job' \in [Procs -> Job] /\ \A q \in Procs \ {p} : job'[q] = job[q]
  BY DEF InboxInv, Becomes
<1>1. Aside(p)
  BY <1>0, PlaceFacts DEF Aside, stores, RefusalsStand
<1>2. TypeOK'
  BY <1>0 DEF TypeOK, stores
<1>3. j.pc \notin IntakePc \cup HoldPc \cup CleanPc /\ j.pc \notin {"tip", "populate", "compare", "delete", "answered"}
  BY DEF StartPc, IntakePc, HoldPc, BuildPc, CleanPc
<1>4. Carries(p)'
  BY <1>0, <1>3 DEF Carries
<1>5. ASSUME Keeps(p)  PROVE Observed(p)'
  <2>1. ASSUME NEW f \in Files  PROVE EntryHolds(f, j.copy[f])'
    <3>1. PICK e : e = j.copy[f]
      OBVIOUS
    <3>2. EntryHolds(f, e)'
      BY <1>5, <3>1, EntryStays
    <3> QED
      BY <3>1, <3>2 DEF EntryHolds
  <2>2. UNCHANGED files
    BY DEF stores
  <2> QED
    BY <1>0, <2>1, <2>2 DEF Observed, EntryHolds
<1> QED
  BY <1>1, <1>2, <1>4, <1>5, AsideKeeps

\* What a process that has not copied an archive carries.
LEMMA StarterFacts ==
  ASSUME InboxInv, NEW p \in Procs, job[p].pc \in StartPc
  PROVE  /\ TypeOK /\ job[p] \in Job /\ job[p].pc \notin HoldPc /\ job[p].archive = "none" /\ job[p].stage = 1
         /\ ~job[p].branched /\ job[p].tip = "none" /\ job[p].result = "none"
         /\ \A f \in Files : EntryHolds(f, job[p].copy[f])
         /\ locks \in [LockNames -> Procs \cup {"free", "orphan"}]
         /\ trouble \in 0..MaxTrouble /\ calls \in 0..MaxCalls /\ index \in [Files -> Entry]
<1>1. TypeOK /\ Carries(p) /\ Observed(p)
  BY DEF InboxInv
<1>2. "answered" \notin StartPc /\ job[p].pc # "answered"
  BY DEF StartPc
<1> QED
  BY <1>1, <1>2, JobFacts, PlaceFacts DEF Carries, Observed, TypeOK

\* A process at rest claims nothing.
LEMMA RestFacts ==
  ASSUME TypeOK, NEW c \in Callers
  PROVE  LET r == Resting(c)
         IN  /\ r \in Job /\ r.pc \in {"idle", "watching"} /\ r.archive = "none" /\ r.stage = 1 /\ ~r.branched
             /\ r.tip = "none" /\ r.result = "none" /\ r.caller \in {"nobody", "watch"}
             /\ \A f \in Files : EntryHolds(f, r.copy[f])
<1>1. \A f \in Files : Resting(c).copy[f] = NoEntry
  BY DEF Resting
<1>2. \A f \in Files : EntryHolds(f, NoEntry)
  BY NoClaim
<1> QED
  BY <1>1, <1>2, AtRest DEF Resting

LEMMA RestKeeps ==
  ASSUME InboxInv, NEW p \in Procs, NEW c \in Callers, job' = [job EXCEPT ![p] = Resting(c)], job[p].pc \notin HoldPc,
         \A q \in Procs \ {p}, n \in WorkLocks : locks[n] = q => locks'[n] = q,
         locks' \in [LockNames -> Procs \cup {"free", "orphan"}], UNCHANGED stores,
         index' = index \/ (index' \in [Files -> Entry] /\ \A f \in Files : EntryHolds(f, index'[f])),
         trouble' \in 0..MaxTrouble, calls' \in 0..MaxCalls
  PROVE  InboxInv'
<1> DEFINE r == Resting(c)
<1>0. TypeOK
  BY DEF InboxInv
<1>1. /\ r \in Job /\ r.pc \in {"idle", "watching"} /\ r.archive = "none" /\ r.stage = 1 /\ ~r.branched
      /\ r.tip = "none" /\ r.result = "none" /\ \A f \in Files : EntryHolds(f, r.copy[f])
  BY <1>0, RestFacts
<1>2. job' = [job EXCEPT ![p] = r]
  OBVIOUS
<1> HIDE DEF r
<1>3. Becomes(p, r)
  BY <1>0, <1>1, <1>2, Update
<1>4. r.pc \in StartPc /\ r.pc \notin {"stabilize", "copy"}
  BY <1>1 DEF StartPc
<1> QED
  BY <1>1, <1>3, <1>4, CallKeeps

LEMMA WatchKeeps ==
  ASSUME InboxInv, NEW p \in Procs, StartWatch(p) \/ StopWatch(p)
  PROVE  InboxInv'
<1>0. job[p].pc \in StartPc
  BY DEF StartWatch, StopWatch, Idle, StartPc
<1>1. /\ locks \in [LockNames -> Procs \cup {"free", "orphan"}] /\ job[p].pc \notin HoldPc
      /\ trouble \in 0..MaxTrouble /\ calls \in 0..MaxCalls
  BY <1>0, StarterFacts
<1>2. UNCHANGED <<stores, index, trouble, calls>>
  BY DEF StartWatch, StopWatch, counts
<1>3. <<"watch", "inbox">> \in LockNames /\ "nobody" \in Callers /\ "watch" \in Callers
  BY DEF LockNames, Callers
<1>4. CASE StartWatch(p)
  <2>1. job' = [job EXCEPT ![p] = Resting("watch")] /\ Take(p, <<"watch", "inbox">>)
    BY <1>4 DEF StartWatch
  <2>2. locks' \in [LockNames -> Procs \cup {"free", "orphan"}]
        /\ \A q \in Procs \ {p}, n \in WorkLocks : locks[n] = q => locks'[n] = q
    BY <1>1, <1>3, <2>1, StarterFacts, <1>0, TakeFacts, IntakeAssumption DEF Take, WorkLocks
  <2> QED
    BY <1>1, <1>2, <1>3, <2>1, <2>2, RestKeeps
<1>5. CASE StopWatch(p)
  <2>1. job' = [job EXCEPT ![p] = Resting("nobody")] /\ locks' = [locks EXCEPT ![<<"watch", "inbox">>] = "free"]
    BY <1>5 DEF StopWatch
  <2>2. locks' \in [LockNames -> Procs \cup {"free", "orphan"}] /\ \A n \in WorkLocks : locks'[n] = locks[n]
    BY <1>1, <2>1 DEF WorkLocks
  <2> QED
    BY <1>1, <1>2, <1>3, <2>1, <2>2, RestKeeps
<1> QED
  BY <1>4, <1>5

LEMMA PrepareKeeps ==
  ASSUME InboxInv, NEW p \in Procs, NEW f \in Files, Prepare(p, f)
  PROVE  InboxInv'
<1>0. job[p].pc \in StartPc
  BY DEF Prepare, Idle, StartPc
<1> DEFINE j == [job[p] EXCEPT !.pc = "copy", !.caller = "command", !.file = f]
<1>1. job[p] \in Job /\ "command" \in Callers /\ "copy" \in StartPc
  BY <1>0, StarterFacts DEF Callers, StartPc
<1>2. /\ j \in Job /\ j.pc = "copy" /\ j.caller = "command" /\ j.file = f /\ j.archive = job[p].archive
      /\ j.stage = job[p].stage /\ j.branched = job[p].branched /\ j.tip = job[p].tip
      /\ j.result = job[p].result /\ j.copy = job[p].copy
  BY <1>1 DEF Job
<1>3. job' = [job EXCEPT ![p] = j] /\ UNCHANGED <<stores, locks, index>> /\ calls < MaxCalls /\ calls' = calls + 1 /\ trouble' = trouble
  BY DEF Prepare, Count
<1> HIDE DEF j
<1>4. Becomes(p, j)
  BY <1>0, <1>2, <1>3, StarterFacts, Update
<1>5. "command" \notin Scanners /\ trouble' \in 0..MaxTrouble /\ calls' \in 0..MaxCalls
  BY <1>0, <1>3, StarterFacts, InboxAssumption DEF Scanners
<1> QED
  BY <1>0, <1>1, <1>2, <1>3, <1>4, <1>5, StarterFacts, CallKeeps

LEMMA StartScanKeeps ==
  ASSUME InboxInv, NEW p \in Procs, StartScan(p)
  PROVE  InboxInv'
<1>0. job[p].pc \in StartPc
  BY DEF StartScan, Idle, StartPc
<1> DEFINE c == IF job[p].caller = "watch" THEN job[p].caller ELSE "scan"
           j == [job[p] EXCEPT !.pc = "choose", !.todo = Files, !.copy = index, !.caller = c]
<1>1. job[p] \in Job /\ c \in Callers /\ "choose" \in StartPc /\ index \in [Files -> Entry]
  BY <1>0, StarterFacts DEF Callers, StartPc
<1>3. job' = [job EXCEPT ![p] = j] /\ UNCHANGED <<stores, locks, index>> /\ calls < MaxCalls /\ calls' = calls + 1 /\ trouble' = trouble
  BY DEF StartScan, Count
<1> HIDE DEF c
<1>2. /\ j \in Job /\ j.pc = "choose" /\ j.archive = job[p].archive
      /\ j.stage = job[p].stage /\ j.branched = job[p].branched /\ j.tip = job[p].tip
      /\ j.result = job[p].result /\ j.copy = index
  BY <1>1 DEF Job
<1> HIDE DEF j
<1>4. Becomes(p, j)
  BY <1>0, <1>2, <1>3, StarterFacts, Update
<1>5. trouble' \in 0..MaxTrouble /\ calls' \in 0..MaxCalls
  BY <1>0, <1>3, StarterFacts, InboxAssumption
<1>6. \A f \in Files : EntryHolds(f, j.copy[f])
  BY <1>2 DEF InboxInv
<1> QED
  BY <1>0, <1>1, <1>2, <1>3, <1>4, <1>5, <1>6, StarterFacts, CallKeeps

LEMMA ObserveKeeps ==
  ASSUME InboxInv, NEW p \in Procs, NEW f \in Files, Observe(p, f)
  PROVE  InboxInv'
<1>0. job[p].pc \in StartPc
  BY DEF Observe, StartPc
<1> DEFINE v == files[f].version
           at == IF Skipped(p, f) THEN "choose" ELSE "stabilize"
           j == [job[p] EXCEPT !.todo = @ \ {f}, !.file = f, !.version = v, !.pc = at]
<1>1. job[p] \in Job /\ at \in StartPc /\ v \in Versions /\ at \in {"choose", "stabilize"}
  BY <1>0, StarterFacts DEF TypeOK, StartPc
<1>3. job' = [job EXCEPT ![p] = j] /\ UNCHANGED <<stores, locks, index, trouble, calls>>
  BY DEF Observe, counts
<1>6. v <= files[f].version
  BY <1>1, InboxAssumption DEF Versions
<1> HIDE DEF v, at
<1>2. /\ j \in Job /\ j.pc = at /\ j.file = f /\ j.version = v /\ j.archive = job[p].archive
      /\ j.stage = job[p].stage /\ j.branched = job[p].branched /\ j.tip = job[p].tip
      /\ j.result = job[p].result /\ j.copy = job[p].copy
  BY <1>1 DEF Job
<1> HIDE DEF j
<1>4. Becomes(p, j)
  BY <1>0, <1>2, <1>3, StarterFacts, Update
<1> QED
  BY <1>0, <1>1, <1>2, <1>3, <1>4, <1>6, StarterFacts, CallKeeps

LEMMA StabilizeKeeps ==
  ASSUME InboxInv, NEW p \in Procs, Stabilize(p)
  PROVE  InboxInv'
<1>0. job[p].pc = "stabilize" /\ job[p].pc \in StartPc
  BY DEF Stabilize, StartPc
<1> DEFINE at == IF files[job[p].file].version = job[p].version THEN "copy" ELSE "choose"
           j == [job[p] EXCEPT !.pc = at]
<1>1. job[p] \in Job /\ at \in StartPc
  BY <1>0, StarterFacts DEF StartPc
<1>3. job' = [job EXCEPT ![p] = j] /\ UNCHANGED <<stores, locks, index, trouble, calls>>
  BY DEF Stabilize, GoTo, counts
<1>5. job[p].file \in Files /\ (job[p].caller \in Scanners => job[p].version <= files[job[p].file].version)
  BY <1>0 DEF InboxInv, Observed
<1> HIDE DEF at
<1>2. /\ j \in Job /\ j.pc = at /\ j.file = job[p].file /\ j.version = job[p].version /\ j.caller = job[p].caller
      /\ j.archive = job[p].archive
      /\ j.stage = job[p].stage /\ j.branched = job[p].branched /\ j.tip = job[p].tip
      /\ j.result = job[p].result /\ j.copy = job[p].copy
  BY <1>1 DEF Job
<1> HIDE DEF j
<1>4. Becomes(p, j)
  BY <1>0, <1>2, <1>3, StarterFacts, Update
<1> QED
  BY <1>0, <1>1, <1>2, <1>3, <1>4, <1>5, StarterFacts, CallKeeps

LEMMA NoteKeeps ==
  ASSUME InboxInv, NEW p \in Procs, Note(p)
  PROVE  InboxInv'
<1> DEFINE f == job[p].file
           e == [version |-> job[p].version, result |-> job[p].result]
           c == [job[p].copy EXCEPT ![f] = e]
           j == [Clear(job[p]) EXCEPT !.copy = c]
<1>0. job[p].pc = "answered" /\ job[p].caller \in Scanners /\ TypeOK /\ Observed(p)
  BY DEF Note, InboxInv
<1>1. job' = [job EXCEPT ![p] = j] /\ UNCHANGED <<stores, locks, index, trouble, calls>>
  <2>1. Clear(job[p]).copy = job[p].copy
    BY DEF Clear, Resting
  <2> QED
    BY <2>1 DEF Note, counts
<1>2. "answered" \notin StartPc \cup HoldPc
  BY DEF StartPc, HoldPc, BuildPc, CleanPc
<1>3. f \in Files /\ job[p].version <= files[f].version
      /\ (job[p].archive # "none" /\ job[p].version = files[f].version => files[f].archive = job[p].archive)
  BY <1>0, <1>2 DEF Observed
<1>4. EntryHolds(f, e)
  <2>1. job[p].result \in {"ready", "rejected"} => job[p].archive \in Archives /\ Decided(job[p].archive, job[p].result)
    BY <1>0 DEF Observed
  <2>2. ASSUME job[p].version = files[f].version, job[p].result \in {"ready", "rejected"}
        PROVE  Decided(files[f].archive, job[p].result)
    <3>1. job[p].archive # "none"
      BY <2>1, <2>2, IntakeAssumption
    <3> QED
      BY <1>3, <2>1, <2>2, <3>1
  <2>3. job[p].result \notin {"ready", "rejected"} => Decided(files[f].archive, job[p].result)
    BY DEF Decided
  <2> QED
    BY <1>3, <2>2, <2>3 DEF EntryHolds
<1>5. e \in Entry /\ job[p].copy \in [Files -> Entry]
  BY <1>0, JobFacts DEF Entry
<1> HIDE DEF e
<1>6. c \in [Files -> Entry] /\ \A g \in Files : EntryHolds(g, c[g])
  <2>1. \A g \in Files : c[g] = IF g = f THEN e ELSE job[p].copy[g]
    BY <1>3, <1>5
  <2>2. \A g \in Files : EntryHolds(g, job[p].copy[g])
    BY <1>0 DEF Observed
  <2> QED
    BY <1>3, <1>4, <1>5, <2>1, <2>2
<1>7. /\ Clear(job[p]) \in Job /\ Clear(job[p]).pc = "choose" /\ Clear(job[p]).archive = "none"
      /\ Clear(job[p]).stage = 1 /\ ~Clear(job[p]).branched
      /\ Clear(job[p]).tip = "none" /\ Clear(job[p]).result = "none"
  <2>1. job[p] \in Job /\ Clear(job[p]) \in Job
    BY <1>0, JobFacts, Cleared
  <2> QED
    BY <2>1 DEF Clear, Resting
<1> HIDE DEF c
<1>8. /\ j \in Job /\ j.pc = "choose" /\ j.archive = "none" /\ j.stage = 1 /\ ~j.branched
      /\ j.tip = "none" /\ j.result = "none" /\ j.copy = c
  BY <1>6, <1>7 DEF Job
<1> HIDE DEF j
<1>9. Becomes(p, j)
  BY <1>0, <1>1, <1>8, Update
<1>10. "choose" \in StartPc /\ locks \in [LockNames -> Procs \cup {"free", "orphan"}]
       /\ trouble \in 0..MaxTrouble /\ calls \in 0..MaxCalls
  BY <1>0 DEF StartPc, TypeOK
<1> QED
  BY <1>0, <1>1, <1>2, <1>6, <1>8, <1>9, <1>10, CallKeeps

LEMMA ReturnKeeps ==
  ASSUME InboxInv, NEW p \in Procs, Return(p)
  PROVE  InboxInv'
<1>1. job' = [job EXCEPT ![p] = Resting("nobody")] /\ UNCHANGED <<stores, locks, index, trouble, calls>>
  BY DEF Return, counts
<1>2. job[p].pc \notin HoldPc /\ "nobody" \in Callers
  BY PlaceFacts DEF Return, Callers
<1>3. locks \in [LockNames -> Procs \cup {"free", "orphan"}] /\ trouble \in 0..MaxTrouble /\ calls \in 0..MaxCalls
  BY DEF InboxInv, TypeOK
<1> QED
  BY <1>1, <1>2, <1>3, RestKeeps

LEMMA EndScanKeeps ==
  ASSUME InboxInv, NEW p \in Procs, EndScan(p)
  PROVE  InboxInv'
<1>1. job' = [job EXCEPT ![p] = Resting(job[p].caller)] /\ index' = job[p].copy /\ UNCHANGED <<stores, locks, trouble, calls>>
  BY DEF EndScan, counts
<1>2. job[p].pc \in StartPc
  BY DEF EndScan, StartPc
<1>3. /\ locks \in [LockNames -> Procs \cup {"free", "orphan"}] /\ trouble \in 0..MaxTrouble /\ calls \in 0..MaxCalls
      /\ job[p].pc \notin HoldPc /\ \A f \in Files : EntryHolds(f, job[p].copy[f])
  BY <1>2, StarterFacts
<1>4. job[p].caller \in Callers /\ job[p].copy \in [Files -> Entry]
  BY <1>2, StarterFacts, JobFacts
<1> QED
  BY <1>1, <1>3, <1>4, RestKeeps

LEMMA IntakeTroubleKeeps ==
  ASSUME InboxInv, NEW p \in Procs, IntakeTrouble(p), UNCHANGED <<run, journal, branch, worktree, touched, locks, index>>, Troubled
  PROVE  InboxInv'
<1>0. trouble' \in 0..MaxTrouble /\ calls' = calls
  BY InboxAssumption DEF InboxInv, TypeOK, Troubled
<1>1. CASE FindTrouble(p) \/ JudgeTrouble(p)
  BY <1>0, <1>1, IntakeKeeps
<1>2. CASE CopyTrouble(p)
  <2>0. /\ job[p].pc = "copy" /\ job[p].pc \in StartPc /\ TypeOK /\ Observed(p)
        /\ UNCHANGED <<files, accepted, rejected, misread>>
    BY <1>2 DEF CopyTrouble, StartPc, InboxInv
  <2>1. PICK r \in {"failed", "blocked"} : Answer(p, r)
    BY <1>2 DEF CopyTrouble
  <2>2. SameCall(p) /\ job'[p].pc = "answered" /\ job'[p].result = r /\ Carries(p)'
    BY <2>0, <2>1, AnsweredFits DEF Results
  <2>3. Aside(p)
    BY <2>0, <2>2, PlaceFacts DEF Aside, SameCall, RefusalsStand
  <2>4. TypeOK'
    BY <1>0, <2>0, <2>2 DEF TypeOK, SameCall
  <2>5. ASSUME Keeps(p)  PROVE Observed(p)'
    <3>1. \A f \in Files : EntryHolds(f, job[p].copy[f])'
      BY <2>2, <2>5, CopyStays DEF SameCall
    <3>2. job[p].archive = "none"
      BY <2>0, StarterFacts
    <3>3. job[p].caller \in Scanners => job[p].file \in Files /\ job[p].version <= files[job[p].file].version
      BY <2>0 DEF Observed
    <3> QED
      BY <2>0, <2>1, <2>2, <3>1, <3>2, <3>3 DEF Observed, SameCall
  <2> QED
    BY <2>2, <2>3, <2>4, <2>5, AsideKeeps
<1> QED
  BY <1>1, <1>2 DEF IntakeTrouble

LEMMA CrashKeeps ==
  ASSUME InboxInv, NEW p \in Procs, Crash(p)
  PROVE  InboxInv'
<1> DEFINE a == Mine(p)
           r == Resting("nobody")
<1>0. trouble' \in 0..MaxTrouble /\ calls' = calls /\ UNCHANGED <<files, accepted, rejected, misread, run, branch, worktree, touched, index>>
  BY InboxAssumption DEF InboxInv, TypeOK, Troubled, Crash
<1>1. TypeOK /\ "nobody" \in Callers /\ job' = [job EXCEPT ![p] = r] /\ Orphan(p)
  BY DEF InboxInv, Callers, Crash
<1>2. /\ r \in Job /\ r.pc \in {"idle", "watching"} /\ r.archive = "none" /\ r.stage = 1 /\ ~r.branched
      /\ r.tip = "none" /\ r.result = "none" /\ r.caller \in {"nobody", "watch"}
      /\ \A f \in Files : EntryHolds(f, r.copy[f])
  BY <1>1, RestFacts
<1>3. r.pc \in StartPc /\ r.pc \notin IntakePc \cup HoldPc \cup CleanPc /\ r.caller \notin {"scan"}
  BY <1>2 DEF StartPc, IntakePc, HoldPc, BuildPc, CleanPc
<1> HIDE DEF r
<1>4. job' \in [Procs -> Job] /\ job'[p] = r /\ \A q \in Procs \ {p} : job'[q] = job[q]
  BY <1>1, <1>2, Update DEF Becomes
<1>5. /\ locks' \in [LockNames -> Procs \cup {"free", "orphan"}]
      /\ \A q \in Procs \ {p}, n \in WorkLocks : locks[n] = q => locks'[n] = q
  BY <1>1 DEF Orphan, TypeOK, WorkLocks
<1>6. UNCHANGED journal \/ (job[p].pc = "announce" /\ journal' = [journal EXCEPT ![a] = Append(@, Torn)])
  BY DEF Crash
<1>7. job[p].pc = "announce" => job[p].pc \in HoldPc \ {"receipt"} /\ a \in Archives
  BY PlaceFacts, HolderFacts
<1>8. /\ journal' \in [Archives -> Seq(Event)]
      /\ \A b \in Archives : (b = a /\ job[p].pc = "announce") \/ journal'[b] = journal[b]
      /\ \A b \in Archives : /\ Len(journal[b]) \in Nat /\ Len(journal'[b]) \in Nat
                             /\ Len(journal'[b]) >= Len(journal[b])
                             /\ \A i \in 1..Len(journal[b]) : journal'[b][i] = journal[b][i]
  <2>1. journal \in [Archives -> Seq(Event)] /\ \A b \in Archives : journal[b] \in Seq(Event) /\ Len(journal[b]) \in Nat
    BY <1>1 DEF TypeOK
  <2>2. Torn \in Event
    BY StageFacts DEF Torn, Event
  <2>3. CASE UNCHANGED journal
    BY <2>1, <2>3
  <2>4. CASE job[p].pc = "announce" /\ journal' = [journal EXCEPT ![a] = Append(@, Torn)]
    <3>1. Append(journal[a], Torn) \in Seq(Event) /\ Len(Append(journal[a], Torn)) = Len(journal[a]) + 1
          /\ \A i \in 1..Len(journal[a]) : Append(journal[a], Torn)[i] = journal[a][i]
      BY <1>7, <2>1, <2>2, <2>4
    <3>2. \A b \in Archives : journal'[b] = IF b = a THEN Append(journal[a], Torn) ELSE journal[b]
      BY <2>1, <2>4
    <3>3. journal' \in [Archives -> Seq(Event)]
      BY <2>1, <2>4, <3>1
    <3> QED
      BY <2>1, <2>4, <3>1, <3>2, <3>3
  <2> QED
    BY <1>6, <2>3, <2>4
<1>9. \A b \in Archives : SameRun(b) \/ (b = a /\ job[p].pc = "announce")
  BY <1>0, <1>8 DEF SameRun
<1>10. Keeps(p)
  <2>1. job'[p].pc \notin HoldPc
    BY <1>3, <1>4
  <2>2. Settled(a) => job[p].pc # "announce"
    BY <1>7 DEF Settled
  <2> QED
    BY <1>0, <1>4, <1>5, <1>7, <1>9, <2>1, <2>2 DEF Keeps, RefusalsStand
<1>11. TypeOK'
  BY <1>0, <1>1, <1>4, <1>5, <1>8 DEF TypeOK
<1>12. Observed(p)'
  <2>1. ASSUME NEW f \in Files  PROVE EntryHolds(f, r.copy[f])'
    <3>1. PICK e : e = r.copy[f]
      OBVIOUS
    <3>2. EntryHolds(f, e)'
      BY <1>2, <1>10, <3>1, EntryStays
    <3> QED
      BY <1>4, <3>1, <3>2 DEF EntryHolds
  <2> QED
    BY <1>2, <1>3, <1>4, <2>1 DEF Observed, EntryHolds
<1>13. Carries(p)'
  BY <1>2, <1>3, <1>4, PlaceFacts DEF Carries
<1>14. HoldsLocks(p)' /\ AtStage(p)' /\ KnowsItsBranch(p)'
  BY <1>3, <1>4, PlaceFacts DEF HoldsLocks, AtStage, KnowsItsBranch
<1>15. ASSUME NEW b \in Archives, ~SameRun(b)  PROVE RunFits(b)' /\ LeadsIn(b)'
  <2>1. b = a /\ job[p].pc = "announce"
    BY <1>9, <1>15
  <2>2. run[a] # "none" /\ run[a] # Stages[Ready]
    BY <1>7, <2>1, HolderFacts, PlaceFacts DEF AtStage
  <2>3. LeadsIn(b)
    BY DEF InboxInv, JournalLeads, LeadsIn
  <2>4. LeadsIn(b)'
    BY <1>0, <1>8, <2>3, LeadsStays
  <2>5. RunFits(b)'
    BY <1>0, <2>1, <2>2 DEF RunFits
  <2> QED
    BY <2>4, <2>5
<1> QED
  BY <1>0, <1>10, <1>11, <1>12, <1>13, <1>14, <1>15, StepKeeps DEF Fits, OwnsBranch

-----------------------------------------------------------------------------
(* Steps of others.                                                        *)

\* Others replace files, edit worktrees and exchange branches; what the processes
\* claim was claimed of what they saw.
LEMMA OthersKeep ==
  ASSUME InboxInv, TypeOK', UNCHANGED <<job, run, journal, rejected, misread, index>>,
         \A p \in Procs, n \in LockNames : locks[n] = p => locks'[n] = p,
         \A a \in Archives : worktree'[a] = worktree[a] \/ (worktree[a] = "clean" /\ worktree'[a] = "edited"),
         \A a \in Archives : OwnsBranch(a) => OwnsBranch(a)',
         \A f \in Files : files'[f] = files[f] \/ files'[f].version > files[f].version
  PROVE  InboxInv'
<1>0. TypeOK
  BY DEF InboxInv
<1>6. ASSUME NEW a \in Archives  PROVE RefusedForCause(a)'
  <2>1. RefusedForCause(a) /\ RefusalsStand
    BY DEF InboxInv, RefusalsStand
  <2> QED
    BY <2>1, RefusalStays
<1>1. ASSUME NEW a \in Archives, NEW result, Decided(a, result)
      PROVE  Decided(a, result)'
  BY <1>1, <1>6 DEF Decided, Settled, Executable, Mine
<1>2. ASSUME NEW f \in Files, NEW e \in Entry, EntryHolds(f, e)
      PROVE  EntryHolds(f, e)'
  <2>1. files[f].archive \in Archives /\ files[f].version \in Int /\ files'[f].version \in Int /\ e.version \in Int
    BY <1>0, InboxAssumption DEF TypeOK, Versions, Entry
  <2>2. CASE files'[f] = files[f]
    BY <1>1, <1>2, <2>1, <2>2 DEF EntryHolds
  <2>3. CASE files'[f].version > files[f].version
    BY <1>2, <2>1, <2>3 DEF EntryHolds
  <2> QED
    BY <2>2, <2>3
<1>3. ASSUME NEW p \in Procs  PROVE Fits(p)'
  <2>0. Fits(p)
    BY DEF InboxInv, Fits
  <2>1. HoldsLocks(p)'
    <3>1. CASE job[p].pc \in HoldPc
      BY <2>0, <3>1, HolderFacts DEF Fits, HoldsLocks, Mine, MyBranch
    <3>2. CASE job[p].pc \notin HoldPc
      BY <3>2 DEF HoldsLocks
    <3> QED
      BY <3>1, <3>2
  <2>2. Carries(p)'
    BY <2>0 DEF Fits, Carries
  <2>3. AtStage(p)'
    <3>1. CASE job[p].pc \in HoldPc
      <4>1. Mine(p) \in Archives
        BY <3>1, HolderFacts
      <4>2. worktree[Mine(p)] \in {"clean", "edited"} => worktree'[Mine(p)] \in {"clean", "edited"}
        BY <4>1
      <4> QED
        BY <2>0, <4>2 DEF Fits, AtStage, Mine, Announced
    <3>2. CASE job[p].pc \notin HoldPc
      BY <3>2, PlaceFacts DEF AtStage
    <3> QED
      BY <3>1, <3>2
  <2>4. KnowsItsBranch(p)'
    <3>1. CASE job[p].pc \in HoldPc
      <4>1. Mine(p) \in Archives
        BY <3>1, HolderFacts
      <4>2. PICK a \in Archives : a = Mine(p)
        BY <4>1
      <4>3. OwnsBranch(a) => OwnsBranch(a)'
        OBVIOUS
      <4> QED
        BY <2>0, <4>2, <4>3 DEF Fits, KnowsItsBranch, OwnsBranch, Mine
    <3>2. CASE job[p].pc \notin HoldPc
      BY <3>2 DEF KnowsItsBranch
    <3> QED
      BY <3>1, <3>2
  <2>5. Observed(p)'
    <3>0. Observed(p) /\ job[p] \in Job /\ job[p].version \in Int
      BY <1>0, <2>0, JobFacts, InboxAssumption DEF Fits, Versions
    <3>1. ASSUME NEW f \in Files  PROVE EntryHolds(f, job[p].copy[f])'
      <4>1. PICK e \in Entry : e = job[p].copy[f]
        BY <1>0, JobFacts
      <4>2. EntryHolds(f, e)'
        BY <1>2, <3>0, <4>1 DEF Observed
      <4> QED
        BY <4>1, <4>2 DEF EntryHolds
    <3>2. ASSUME job[p].result \in {"ready", "rejected"}
          PROVE  job[p].archive \in Archives /\ Decided(job[p].archive, job[p].result)'
      <4>1. PICK result : result = job[p].result
        OBVIOUS
      <4>2. PICK a \in Archives : a = job[p].archive /\ Decided(a, result)
        BY <3>0, <3>2, <4>1 DEF Observed
      <4>3. Decided(a, result)'
        BY <1>1, <4>2
      <4> QED
        BY <4>1, <4>2, <4>3 DEF Decided
    <3>3. ASSUME NEW f \in Files, job[p].version <= files[f].version
          PROVE  job[p].version <= files'[f].version /\ (job[p].version = files'[f].version => files'[f] = files[f])
      <4>1. files[f].version \in Int /\ files'[f].version \in Int
        BY <1>0, InboxAssumption DEF TypeOK, Versions
      <4> QED
        BY <3>0, <3>3, <4>1
    <3> QED
      BY <3>0, <3>1, <3>2, <3>3 DEF Observed
  <2> QED
    BY <2>1, <2>2, <2>3, <2>4, <2>5 DEF Fits
<1>4. ASSUME NEW a \in Archives  PROVE RunFits(a)' /\ LeadsIn(a)'
  <2>1. RunFits(a) /\ LeadsIn(a)
    BY DEF InboxInv, JournalLeads, LeadsIn
  <2> QED
    BY <2>1 DEF RunFits, LeadsIn, Announced
<1>5. ASSUME NEW f \in Files  PROVE EntryHolds(f, index[f])'
  <2>1. PICK e \in Entry : e = index[f]
    BY <1>0 DEF TypeOK
  <2>2. EntryHolds(f, e)'
    BY <1>2, <2>1 DEF InboxInv
  <2> QED
    BY <2>1, <2>2 DEF EntryHolds
<1> QED
  BY <1>3, <1>4, <1>5, <1>6 DEF InboxInv, JournalLeads, LeadsIn, Fits
LEMMA RemoveLockKeeps ==
  ASSUME InboxInv, RemoveLock
  PROVE  InboxInv'
<1>1. PICK n \in LockNames : locks[n] = "orphan" /\ locks' = [locks EXCEPT ![n] = "free"]
  BY DEF RemoveLock
<1>2. TypeOK /\ UNCHANGED <<stores, job, index, trouble, calls>>
  BY DEF RemoveLock, InboxInv, counts
<1>3. /\ locks' \in [LockNames -> Procs \cup {"free", "orphan"}]
      /\ \A p \in Procs, m \in LockNames : locks[m] = p => locks'[m] = p
  BY <1>1, <1>2, IntakeAssumption DEF TypeOK
<1>4. TypeOK'
  BY <1>2, <1>3 DEF TypeOK, stores
<1> QED
  BY <1>2, <1>3, <1>4, OthersKeep DEF stores, OwnsBranch

LEMMA ReplaceKeeps ==
  ASSUME InboxInv, NEW f \in Files, NEW a \in Archives, Replace(f, a)
  PROVE  InboxInv'
<1> DEFINE v == files[f].version
           new == [archive |-> a, version |-> v + 1]
<1>1. TypeOK /\ UNCHANGED <<accepted, rejected, misread, job, run, journal, branch, worktree, locks, touched, index, trouble, calls>>
  BY DEF Replace, InboxInv, counts
<1>2. v < MaxVersion /\ files' = [files EXCEPT ![f] = new] /\ v \in 0..MaxVersion
  BY <1>1 DEF Replace, TypeOK, Versions
<1>3. new \in [archive : Archives, version : Versions] /\ new.version > v
  BY <1>2, InboxAssumption DEF Versions
<1> HIDE DEF new
<1>4. /\ files' \in [Files -> [archive : Archives, version : Versions]]
      /\ \A g \in Files : files'[g] = files[g] \/ files'[g].version > files[g].version
  BY <1>1, <1>2, <1>3 DEF TypeOK
<1>5. TypeOK'
  BY <1>1, <1>4 DEF TypeOK
<1> QED
  BY <1>1, <1>4, <1>5, OthersKeep DEF OwnsBranch

LEMMA InterfereKeeps ==
  ASSUME InboxInv, Interfere
  PROVE  InboxInv'
<1>1. /\ TypeOK /\ UNCHANGED <<files, accepted, rejected, misread, job, run, journal, locks, index>>
      /\ trouble' \in 0..MaxTrouble /\ calls' = calls
  BY InboxAssumption DEF Interfere, InboxInv, TypeOK, Troubled
<1>2. CASE \E a \in Archives : /\ worktree[a] = "clean" /\ worktree' = [worktree EXCEPT ![a] = "edited"]
                               /\ UNCHANGED <<branch, touched>>
  <2>1. PICK a \in Archives : /\ worktree[a] = "clean" /\ worktree' = [worktree EXCEPT ![a] = "edited"]
                              /\ UNCHANGED <<branch, touched>>
    BY <1>2
  <2>2. /\ worktree' \in [Archives -> {"none", "detached", "clean", "edited"}]
        /\ \A c \in Archives : worktree'[c] = worktree[c] \/ (worktree[c] = "clean" /\ worktree'[c] = "edited")
    BY <1>1, <2>1 DEF TypeOK
  <2>3. TypeOK'
    BY <1>1, <2>1, <2>2 DEF TypeOK
  <2> QED
    BY <1>1, <2>1, <2>2, <2>3, OthersKeep DEF OwnsBranch
<1>3. CASE \E b \in Branches :
             /\ \/ branch[b] # NoBranch /\ branch' = [branch EXCEPT ![b].tip = "moved"]
                \/ branch[b] # NoBranch /\ branch' = [branch EXCEPT ![b] = NoBranch]
                \/ branch[b] = NoBranch /\ \E t \in {"base", "moved"} :
                     branch' = [branch EXCEPT ![b] = [tip |-> t, by |-> "others"]]
             /\ touched' = touched \cup {b} /\ UNCHANGED worktree
  <2>1. PICK b \in Branches :
             /\ \/ branch[b] # NoBranch /\ branch' = [branch EXCEPT ![b].tip = "moved"]
                \/ branch[b] # NoBranch /\ branch' = [branch EXCEPT ![b] = NoBranch]
                \/ branch[b] = NoBranch /\ \E t \in {"base", "moved"} :
                     branch' = [branch EXCEPT ![b] = [tip |-> t, by |-> "others"]]
             /\ touched' = touched \cup {b} /\ UNCHANGED worktree
    BY <1>3
  <2>2. branch \in [Branches -> Branch \cup {NoBranch}] /\ touched \subseteq Branches
    BY <1>1 DEF TypeOK
  <2>3. /\ branch' \in [Branches -> Branch \cup {NoBranch}]
        /\ \A c \in Branches \ {b} : branch'[c] = branch[c]
    <3>1. CASE branch[b] # NoBranch /\ branch' = [branch EXCEPT ![b].tip = "moved"]
      <4>1. branch[b] \in Branch /\ [branch[b] EXCEPT !.tip = "moved"] \in Branch
        BY <2>2, <3>1 DEF Branch
      <4>2. branch' = [branch EXCEPT ![b] = [branch[b] EXCEPT !.tip = "moved"]]
        BY <3>1
      <4> QED
        BY <2>2, <4>1, <4>2
    <3>2. CASE branch' = [branch EXCEPT ![b] = NoBranch]
      BY <2>2, <3>2
    <3>3. CASE \E t \in {"base", "moved"} : branch' = [branch EXCEPT ![b] = [tip |-> t, by |-> "others"]]
      <4>1. PICK t \in {"base", "moved"} : branch' = [branch EXCEPT ![b] = [tip |-> t, by |-> "others"]]
        BY <3>3
      <4>2. [tip |-> t, by |-> "others"] \in Branch
        BY DEF Branch
      <4> QED
        BY <2>2, <4>1, <4>2
    <3> QED
      BY <2>1, <3>1, <3>2, <3>3
  <2>4. \A a \in Archives : OwnsBranch(a) => OwnsBranch(a)'
    BY <2>1, <2>3, NameFacts DEF OwnsBranch
  <2>5. TypeOK'
    BY <1>1, <2>1, <2>2, <2>3 DEF TypeOK
  <2> QED
    BY <1>1, <2>1, <2>4, <2>5, OthersKeep
<1> QED
  BY <1>2, <1>3 DEF Interfere

-----------------------------------------------------------------------------
(* The theorems.                                                           *)

LEMMA Initially == Init => InboxInv
<1> SUFFICES ASSUME Init  PROVE InboxInv
  OBVIOUS
<1> DEFINE r == Resting("nobody")
<1>1. r \in Job
  BY AtRest DEF Callers
<1>2. /\ files \in [Files -> [archive : Archives, version : Versions]]
      /\ index \in [Files -> Entry] /\ trouble \in 0..MaxTrouble /\ calls \in 0..MaxCalls
  BY InboxAssumption DEF Init, NoEntry, Entry, Versions, Results
<1>3. /\ run \in [Archives -> RunState] /\ journal \in [Archives -> Seq(Event)]
      /\ branch \in [Branches -> Branch \cup {NoBranch}] /\ worktree \in [Archives -> {"none", "detached", "clean", "edited"}]
      /\ locks \in [LockNames -> Procs \cup {"free", "orphan"}] /\ touched \subseteq Branches
  BY StageFacts DEF Init, PreparationInit
<1>4. TypeOK
  BY <1>1, <1>2, <1>3 DEF Init, TypeOK
<1>5. /\ r \in Job /\ r.pc \in {"idle", "watching"} /\ r.archive = "none" /\ r.stage = 1 /\ ~r.branched
      /\ r.tip = "none" /\ r.result = "none" /\ r.caller \in {"nobody", "watch"}
      /\ \A f \in Files : EntryHolds(f, r.copy[f])
  BY <1>4, RestFacts DEF Callers
<1>6. \A p \in Procs : job[p] = r
  BY DEF Init
<1> HIDE DEF r
<1>7. r.pc \in StartPc /\ r.pc \notin IntakePc \cup HoldPc \cup BuildPc \cup CleanPc
  BY <1>5 DEF StartPc, IntakePc, HoldPc, BuildPc, CleanPc
<1>8. ASSUME NEW p \in Procs
      PROVE  HoldsLocks(p) /\ Carries(p) /\ AtStage(p) /\ KnowsItsBranch(p) /\ Observed(p)
  <2>1. HoldsLocks(p) /\ AtStage(p) /\ KnowsItsBranch(p)
    BY <1>6, <1>7, PlaceFacts DEF HoldsLocks, AtStage, KnowsItsBranch
  <2>2. Carries(p)
    BY <1>5, <1>6, <1>7, PlaceFacts DEF Carries
  <2>3. Observed(p)
    BY <1>5, <1>6, <1>7 DEF Observed
  <2> QED
    BY <2>1, <2>2, <2>3
<1>9. JournalLeads /\ \A a \in Archives : RunFits(a) /\ RefusedForCause(a)
  BY StageFacts DEF Init, PreparationInit, JournalLeads, RunFits, RefusedForCause
<1>10. \A f \in Files : EntryHolds(f, index[f])
  BY <1>4, NoClaim DEF Init
<1> QED
  BY <1>4, <1>8, <1>9, <1>10 DEF InboxInv

LEMMA StutterKeeps == InboxInv /\ UNCHANGED vars => InboxInv'
<1> SUFFICES ASSUME InboxInv, UNCHANGED vars  PROVE InboxInv'
  OBVIOUS
<1>1. TypeOK'
  BY DEF InboxInv, TypeOK, vars
<1> QED
  BY <1>1, OthersKeep DEF vars, OwnsBranch

LEMMA NextKeeps == InboxInv /\ [Next]_vars => InboxInv'
<1> SUFFICES ASSUME InboxInv, Next  PROVE InboxInv'
  BY StutterKeeps
<1>1. ASSUME NEW p \in Procs, TakeIn(p)  PROVE InboxInv'
  BY <1>1, CopyArchiveKeeps, IntakeKeeps DEF TakeIn, IntakeStep, counts
<1>2. ASSUME NEW p \in Procs, PrepareRun(p)  PROVE InboxInv'
  <2>1. UNCHANGED <<files, accepted, rejected, misread, index, trouble, calls>> /\ PreparationStep(p)
    BY <1>2 DEF PrepareRun, counts
  <2> QED
    BY <2>1, TakeRunLockKeeps, ExistingRunKeeps, MakeRunDirectoryKeeps, OpenRunKeeps, TakeBranchLockKeeps,
       AnnounceKeeps, RecordKeeps, ResolveOrPrepareKeeps, AddWorktreeKeeps, MakeBranchKeeps, ReadTipKeeps,
       PopulateKeeps, FinishRunKeeps, RemoveWorktreeKeeps, CompareTipKeeps, DeleteBranchKeeps,
       AnnounceEndKeeps, RecordEndKeeps DEF PreparationStep
<1>3. ASSUME NEW p \in Procs, Trouble(p)  PROVE InboxInv'
  BY <1>3, IntakeTroubleKeeps, TroubleKeeps DEF Trouble
<1>4. ASSUME NEW p \in Procs,
             \/ \E f \in Files : Prepare(p, f) \/ Observe(p, f)
             \/ StartWatch(p) \/ StopWatch(p) \/ StartScan(p)
             \/ Stabilize(p) \/ Note(p) \/ Return(p) \/ EndScan(p) \/ Crash(p)
      PROVE  InboxInv'
  BY <1>4, PrepareKeeps, ObserveKeeps, WatchKeeps, StartScanKeeps, StabilizeKeeps, NoteKeeps, ReturnKeeps,
     EndScanKeeps, CrashKeeps
<1>5. CASE RemoveLock \/ Interfere \/ \E f \in Files, a \in Archives : Replace(f, a)
  BY <1>5, RemoveLockKeeps, InterfereKeeps, ReplaceKeeps
<1> QED
  BY <1>1, <1>2, <1>3, <1>4, <1>5 DEF Next

\* However many processes prepare archives, and whatever crashes, fails or is
\* changed by others, no receipt runs ahead of its journal, and every process
\* holds what it works on (src/src/run/preparation-service.ts).
THEOREM InboxInvariant == Spec => []InboxInv
BY Initially, NextKeeps, PTL DEF Spec

\* A run that is told to be ready has its worktree, and a ready worktree is on a
\* branch that its run created (src/src/run/preparation-service.ts, src/src/git/worktree-manager.ts).
THEOREM ReadyRunsStand == Spec => []ReadyOwnsItsBranch
<1>1. ASSUME InboxInv  PROVE ReadyOwnsItsBranch
  <2>1. \A a \in Archives : run[a] = Stages[Ready] /\ worktree[a] # "none" => OwnsBranch(a)
    BY <1>1 DEF InboxInv, RunFits
  <2>2. \A p \in Procs : job[p].result = "ready" => Settled(Mine(p))
    BY <1>1 DEF InboxInv, Observed, Decided, Mine
  <2> QED
    BY <2>1, <2>2 DEF ReadyOwnsItsBranch
<1> QED
  BY <1>1, InboxInvariant, PTL

\* What a scan would skip is decided for good, although scans overwrite each
\* other's index: its run is ready, it is too old, or a refusal is stored that a flaw
\* of the archive called for or, for a good archive, an error of the disk while it was
\* checked (src/src/inbox/scanner.ts, src/src/intake/intake-service.ts).
THEOREM SkippedIsDecided == Spec => []SkipsOnlyDecided
<1>1. InboxInv => SkipsOnlyDecided
  BY DEF InboxInv, EntryHolds, SkipsOnlyDecided
<1> QED
  BY <1>1, InboxInvariant, PTL

\* No process sets out to delete a branch.
NoneSetsOut == \A p \in Procs : job'[p].pc = "delete" => job[p].pc = "delete"

LEMMA Quiet ==
  ASSUME TypeOK, NEW q \in Procs, NEW j, job' = [job EXCEPT ![q] = j], j.pc # "delete"
  PROVE  NoneSetsOut
BY DEF TypeOK, NoneSetsOut

LEMMA QuietGo ==
  ASSUME TypeOK, NEW q \in Procs, NEW at, at # "delete", GoTo(q, at)
  PROVE  NoneSetsOut
<1>1. job' = [job EXCEPT ![q] = [job[q] EXCEPT !.pc = at]]
  BY DEF GoTo
<1>2. job[q] \in Job
  BY JobFacts
<1>3. [job[q] EXCEPT !.pc = at].pc = at
  BY <1>2 DEF Job
<1> QED
  BY <1>1, <1>3, Quiet

LEMMA QuietAnswer ==
  ASSUME TypeOK, NEW q \in Procs, NEW r, Answer(q, r)
  PROVE  NoneSetsOut
<1>1. job' = [job EXCEPT ![q] = [job[q] EXCEPT !.pc = "answered", !.result = r]]
  BY DEF Answer
<1>2. job[q] \in Job
  BY JobFacts
<1>3. [job[q] EXCEPT !.pc = "answered", !.result = r].pc = "answered"
  BY <1>2 DEF Job
<1> QED
  BY <1>1, <1>3, Quiet

LEMMA QuietFail ==
  ASSUME TypeOK, NEW q \in Procs, NEW e, Fail(q, e)
  PROVE  NoneSetsOut
<1>1. job' = [job EXCEPT ![q] = [job[q] EXCEPT !.pc = "clean", !.end = e]]
  BY DEF Fail
<1>2. job[q] \in Job
  BY JobFacts
<1>3. [job[q] EXCEPT !.pc = "clean", !.end = e].pc = "clean"
  BY <1>2 DEF Job
<1> QED
  BY <1>1, <1>3, Quiet

LEMMA QuietPreparation ==
  ASSUME InboxInv, NEW q \in Procs, PreparationStep(q)
  PROVE  NoneSetsOut \/ CompareTip(q)
<1>0. TypeOK /\ job[q] \in Job
  BY JobFacts DEF InboxInv
<1>1. CASE TakeRunLock(q)
  BY <1>0, <1>1, QuietGo, QuietAnswer DEF TakeRunLock
<1>2. CASE ExistingRun(q)
  BY <1>0, <1>2, QuietAnswer DEF ExistingRun
<1>3. CASE MakeRunDirectory(q)
  BY <1>0, <1>3, QuietGo DEF MakeRunDirectory
<1>4. CASE OpenRun(q)
  BY <1>0, <1>4, QuietGo, QuietFail DEF OpenRun
<1>5. CASE TakeBranchLock(q)
  BY <1>0, <1>5, QuietGo, QuietFail DEF TakeBranchLock
<1>6. CASE Announce(q)
  <2>1. job' = [job EXCEPT ![q] = [job[q] EXCEPT !.pc = "record", !.stage = @ + 1]]
    BY <1>6 DEF Announce
  <2>2. [job[q] EXCEPT !.pc = "record", !.stage = @ + 1].pc = "record"
    BY <1>0 DEF Job
  <2> QED
    BY <1>0, <2>1, <2>2, Quiet
<1>7. CASE Record(q)
  <2>1. job[q].pc = "record" /\ GoTo(q, WorkOf(job[q].stage))
    BY <1>7 DEF Record
  <2>2. job[q].stage \in 2..7
    <3>1. job[q].pc \in HoldPc
      BY <2>1, PlaceFacts
    <3>2. job[q].stage > 1
      BY <2>1, <3>1, HolderFacts DEF AtStage
    <3> QED
      BY <1>0, <3>2, JobFacts, StageFacts
  <2>3. WorkOf(job[q].stage) # "delete"
    BY <2>2, WorkFacts
  <2> QED
    BY <1>0, <2>1, <2>3, QuietGo
<1>8. CASE ResolveRepository(q) \/ PrepareBase(q)
  BY <1>0, <1>8, QuietGo, QuietFail DEF ResolveRepository, PrepareBase
<1>9. CASE AddWorktree(q)
  <2>1. job' = [job EXCEPT ![q] = [job[q] EXCEPT !.pc = "make_branch", !.added = TRUE]] \/ Fail(q, "FAILED")
    BY <1>9 DEF AddWorktree
  <2>2. [job[q] EXCEPT !.pc = "make_branch", !.added = TRUE].pc = "make_branch"
    BY <1>0 DEF Job
  <2> QED
    BY <1>0, <2>1, <2>2, Quiet, QuietFail
<1>10. CASE MakeBranch(q)
  <2>1. job' = [job EXCEPT ![q] = [job[q] EXCEPT !.pc = "tip", !.branched = TRUE]] \/ Fail(q, "FAILED")
    BY <1>10 DEF MakeBranch
  <2>2. [job[q] EXCEPT !.pc = "tip", !.branched = TRUE].pc = "tip"
    BY <1>0 DEF Job
  <2> QED
    BY <1>0, <2>1, <2>2, Quiet, QuietFail
<1>11. CASE ReadTip(q)
  <2> DEFINE t == branch[MyBranch(q)].tip
  <2>1. job' = [job EXCEPT ![q] = [job[q] EXCEPT !.pc = "populate", !.tip = t]] \/ Fail(q, "FAILED")
    BY <1>11 DEF ReadTip
  <2> HIDE DEF t
  <2>2. [job[q] EXCEPT !.pc = "populate", !.tip = t].pc = "populate"
    BY <1>0 DEF Job
  <2> QED
    BY <1>0, <2>1, <2>2, Quiet, QuietFail
<1>12. CASE Populate(q)
  BY <1>0, <1>12, QuietGo, QuietFail DEF Populate
<1>13. CASE FinishRun(q)
  BY <1>0, <1>13, QuietAnswer DEF FinishRun
<1>14. CASE RemoveWorktree(q)
  BY <1>0, <1>14, QuietGo DEF RemoveWorktree
<1>15. CASE CompareTip(q)
  BY <1>15
<1>16. CASE DeleteBranch(q)
  BY <1>0, <1>16, QuietGo DEF DeleteBranch
<1>17. CASE AnnounceEnd(q)
  BY <1>0, <1>17, QuietGo DEF AnnounceEnd
<1>18. CASE RecordEnd(q)
  BY <1>0, <1>18, QuietAnswer DEF RecordEnd
<1> QED
  BY <1>1, <1>2, <1>3, <1>4, <1>5, <1>6, <1>7, <1>8, <1>9, <1>10, <1>11, <1>12, <1>13, <1>14, <1>15,
     <1>16, <1>17, <1>18 DEF PreparationStep

LEMMA QuietTrouble ==
  ASSUME InboxInv, NEW q \in Procs, Trouble(q)
  PROVE  NoneSetsOut
<1>0. TypeOK /\ job[q] \in Job
  BY JobFacts DEF InboxInv
<1>1. CASE IntakeTrouble(q)
  BY <1>0, <1>1, QuietGo, QuietAnswer DEF IntakeTrouble, CopyTrouble, FindTrouble, JudgeTrouble, Accept, Refuse, Taken
<1>2. CASE PreparationTrouble(q)
  <2> DEFINE l == IF job[q].stage = 1 THEN 1 ELSE job[q].stage + 1
             j == [job[q] EXCEPT !.pc = "clean", !.end = "FAILED", !.stage = l]
  <2>1. \/ Fail(q, "FAILED") \/ GoTo(q, "compare") \/ GoTo(q, "close") \/ Answer(q, "failed")
        \/ job' = [job EXCEPT ![q] = j]
    BY <1>2 DEF PreparationTrouble
  <2> HIDE DEF l
  <2>2. j.pc = "clean"
    BY <1>0 DEF Job
  <2> HIDE DEF j
  <2> QED
    BY <1>0, <2>1, <2>2, Quiet, QuietFail, QuietGo, QuietAnswer
<1> QED
  BY <1>1, <1>2 DEF Trouble

\* Calls, scans, the watcher, crashes and others delete nothing.
LEMMA QuietCalls ==
  ASSUME InboxInv, NEW q \in Procs,
         \/ \E f \in Files : Prepare(q, f) \/ Observe(q, f)
         \/ StartWatch(q) \/ StopWatch(q) \/ StartScan(q)
         \/ Stabilize(q) \/ Note(q) \/ Return(q) \/ EndScan(q) \/ Crash(q) \/ TakeIn(q)
  PROVE  NoneSetsOut
<1>0. TypeOK /\ job[q] \in Job
  BY JobFacts DEF InboxInv
<1>1. CASE \E f \in Files : Prepare(q, f)
  <2>1. PICK f \in Files : job' = [job EXCEPT ![q] = [job[q] EXCEPT !.pc = "copy", !.caller = "command", !.file = f]]
    BY <1>1 DEF Prepare
  <2>2. [job[q] EXCEPT !.pc = "copy", !.caller = "command", !.file = f].pc = "copy"
    BY <1>0 DEF Job
  <2> QED
    BY <1>0, <2>1, <2>2, Quiet
<1>2. CASE \E f \in Files : Observe(q, f)
  <2>1. PICK f \in Files : Observe(q, f)
    BY <1>2
  <2> DEFINE v == files[f].version
             at == IF Skipped(q, f) THEN "choose" ELSE "stabilize"
             j == [job[q] EXCEPT !.todo = @ \ {f}, !.file = f, !.version = v, !.pc = at]
  <2>2. job' = [job EXCEPT ![q] = j] /\ at # "delete"
    BY <2>1 DEF Observe
  <2> HIDE DEF v, at
  <2>3. j.pc = at
    BY <1>0 DEF Job
  <2> HIDE DEF j
  <2> QED
    BY <1>0, <2>2, <2>3, Quiet
<1>3. CASE StartWatch(q) \/ StopWatch(q) \/ Return(q) \/ EndScan(q) \/ Crash(q)
  <2>1. PICK c : job' = [job EXCEPT ![q] = Resting(c)]
    BY <1>3 DEF StartWatch, StopWatch, Return, EndScan, Crash
  <2>2. Resting(c).pc # "delete"
    BY DEF Resting
  <2> QED
    BY <1>0, <2>1, <2>2, Quiet
<1>4. CASE StartScan(q)
  <2> DEFINE c == IF job[q].caller = "watch" THEN job[q].caller ELSE "scan"
             j == [job[q] EXCEPT !.pc = "choose", !.todo = Files, !.copy = index, !.caller = c]
  <2>1. job' = [job EXCEPT ![q] = j]
    BY <1>4 DEF StartScan
  <2> HIDE DEF c
  <2>2. j.pc = "choose"
    BY <1>0 DEF Job
  <2> HIDE DEF j
  <2> QED
    BY <1>0, <2>1, <2>2, Quiet
<1>5. CASE Stabilize(q)
  BY <1>0, <1>5, QuietGo DEF Stabilize
<1>6. CASE Note(q)
  <2> DEFINE c == [job[q].copy EXCEPT ![job[q].file] = [version |-> job[q].version, result |-> job[q].result]]
             j == [Clear(job[q]) EXCEPT !.copy = c]
  <2>1. Clear(job[q]).copy = job[q].copy /\ Clear(job[q]) \in Job /\ Clear(job[q]).pc = "choose"
    BY <1>0, Cleared DEF Clear, Resting
  <2>2. job' = [job EXCEPT ![q] = j]
    BY <1>6, <2>1 DEF Note
  <2> HIDE DEF c
  <2>3. j.pc = "choose"
    BY <2>1 DEF Job
  <2> HIDE DEF j
  <2> QED
    BY <1>0, <2>2, <2>3, Quiet
<1>7. CASE TakeIn(q)
  <2> DEFINE a == files[job[q].file].archive
             j == [job[q] EXCEPT !.pc = "find", !.archive = a]
  <2>1. GoTo(q, "judge") \/ GoTo(q, "lock") \/ (\E r : Answer(q, r)) \/ job' = [job EXCEPT ![q] = j]
    BY <1>7 DEF TakeIn, IntakeStep, CopyArchive, FindReceipt, Judge, Accept, Refuse, Taken
  <2> HIDE DEF a
  <2>2. j.pc = "find"
    BY <1>0 DEF Job
  <2> HIDE DEF j
  <2> QED
    BY <1>0, <2>1, <2>2, Quiet, QuietGo, QuietAnswer
<1> QED
  BY <1>1, <1>2, <1>3, <1>4, <1>5, <1>6, <1>7

LEMMA OnlyCompared ==
  ASSUME InboxInv, [Next]_vars
  PROVE  NoneSetsOut \/ \E q \in Procs : CompareTip(q)
<1>1. CASE UNCHANGED vars \/ RemoveLock \/ Interfere \/ \E f \in Files, a \in Archives : Replace(f, a)
  <2>1. job' = job
    BY <1>1 DEF vars, RemoveLock, Interfere, Replace
  <2> QED
    BY <2>1 DEF NoneSetsOut
<1>2. ASSUME NEW q \in Procs, PrepareRun(q)  PROVE NoneSetsOut \/ CompareTip(q)
  BY <1>2, QuietPreparation DEF PrepareRun
<1>3. ASSUME NEW q \in Procs, Trouble(q)  PROVE NoneSetsOut
  BY <1>3, QuietTrouble
<1> QED
  BY <1>1, <1>2, <1>3, QuietCalls DEF Next

\* No cleanup sets out to delete a branch that its run did not create, or one that
\* others moved since the run saw its tip (src/src/git/worktree-manager.ts).
THEOREM ForeignBranchesStand == Spec => KeepsForeignBranch
<1> DEFINE Kept(p) ==
      job[p].pc # "delete" /\ job'[p].pc = "delete" =>
        LET b == branch[MyBranch(p)]
        IN  /\ MyBranch(p) \notin touched => b.by = Mine(p)
            /\ job[p].tip # "none" => b.tip = job[p].tip
<1>1. ASSUME InboxInv, [Next]_vars  PROVE \A p \in Procs : Kept(p)
  <2> SUFFICES ASSUME NEW p \in Procs, job[p].pc # "delete", job'[p].pc = "delete"
               PROVE  /\ MyBranch(p) \notin touched => branch[MyBranch(p)].by = Mine(p)
                      /\ job[p].tip # "none" => branch[MyBranch(p)].tip = job[p].tip
    OBVIOUS
  <2>1. PICK q \in Procs : CompareTip(q)
    BY <1>1, OnlyCompared DEF NoneSetsOut
  <2>2. q = p
    <3>1. GoTo(q, "delete") \/ GoTo(q, "close")
      BY <2>1 DEF CompareTip
    <3>2. job'[p] = job[p] \/ q = p
      BY <1>1, <3>1 DEF InboxInv, TypeOK, GoTo
    <3> QED
      BY <3>2
  <2>3. job[p].pc = "compare" /\ job[p].tip \in {"none", branch[MyBranch(p)].tip}
    <3>1. CASE job[p].tip \in {"none", branch[MyBranch(p)].tip}
      BY <2>1, <2>2, <3>1 DEF CompareTip
    <3>2. CASE job[p].tip \notin {"none", branch[MyBranch(p)].tip}
      <4>1. GoTo(p, "close") /\ TypeOK
        BY <1>1, <2>1, <2>2, <3>2 DEF CompareTip, InboxInv
      <4>2. job'[p].pc = "close"
        BY <4>1, GoneFits, PlaceFacts
      <4> QED
        BY <4>2
    <3> QED
      BY <3>1, <3>2
  <2>4. OwnsBranch(Mine(p))
    <3>1. job[p].pc \in HoldPc \ {"close", "end"}
      BY <2>3, PlaceFacts
    <3> QED
      BY <1>1, <2>3, <3>1, HolderFacts DEF KnowsItsBranch, Carries
  <2> QED
    BY <2>3, <2>4 DEF OwnsBranch, MyBranch, Mine
<1> QED
  BY <1>1, InboxInvariant, PTL DEF Spec, KeepsForeignBranch
=============================================================================
