-------------------------- MODULE ReviewLoopProofs --------------------------
(***************************************************************************)
(* The safety of the review loop, for any number of processes, rounds,     *)
(* faults and edits by others: the inductive invariant, what the run       *)
(* checks of it, and the refinement of ReviewPromise.  A lemma named after *)
(* an action, as in InspectKeeps, says that the action keeps LoopInv.      *)
(***************************************************************************)
EXTENDS ReviewLoop, FiniteSetTheorems, TLAPS

-----------------------------------------------------------------------------
(* Rounds, records and places.                                             *)

\* Rounds, the revisions between them, and the names a lock can hold.
LEMMA Numbers ==
  /\ MaxRound \in Nat /\ MaxRound >= 1
  /\ Rounds = 1..MaxRound /\ Revisions = 1..(MaxRound - 1) /\ 1 \in Rounds
  /\ Revisions \subseteq Rounds /\ Rounds \subseteq Nat
  /\ \A r \in Revisions : r + 1 \in Rounds /\ r + 1 # r
  /\ "free" \notin Procs /\ "orphan" \notin Procs
BY ReviewAssumption DEF Rounds, Revisions

\* The places of a process, apart from one another.
LEMMA PlacesAre ==
  /\ Places = {"idle", "submit", "revise"} \cup ReviewHeld \cup RevisionHeld
  /\ "idle" \notin ReviewHeld \cup RevisionHeld \cup {"submit", "revise"}
  /\ ReviewHeld \cap (RevisionHeld \cup {"submit", "revise"}) = {}
  /\ RevisionHeld \cap {"submit", "revise"} = {}
  /\ Making \subseteq RevisionPc /\ RevisionPc \subseteq RevisionHeld
  /\ ReviewPc \subseteq ReviewHeld
  /\ RevisionPc = Making \cup {"publish", "record_commit", "remote", "push", "confirm",
                               "attest_pushed", "package", "finish"}
BY DEF Places, ReviewHeld, RevisionHeld, ReviewPc, RevisionPc, Making

\* A process keeps its record but for what a step writes.
LEMMA WorkUpdates ==
  ASSUME NEW j \in Work
  PROVE  /\ \A pc \in Places : [j EXCEPT !.pc = pc] \in Work
         /\ \A pc \in Places, t \in Trees : [j EXCEPT !.pc = pc, !.set = t] \in Work
         /\ \A pc \in Places, c \in Commit : [j EXCEPT !.pc = pc, !.commit = c] \in Work
         /\ \A pc \in Places, r \in Rounds : [j EXCEPT !.pc = pc, !.round = r] \in Work
         /\ \A pc \in Places, r \in Rounds, k \in Kinds :
              [j EXCEPT !.pc = pc, !.round = r, !.verdict = k] \in Work
BY DEF Work

\* A process at rest is a process.
LEMMA Rested == AtRest \in Work /\ AtRest.pc = "idle" /\ AtRest.round = 1
<1>1. None \in Commit
  BY DEF Commit, None
<1>2. "idle" \in Places
  BY DEF Places
<1>3. Start \in Trees /\ 1 \in Rounds
  BY ReviewAssumption, Numbers
<1>4. AtRest \in Work
  BY <1>1, <1>2, <1>3 DEF AtRest, Work
<1> QED
  BY <1>4 DEF AtRest

\* A step of one process: the others stay where they are, and keep their locks.
Others(p) == \A q \in Procs \ {p} : job'[q] = job[q]
Untaken(p) == \A l \in LockNames, q \in Procs \ {p} : locks[l] = q => locks'[l] = q

\* A process that goes somewhere takes along what it carries, unless it goes idle.
LEMMA Going ==
  ASSUME job \in [Procs -> Work], NEW p \in Procs, NEW pc \in Places, GoTo(p, pc)
  PROVE  /\ job' \in [Procs -> Work]
         /\ Others(p)
         /\ job'[p].pc = pc
         /\ pc # "idle" => /\ job'[p].round = job[p].round /\ job'[p].verdict = job[p].verdict
                           /\ job'[p].set = job[p].set /\ job'[p].commit = job[p].commit
<1>1. job[p] \in Work
  OBVIOUS
<1>2. [job[p] EXCEPT !.pc = pc] \in Work /\ AtRest \in Work
  BY <1>1, WorkUpdates, Rested
<1>3. job' = [job EXCEPT ![p] = IF pc = "idle" THEN AtRest ELSE [job[p] EXCEPT !.pc = pc]]
  BY DEF GoTo
<1>4. job' \in [Procs -> Work] /\ Others(p)
  BY <1>2, <1>3 DEF Others
<1>5. CASE pc = "idle"
  BY <1>3, <1>4, <1>5, Rested
<1>6. CASE pc # "idle"
  BY <1>1, <1>3, <1>4, <1>6 DEF Work
<1> QED
  BY <1>5, <1>6

\* Releasing, or leaving behind, concerns nobody else's lock.
LEMMA Unlocking ==
  ASSUME TypeOK, NEW p \in Procs, Release(p) \/ Orphan(p) \/ locks' = locks
  PROVE  locks' \in [LockNames -> Procs \cup {"free", "orphan"}] /\ Untaken(p)
BY DEF TypeOK, Release, Orphan, Untaken

\* An exclusive lock file is its taker's alone.
LEMMA Taking ==
  ASSUME TypeOK, NEW p \in Procs, NEW k \in LockNames, Take(p, k)
  PROVE  /\ locks' \in [LockNames -> Procs \cup {"free", "orphan"}] /\ Untaken(p)
         /\ locks'[k] = p
<1>1. \A q \in Procs : q # "free"
  BY Numbers
<1> QED
  BY <1>1 DEF TypeOK, Take, Untaken

\* What is decided is none of the other states.
LEMMA Decisions ==
  /\ Terminal = {"APPROVED", "REVISION_REQUESTED", "ESCALATED"}
  /\ \A k \in Kinds : k # "UNSOUND" => Decided[k] \in Terminal
  /\ Decided["REVISE"] = "REVISION_REQUESTED"
BY DEF Terminal, Decided, Kinds

\* A commit on a head is a commit, and holds what was committed.
LEMMA Commits ==
  ASSUME NEW rc \in RevisionReceipt, rc.approved # "none"
  PROVE  /\ rc.approved \in Trees
         /\ ApprovedCommit(rc) \in Commit /\ ApprovedCommit(rc) # None
         /\ Tip(ApprovedCommit(rc)) = rc.approved
<1>1. rc.approved \in Trees /\ rc.head \in Seq(Trees)
  BY DEF RevisionReceipt, Commit
<1>2. /\ Append(rc.head, rc.approved) \in Seq(Trees)
      /\ Len(Append(rc.head, rc.approved)) = Len(rc.head) + 1
      /\ Append(rc.head, rc.approved)[Len(rc.head) + 1] = rc.approved
  BY <1>1
<1>3. Len(rc.head) \in Nat /\ Len(None) = 0
  BY <1>1 DEF None
<1> QED
  BY <1>1, <1>2, <1>3 DEF ApprovedCommit, Commit, Tip

\* What the fields of a revision receipt are.
LEMMA RevisionFields ==
  ASSUME NEW rc \in RevisionReceipt
  PROVE  /\ rc.state \in Resumable \cup {"NONE", "RESULT_READY", "RETRYABLE", "BLOCKED"}
         /\ rc.resume \in Resumable \cup {"none"}
         /\ rc.head \in Commit /\ rc.commit \in Commit /\ rc.turns \in 0..MaxTurns
         /\ rc.verified \in Trees \cup {"none"} /\ rc.reviewed \in Trees \cup {"none"}
         /\ rc.approved \in Trees \cup {"none"}
BY DEF RevisionReceipt
-----------------------------------------------------------------------------
(* Frames: what a step of one process leaves of the invariant.             *)

\* The chain, the receipts and the places of the revisions imply that one
\* revision at a time has a claim to the worktree.
LEMMA OneAtWorkFollows ==
  TypeOK /\ ChainFits /\ RevisionsFit /\ StepsFit => OneAtWork
<1> SUFFICES ASSUME TypeOK, ChainFits, RevisionsFit, StepsFit,
                    NEW r \in Revisions, revision[r].state # "NONE", NEW s \in 1..(r - 1)
             PROVE  /\ bundle[s + 1].head = revision[s].commit
                    /\ \A p \in Procs : job[p].round = s =>
                         job[p].pc \notin RevisionPc \ {"attest_pushed", "package", "finish"}
  BY DEF OneAtWork
<1>1. s \in Revisions /\ s + 1 \in 1..r /\ r \in Nat
  BY Numbers
<1>2. bundle[r].head # None
  BY DEF RevisionsFit
<1>3. bundle[s + 1].head # None
  <2>1. CASE r = s + 1
    BY <1>2, <2>1
  <2>2. CASE r # s + 1
    <3>1. r - 1 \in Revisions /\ (r - 1) + 1 = r /\ s + 1 \in 1..(r - 1)
      BY <1>1, <2>2, Numbers
    <3> QED
      BY <1>2, <3>1 DEF ChainFits
  <2> QED
    BY <2>1, <2>2
<1>4. bundle[s + 1].head = revision[s].commit /\ Stands(revision[s]) \in After
  BY <1>1, <1>3 DEF ChainFits
<1>5. ASSUME NEW p \in Procs, job[p].round = s, job[p].pc \in RevisionPc
      PROVE  job[p].pc \in {"attest_pushed", "package", "finish"}
  <2>1. StepFits(job[p], revision[s])
    BY <1>5 DEF StepsFit
  <2> QED
    BY <1>4, <1>5, <2>1, PlacesAre DEF StepFits, Stands, After, Before, Ambiguous
<1> QED
  BY <1>4, <1>5

\* The invariant from its parts.
LEMMA Composed ==
  /\ TypeOK /\ Holding /\ DecisionsFit /\ ReviewsFit
  /\ ChainFits /\ RevisionsFit /\ StepsFit /\ LostFits /\ ContentFits
  => LoopInv
BY OneAtWorkFollows DEF LoopInv

\* Whose lock stays, still holds it.
LEMMA HoldingMoves ==
  ASSUME LoopInv, NEW p \in Procs, Others(p), Untaken(p), Holds(p)'
  PROVE  Holding'
<1>1. ASSUME NEW q \in Procs \ {p} PROVE Holds(q)'
  <2>1. Holds(q) /\ job[q].round \in Rounds /\ job'[q] = job[q]
    BY DEF LoopInv, Holding, TypeOK, Work, Others
  <2>2. <<"review", job[q].round>> \in LockNames /\ <<"revision", job[q].round>> \in LockNames
    BY <2>1 DEF LockNames
  <2> QED
    BY <2>1, <2>2 DEF Holds, Untaken
<1>2. \A q \in Procs : Holds(q)'
  BY <1>1
<1> QED
  BY <1>2 DEF Holding

\* A step that leaves the reviews leaves what they rely on.
LEMMA ReviewUntouched ==
  ASSUME LoopInv, NEW p \in Procs, review' = review, sealed' = sealed,
         \A s \in Rounds : bundle[s].head # None => bundle'[s] = bundle[s],
         Others(p),
         VerdictFits(job[p])'
  PROVE  DecisionsFit' /\ ReviewsFit'
<1> USE DEF Others
<1>1. ASSUME NEW r \in Rounds PROVE RoundFits(r)'
  <2>1. RoundFits(r)
    BY DEF LoopInv, DecisionsFit
  <2> QED
    BY <2>1 DEF RoundFits, Complete
<1>2. ASSUME NEW q \in Procs \ {p} PROVE VerdictFits(job[q])'
  <2>1. VerdictFits(job[q]) /\ job[q].round \in Rounds
    BY DEF LoopInv, ReviewsFit, TypeOK, Work
  <2> QED
    BY <2>1, PlacesAre DEF VerdictFits
<1> QED
  BY <1>1, <1>2 DEF DecisionsFit, ReviewsFit

\* Whoever writes a round holds its lock, so the other reviews go on undisturbed.
LEMMA ReviewMoves ==
  ASSUME LoopInv, NEW p \in Procs, job[p].pc \in ReviewHeld, bundle' = bundle,
         NEW r \in Rounds, r = job[p].round,
         \A s \in Rounds \ {r} : review'[s] = review[s] /\ sealed'[s] = sealed[s],
         Others(p),
         RoundFits(r)', VerdictFits(job[p])'
  PROVE  DecisionsFit' /\ ReviewsFit'
<1> USE DEF Others
<1>1. ASSUME NEW s \in Rounds \ {r} PROVE RoundFits(s)'
  <2>1. RoundFits(s)
    BY DEF LoopInv, DecisionsFit
  <2> QED
    BY <2>1 DEF RoundFits, Complete
<1>2. ASSUME NEW q \in Procs \ {p} PROVE VerdictFits(job[q])'
  <2>1. VerdictFits(job[q]) /\ job[q].round \in Rounds
    BY DEF LoopInv, ReviewsFit, TypeOK, Work
  <2>2. CASE job[q].pc \in ReviewHeld
    <3>1. job[q].round # job[p].round
      BY <1>2, <2>2 DEF LoopInv, Holding, Holds
    <3> QED
      BY <2>1, <3>1 DEF VerdictFits
  <2>3. CASE job[q].pc \notin ReviewHeld
    BY <2>1, <2>3 DEF VerdictFits, ReviewHeld, ReviewPc
  <2> QED
    BY <2>2, <2>3
<1>3. \A s \in Rounds : RoundFits(s)'
  BY <1>1
<1>4. \A q \in Procs : VerdictFits(job[q])'
  BY <1>2
<1> QED
  BY <1>3, <1>4 DEF DecisionsFit, ReviewsFit

\* A step outside the revisions leaves what they rely on.
LEMMA RevisionUntouched ==
  ASSUME LoopInv, NEW p \in Procs,
         bundle' = bundle, revision' = revision, lost' = lost, slipped' = slipped,
         world'.worktree = world.worktree,
         \A s \in Rounds : review[s].state \in Terminal => review'[s].state = review[s].state,
         Others(p),
         job'[p].pc \notin RevisionPc
  PROVE  ChainFits' /\ RevisionsFit' /\ StepsFit' /\ LostFits' /\ ContentFits'
<1> USE DEF Others
<1>1. \A r \in Revisions : review[r].state = "REVISION_REQUESTED" => review'[r].state = "REVISION_REQUESTED"
  BY Numbers, Decisions
<1>2. ChainFits'
  BY <1>1 DEF LoopInv, ChainFits
<1>3. RevisionsFit'
  BY <1>1 DEF LoopInv, RevisionsFit
<1>4. StepsFit'
  BY DEF LoopInv, StepsFit
<1>5. LostFits'
  BY DEF LoopInv, LostFits
<1>6. ContentFits'
  <2>1. \A r \in Revisions : TreesFit(r, revision[r])'
    BY DEF LoopInv, ContentFits, TreesFit, Verified, Reviewed
  <2>2. ASSUME NEW q \in Procs, job'[q].pc \in Making
        PROVE  SetFits(job[q], revision[job[q].round], world.worktree)'
    <3>1. q # p
      BY <2>2, PlacesAre
    <3>2. job'[q] = job[q] /\ SetFits(job[q], revision[job[q].round], world.worktree)
      BY <2>2, <3>1 DEF LoopInv, ContentFits
    <3> QED
      BY <3>2 DEF SetFits, Verified, Reviewed
  <2> QED
    BY <2>1, <2>2 DEF ContentFits
<1> QED
  BY <1>2, <1>3, <1>4, <1>5, <1>6

\* What a step of a revision has to show of its receipt, its place and its trees.
Answers(p) ==
  LET r == job[p].round
      rc == revision[r]
      n == revision'[r]
  IN  /\ \A s \in Revisions \ {r} : revision'[s] = revision[s]
      /\ n.state # "NONE" =>
           \/ rc.state # "NONE" /\ n.head = rc.head
           \/ review[r].state = "REVISION_REQUESTED" /\ n.head = bundle[r].head /\ n.head # None
      /\ Stands(rc) \in After => n.state # "NONE" /\ Stands(n) \in After /\ n.commit = rc.commit
      /\ ReceiptFits(n)
      /\ job'[p].pc \in RevisionPc => StepFits(job'[p], n)
      /\ job'[p].pc \in RevisionPc => job'[p].round = r
      /\ \A s \in lost' : s = r \/ s \in lost
      /\ r \in lost' => Stands(n) \in Ambiguous /\ job'[p].pc \notin RevisionPc
      /\ TreesFit(r, n)
      /\ job'[p].pc \in Making => SetFits(job'[p], n, world'.worktree)

\* A process that makes a revision works on the one whose worktree it is.
LEMMA OneMaker ==
  ASSUME LoopInv, NEW p \in Procs, NEW q \in Procs, job[p].pc \in Making, job[q].pc \in Making
  PROVE  p = q
<1>1. /\ job[p].round \in Revisions /\ job[q].round \in Revisions
      /\ job[p].pc \in RevisionPc /\ job[q].pc \in RevisionPc
      /\ job[p].pc \in RevisionHeld /\ job[q].pc \in RevisionHeld
  BY PlacesAre DEF LoopInv, Holding, Holds
<1>2. revision[job[p].round].state # "NONE" /\ revision[job[q].round].state # "NONE"
  BY <1>1 DEF LoopInv, StepsFit, StepFits
<1>3. \A x \in Revisions, y \in Revisions : x = y \/ x \in 1..(y - 1) \/ y \in 1..(x - 1)
  BY Numbers
<1>4. job[p].pc \notin {"attest_pushed", "package", "finish"} /\ job[q].pc \notin {"attest_pushed", "package", "finish"}
  BY DEF Making
<1>5. job[p].round = job[q].round
  BY <1>1, <1>2, <1>3, <1>4, Zenon DEF LoopInv, OneAtWork
<1> QED
  BY <1>1, <1>5 DEF LoopInv, Holding, Holds

\* A step of a revision changes its own receipt and the world in ways the rest allows.
LEMMA RevisionMoves ==
  ASSUME LoopInv, NEW p \in Procs, job[p].pc \in RevisionHeld, Answers(p),
         review' = review, bundle' = bundle, slipped' = slipped,
         world'.worktree = world.worktree \/ job[p].pc \in Making,
         Others(p)
  PROVE  ChainFits' /\ RevisionsFit' /\ StepsFit' /\ LostFits' /\ ContentFits'
<1> USE DEF Others
<1> DEFINE r == job[p].round
           rc == revision[r]
           n == revision'[r]
<1>1. r \in Revisions /\ \A q \in Procs \ {p} : job[q].pc \in RevisionHeld => job[q].round # r
  BY DEF LoopInv, Holding, Holds
<1>2. \A q \in Procs \ {p} : job[q].pc \in RevisionPc => job[q].round # r /\ job[q].round \in Revisions
  BY <1>1, PlacesAre DEF LoopInv, Holding, Holds
<1>3. ReceiptFits(rc) /\ (rc.state # "NONE" => review[r].state = "REVISION_REQUESTED"
                            /\ rc.head = bundle[r].head /\ bundle[r].head # None)
  BY <1>1 DEF LoopInv, RevisionsFit
<1>4. ChainFits'
  <2>1. ASSUME NEW s \in Revisions, bundle[s + 1].head # None, s = r
        PROVE  bundle[s + 1].head = n.commit /\ n.head = bundle[r].head /\ Stands(n) \in After
    <3>1. bundle[s + 1].head = rc.commit /\ rc.head = bundle[r].head /\ Stands(rc) \in After
      BY <2>1 DEF LoopInv, ChainFits
    <3> QED
      BY <1>3, <3>1 DEF Answers
  <2>2. \A s \in Revisions : s # r => revision'[s] = revision[s]
    BY DEF Answers
  <2> QED
    BY <2>1, <2>2 DEF LoopInv, ChainFits
<1>5. RevisionsFit'
  <2>1. ReceiptFits(n) /\ (n.state # "NONE" => review[r].state = "REVISION_REQUESTED"
                            /\ n.head = bundle[r].head /\ bundle[r].head # None)
    BY <1>3 DEF Answers
  <2>2. \A s \in Revisions : s # r => revision'[s] = revision[s]
    BY DEF Answers
  <2> QED
    BY <2>1, <2>2 DEF LoopInv, RevisionsFit
<1>6. StepsFit'
  BY <1>2 DEF LoopInv, StepsFit, Answers
<1>7. LostFits'
  <2>1. ASSUME NEW s \in lost', s # r
        PROVE  /\ s \in Revisions /\ Stands(revision'[s]) \in Ambiguous
               /\ \A q \in Procs : job'[q].pc \in RevisionPc => job'[q].round # s
    BY <2>1 DEF LoopInv, LostFits, Answers
  <2>2. ASSUME r \in lost'
        PROVE  /\ r \in Revisions /\ Stands(n) \in Ambiguous
               /\ \A q \in Procs : job'[q].pc \in RevisionPc => job'[q].round # r
    BY <1>1, <1>2, <2>2 DEF Answers
  <2> QED
    BY <2>1, <2>2 DEF LostFits
<1>8. ContentFits'
  <2>1. ASSUME NEW s \in Revisions PROVE TreesFit(s, revision[s])'
    <3>1. TreesFit(s, revision[s]) \/ s = r
      BY DEF LoopInv, ContentFits
    <3> QED
      BY <3>1 DEF TreesFit, Verified, Reviewed, Answers
  <2>2. ASSUME NEW q \in Procs, job'[q].pc \in Making
        PROVE  SetFits(job[q], revision[job[q].round], world.worktree)'
    <3>1. CASE q = p
      <4>1. job'[p].pc \in RevisionPc
        BY <2>2, <3>1, PlacesAre
      <4> QED
        BY <2>2, <3>1, <4>1 DEF SetFits, Verified, Reviewed, Answers
    <3>2. CASE q # p
      <4>1. job'[q] = job[q] /\ SetFits(job[q], revision[job[q].round], world.worktree)
        BY <2>2, <3>2 DEF LoopInv, ContentFits
      <4>2. revision'[job[q].round] = revision[job[q].round]
        BY <1>2, <2>2, <3>2, <4>1, PlacesAre DEF Answers
      <4>3. world'.worktree = world.worktree
        BY <2>2, <3>2, <4>1, OneMaker
      <4> QED
        BY <4>1, <4>2, <4>3 DEF SetFits, Verified, Reviewed
    <3> QED
      BY <3>1, <3>2
  <2> QED
    BY <2>1, <2>2 DEF ContentFits
<1> QED
  BY <1>4, <1>5, <1>6, <1>7, <1>8
-----------------------------------------------------------------------------
(* Steps that only move a process.                                         *)

\* A step that leaves every record of the run where it is.
LEMMA MoveKeeps ==
  ASSUME LoopInv, NEW p \in Procs,
         UNCHANGED <<reviewing, bundle, world, revising>>,
         faults' \in 0..MaxFaults, interference' \in 0..MaxInterference,
         job' \in [Procs -> Work], locks' \in [LockNames -> Procs \cup {"free", "orphan"}],
         Others(p),
         Holding', VerdictFits(job[p])', job'[p].pc \notin RevisionPc
  PROVE  LoopInv'
<1> USE DEF reviewing, revising
<1>1. TypeOK'
  BY DEF LoopInv, TypeOK
<1>2. DecisionsFit' /\ ReviewsFit'
  BY ReviewUntouched
<1>3. ChainFits' /\ RevisionsFit' /\ StepsFit' /\ LostFits' /\ ContentFits'
  BY RevisionUntouched
<1> QED
  BY <1>1, <1>2, <1>3, Composed, PTL

\* A process that gives up has nothing left to hold.
LEMMA LeaveKeeps ==
  ASSUME LoopInv, NEW p \in Procs, GoTo(p, "idle"),
         Release(p) \/ Orphan(p) \/ locks' = locks,
         UNCHANGED <<reviewing, bundle, world, revising>>,
         faults' \in 0..MaxFaults, interference' \in 0..MaxInterference
  PROVE  LoopInv'
<1>1. /\ job' \in [Procs -> Work] /\ job'[p].pc = "idle"
      /\ Others(p)
  BY Going, PlacesAre DEF LoopInv, TypeOK
<1>2. locks' \in [LockNames -> Procs \cup {"free", "orphan"}] /\ Untaken(p)
  BY Unlocking DEF LoopInv
<1>3. Holding'
  <2>1. Holds(p)'
    BY <1>1, PlacesAre DEF Holds
  <2> QED
    BY <1>1, <1>2, <2>1, HoldingMoves
<1>4. VerdictFits(job[p])'
  BY <1>1 DEF VerdictFits, ReviewHeld, ReviewPc
<1>5. job'[p].pc \notin RevisionPc
  BY <1>1, PlacesAre
<1> QED
  BY <1>1, <1>2, <1>3, <1>4, <1>5, MoveKeeps

\* Faults are counted up to their bound.
LEMMA Counted ==
  ASSUME LoopInv
  PROVE  /\ UNCHANGED counts => faults' \in 0..MaxFaults /\ interference' \in 0..MaxInterference
         /\ Fault => faults' \in 0..MaxFaults /\ interference' \in 0..MaxInterference
BY LoopAssumption DEF LoopInv, TypeOK, counts, Fault

LEMMA SubmitKeeps ==
  ASSUME LoopInv, NEW p \in Procs, NEW r \in Rounds, NEW k \in Kinds, Submit(p, r, k),
         UNCHANGED <<revising, counts>>
  PROVE  LoopInv'
<1> USE DEF Submit, LoopInv
<1>1. [job[p] EXCEPT !.pc = "submit", !.round = r, !.verdict = k] \in Work
  BY WorkUpdates, PlacesAre DEF TypeOK
<1>2. job' = [job EXCEPT ![p] = [job[p] EXCEPT !.pc = "submit", !.round = r, !.verdict = k]]
  BY DEF TypeOK
<1>3. /\ job' \in [Procs -> Work] /\ Others(p)
      /\ job'[p].pc = "submit" /\ job'[p].round = r /\ job'[p].verdict = k
  BY <1>1, <1>2 DEF TypeOK, Work, Others
<1>4. Holding'
  <2>1. Holds(p)' /\ Untaken(p)
    BY <1>3, PlacesAre DEF Holds, Untaken
  <2> QED
    BY <1>3, <2>1, HoldingMoves
<1>5. VerdictFits(job[p])'
  BY <1>3 DEF VerdictFits, ReviewPc
<1>6. job'[p].pc \notin RevisionPc /\ locks' \in [LockNames -> Procs \cup {"free", "orphan"}]
  BY <1>3, PlacesAre DEF TypeOK
<1> QED
  BY <1>3, <1>4, <1>5, <1>6, MoveKeeps, Counted

LEMMA ReviseKeeps ==
  ASSUME LoopInv, NEW p \in Procs, NEW r \in Revisions, Revise(p, r), UNCHANGED counts
  PROVE  LoopInv'
<1> USE DEF Revise, LoopInv
<1>1. [job[p] EXCEPT !.pc = "revise", !.round = r] \in Work
  BY WorkUpdates, PlacesAre, Numbers DEF TypeOK
<1>2. job' = [job EXCEPT ![p] = [job[p] EXCEPT !.pc = "revise", !.round = r]]
  BY DEF TypeOK
<1>3. /\ job' \in [Procs -> Work] /\ Others(p)
      /\ job'[p].pc = "revise" /\ job'[p].round = r
  BY <1>1, <1>2 DEF TypeOK, Work, Others
<1>4. Holding'
  <2>1. Holds(p)' /\ Untaken(p)
    BY <1>3, PlacesAre DEF Holds, Untaken
  <2> QED
    BY <1>3, <2>1, HoldingMoves
<1>5. VerdictFits(job[p])'
  BY <1>3 DEF VerdictFits, ReviewHeld, ReviewPc
<1>6. job'[p].pc \notin RevisionPc /\ locks' \in [LockNames -> Procs \cup {"free", "orphan"}]
  BY <1>3, PlacesAre DEF TypeOK
<1> QED
  BY <1>3, <1>4, <1>5, <1>6, MoveKeeps, Counted DEF rest, revising

LEMMA TakeReviewLockKeeps ==
  ASSUME LoopInv, NEW p \in Procs, TakeReviewLock(p), UNCHANGED <<revising, counts>>
  PROVE  LoopInv'
<1> USE DEF TakeReviewLock, LoopInv
<1>1. /\ job' \in [Procs -> Work] /\ Others(p)
      /\ job'[p].pc = "inspect" /\ job'[p].round = job[p].round /\ job'[p].verdict = job[p].verdict
  BY Going, PlacesAre DEF TypeOK, ReviewHeld
<1>2. <<"review", job[p].round>> \in LockNames
  BY DEF TypeOK, Work, LockNames
<1>3. /\ locks' \in [LockNames -> Procs \cup {"free", "orphan"}] /\ Untaken(p)
      /\ locks'[<<"review", job[p].round>>] = p
  BY <1>2, Taking
<1>4. Holding'
  <2>1. Holds(p)'
    BY <1>1, <1>3, PlacesAre DEF Holds, ReviewHeld
  <2> QED
    BY <1>1, <1>3, <2>1, HoldingMoves
<1>5. VerdictFits(job[p])'
  BY <1>1 DEF VerdictFits, ReviewHeld, ReviewPc, ReviewsFit
<1>6. job'[p].pc \notin RevisionPc
  BY <1>1, PlacesAre DEF ReviewHeld
<1> QED
  BY <1>1, <1>3, <1>4, <1>5, <1>6, MoveKeeps, Counted DEF reviewing

LEMMA TakeRevisionLockKeeps ==
  ASSUME LoopInv, NEW p \in Procs, TakeRevisionLock(p), UNCHANGED counts
  PROVE  LoopInv'
<1> USE DEF TakeRevisionLock, LoopInv
<1>1. /\ job' \in [Procs -> Work] /\ Others(p)
      /\ job'[p].pc = "source" /\ job'[p].round = job[p].round
  BY Going, PlacesAre DEF TypeOK, RevisionHeld
<1>2. <<"revision", job[p].round>> \in LockNames
  BY DEF TypeOK, Work, LockNames
<1>3. /\ locks' \in [LockNames -> Procs \cup {"free", "orphan"}] /\ Untaken(p)
      /\ locks'[<<"revision", job[p].round>>] = p
  BY <1>2, Taking
<1>4. Holding'
  <2>1. Holds(p)'
    BY <1>1, <1>3, PlacesAre DEF Holds, RevisionHeld, Holding
  <2> QED
    BY <1>1, <1>3, <2>1, HoldingMoves
<1>5. VerdictFits(job[p])'
  BY <1>1 DEF VerdictFits, ReviewHeld, ReviewPc
<1>6. job'[p].pc \notin RevisionPc
  BY <1>1 DEF RevisionPc
<1> QED
  BY <1>1, <1>3, <1>4, <1>5, <1>6, MoveKeeps, Counted DEF rest, revising

LEMMA GiveUpKeeps ==
  ASSUME LoopInv, NEW p \in Procs, GiveUp(p)
  PROVE  LoopInv'
<1>1. GoTo(p, "idle") /\ locks' = locks /\ UNCHANGED <<reviewing, bundle, world, revising, counts>>
  BY DEF GiveUp, ReviewLocked, RevisionLocked, rest, revising
<1> QED
  BY <1>1, LeaveKeeps, Counted

LEMMA RemoveLockKeeps ==
  ASSUME LoopInv, RemoveLock
  PROVE  LoopInv'
<1> USE DEF RemoveLock, LoopInv, reviewing, revising
<1>1. TypeOK'
  BY Counted DEF TypeOK
<1>2. Holding'
  BY Numbers DEF Holding, Holds, TypeOK, Work, LockNames
<1>3. DecisionsFit' /\ ReviewsFit'
  BY DEF DecisionsFit, ReviewsFit, RoundFits, VerdictFits, Complete
<1>4. ChainFits' /\ RevisionsFit' /\ StepsFit' /\ LostFits'
  BY DEF ChainFits, RevisionsFit, StepsFit, LostFits
<1>5. ContentFits'
  BY DEF ContentFits, TreesFit, SetFits, Verified, Reviewed
<1> QED
  BY <1>1, <1>2, <1>3, <1>4, <1>5, Composed, PTL

-----------------------------------------------------------------------------
(* Steps of a review.                                                      *)

\* A step of a review that keeps its own round fitting keeps the invariant.
LEMMA ReviewKeeps ==
  ASSUME LoopInv, NEW p \in Procs, job[p].pc \in ReviewHeld,
         NEW r \in Rounds, r = job[p].round,
         NEW pc \in ReviewHeld \cup {"idle"}, GoTo(p, pc),
         IF pc = "idle" THEN Release(p) ELSE locks' = locks,
         review' \in [Rounds -> ReviewReceipt],
         sealed' \in [Rounds -> [Artifacts -> Kinds \cup {"none"}]],
         \A s \in Rounds \ {r} : review'[s] = review[s] /\ sealed'[s] = sealed[s],
         review[r].state \in Terminal => review'[r] = review[r],
         RoundFits(r)', pc # "idle" => VerdictFits(job[p])',
         UNCHANGED <<bundle, world, revising>>,
         faults' \in 0..MaxFaults, interference' \in 0..MaxInterference
  PROVE  LoopInv'
<1> USE DEF LoopInv, revising
<1>1. /\ job' \in [Procs -> Work] /\ job'[p].pc = pc
      /\ Others(p)
      /\ pc # "idle" => job'[p].round = r
  BY Going, PlacesAre DEF TypeOK
<1>2. locks' \in [LockNames -> Procs \cup {"free", "orphan"}] /\ Untaken(p)
  BY Unlocking
<1>3. TypeOK'
  BY <1>1, <1>2 DEF TypeOK
<1>4. Holding'
  <2>1. Holds(p)'
    BY <1>1, PlacesAre DEF Holding, Holds
  <2> QED
    BY <1>1, <1>2, <2>1, HoldingMoves
<1>5. VerdictFits(job[p])'
  BY <1>1 DEF VerdictFits, ReviewHeld, ReviewPc
<1>6. DecisionsFit' /\ ReviewsFit'
  BY <1>1, <1>5, ReviewMoves
<1>7. job'[p].pc \notin RevisionPc
  BY <1>1, PlacesAre
<1>8. ChainFits' /\ RevisionsFit' /\ StepsFit' /\ LostFits' /\ ContentFits'
  BY <1>1, <1>7, RevisionUntouched
<1> QED
  BY <1>3, <1>4, <1>6, <1>8, Composed, PTL

\* A step that writes the receipt of its round only.
LEMMA Written ==
  ASSUME LoopInv, NEW r \in Rounds, NEW rc \in ReviewReceipt, Wrote(r, rc)
  PROVE  /\ review' \in [Rounds -> ReviewReceipt] /\ review'[r] = rc
         /\ \A s \in Rounds \ {r} : review'[s] = review[s]
         /\ review[r] \in ReviewReceipt
BY DEF LoopInv, TypeOK, Wrote

\* What a process may rely on in a review.
LEMMA ReviewIs ==
  ASSUME LoopInv, NEW p \in Procs, job[p].pc \in ReviewHeld
  PROVE  /\ job[p].round \in Rounds /\ VerdictFits(job[p]) /\ RoundFits(job[p].round)
         /\ review[job[p].round] \in ReviewReceipt
         /\ bundle[job[p].round].head \in Commit
         /\ job[p].verdict \in Kinds
BY DEF LoopInv, TypeOK, Work, ReviewsFit, DecisionsFit, Bundle, VerdictFits

\* A refusal leaves the round open to the same verdict.
LEMMA RefuseKeeps ==
  ASSUME LoopInv, NEW p \in Procs, job[p].pc \in ReviewPc,
         NEW state \in {"BLOCKED", "FAILED"}, Refuse(p, state),
         UNCHANGED <<sealed, bundle, world, revising>>,
         faults' \in 0..MaxFaults, interference' \in 0..MaxInterference
  PROVE  LoopInv'
<1>1. PICK r \in Rounds : r = job[p].round
  BY DEF LoopInv, TypeOK, Work
<1>2. job[p].pc \in ReviewHeld /\ "idle" \in ReviewHeld \cup {"idle"}
  BY PlacesAre
<1>3. review[r].state \notin Terminal /\ RoundFits(r) /\ review[r] \in ReviewReceipt
  BY <1>1, <1>2, ReviewIs DEF VerdictFits
<1>4. /\ [review[r] EXCEPT !.state = state] \in ReviewReceipt
      /\ [review[r] EXCEPT !.state = state].state = state
      /\ [review[r] EXCEPT !.state = state].verdict = review[r].verdict
  BY <1>3 DEF ReviewReceipt
<1>5. /\ review' \in [Rounds -> ReviewReceipt]
      /\ review'[r].state = state /\ review'[r].verdict = review[r].verdict
      /\ \A s \in Rounds \ {r} : review'[s] = review[s]
  BY <1>1, <1>4, Written DEF Refuse
<1>6. RoundFits(r)'
  BY <1>3, <1>5, Decisions DEF RoundFits
<1>7. sealed' \in [Rounds -> [Artifacts -> Kinds \cup {"none"}]]
  BY DEF LoopInv, TypeOK
<1> QED
  BY <1>1, <1>2, <1>3, <1>5, <1>6, <1>7, ReviewKeeps DEF Refuse

LEMMA SealedAlreadyKeeps ==
  ASSUME LoopInv, NEW p \in Procs, SealedAlready(p), UNCHANGED <<revising, counts>>
  PROVE  LoopInv'
BY LeaveKeeps, Counted DEF SealedAlready

LEMMA InspectKeeps ==
  ASSUME LoopInv, NEW p \in Procs, Inspect(p), UNCHANGED <<revising, counts>>
  PROVE  LoopInv'
<1> USE DEF Inspect
<1>1. /\ job' \in [Procs -> Work] /\ Others(p)
      /\ job'[p].pc = "open" /\ job'[p].round = job[p].round /\ job'[p].verdict = job[p].verdict
  BY Going, PlacesAre DEF LoopInv, TypeOK, ReviewHeld
<1>2. locks' \in [LockNames -> Procs \cup {"free", "orphan"}] /\ job[p].pc \in ReviewHeld
  BY DEF LoopInv, TypeOK, ReviewHeld
<1>3. Holding'
  <2>1. Holds(p)' /\ Untaken(p)
    BY <1>1, <1>2, PlacesAre DEF ReviewHeld, LoopInv, Holding, Holds, Untaken
  <2> QED
    BY <1>1, <2>1, HoldingMoves
<1>4. VerdictFits(job[p])'
  <2>1. VerdictFits(job[p]) /\ RoundFits(job[p].round) /\ job[p].verdict \in Kinds
    BY <1>2, ReviewIs
  <2> QED
    BY <1>1, <1>2, <2>1, Decisions
       DEF VerdictFits, RoundFits, ReviewHeld, ReviewPc, reviewing, SameVerdict
<1>5. job'[p].pc \notin RevisionPc
  BY <1>1 DEF RevisionPc
<1> QED
  BY <1>1, <1>2, <1>3, <1>4, <1>5, MoveKeeps, Counted

LEMMA OpenReviewKeeps ==
  ASSUME LoopInv, NEW p \in Procs, OpenReview(p), UNCHANGED <<revising, counts>>
  PROVE  LoopInv'
<1> USE DEF OpenReview
<1>1. PICK r \in Rounds : r = job[p].round
  BY DEF LoopInv, TypeOK, Work
<1>2. job[p].pc \in ReviewHeld /\ "validate" \in ReviewHeld \cup {"idle"} /\ "validate" # "idle"
  BY DEF ReviewHeld, ReviewPc
<1>3. /\ review[r].state \notin Terminal /\ RoundFits(r) /\ review[r] \in ReviewReceipt
      /\ job[p].verdict \in Kinds /\ review[r].verdict \in {"none", job[p].verdict} /\ bundle[r].head # None
  BY <1>1, <1>2, ReviewIs DEF VerdictFits
<1>0. LET n == [review[r] EXCEPT !.state = "VALIDATING", !.verdict = job[p].verdict]
      IN  n \in ReviewReceipt /\ n.state = "VALIDATING" /\ n.verdict = job[p].verdict
  BY <1>3 DEF ReviewReceipt
<1>4. /\ review' \in [Rounds -> ReviewReceipt]
      /\ review'[r].state = "VALIDATING" /\ review'[r].verdict = job[p].verdict
      /\ \A s \in Rounds \ {r} : review'[s] = review[s]
  BY <1>0, <1>1, Written
<1>5. RoundFits(r)'
  BY <1>3, <1>4, Decisions DEF RoundFits
<1>6. sealed' \in [Rounds -> [Artifacts -> Kinds \cup {"none"}]]
  BY DEF LoopInv, TypeOK
<1>7. VerdictFits(job[p])'
  <2>1. job'[p].pc = "validate" /\ job'[p].round = r /\ job'[p].verdict = job[p].verdict
    BY <1>1, <1>2, Going, PlacesAre DEF LoopInv, TypeOK
  <2> QED
    BY <1>3, <1>4, <2>1, Decisions DEF VerdictFits, ReviewPc
<1> QED
  BY <1>1, <1>2, <1>3, <1>4, <1>5, <1>6, <1>7, ReviewKeeps, Counted

\* A step of a review that writes nothing but its place.
LEMMA ReviewGoes ==
  ASSUME LoopInv, NEW p \in Procs, job[p].pc \in ReviewHeld, NEW pc \in ReviewHeld, GoTo(p, pc),
         UNCHANGED <<review, sealed, bundle, locks, world, revising, counts>>, VerdictFits(job[p])'
  PROVE  LoopInv'
<1>1. PICK r \in Rounds : r = job[p].round
  BY DEF LoopInv, TypeOK, Work
<1>2. pc # "idle" /\ pc \in ReviewHeld \cup {"idle"}
  BY PlacesAre
<1>3. RoundFits(r)'
  BY DEF LoopInv, DecisionsFit, RoundFits, Complete
<1>4. /\ review' \in [Rounds -> ReviewReceipt]
      /\ sealed' \in [Rounds -> [Artifacts -> Kinds \cup {"none"}]]
  BY DEF LoopInv, TypeOK
<1> QED
  BY <1>1, <1>2, <1>3, <1>4, ReviewKeeps, Counted

LEMMA ValidateKeeps ==
  ASSUME LoopInv, NEW p \in Procs, Validate(p), UNCHANGED <<revising, counts>>
  PROVE  LoopInv'
<1>1. job[p].pc = "validate" /\ job[p].pc \in ReviewPc /\ job[p].pc \in ReviewHeld
  BY DEF Validate, ReviewPc, ReviewHeld
<1>2. ASSUME HistoryValid(job[p].round) /\ PolicyAllows(job[p].round, job[p].verdict)
      PROVE  LoopInv'
  <2>1. GoTo(p, "attest") /\ UNCHANGED <<review, sealed, bundle, locks, world, revising, counts>>
    BY <1>2 DEF Validate
  <2>2. "attest" \in ReviewHeld
    BY DEF ReviewHeld, ReviewPc
  <2>3. job'[p].pc = "attest" /\ job'[p].round = job[p].round /\ job'[p].verdict = job[p].verdict
    BY <2>1, <2>2, Going, PlacesAre DEF LoopInv, TypeOK
  <2>4. VerdictFits(job[p])'
    BY <1>1, <1>2, <2>1, <2>3, ReviewIs DEF VerdictFits, ReviewPc, ReviewHeld
  <2> QED
    BY <1>1, <2>1, <2>2, <2>4, ReviewGoes
<1>3. ASSUME ~(HistoryValid(job[p].round) /\ PolicyAllows(job[p].round, job[p].verdict))
      PROVE  LoopInv'
  BY <1>1, <1>3, RefuseKeeps, Counted DEF Validate
<1> QED
  BY <1>2, <1>3

LEMMA AttestReviewKeeps ==
  ASSUME LoopInv, NEW p \in Procs, AttestReview(p), UNCHANGED <<revising, counts>>
  PROVE  LoopInv'
<1>1. job[p].pc = "attest" /\ job[p].pc \in ReviewPc /\ job[p].pc \in ReviewHeld
  BY DEF AttestReview, ReviewPc, ReviewHeld
<1>2. PICK r \in Rounds : r = job[p].round
  BY DEF LoopInv, TypeOK, Work
<1>3. ASSUME PullAt(bundle[r].head)
      PROVE  LoopInv'
  <2>1. /\ Wrote(r, [review[r] EXCEPT !.state = "VALIDATED", !.head = bundle[r].head])
        /\ GoTo(p, "seal_verdict")
        /\ UNCHANGED <<sealed, bundle, locks, world, revising, counts>>
    BY <1>2, <1>3 DEF AttestReview
  <2>2. "seal_verdict" \in ReviewHeld \cup {"idle"} /\ "seal_verdict" # "idle"
    BY DEF ReviewHeld, ReviewPc
  <2>3. /\ VerdictFits(job[p]) /\ RoundFits(r) /\ review[r] \in ReviewReceipt
        /\ bundle[r].head \in Commit
    BY <1>1, <1>2, ReviewIs
  <2>4. LET n == [review[r] EXCEPT !.state = "VALIDATED", !.head = bundle[r].head]
        IN  /\ n \in ReviewReceipt /\ n.state = "VALIDATED" /\ n.verdict = review[r].verdict
            /\ n.head = bundle[r].head
    BY <2>3 DEF ReviewReceipt
  <2>5. /\ review' \in [Rounds -> ReviewReceipt]
        /\ review'[r].state = "VALIDATED" /\ review'[r].verdict = review[r].verdict
        /\ review'[r].head = bundle[r].head
        /\ \A s \in Rounds \ {r} : review'[s] = review[s]
    BY <2>1, <2>4, Written
  <2>6. RoundFits(r)'
    BY <2>1, <2>3, <2>5, Decisions DEF RoundFits
  <2>7. VerdictFits(job[p])'
    <3>1. /\ job'[p].pc = "seal_verdict" /\ job'[p].round = r
          /\ job'[p].verdict = job[p].verdict
      BY <1>2, <2>1, <2>2, Going, PlacesAre DEF LoopInv, TypeOK
    <3> QED
      BY <1>1, <1>2, <2>1, <2>3, <2>5, <3>1, Decisions DEF VerdictFits, ReviewPc, ReviewHeld
  <2>8. /\ sealed' \in [Rounds -> [Artifacts -> Kinds \cup {"none"}]]
        /\ \A s \in Rounds \ {r} : sealed'[s] = sealed[s]
        /\ review[r].state \notin Terminal
    BY <1>1, <1>2, <2>1, <2>3 DEF LoopInv, TypeOK, VerdictFits
  <2> QED
    BY <1>1, <1>2, <2>1, <2>2, <2>5, <2>6, <2>7, <2>8, ReviewKeeps, Counted
<1>4. ASSUME ~PullAt(bundle[r].head)
      PROVE  LoopInv'
  BY <1>1, <1>2, <1>4, RefuseKeeps, Counted DEF AttestReview
<1> QED
  BY <1>3, <1>4

\* What sealing an artifact leaves, of the round and of the process.
LEMMA ArtifactKeeps ==
  ASSUME LoopInv, NEW p \in Procs, job[p].pc \in {"seal_verdict", "seal_request", "seal_event"},
         NEW a \in Artifacts, NEW next \in {"seal_request", "seal_event", "dispatch"},
         Artifact(p, a, next), UNCHANGED <<bundle, world, revising, counts>>,
         a = "request" => job[p].verdict = "REVISE",
         next = "seal_request" => a = "verdict" /\ job[p].verdict = "REVISE",
         next = "seal_event" =>
           \/ a = "verdict" /\ job[p].verdict # "REVISE"
           \/ a = "request" /\ job[p].pc = "seal_request",
         next = "dispatch" => a = "event" /\ job[p].pc = "seal_event"
  PROVE  LoopInv'
<1>1. job[p].pc \in ReviewPc /\ job[p].pc \in ReviewHeld
  BY DEF ReviewPc, ReviewHeld
<1>2. PICK r \in Rounds : r = job[p].round
  BY DEF LoopInv, TypeOK, Work
<1>3. /\ VerdictFits(job[p]) /\ RoundFits(r) /\ review[r].verdict = job[p].verdict
      /\ review[r].state \notin Terminal /\ job[p].verdict \in Kinds
  BY <1>1, <1>2, ReviewIs DEF VerdictFits
<1>4. ASSUME sealed[r][a] \in {"none", job[p].verdict}
      PROVE  LoopInv'
  <2>1. /\ sealed' = [sealed EXCEPT ![r][a] = job[p].verdict] /\ GoTo(p, next)
        /\ UNCHANGED <<review, locks, bundle, world, revising, counts>>
    BY <1>2, <1>4 DEF Artifact
  <2>2. next \in ReviewHeld \cup {"idle"} /\ next # "idle" /\ next \in Places
    BY PlacesAre DEF ReviewHeld, ReviewPc
  <2>3. /\ sealed' \in [Rounds -> [Artifacts -> Kinds \cup {"none"}]]
        /\ sealed'[r][a] = job[p].verdict
        /\ \A b \in Artifacts : b # a => sealed'[r][b] = sealed[r][b]
        /\ \A s \in Rounds \ {r} : sealed'[s] = sealed[s]
    BY <1>3, <2>1 DEF LoopInv, TypeOK
  <2>4. /\ review' \in [Rounds -> ReviewReceipt] /\ review'[r] = review[r]
        /\ \A s \in Rounds \ {r} : review'[s] = review[s]
    BY <2>1 DEF LoopInv, TypeOK
  <2>5. {"verdict", "request", "event"} = Artifacts
    BY DEF Artifacts
  <2>6. RoundFits(r)'
    BY <1>3, <2>3, <2>4, <2>5 DEF RoundFits
  <2>7. VerdictFits(job[p])'
    <3>1. job'[p].pc = next /\ job'[p].round = r /\ job'[p].verdict = job[p].verdict
      BY <1>2, <2>1, <2>2, Going DEF LoopInv, TypeOK
    <3> QED
      BY <1>2, <1>3, <2>1, <2>3, <2>4, <2>5, <3>1 DEF VerdictFits, ReviewPc, ReviewHeld
  <2> QED
    BY <1>1, <1>2, <1>3, <2>1, <2>2, <2>3, <2>4, <2>6, <2>7, ReviewKeeps, Counted
<1>5. ASSUME sealed[r][a] \notin {"none", job[p].verdict}
      PROVE  LoopInv'
  BY <1>1, <1>2, <1>5, RefuseKeeps, Counted DEF Artifact
<1> QED
  BY <1>4, <1>5

LEMMA SealVerdictKeeps ==
  ASSUME LoopInv, NEW p \in Procs, SealVerdict(p), UNCHANGED <<revising, counts>>
  PROVE  LoopInv'
<1>1. "verdict" \in Artifacts /\ "verdict" # "request"
  BY DEF Artifacts
<1>2. CASE job[p].verdict = "REVISE"
  BY <1>1, <1>2, ArtifactKeeps DEF SealVerdict
<1>3. CASE job[p].verdict # "REVISE"
  BY <1>1, <1>3, ArtifactKeeps DEF SealVerdict
<1> QED
  BY <1>2, <1>3

LEMMA SealRequestKeeps ==
  ASSUME LoopInv, NEW p \in Procs, SealRequest(p), UNCHANGED <<revising, counts>>
  PROVE  LoopInv'
<1>1. "request" \in Artifacts
  BY DEF Artifacts
<1>2. job[p].verdict = "REVISE"
  BY ReviewIs DEF SealRequest, VerdictFits, ReviewHeld, ReviewPc
<1> QED
  BY <1>1, <1>2, ArtifactKeeps DEF SealRequest

LEMMA SealEventKeeps ==
  ASSUME LoopInv, NEW p \in Procs, SealEvent(p), UNCHANGED <<revising, counts>>
  PROVE  LoopInv'
<1>1. "event" \in Artifacts /\ "event" # "request"
  BY DEF Artifacts
<1> QED
  BY <1>1, ArtifactKeeps DEF SealEvent

LEMMA DispatchKeeps ==
  ASSUME LoopInv, NEW p \in Procs, Dispatch(p), UNCHANGED <<revising, counts>>
  PROVE  LoopInv'
<1>1. job[p].pc = "dispatch" /\ job[p].pc \in ReviewHeld /\ "idle" \in ReviewHeld \cup {"idle"}
  BY DEF Dispatch, ReviewPc, ReviewHeld
<1>2. PICK r \in Rounds : r = job[p].round
  BY DEF LoopInv, TypeOK, Work
<1>3. /\ VerdictFits(job[p]) /\ RoundFits(r) /\ review[r] \in ReviewReceipt
      /\ job[p].verdict \in Kinds
  BY <1>1, <1>2, ReviewIs
<1>4. /\ review[r].state \notin Terminal /\ review[r].verdict = job[p].verdict
      /\ PolicyAllows(r, job[p].verdict) /\ review[r].head = bundle[r].head
      /\ bundle[r].head # None
      /\ sealed[r]["verdict"] = job[p].verdict /\ sealed[r]["event"] = job[p].verdict
      /\ job[p].verdict = "REVISE" => sealed[r]["request"] = "REVISE"
  BY <1>1, <1>2, <1>3 DEF VerdictFits, ReviewPc, ReviewHeld
<1>5. job[p].verdict # "UNSOUND" /\ Decided[job[p].verdict] \in Terminal
  BY <1>3, <1>4, Decisions DEF PolicyAllows, Sound
<1>6. LET n == [review[r] EXCEPT !.state = Decided[job[p].verdict]]
      IN  /\ n \in ReviewReceipt /\ n.state = Decided[job[p].verdict]
          /\ n.verdict = review[r].verdict /\ n.head = review[r].head
  BY <1>3, <1>5 DEF ReviewReceipt
<1>7. /\ review' \in [Rounds -> ReviewReceipt]
      /\ review'[r].state = Decided[job[p].verdict] /\ review'[r].verdict = review[r].verdict
      /\ review'[r].head = review[r].head
      /\ \A s \in Rounds \ {r} : review'[s] = review[s]
  BY <1>2, <1>6, Written DEF Dispatch
<1>8. sealed' = sealed /\ bundle' = bundle
  BY DEF Dispatch
<1>9. RoundFits(r)'
  <2>1. sealed[r]["request"] = IF job[p].verdict = "REVISE" THEN "REVISE" ELSE "none"
    BY <1>3, <1>4 DEF RoundFits, Artifacts
  <2>2. Complete(r)'
    BY <1>4, <1>7, <1>8, <2>1 DEF Complete
  <2>3. PolicyAllows(r, review'[r].verdict)
    BY <1>4, <1>7
  <2> QED
    BY <1>3, <1>4, <1>5, <1>7, <1>8, <2>2, <2>3, Decisions DEF RoundFits, PolicyAllows, Sound
<1>10. sealed' \in [Rounds -> [Artifacts -> Kinds \cup {"none"}]]
  BY <1>8 DEF LoopInv, TypeOK
<1> QED
  BY <1>1, <1>2, <1>4, <1>7, <1>8, <1>9, <1>10, ReviewKeeps, Counted DEF Dispatch

LEMMA ReviewTroubleKeeps ==
  ASSUME LoopInv, NEW p \in Procs, ReviewTrouble(p), UNCHANGED revising, Fault
  PROVE  LoopInv'
BY RefuseKeeps, Counted DEF ReviewTrouble

-----------------------------------------------------------------------------
(* Steps of a revision.                                                    *)

World == [worktree : Trees, head : Commit, remote : Commit, pull : BOOLEAN]

\* A step of a revision that answers for its own receipt keeps the invariant.
LEMMA RevisionKeeps ==
  ASSUME LoopInv, NEW p \in Procs, job[p].pc \in RevisionHeld, Answers(p),
         job' \in [Procs -> Work], Others(p), job'[p].pc \in RevisionPc \cup {"idle"},
         IF job'[p].pc = "idle" THEN Release(p) \/ Orphan(p) ELSE locks' = locks,
         revision' \in [Revisions -> RevisionReceipt],
         world' \in World, world'.worktree = world.worktree \/ job[p].pc \in Making,
         UNCHANGED <<reviewing, bundle, slipped>>,
         faults' \in 0..MaxFaults, interference' \in 0..MaxInterference
  PROVE  LoopInv'
<1> USE DEF reviewing
<1>1. job[p].round \in Revisions
  BY DEF LoopInv, Holding, Holds
<1>2. locks' \in [LockNames -> Procs \cup {"free", "orphan"}] /\ Untaken(p)
  BY Unlocking DEF LoopInv
<1>3. TypeOK'
  <2>1. lost' \subseteq Revisions
    BY <1>1 DEF LoopInv, TypeOK, Answers
  <2> QED
    BY <1>2, <2>1 DEF LoopInv, TypeOK, World
<1>4. Holding'
  <2>1. job'[p].pc \in RevisionPc => job'[p].round = job[p].round /\ locks' = locks
    BY PlacesAre DEF Answers
  <2>2. Holds(p)'
    BY <1>1, <2>1, PlacesAre DEF LoopInv, Holding, Holds
  <2> QED
    BY <1>2, <2>2, HoldingMoves
<1>5. VerdictFits(job[p])'
  BY PlacesAre DEF VerdictFits, ReviewHeld, ReviewPc, RevisionHeld
<1>6. DecisionsFit' /\ ReviewsFit'
  BY <1>5, ReviewUntouched
<1>7. ChainFits' /\ RevisionsFit' /\ StepsFit' /\ LostFits' /\ ContentFits'
  BY RevisionMoves
<1> QED
  BY <1>3, <1>4, <1>6, <1>7, Composed, PTL

\* What a process may rely on in a revision.
LEMMA RevisionIs ==
  ASSUME LoopInv, NEW p \in Procs, job[p].pc \in RevisionPc
  PROVE  /\ job[p].pc \in RevisionHeld /\ job[p] \in Work
         /\ job[p].round \in Revisions /\ job[p].round \notin lost
         /\ Mine(p) \in RevisionReceipt /\ Mine(p).state \in Resumable
         /\ Stands(Mine(p)) = Mine(p).state
         /\ StepFits(job[p], Mine(p)) /\ ReceiptFits(Mine(p)) /\ TreesFit(job[p].round, Mine(p))
         /\ job[p].pc \in Making => SetFits(job[p], Mine(p), world.worktree)
         /\ Mine(p).head = bundle[job[p].round].head /\ Mine(p).head # None
<1>1. /\ job[p].pc \in RevisionHeld /\ job[p] \in Work
      /\ job[p].round \in Revisions /\ job[p].round \notin lost
  BY PlacesAre DEF LoopInv, TypeOK, Holding, Holds, LostFits
<1>2. Mine(p) \in RevisionReceipt /\ StepFits(job[p], Mine(p)) /\ ReceiptFits(Mine(p))
  BY <1>1 DEF LoopInv, TypeOK, StepsFit, RevisionsFit, Mine
<1>3. Mine(p).state \in Resumable
  BY <1>2, PlacesAre DEF StepFits, Resumable, Before, Ambiguous
<1>4. Stands(Mine(p)) = Mine(p).state /\ Mine(p).state # "NONE"
  BY <1>3 DEF Stands, Resumable
<1>5. Mine(p).head = bundle[job[p].round].head /\ Mine(p).head # None
  BY <1>1, <1>4 DEF LoopInv, RevisionsFit, Mine
<1>6. /\ TreesFit(job[p].round, Mine(p))
      /\ job[p].pc \in Making => SetFits(job[p], Mine(p), world.worktree)
  BY <1>1 DEF LoopInv, ContentFits, Mine
<1> QED
  BY <1>1, <1>2, <1>3, <1>4, <1>5, <1>6

\* A receipt that is written, or left, and everybody else's.
LEMMA Kept ==
  ASSUME LoopInv, NEW p \in Procs, job[p].round \in Revisions,
         NEW n \in RevisionReceipt, Keep(p, n) \/ (revision' = revision /\ n = Mine(p))
  PROVE  /\ revision' \in [Revisions -> RevisionReceipt]
         /\ revision'[job[p].round] = n
         /\ \A s \in Revisions \ {job[p].round} : revision'[s] = revision[s]
BY DEF LoopInv, TypeOK, Keep, Mine

\* The worktree holds a tree.
LEMMA WorldIs ==
  ASSUME LoopInv
  PROVE  world \in World /\ world.worktree \in Trees
BY DEF LoopInv, TypeOK, World

\* A revision that stops is blocked for good.
LEMMA StopKeeps ==
  ASSUME LoopInv, NEW p \in Procs, job[p].pc \in RevisionPc, Stop(p), UNCHANGED <<rest, counts>>
  PROVE  LoopInv'
<1> DEFINE rc == Mine(p)
           n == [rc EXCEPT !.state = "BLOCKED", !.resume = "none"]
<1>1. job[p].round \in Revisions /\ rc \in RevisionReceipt
  BY RevisionIs
<1>2. /\ n \in RevisionReceipt /\ n.state = "BLOCKED" /\ n.resume = "none" /\ n.head = rc.head
      /\ n.verified = rc.verified /\ n.reviewed = rc.reviewed
      /\ n.approved = rc.approved /\ n.commit = rc.commit
  BY <1>1 DEF RevisionReceipt
<1>3. Keep(p, n) /\ Release(p) /\ GoTo(p, "idle")
  BY DEF Stop, Block, Leave
<1>4. /\ revision' \in [Revisions -> RevisionReceipt] /\ revision'[job[p].round] = n
      /\ \A s \in Revisions \ {job[p].round} : revision'[s] = revision[s]
  BY <1>1, <1>2, <1>3, Kept
<1> HIDE DEF n
<1>5. job' \in [Procs -> Work] /\ Others(p) /\ job'[p].pc = "idle"
  BY <1>3, Going, PlacesAre DEF LoopInv, TypeOK
<1>6. ReceiptFits(n)
  BY <1>2, RevisionIs DEF ReceiptFits, Stands, Before, Ambiguous, ApprovedCommit
<1>7. Answers(p)
  <2>1. job'[p].pc \notin RevisionPc /\ job'[p].pc \notin Making
    BY <1>5, PlacesAre
  <2>2. Stands(n) \in After /\ n.state # "NONE" /\ rc.state # "NONE"
    BY <1>2, RevisionIs DEF Stands, After, Resumable
  <2>3. TreesFit(job[p].round, n)
    BY <1>2, RevisionIs DEF TreesFit
  <2> QED
    BY <1>2, <1>4, <1>6, <2>1, <2>2, <2>3, RevisionIs DEF Answers, rest, Mine
<1> QED
  BY <1>3, <1>4, <1>5, <1>7, RevisionIs, RevisionKeeps, Counted, WorldIs DEF rest

\* A process that leaves for a retry: the receipt remembers where it stands, and a
\* turn whose outcome nobody recorded is lost.
LEMMA RetryKeeps ==
  ASSUME LoopInv, NEW p \in Procs, job[p].pc \in RevisionPc, Retry(p), Leave(p),
         lost' = lost \/ LoseTurn(p),
         UNCHANGED <<reviewing, bundle, slipped>>,
         world' \in World, world'.worktree = world.worktree,
         faults' \in 0..MaxFaults, interference' \in 0..MaxInterference
  PROVE  LoopInv'
<1> DEFINE rc == Mine(p)
           n == [rc EXCEPT !.state = "RETRYABLE", !.resume = rc.state]
<1>1. job[p].round \in Revisions /\ rc \in RevisionReceipt /\ rc.state \in Resumable
  BY RevisionIs
<1>2. /\ n \in RevisionReceipt /\ n.state = "RETRYABLE" /\ n.resume = rc.state /\ n.head = rc.head
      /\ n.verified = rc.verified /\ n.reviewed = rc.reviewed
      /\ n.approved = rc.approved /\ n.commit = rc.commit
  BY <1>1 DEF RevisionReceipt
<1>3. Keep(p, n) /\ Release(p) /\ GoTo(p, "idle")
  BY DEF Retry, Leave
<1>4. /\ revision' \in [Revisions -> RevisionReceipt] /\ revision'[job[p].round] = n
      /\ \A s \in Revisions \ {job[p].round} : revision'[s] = revision[s]
  BY <1>1, <1>2, <1>3, Kept
<1> HIDE DEF n
<1>5. job' \in [Procs -> Work] /\ Others(p) /\ job'[p].pc = "idle"
  BY <1>3, Going, PlacesAre DEF LoopInv, TypeOK
<1>6. Stands(n) = rc.state /\ Stands(rc) = rc.state /\ n.state # "NONE" /\ rc.state # "NONE"
  BY <1>1, <1>2 DEF Stands, Resumable
<1>7. ReceiptFits(n)
  BY <1>1, <1>2, <1>6, RevisionIs DEF ReceiptFits, ApprovedCommit, Resumable
<1>8. Answers(p)
  <2>1. job'[p].pc \notin RevisionPc /\ job'[p].pc \notin Making
    BY <1>5, PlacesAre
  <2>2. TreesFit(job[p].round, n)
    BY <1>2, RevisionIs DEF TreesFit
  <2>3. \A s \in lost' : s = job[p].round \/ s \in lost
    BY DEF LoseTurn
  <2>4. job[p].round \in lost' => rc.state \in Ambiguous
    BY RevisionIs DEF LoseTurn, InTurn, StepFits
  <2> QED
    BY <1>2, <1>4, <1>6, <1>7, <2>1, <2>2, <2>3, <2>4, RevisionIs DEF Answers, Mine
<1> QED
  BY <1>3, <1>4, <1>5, <1>8, RevisionIs, RevisionKeeps

LEMMA RevisionTroubleKeeps ==
  ASSUME LoopInv, NEW p \in Procs, RevisionTrouble(p), Fault
  PROVE  LoopInv'
BY RetryKeeps, Counted, WorldIs DEF RevisionTrouble

\* A push moves nothing but the remote.
LEMMA Pushed ==
  ASSUME LoopInv, NEW c \in Commit, world' = [world EXCEPT !.remote = c]
  PROVE  world' \in World /\ world'.worktree = world.worktree
BY WorldIs DEF World

LEMMA AnswerLostKeeps ==
  ASSUME LoopInv, NEW p \in Procs, AnswerLost(p), Fault
  PROVE  LoopInv'
<1>1. job[p].pc \in RevisionPc /\ job[p].commit \in Commit
  BY PlacesAre DEF AnswerLost, LoopInv, TypeOK, Work
<1>2. world' \in World /\ world'.worktree = world.worktree
  BY <1>1, Pushed DEF AnswerLost
<1> QED
  BY <1>1, <1>2, RetryKeeps, Counted DEF AnswerLost

LEMMA CrashKeeps ==
  ASSUME LoopInv, NEW p \in Procs, Crash(p)
  PROVE  LoopInv'
<1>1. /\ Orphan(p) /\ GoTo(p, "idle") /\ LoseTurn(p) /\ UNCHANGED <<reviewing, bundle, revision, slipped>>
      /\ faults' \in 0..MaxFaults /\ interference' \in 0..MaxInterference
  BY Counted DEF Crash
<1>2. CASE job[p].pc \in RevisionPc
  <2>1. job[p].commit \in Commit
    BY DEF LoopInv, TypeOK, Work
  <2>2. world' \in World /\ world'.worktree = world.worktree
    BY <2>1, Pushed, WorldIs DEF Crash
  <2>3. /\ revision' \in [Revisions -> RevisionReceipt] /\ revision'[job[p].round] = Mine(p)
        /\ \A s \in Revisions \ {job[p].round} : revision'[s] = revision[s]
    BY <1>1 DEF LoopInv, TypeOK, Mine
  <2>4. job' \in [Procs -> Work] /\ Others(p) /\ job'[p].pc = "idle"
    BY <1>1, Going, PlacesAre DEF LoopInv, TypeOK
  <2>5. Answers(p)
    <3>1. job'[p].pc \notin RevisionPc /\ job'[p].pc \notin Making
      BY <2>4, PlacesAre
    <3>2. \A s \in lost' : s = job[p].round \/ s \in lost
      BY <1>1 DEF LoseTurn
    <3>3. job[p].round \in lost' => Mine(p).state \in Ambiguous
      BY <1>1, <1>2, RevisionIs DEF LoseTurn, InTurn, StepFits
    <3>4. Mine(p).state # "NONE"
      BY <1>2, RevisionIs DEF Resumable
    <3> QED
      BY <1>2, <2>3, <3>1, <3>2, <3>3, <3>4, RevisionIs DEF Answers, Mine
  <2> QED
    BY <1>1, <1>2, <2>2, <2>3, <2>4, <2>5, RevisionIs, RevisionKeeps
<1>3. CASE job[p].pc \notin RevisionPc
  <2>1. lost' = lost /\ world' = world
    BY <1>1, <1>3 DEF Crash, LoseTurn, InTurn, RevisionPc
  <2> QED
    BY <1>1, <2>1, LeaveKeeps DEF revising
<1> QED
  BY <1>2, <1>3

\* A process that goes on in its revision.
LEMMA AdvanceKeeps ==
  ASSUME LoopInv, NEW p \in Procs, job[p].pc \in RevisionPc,
         job' \in [Procs -> Work], Others(p), job'[p].pc \in RevisionPc, job'[p].round = job[p].round,
         NEW n \in RevisionReceipt, Keep(p, n) \/ (revision' = revision /\ n = Mine(p)),
         UNCHANGED <<reviewing, bundle, locks, lost, slipped, counts>>,
         world' \in World, world'.worktree = world.worktree \/ job[p].pc \in Making,
         n.head = Mine(p).head, n.state \in Resumable,
         Mine(p).state \in After => n.state \in After /\ n.commit = Mine(p).commit,
         ReceiptFits(n), StepFits(job'[p], n), TreesFit(job[p].round, n),
         job'[p].pc \in Making => SetFits(job'[p], n, world'.worktree)
  PROVE  LoopInv'
<1>1. /\ revision' \in [Revisions -> RevisionReceipt] /\ revision'[job[p].round] = n
      /\ \A s \in Revisions \ {job[p].round} : revision'[s] = revision[s]
  BY Kept, RevisionIs
<1>2. Stands(n) = n.state /\ n.state # "NONE"
  BY DEF Stands, Resumable
<1>3. Answers(p)
  BY <1>1, <1>2, RevisionIs DEF Answers, Mine, Resumable
<1>4. job'[p].pc # "idle"
  BY PlacesAre
<1> QED
  BY <1>1, <1>3, <1>4, RevisionIs, RevisionKeeps, Counted

\* A process that only changes place: its receipt fits there as well.
LEMMA ProceedKeeps ==
  ASSUME LoopInv, NEW p \in Procs, job[p].pc \in RevisionPc,
         job' \in [Procs -> Work], Others(p), job'[p].pc \in RevisionPc, job'[p].round = job[p].round,
         UNCHANGED <<rest, revision, locks, counts>>,
         StepFits(job'[p], Mine(p)),
         job'[p].pc \in Making => SetFits(job'[p], Mine(p), world.worktree)
  PROVE  LoopInv'
<1>1. /\ Mine(p) \in RevisionReceipt /\ Mine(p).state \in Resumable
      /\ ReceiptFits(Mine(p)) /\ TreesFit(job[p].round, Mine(p))
  BY RevisionIs
<1>2. UNCHANGED <<reviewing, bundle, locks, lost, slipped, counts>> /\ revision' = revision /\ world' = world
  BY DEF rest
<1> QED
  BY <1>1, <1>2, AdvanceKeeps, WorldIs

\* A process that takes a change set along.
LEMMA CarryingSet ==
  ASSUME LoopInv, NEW p \in Procs, NEW pc \in Places, NEW t \in Trees,
         job' = [job EXCEPT ![p].pc = pc, ![p].set = t]
  PROVE  /\ job' \in [Procs -> Work] /\ Others(p)
         /\ job'[p].pc = pc /\ job'[p].set = t /\ job'[p].round = job[p].round
         /\ job'[p].commit = job[p].commit
<1>1. job \in [Procs -> Work] /\ job[p] \in Work
  BY DEF LoopInv, TypeOK
<1> DEFINE j == [job[p] EXCEPT !.pc = pc, !.set = t]
<1>2. /\ j \in Work /\ j.pc = pc /\ j.set = t /\ j.round = job[p].round
      /\ j.commit = job[p].commit
  BY <1>1 DEF Work
<1>3. job' = [job EXCEPT ![p] = j]
  BY <1>1
<1> QED
  BY <1>1, <1>2, <1>3 DEF Others

LEMMA RefuseRevisionKeeps ==
  ASSUME LoopInv, NEW p \in Procs, RefuseRevision(p), UNCHANGED counts
  PROVE  LoopInv'
BY LeaveKeeps, Counted DEF RefuseRevision, Leave, rest, revising

LEMMA BeginRevisionKeeps ==
  ASSUME LoopInv, NEW p \in Procs, BeginRevision(p), UNCHANGED counts
  PROVE  LoopInv'
<1>1. job[p].pc = "source" /\ job[p].pc \in RevisionHeld /\ job[p].round \in Revisions
  BY DEF BeginRevision, RevisionHeld, LoopInv, Holding, Holds
<1>2. /\ Mine(p) \in RevisionReceipt /\ ReceiptFits(Mine(p)) /\ TreesFit(job[p].round, Mine(p))
      /\ bundle[job[p].round].head \in Commit
  BY <1>1, Numbers DEF LoopInv, TypeOK, RevisionsFit, ContentFits, Mine, Bundle
<1>3. ASSUME AtBoundary(bundle[job[p].round].head)
      PROVE  LoopInv'
  <2> DEFINE rc == Mine(p)
             n == [rc EXCEPT !.state = "READY_TO_REVISE", !.head = bundle[job[p].round].head]
  <2>1. /\ n \in RevisionReceipt /\ n.state = "READY_TO_REVISE"
        /\ n.head = bundle[job[p].round].head
        /\ n.verified = rc.verified /\ n.reviewed = rc.reviewed
        /\ n.approved = rc.approved /\ n.commit = rc.commit
    BY <1>2 DEF RevisionReceipt, Resumable
  <2>2. Keep(p, n) /\ GoTo(p, "implement") /\ locks' = locks /\ UNCHANGED rest
    BY <1>3 DEF BeginRevision, Proceed
  <2>3. /\ revision' \in [Revisions -> RevisionReceipt] /\ revision'[job[p].round] = n
        /\ \A s \in Revisions \ {job[p].round} : revision'[s] = revision[s]
    BY <1>1, <2>1, <2>2, Kept
  <2> HIDE DEF n
  <2>4. /\ job' \in [Procs -> Work] /\ Others(p) /\ job'[p].pc = "implement"
        /\ job'[p].round = job[p].round
    BY <2>2, Going, PlacesAre DEF LoopInv, TypeOK, Making
  <2>5. job'[p].pc \in RevisionPc /\ job'[p].pc # "idle"
    BY <2>4, PlacesAre DEF Making
  <2>6. rc.state = "NONE" /\ Stands(rc) = "NONE" /\ Stands(n) = "READY_TO_REVISE"
    BY <2>1 DEF BeginRevision, Stands
  <2>7. rc.approved = "none" /\ rc.commit = None
    BY <1>2, <2>6 DEF ReceiptFits, Before
  <2>8. ReceiptFits(n)
    BY <2>1, <2>6, <2>7 DEF ReceiptFits, Before
  <2>9. job[p].round \notin lost
    BY <2>6 DEF LoopInv, LostFits, Mine, Ambiguous
  <2>10. Answers(p)
    <3>1. StepFits(job'[p], n)
      BY <2>1, <2>4 DEF StepFits, Before
    <3>2. SetFits(job'[p], n, world'.worktree)
      BY <2>4 DEF SetFits
    <3>3. TreesFit(job[p].round, n)
      BY <1>2, <2>1 DEF TreesFit
    <3>4. review[job[p].round].state = "REVISION_REQUESTED" /\ bundle[job[p].round].head # None
      BY DEF BeginRevision, SourceSealed
    <3> QED
      BY <2>1, <2>2, <2>3, <2>4, <2>6, <2>8, <2>9, <3>1, <3>2, <3>3, <3>4
         DEF Answers, Mine, After, rest
  <2> QED
    BY <1>1, <2>2, <2>3, <2>4, <2>5, <2>10, RevisionKeeps, Counted, WorldIs DEF rest
<1>4. ASSUME ~AtBoundary(bundle[job[p].round].head)
      PROVE  LoopInv'
  BY <1>4, LeaveKeeps, Counted DEF BeginRevision, Leave, rest, revising
<1> QED
  BY <1>3, <1>4

LEMMA ResumeRevisionKeeps ==
  ASSUME LoopInv, NEW p \in Procs, ResumeRevision(p), UNCHANGED counts
  PROVE  LoopInv'
<1> DEFINE rc == Mine(p)
           state == Stands(rc)
           n == [rc EXCEPT !.state = state, !.resume = "none"]
<1>1. job[p].pc = "source" /\ job[p].pc \in RevisionHeld /\ job[p].round \in Revisions
  BY DEF ResumeRevision, RevisionHeld, LoopInv, Holding, Holds
<1>2. rc \in RevisionReceipt /\ ReceiptFits(rc) /\ TreesFit(job[p].round, rc)
  BY <1>1, Numbers DEF LoopInv, TypeOK, RevisionsFit, ContentFits, Mine
<1>3. /\ state \in Resumable \ Ambiguous /\ rc.state # "NONE"
      /\ Keep(p, n) /\ GoTo(p, ResumesAt(state)) /\ locks' = locks /\ UNCHANGED rest
  BY <1>2 DEF ResumeRevision, Proceed, Stands, Replayable, ReceiptFits, RevisionReceipt
<1>4. /\ n \in RevisionReceipt /\ n.state = state /\ n.head = rc.head
      /\ n.verified = rc.verified /\ n.reviewed = rc.reviewed
      /\ n.approved = rc.approved /\ n.commit = rc.commit
  BY <1>2, <1>3 DEF RevisionReceipt
<1>5. /\ revision' \in [Revisions -> RevisionReceipt] /\ revision'[job[p].round] = n
      /\ \A s \in Revisions \ {job[p].round} : revision'[s] = revision[s]
  BY <1>1, <1>3, <1>4, Kept
<1> HIDE DEF n
<1>6. \/ /\ state \in {"READY_TO_REVISE", "POLICY_CHECKING"}
         /\ ResumesAt(state) \in {"implement", "policy"}
      \/ state \in {"READY_FOR_PUBLISH", "COMMITTED"} /\ ResumesAt(state) = "publish"
      \/ state = "PUSHED" /\ ResumesAt(state) = "attest_pushed"
  BY <1>3 DEF ResumesAt, Resumable, Ambiguous
<1>7. ResumesAt(state) \in RevisionPc /\ ResumesAt(state) \in Places /\ ResumesAt(state) # "idle"
  BY <1>6 DEF RevisionPc, Places
<1>8. /\ job' \in [Procs -> Work] /\ Others(p) /\ job'[p].pc = ResumesAt(state)
      /\ job'[p].round = job[p].round
  BY <1>3, <1>7, Going DEF LoopInv, TypeOK
<1>9. Stands(n) = state /\ n.state # "NONE"
  BY <1>3, <1>4 DEF Stands, Resumable
<1>10. ReceiptFits(n)
  BY <1>2, <1>3, <1>4, <1>9 DEF ReceiptFits, ApprovedCommit, Resumable
<1>11. job[p].round \notin lost
  BY <1>1, <1>3 DEF LoopInv, LostFits, Mine
<1>12. Answers(p)
  <2>1. StepFits(job'[p], n)
    BY <1>4, <1>6, <1>8 DEF StepFits, Making, Before
  <2>2. SetFits(job'[p], n, world'.worktree)
    BY <1>6, <1>8 DEF SetFits
  <2>3. TreesFit(job[p].round, n)
    BY <1>2, <1>4 DEF TreesFit
  <2> QED
    BY <1>3, <1>4, <1>5, <1>8, <1>9, <1>10, <1>11, <2>1, <2>2, <2>3 DEF Answers, Mine, rest
<1> QED
  BY <1>1, <1>3, <1>5, <1>7, <1>8, <1>12, RevisionKeeps, Counted, WorldIs DEF rest

\* A turn that is paid for, or the end of a revision that has none left.
LEMMA ReserveKeeps ==
  ASSUME LoopInv, NEW p \in Procs, job[p].pc \in Making,
         NEW state \in Ambiguous, NEW pc \in {"turn", "review"},
         Reserve(p, state, pc), UNCHANGED <<rest, counts>>,
         pc = "review" => job[p].pc = "before_review" /\ job[p].set = world.worktree
  PROVE  LoopInv'
<1>1. job[p].pc \in RevisionPc
  BY PlacesAre
<1>2. ASSUME Mine(p).turns < MaxTurns
      PROVE  LoopInv'
  <2> DEFINE rc == Mine(p)
             v == IF pc = "turn" THEN "none" ELSE job[p].set
             t == rc.turns + 1
             n == [rc EXCEPT !.state = state, !.turns = t, !.verified = v]
  <2>1. rc \in RevisionReceipt /\ job[p].set \in Trees /\ rc.state \in Before \ {"NONE"}
    BY <1>1, RevisionIs DEF Work, StepFits
  <2>2. /\ v \in Trees \cup {"none"} /\ t \in 0..MaxTurns
        /\ pc = "turn" => v = "none"
        /\ pc = "review" => v = job[p].set
    BY <1>2, <2>1, RevisionAssumption DEF RevisionReceipt
  <2>3. Keep(p, n) /\ GoTo(p, pc) /\ locks' = locks /\ UNCHANGED rest
    BY <1>2 DEF Reserve, Proceed
  <2> HIDE DEF v, t
  <2>4. /\ n \in RevisionReceipt /\ n.state = state /\ n.head = rc.head
        /\ n.verified = v /\ n.reviewed = rc.reviewed
        /\ n.approved = rc.approved /\ n.commit = rc.commit
    BY <2>1, <2>2 DEF RevisionReceipt, Resumable, Ambiguous
  <2> HIDE DEF n
  <2>5. Keep(p, n) /\ GoTo(p, pc) /\ locks' = locks /\ UNCHANGED rest
    BY <2>3
  <2>6. pc \in Making /\ pc \in RevisionPc /\ pc \in Places /\ pc # "idle"
    BY DEF Making, RevisionPc, Places
  <2>7. /\ job' \in [Procs -> Work] /\ Others(p) /\ job'[p].pc = pc
        /\ job'[p].round = job[p].round /\ job'[p].set = job[p].set
    BY <2>5, <2>6, Going DEF LoopInv, TypeOK
  <2>8. Stands(rc) = rc.state /\ Stands(n) = state /\ rc.state \notin After /\ state \in Resumable
    BY <2>1, <2>4 DEF Stands, Before, Ambiguous, After, Resumable
  <2>9. ReceiptFits(n)
    BY <1>1, <2>1, <2>4, <2>8, RevisionIs DEF ReceiptFits, Before, Ambiguous, ApprovedCommit
  <2>10. StepFits(job'[p], n)
    BY <2>4, <2>7 DEF StepFits, Before, Ambiguous
  <2>11. TreesFit(job[p].round, n)
    BY <1>1, <2>1, <2>2, <2>4, RevisionIs DEF TreesFit, SetFits
  <2>12. SetFits(job'[p], n, world.worktree)
    BY <2>7 DEF SetFits
  <2> QED
    BY <1>1, <2>4, <2>5, <2>6, <2>7, <2>8, <2>9, <2>10, <2>11, <2>12, AdvanceKeeps, WorldIs DEF rest
<1>3. ASSUME ~(Mine(p).turns < MaxTurns)
      PROVE  LoopInv'
  BY <1>1, <1>3, StopKeeps DEF Reserve
<1> QED
  BY <1>2, <1>3

LEMMA ImplementKeeps ==
  ASSUME LoopInv, NEW p \in Procs, Implement(p), UNCHANGED counts
  PROVE  LoopInv'
<1>1. job[p].pc \in Making /\ "IMPLEMENTING" \in Ambiguous
  BY DEF Implement, Making, Ambiguous
<1> QED
  BY <1>1, ReserveKeeps DEF Implement

LEMMA TurnKeeps ==
  ASSUME LoopInv, NEW p \in Procs, Turn(p), UNCHANGED counts
  PROVE  LoopInv'
<1>1. job[p].pc = "turn" /\ job[p].pc \in Making /\ job[p].pc \in RevisionPc
  BY DEF Turn, Making, RevisionPc
<1>2. ASSUME NEW t \in Trees, world' = [world EXCEPT !.worktree = t], Proceed(p, "policy"),
             UNCHANGED revision
      PROVE  LoopInv'
  <2>1. /\ job' \in [Procs -> Work] /\ Others(p) /\ job'[p].pc = "policy"
        /\ job'[p].round = job[p].round
    BY <1>2, Going, PlacesAre DEF LoopInv, TypeOK, Proceed, Making
  <2>2. world' \in World
    BY <1>2, WorldIs DEF World
  <2>3. job'[p].pc \in RevisionPc /\ StepFits(job'[p], Mine(p))
    BY <1>1, <2>1, RevisionIs DEF RevisionPc, StepFits, Making
  <2>4. SetFits(job'[p], Mine(p), world'.worktree)
    BY <2>1 DEF SetFits
  <2> QED
    BY <1>1, <1>2, <2>1, <2>2, <2>3, <2>4, RevisionIs, AdvanceKeeps DEF Turn, Proceed
<1>3. ASSUME Stop(p), UNCHANGED world
      PROVE  LoopInv'
  BY <1>1, <1>3, StopKeeps DEF Turn, rest
<1> QED
  BY <1>2, <1>3 DEF Turn

\* Reaching a state of the receipt that the next place goes with.
LEMMA ReachKeeps ==
  ASSUME LoopInv, NEW p \in Procs, job[p].pc \in RevisionPc,
         job' \in [Procs -> Work], Others(p), job'[p].pc \in RevisionPc, job'[p].round = job[p].round,
         NEW state \in Resumable, Reach(p, state), UNCHANGED <<rest, locks, counts>>,
         (job[p].pc \in Making /\ state \in Before) \/ (Mine(p).state = "COMMITTED" /\ state = "PUSHED"),
         StepFits(job'[p], [Mine(p) EXCEPT !.state = state]),
         job'[p].pc \in Making => SetFits(job'[p], Mine(p), world.worktree)
  PROVE  LoopInv'
<1> DEFINE rc == Mine(p)
           n == [rc EXCEPT !.state = state]
<1>1. rc \in RevisionReceipt
  BY RevisionIs
<1>2. /\ n \in RevisionReceipt /\ n.state = state /\ n.head = rc.head
      /\ n.verified = rc.verified /\ n.reviewed = rc.reviewed
      /\ n.approved = rc.approved /\ n.commit = rc.commit
  BY <1>1 DEF RevisionReceipt
<1>3. Keep(p, n) /\ StepFits(job'[p], n)
  BY DEF Reach
<1> HIDE DEF n
<1>4. Stands(rc) = rc.state /\ Stands(n) = state
  BY <1>2, RevisionIs DEF Stands, Resumable
<1>5. job[p].pc \in Making => rc.state \in Before
  BY RevisionIs DEF StepFits
<1>6. ReceiptFits(n)
  BY <1>2, <1>4, <1>5, RevisionIs DEF ReceiptFits, ApprovedCommit, Before, Ambiguous
<1>7. TreesFit(job[p].round, n)
  BY <1>2, RevisionIs DEF TreesFit
<1>8. job'[p].pc \in Making => SetFits(job'[p], n, world.worktree)
  BY <1>2 DEF SetFits
<1>9. rc.state \in After => state \in After
  BY <1>5 DEF After, Before, Ambiguous
<1> QED
  BY <1>2, <1>3, <1>6, <1>7, <1>8, <1>9, AdvanceKeeps, WorldIs DEF rest

\* The receipt of a process that makes a revision, with another state.
LEMMA MakingFits ==
  ASSUME LoopInv, NEW p \in Procs, job[p].pc \in RevisionPc, NEW state \in Resumable, NEW j \in Work
  PROVE  /\ [Mine(p) EXCEPT !.state = state].state = state
         /\ j.pc \in Making \ {"turn", "review"} /\ state \in Before =>
              StepFits(j, [Mine(p) EXCEPT !.state = state])
         /\ j.pc \in {"attest_pushed", "package", "finish"} /\ state = "PUSHED" =>
              StepFits(j, [Mine(p) EXCEPT !.state = state])
<1>1. [Mine(p) EXCEPT !.state = state].state = state /\ state # "NONE"
  BY RevisionIs DEF RevisionReceipt, Resumable
<1>2. \A pc \in Making : pc \notin {"publish", "record_commit", "remote", "push", "confirm",
                                     "attest_pushed", "package", "finish"}
  BY DEF Making
<1> QED
  BY <1>1, <1>2 DEF StepFits, Making

LEMMA CheckPolicyKeeps ==
  ASSUME LoopInv, NEW p \in Procs, CheckPolicy(p), UNCHANGED counts
  PROVE  LoopInv'
<1>1. job[p].pc = "policy" /\ job[p].pc \in Making /\ job[p].pc \in RevisionPc
  BY DEF CheckPolicy, Making, RevisionPc
<1>2. ASSUME world.head = Mine(p).head
      PROVE  LoopInv'
  <2>1. Reach(p, "POLICY_CHECKING") /\ Proceed(p, "changes") /\ UNCHANGED rest
    BY <1>2 DEF CheckPolicy
  <2>2. /\ job' \in [Procs -> Work] /\ Others(p) /\ job'[p].pc = "changes"
        /\ job'[p].round = job[p].round
    BY <2>1, Going, PlacesAre DEF LoopInv, TypeOK, Proceed, Making
  <2>3. /\ "POLICY_CHECKING" \in Resumable /\ "POLICY_CHECKING" \in Before
        /\ job'[p].pc \in Making \ {"turn", "review"} /\ job'[p].pc \in RevisionPc
    BY <2>2 DEF Resumable, Before, Making, RevisionPc
  <2>4. StepFits(job'[p], [Mine(p) EXCEPT !.state = "POLICY_CHECKING"])
    BY <1>1, <2>2, <2>3, MakingFits
  <2>5. SetFits(job'[p], Mine(p), world.worktree)
    BY <2>2 DEF SetFits
  <2> QED
    BY <1>1, <2>1, <2>2, <2>3, <2>4, <2>5, ReachKeeps DEF Proceed
<1>3. ASSUME world.head # Mine(p).head
      PROVE  LoopInv'
  BY <1>1, <1>3, StopKeeps DEF CheckPolicy
<1> QED
  BY <1>2, <1>3

LEMMA ComputeChangesKeeps ==
  ASSUME LoopInv, NEW p \in Procs, ComputeChanges(p), UNCHANGED counts
  PROVE  LoopInv'
<1>1. job[p].pc = "changes" /\ job[p].pc \in Making /\ job[p].pc \in RevisionPc
  BY DEF ComputeChanges, Making, RevisionPc
<1>2. ASSUME ChangeSet(p)
      PROVE  LoopInv'
  <2>1. /\ Reach(p, "VERIFYING") /\ locks' = locks /\ UNCHANGED rest
        /\ job' = [job EXCEPT ![p].pc = "verify", ![p].set = world.worktree]
    BY <1>2 DEF ComputeChanges
  <2>2. /\ job' \in [Procs -> Work] /\ Others(p) /\ job'[p].pc = "verify"
        /\ job'[p].round = job[p].round
    BY <2>1, CarryingSet, WorldIs, PlacesAre DEF Making
  <2>3. /\ "VERIFYING" \in Resumable /\ "VERIFYING" \in Before
        /\ job'[p].pc \in Making \ {"turn", "review"} /\ job'[p].pc \in RevisionPc
    BY <2>2 DEF Resumable, Before, Ambiguous, Making, RevisionPc
  <2>4. StepFits(job'[p], [Mine(p) EXCEPT !.state = "VERIFYING"])
    BY <1>1, <2>2, <2>3, MakingFits
  <2>5. SetFits(job'[p], Mine(p), world.worktree)
    BY <2>2 DEF SetFits
  <2> QED
    BY <1>1, <2>1, <2>2, <2>3, <2>4, <2>5, ReachKeeps
<1>3. ASSUME ~ChangeSet(p)
      PROVE  LoopInv'
  BY <1>1, <1>3, StopKeeps DEF ComputeChanges
<1> QED
  BY <1>2, <1>3

LEMMA VerifyKeeps ==
  ASSUME LoopInv, NEW p \in Procs, Verify(p), UNCHANGED counts
  PROVE  LoopInv'
<1>1. job[p].pc = "verify" /\ job[p].pc \in Making /\ job[p].pc \in RevisionPc
  BY DEF Verify, Making, RevisionPc
<1>2. ASSUME world.worktree \notin Passing
      PROVE  LoopInv'
  <2>1. "VERIFYING" \in Ambiguous
    BY DEF Ambiguous
  <2> QED
    BY <1>1, <1>2, <2>1, ReserveKeeps DEF Verify
<1>3. ASSUME world.worktree \in Passing
      PROVE  LoopInv'
  <2>1. Proceed(p, "measure") /\ UNCHANGED <<rest, revision>>
    BY <1>3 DEF Verify
  <2>2. /\ job' \in [Procs -> Work] /\ Others(p) /\ job'[p].pc = "measure"
        /\ job'[p].round = job[p].round
    BY <2>1, Going, PlacesAre DEF LoopInv, TypeOK, Proceed, Making
  <2>3. job'[p].pc \in RevisionPc /\ StepFits(job'[p], Mine(p))
    BY <1>1, <2>2, RevisionIs DEF RevisionPc, StepFits, Making
  <2>4. SetFits(job'[p], Mine(p), world.worktree)
    BY <1>3, <2>2 DEF SetFits, Verified
  <2> QED
    BY <1>1, <2>1, <2>2, <2>3, <2>4, ProceedKeeps DEF Proceed
<1> QED
  BY <1>2, <1>3

LEMMA MeasureKeeps ==
  ASSUME LoopInv, NEW p \in Procs, Measure(p), UNCHANGED counts
  PROVE  LoopInv'
<1>1. job[p].pc = "measure" /\ job[p].pc \in Making /\ job[p].pc \in RevisionPc
  BY DEF Measure, Making, RevisionPc
<1>2. ASSUME ChangeSet(p)
      PROVE  LoopInv'
  <2>1. /\ UNCHANGED <<rest, revision, locks>>
        /\ job' = [job EXCEPT ![p].pc = "before_review", ![p].set = world.worktree]
    BY <1>2 DEF Measure
  <2>2. /\ job' \in [Procs -> Work] /\ Others(p) /\ job'[p].pc = "before_review"
        /\ job'[p].round = job[p].round /\ job'[p].set = world.worktree
    BY <2>1, CarryingSet, WorldIs, PlacesAre DEF Making
  <2>3. job'[p].pc \in RevisionPc /\ StepFits(job'[p], Mine(p))
    BY <1>1, <2>2, RevisionIs DEF RevisionPc, StepFits, Making
  <2>4. SetFits(job'[p], Mine(p), world.worktree)
    BY <1>1, <2>2, RevisionIs DEF SetFits
  <2> QED
    BY <1>1, <2>1, <2>2, <2>3, <2>4, ProceedKeeps
<1>3. ASSUME ~ChangeSet(p)
      PROVE  LoopInv'
  BY <1>1, <1>3, StopKeeps DEF Measure
<1> QED
  BY <1>2, <1>3

LEMMA BeginReviewKeeps ==
  ASSUME LoopInv, NEW p \in Procs, BeginReview(p), UNCHANGED counts
  PROVE  LoopInv'
<1>1. job[p].pc = "before_review" /\ job[p].pc \in Making /\ job[p].pc \in RevisionPc
  BY DEF BeginReview, Making, RevisionPc
<1>2. ASSUME Unchanged(p)
      PROVE  LoopInv'
  <2>1. "REVIEWING" \in Ambiguous
    BY DEF Ambiguous
  <2> QED
    BY <1>1, <1>2, <2>1, ReserveKeeps DEF BeginReview, Unchanged
<1>3. ASSUME ~Unchanged(p)
      PROVE  LoopInv'
  BY <1>1, <1>3, StopKeeps DEF BeginReview
<1> QED
  BY <1>2, <1>3

LEMMA ReviewTurnKeeps ==
  ASSUME LoopInv, NEW p \in Procs, ReviewTurn(p), UNCHANGED counts
  PROVE  LoopInv'
<1>1. job[p].pc = "review" /\ job[p].pc \in Making /\ job[p].pc \in RevisionPc
  BY DEF ReviewTurn, Making, RevisionPc
<1>2. ASSUME NEW pc \in {"approved", "rejected"}, Proceed(p, pc), UNCHANGED <<rest, revision>>,
             pc = "approved" => world.worktree \in Acceptable
      PROVE  LoopInv'
  <2>1. pc \in Making \ {"turn", "review"} /\ pc \in RevisionPc /\ pc \in Places /\ pc # "idle"
    BY DEF Making, RevisionPc, Places
  <2>2. /\ job' \in [Procs -> Work] /\ Others(p) /\ job'[p].pc = pc
        /\ job'[p].round = job[p].round /\ job'[p].set = job[p].set
    BY <1>2, <2>1, Going DEF LoopInv, TypeOK, Proceed
  <2>3. StepFits(job'[p], Mine(p))
    BY <1>1, <2>2, RevisionIs DEF StepFits, Making
  <2>4. SetFits(job'[p], Mine(p), world.worktree)
    BY <1>1, <1>2, <2>2, RevisionIs DEF SetFits, Reviewed
  <2> QED
    BY <1>1, <1>2, <2>1, <2>2, <2>3, <2>4, ProceedKeeps DEF Proceed
<1>3. ASSUME Stop(p), UNCHANGED rest
      PROVE  LoopInv'
  BY <1>1, <1>3, StopKeeps
<1> QED
  BY <1>2, <1>3 DEF ReviewTurn

LEMMA RecordReviewKeeps ==
  ASSUME LoopInv, NEW p \in Procs, RecordReview(p), UNCHANGED counts
  PROVE  LoopInv'
<1>1. job[p].pc \in {"approved", "rejected"} /\ job[p].pc \in Making /\ job[p].pc \in RevisionPc
  BY DEF RecordReview, Making, RevisionPc
<1>2. ASSUME ~Unchanged(p)
      PROVE  LoopInv'
  BY <1>1, <1>2, StopKeeps DEF RecordReview
<1>3. ASSUME Unchanged(p), job[p].pc = "rejected"
      PROVE  LoopInv'
  <2>1. "REVIEWING" \in Ambiguous
    BY DEF Ambiguous
  <2> QED
    BY <1>1, <1>3, <2>1, ReserveKeeps DEF RecordReview
<1>4. ASSUME Unchanged(p), job[p].pc = "approved"
      PROVE  LoopInv'
  <2> DEFINE rc == Mine(p)
             n == [rc EXCEPT !.reviewed = job[p].set]
  <2>1. rc \in RevisionReceipt /\ job[p].set \in Trees
    BY <1>1, RevisionIs DEF Work
  <2>2. /\ n \in RevisionReceipt /\ n.state = rc.state /\ n.head = rc.head
        /\ n.verified = rc.verified /\ n.reviewed = job[p].set /\ n.resume = rc.resume
        /\ n.approved = rc.approved /\ n.commit = rc.commit
    BY <2>1 DEF RevisionReceipt
  <2>3. Keep(p, n) /\ Proceed(p, "final") /\ UNCHANGED rest
    BY <1>4 DEF RecordReview
  <2> HIDE DEF n
  <2>4. /\ job' \in [Procs -> Work] /\ Others(p) /\ job'[p].pc = "final"
        /\ job'[p].round = job[p].round
    BY <2>3, Going, PlacesAre DEF LoopInv, TypeOK, Proceed, Making
  <2>5. job'[p].pc \in RevisionPc /\ StepFits(job'[p], n)
    BY <1>1, <2>2, <2>4, RevisionIs DEF RevisionPc, StepFits, Making
  <2>6. ReceiptFits(n)
    BY <1>1, <2>2, RevisionIs DEF ReceiptFits, Stands, ApprovedCommit
  <2>7. TreesFit(job[p].round, n)
    BY <1>1, <1>4, <2>1, <2>2, RevisionIs DEF TreesFit, SetFits
  <2>8. SetFits(job'[p], n, world.worktree)
    BY <2>4 DEF SetFits
  <2> QED
    BY <1>1, <2>2, <2>3, <2>4, <2>5, <2>6, <2>7, <2>8, RevisionIs, AdvanceKeeps, WorldIs
       DEF rest, Proceed
<1> QED
  BY <1>1, <1>2, <1>3, <1>4

LEMMA CompareFinalKeeps ==
  ASSUME LoopInv, NEW p \in Procs, CompareFinal(p), UNCHANGED counts
  PROVE  LoopInv'
<1>1. job[p].pc = "final" /\ job[p].pc \in Making /\ job[p].pc \in RevisionPc
  BY DEF CompareFinal, Making, RevisionPc
<1>2. ASSUME ChangeSet(p), world.worktree = Mine(p).verified, world.worktree = Mine(p).reviewed
      PROVE  LoopInv'
  <2>1. Proceed(p, "snapshot") /\ UNCHANGED <<rest, revision>>
    BY <1>2 DEF CompareFinal
  <2>2. /\ job' \in [Procs -> Work] /\ Others(p) /\ job'[p].pc = "snapshot"
        /\ job'[p].round = job[p].round
    BY <2>1, Going, PlacesAre DEF LoopInv, TypeOK, Proceed, Making
  <2>3. job'[p].pc \in RevisionPc /\ StepFits(job'[p], Mine(p))
    BY <1>1, <2>2, RevisionIs DEF RevisionPc, StepFits, Making
  <2>4. SetFits(job'[p], Mine(p), world.worktree)
    BY <1>2, <2>2 DEF SetFits
  <2> QED
    BY <1>1, <2>1, <2>2, <2>3, <2>4, ProceedKeeps DEF Proceed
<1>3. ASSUME ~(ChangeSet(p) /\ world.worktree = Mine(p).verified /\ world.worktree = Mine(p).reviewed)
      PROVE  LoopInv'
  BY <1>1, <1>3, StopKeeps DEF CompareFinal
<1> QED
  BY <1>2, <1>3

LEMMA SnapshotKeeps ==
  ASSUME LoopInv, NEW p \in Procs, Snapshot(p), UNCHANGED counts
  PROVE  LoopInv'
<1>1. job[p].pc = "snapshot" /\ job[p].pc \in Making /\ job[p].pc \in RevisionPc
  BY DEF Snapshot, Making, RevisionPc
<1> DEFINE rc == Mine(p)
           n == [rc EXCEPT !.state = "READY_FOR_PUBLISH", !.approved = world.worktree]
<1>2. /\ rc \in RevisionReceipt /\ world.worktree \in Trees /\ world.worktree # "none"
      /\ rc.state \in Before /\ Stands(rc) = rc.state
  BY <1>1, RevisionIs, WorldIs, ReviewAssumption DEF StepFits
<1>3. /\ n \in RevisionReceipt /\ n.state = "READY_FOR_PUBLISH" /\ n.head = rc.head
      /\ n.verified = rc.verified /\ n.reviewed = rc.reviewed
      /\ n.approved = world.worktree /\ n.commit = rc.commit
  BY <1>2 DEF RevisionReceipt, Resumable
<1>4. Keep(p, n) /\ Proceed(p, "publish") /\ UNCHANGED rest
  BY DEF Snapshot
<1> HIDE DEF n
<1>5. /\ job' \in [Procs -> Work] /\ Others(p) /\ job'[p].pc = "publish"
      /\ job'[p].round = job[p].round
  BY <1>4, Going, PlacesAre DEF LoopInv, TypeOK, Proceed
<1>6. job'[p].pc \in RevisionPc /\ job'[p].pc \notin Making /\ StepFits(job'[p], n)
  BY <1>3, <1>5 DEF RevisionPc, StepFits, Making
<1>7. rc.commit = None /\ Stands(n) = "READY_FOR_PUBLISH"
  BY <1>1, <1>2, <1>3, RevisionIs DEF ReceiptFits, Stands
<1>8. ReceiptFits(n)
  BY <1>2, <1>3, <1>7 DEF ReceiptFits, Before, Ambiguous
<1>9. TreesFit(job[p].round, n)
  BY <1>1, <1>2, <1>3, RevisionIs DEF TreesFit, SetFits
<1>10. rc.state \notin After /\ n.state \in Resumable
  BY <1>2, <1>3 DEF Before, Ambiguous, After, Resumable
<1> QED
  BY <1>1, <1>3, <1>4, <1>5, <1>6, <1>8, <1>9, <1>10, AdvanceKeeps, WorldIs DEF rest, Proceed

-----------------------------------------------------------------------------
(* Commit, push and bundle.                                                *)

\* From its approval on, a revision has the one commit it may make.
LEMMA Approved ==
  ASSUME LoopInv, NEW p \in Procs, job[p].pc \in RevisionPc \ Making
  PROVE  /\ Mine(p).approved # "none" /\ ApprovedCommit(Mine(p)) \in Commit
         /\ Mine(p).state \in {"READY_FOR_PUBLISH", "COMMITTED", "PUSHED"}
         /\ Mine(p).state # "READY_FOR_PUBLISH" =>
              Mine(p).commit = ApprovedCommit(Mine(p)) /\ Mine(p).commit # None
<1>1. Mine(p).state \in {"READY_FOR_PUBLISH", "COMMITTED", "PUSHED"}
  BY PlacesAre, RevisionIs DEF StepFits
<1>2. Mine(p).state \notin Before \cup {"BLOCKED"}
  BY <1>1 DEF Before, Ambiguous
<1>3. Mine(p).approved # "none" /\ (Mine(p).state # "READY_FOR_PUBLISH" => Mine(p).commit # None)
  BY <1>1, <1>2, RevisionIs DEF ReceiptFits
<1> QED
  BY <1>1, <1>3, RevisionIs, Commits DEF ReceiptFits

\* The commit a process takes along is the one its revision may make.
LEMMA CommitKeeps ==
  ASSUME LoopInv, NEW p \in Procs, job[p].pc = "publish",
         job' = [job EXCEPT ![p].pc = "record_commit", ![p].commit = ApprovedCommit(Mine(p))],
         UNCHANGED <<reviewing, bundle, revision, locks, lost, slipped, counts>>,
         world' \in World, world'.worktree = world.worktree
  PROVE  LoopInv'
<1>1. job[p].pc \in RevisionPc \ Making /\ "record_commit" \in RevisionPc \ Making
  BY DEF RevisionPc, Making
<1>2. ApprovedCommit(Mine(p)) \in Commit /\ "record_commit" \in Places
  BY <1>1, Approved DEF Places
<1>3. /\ job' \in [Procs -> Work] /\ Others(p) /\ job'[p].pc = "record_commit"
      /\ job'[p].commit = ApprovedCommit(Mine(p)) /\ job'[p].round = job[p].round
  <2> DEFINE c == ApprovedCommit(Mine(p))
             j == [job[p] EXCEPT !.pc = "record_commit", !.commit = c]
  <2>1. job \in [Procs -> Work] /\ job[p] \in Work
    BY DEF LoopInv, TypeOK
  <2>2. c \in Commit
    BY <1>2
  <2> HIDE DEF c
  <2>3. j \in Work /\ j.pc = "record_commit" /\ j.commit = c /\ j.round = job[p].round
    BY <1>2, <2>1, <2>2 DEF Work
  <2>4. job' = [job EXCEPT ![p] = j]
    BY <2>1 DEF c
  <2> QED
    BY <2>1, <2>3, <2>4 DEF Others, c
<1>4. StepFits(job'[p], Mine(p))
  <2>1. Mine(p).state \in {"READY_FOR_PUBLISH", "COMMITTED"}
    BY <1>1, RevisionIs DEF StepFits
  <2> QED
    BY <1>1, <1>3, <2>1 DEF StepFits
<1> QED
  BY <1>1, <1>3, <1>4, RevisionIs, AdvanceKeeps

LEMMA MakeCommitKeeps ==
  ASSUME LoopInv, NEW p \in Procs, MakeCommit(p), UNCHANGED counts
  PROVE  LoopInv'
<1>1. job[p].pc = "publish" /\ job[p].pc \in RevisionPc \ Making
  BY DEF MakeCommit, RevisionPc, Making
<1>2. ASSUME MayCommit(p)
      PROVE  LoopInv'
  <2>1. /\ world' = [world EXCEPT !.head = ApprovedCommit(Mine(p))]
        /\ job' = [job EXCEPT ![p].pc = "record_commit", ![p].commit = ApprovedCommit(Mine(p))]
        /\ UNCHANGED <<revision, locks, reviewing, bundle, lost, slipped>>
    BY <1>2 DEF MakeCommit
  <2>2. world' \in World /\ world'.worktree = world.worktree
    BY <1>1, <2>1, Approved, WorldIs DEF World
  <2> QED
    BY <1>1, <2>1, <2>2, CommitKeeps
<1>3. ASSUME ~MayCommit(p)
      PROVE  LoopInv'
  BY <1>1, <1>3, StopKeeps DEF MakeCommit, rest
<1> QED
  BY <1>2, <1>3

LEMMA AdoptHeadKeeps ==
  ASSUME LoopInv, NEW p \in Procs, AdoptHead(p), UNCHANGED counts
  PROVE  LoopInv'
<1>1. job[p].pc = "publish" /\ job[p].pc \in RevisionPc
  BY DEF AdoptHead, RevisionPc
<1>2. ASSUME world.head = ApprovedCommit(Mine(p)), world.worktree = Mine(p).approved
      PROVE  LoopInv'
  BY <1>1, <1>2, CommitKeeps, WorldIs DEF AdoptHead, rest
<1>3. ASSUME ~(world.head = ApprovedCommit(Mine(p)) /\ world.worktree = Mine(p).approved)
      PROVE  LoopInv'
  BY <1>1, <1>3, StopKeeps DEF AdoptHead
<1> QED
  BY <1>2, <1>3

LEMMA RecordRevisionCommitKeeps ==
  ASSUME LoopInv, NEW p \in Procs, RecordRevisionCommit(p), UNCHANGED counts
  PROVE  LoopInv'
<1>1. job[p].pc = "record_commit" /\ job[p].pc \in RevisionPc \ Making
  BY DEF RecordRevisionCommit, RevisionPc, Making
<1> DEFINE rc == Mine(p)
           n == [rc EXCEPT !.state = "COMMITTED", !.commit = job[p].commit]
<1>2. /\ rc \in RevisionReceipt /\ job[p].commit = ApprovedCommit(rc) /\ job[p].commit \in Commit
      /\ rc.state \in {"READY_FOR_PUBLISH", "COMMITTED"} /\ rc.approved # "none"
  BY <1>1, RevisionIs, Approved DEF StepFits
<1>3. /\ n \in RevisionReceipt /\ n.state = "COMMITTED" /\ n.head = rc.head
      /\ n.verified = rc.verified /\ n.reviewed = rc.reviewed
      /\ n.approved = rc.approved /\ n.commit = ApprovedCommit(rc)
  BY <1>2 DEF RevisionReceipt, Resumable
<1>4. Keep(p, n) /\ Proceed(p, "remote") /\ UNCHANGED rest
  BY DEF RecordRevisionCommit
<1> HIDE DEF n
<1>5. /\ job' \in [Procs -> Work] /\ Others(p) /\ job'[p].pc = "remote"
      /\ job'[p].round = job[p].round /\ job'[p].commit = job[p].commit
  BY <1>4, Going, PlacesAre DEF LoopInv, TypeOK, Proceed
<1>6. job'[p].pc \in RevisionPc /\ job'[p].pc \notin Making /\ StepFits(job'[p], n)
  <2>1. ApprovedCommit(n) = ApprovedCommit(rc)
    BY <1>3 DEF ApprovedCommit
  <2> QED
    BY <1>2, <1>3, <1>5, <2>1 DEF RevisionPc, StepFits, Making
<1>7. ReceiptFits(n)
  <2>1. Stands(n) = "COMMITTED" /\ ApprovedCommit(n) = ApprovedCommit(rc)
    BY <1>3 DEF Stands, ApprovedCommit
  <2>2. ApprovedCommit(rc) # None
    BY <1>2, Commits
  <2> QED
    BY <1>2, <1>3, <2>1, <2>2 DEF ReceiptFits, Before, Ambiguous
<1>8. TreesFit(job[p].round, n)
  BY <1>1, <1>3, RevisionIs DEF TreesFit
<1>9. rc.state \notin After /\ n.state \in Resumable
  BY <1>2, <1>3 DEF After, Resumable
<1> QED
  BY <1>1, <1>3, <1>4, <1>5, <1>6, <1>7, <1>8, <1>9, AdvanceKeeps, WorldIs DEF rest, Proceed

\* The push is recorded, and what is left is to report it.
LEMMA PushedKeeps ==
  ASSUME LoopInv, NEW p \in Procs, job[p].pc \in {"remote", "confirm"},
         Reach(p, "PUSHED"), Proceed(p, "attest_pushed"), UNCHANGED <<rest, counts>>
  PROVE  LoopInv'
<1>1. /\ job[p].pc \in RevisionPc /\ "PUSHED" \in Resumable
      /\ "attest_pushed" \in Places /\ "attest_pushed" \in RevisionPc \ Making
  BY DEF RevisionPc, Resumable, Places, Making
<1>2. Mine(p).state = "COMMITTED"
  BY <1>1, RevisionIs DEF StepFits
<1>3. /\ job' \in [Procs -> Work] /\ Others(p) /\ job'[p].pc = "attest_pushed"
      /\ job'[p].round = job[p].round
  BY <1>1, Going DEF LoopInv, TypeOK, Proceed
<1>4. StepFits(job'[p], [Mine(p) EXCEPT !.state = "PUSHED"])
  BY <1>1, <1>3, MakingFits
<1> QED
  BY <1>1, <1>2, <1>3, <1>4, ReachKeeps DEF Proceed

LEMMA LookAtRemoteKeeps ==
  ASSUME LoopInv, NEW p \in Procs, LookAtRemote(p), UNCHANGED counts
  PROVE  LoopInv'
<1>1. job[p].pc = "remote" /\ job[p].pc \in RevisionPc
  BY DEF LookAtRemote, RevisionPc
<1>2. ASSUME world.remote = job[p].commit
      PROVE  LoopInv'
  BY <1>1, <1>2, PushedKeeps DEF LookAtRemote
<1>3. ASSUME Proceed(p, "push"), UNCHANGED <<revision, rest>>
      PROVE  LoopInv'
  <2>1. /\ job' \in [Procs -> Work] /\ Others(p) /\ job'[p].pc = "push"
        /\ job'[p].round = job[p].round /\ job'[p].commit = job[p].commit
    BY <1>3, Going, PlacesAre DEF LoopInv, TypeOK, Proceed
  <2>2. job'[p].pc \in RevisionPc \ Making /\ StepFits(job'[p], Mine(p))
    BY <1>1, <2>1, RevisionIs DEF RevisionPc, StepFits, Making
  <2> QED
    BY <1>1, <1>3, <2>1, <2>2, ProceedKeeps DEF Proceed
<1>4. ASSUME Stop(p), UNCHANGED rest
      PROVE  LoopInv'
  BY <1>1, <1>4, StopKeeps
<1> QED
  BY <1>2, <1>3, <1>4 DEF LookAtRemote

LEMMA PushRevisionKeeps ==
  ASSUME LoopInv, NEW p \in Procs, PushRevision(p), UNCHANGED counts
  PROVE  LoopInv'
<1>1. job[p].pc = "push" /\ job[p].pc \in RevisionPc /\ job[p].commit \in Commit
  BY DEF PushRevision, RevisionPc, LoopInv, TypeOK, Work
<1>2. ASSUME AncestorOf(world.remote, job[p].commit)
      PROVE  LoopInv'
  <2>1. /\ world' = [world EXCEPT !.remote = job[p].commit] /\ Proceed(p, "confirm")
        /\ UNCHANGED <<revision, reviewing, bundle, lost, slipped>>
    BY <1>2 DEF PushRevision
  <2>2. world' \in World /\ world'.worktree = world.worktree
    BY <1>1, <2>1, Pushed
  <2>3. /\ job' \in [Procs -> Work] /\ Others(p) /\ job'[p].pc = "confirm"
        /\ job'[p].round = job[p].round /\ job'[p].commit = job[p].commit
    BY <2>1, Going, PlacesAre DEF LoopInv, TypeOK, Proceed
  <2>4. job'[p].pc \in RevisionPc \ Making /\ StepFits(job'[p], Mine(p))
    BY <1>1, <2>3, RevisionIs DEF RevisionPc, StepFits, Making
  <2> QED
    BY <1>1, <2>1, <2>2, <2>3, <2>4, RevisionIs, AdvanceKeeps DEF Proceed
<1>3. ASSUME ~AncestorOf(world.remote, job[p].commit)
      PROVE  LoopInv'
  BY <1>1, <1>3, RetryKeeps, Counted, WorldIs DEF PushRevision
<1> QED
  BY <1>2, <1>3

LEMMA ConfirmPushKeeps ==
  ASSUME LoopInv, NEW p \in Procs, ConfirmPush(p), UNCHANGED counts
  PROVE  LoopInv'
<1>1. job[p].pc = "confirm" /\ job[p].pc \in RevisionPc
  BY DEF ConfirmPush, RevisionPc
<1>2. ASSUME Retry(p), Leave(p), UNCHANGED rest
      PROVE  LoopInv'
  BY <1>1, <1>2, RetryKeeps, Counted, WorldIs DEF rest
<1>3. ASSUME Reach(p, "PUSHED"), Proceed(p, "attest_pushed"), UNCHANGED rest
      PROVE  LoopInv'
  BY <1>1, <1>3, PushedKeeps
<1>4. ASSUME Stop(p), UNCHANGED rest
      PROVE  LoopInv'
  BY <1>1, <1>4, StopKeeps
<1> QED
  BY <1>2, <1>3, <1>4 DEF ConfirmPush

LEMMA AttestPushedKeeps ==
  ASSUME LoopInv, NEW p \in Procs, AttestPushed(p), UNCHANGED counts
  PROVE  LoopInv'
<1>1. job[p].pc = "attest_pushed" /\ job[p].pc \in RevisionPc
  BY DEF AttestPushed, RevisionPc
<1>2. ASSUME Proceed(p, "package"), UNCHANGED <<revision, rest>>
      PROVE  LoopInv'
  <2>1. /\ job' \in [Procs -> Work] /\ Others(p) /\ job'[p].pc = "package"
        /\ job'[p].round = job[p].round
    BY <1>2, Going, PlacesAre DEF LoopInv, TypeOK, Proceed
  <2>2. job'[p].pc \in RevisionPc \ Making /\ StepFits(job'[p], Mine(p))
    BY <1>1, <2>1, RevisionIs DEF RevisionPc, StepFits, Making
  <2> QED
    BY <1>1, <1>2, <2>1, <2>2, ProceedKeeps DEF Proceed
<1>3. ASSUME Stop(p), UNCHANGED rest
      PROVE  LoopInv'
  BY <1>1, <1>3, StopKeeps
<1> QED
  BY <1>2, <1>3 DEF AttestPushed

LEMMA FinishRevisionKeeps ==
  ASSUME LoopInv, NEW p \in Procs, FinishRevision(p), UNCHANGED counts
  PROVE  LoopInv'
<1> DEFINE rc == Mine(p)
           n == [rc EXCEPT !.state = "RESULT_READY"]
<1>1. job[p].pc = "finish" /\ job[p].pc \in RevisionPc
  BY DEF FinishRevision, RevisionPc
<1>2. job[p].round \in Revisions /\ rc \in RevisionReceipt /\ rc.state = "PUSHED"
  BY <1>1, RevisionIs DEF StepFits
<1>3. /\ n \in RevisionReceipt /\ n.state = "RESULT_READY" /\ n.head = rc.head
      /\ n.verified = rc.verified /\ n.reviewed = rc.reviewed
      /\ n.approved = rc.approved /\ n.commit = rc.commit
  BY <1>2 DEF RevisionReceipt
<1>4. Keep(p, n) /\ Release(p) /\ GoTo(p, "idle") /\ UNCHANGED rest
  BY DEF FinishRevision, Reach, Leave
<1>5. /\ revision' \in [Revisions -> RevisionReceipt] /\ revision'[job[p].round] = n
      /\ \A s \in Revisions \ {job[p].round} : revision'[s] = revision[s]
  BY <1>2, <1>3, <1>4, Kept
<1> HIDE DEF n
<1>6. job' \in [Procs -> Work] /\ Others(p) /\ job'[p].pc = "idle"
  BY <1>4, Going, PlacesAre DEF LoopInv, TypeOK
<1>7. Stands(n) = "RESULT_READY" /\ Stands(rc) = "PUSHED"
  BY <1>2, <1>3 DEF Stands
<1>8. ReceiptFits(n)
  BY <1>1, <1>2, <1>3, <1>7, RevisionIs DEF ReceiptFits, Before, Ambiguous, ApprovedCommit
<1>9. Answers(p)
  <2>1. job'[p].pc \notin RevisionPc /\ job'[p].pc \notin Making
    BY <1>6, PlacesAre
  <2>2. TreesFit(job[p].round, n)
    BY <1>1, <1>3, RevisionIs DEF TreesFit
  <2> QED
    BY <1>1, <1>2, <1>3, <1>4, <1>5, <1>7, <1>8, <2>1, <2>2, RevisionIs DEF Answers, rest, Mine, After
<1> QED
  BY <1>1, <1>4, <1>5, <1>6, <1>9, RevisionIs, RevisionKeeps, Counted, WorldIs DEF rest

\* The bundle of the next round: it answers a round that asked for a revision, and
\* whatever relied on the bundles finds them as they were.
LEMMA PackageKeeps ==
  ASSUME LoopInv, NEW p \in Procs, Package(p), UNCHANGED counts
  PROVE  LoopInv'
<1>1. job[p].pc = "package" /\ job[p].pc \in RevisionPc \ Making
  BY DEF Package, RevisionPc, Making
<1> DEFINE r == job[p].round
           rc == Mine(p)
<1>2. /\ r \in Revisions /\ r \in Rounds /\ r + 1 \in Rounds /\ rc \in RevisionReceipt
      /\ rc.state = "PUSHED" /\ Stands(rc) \in After /\ rc.commit # None /\ rc.commit \in Commit
      /\ rc.head = bundle[r].head /\ bundle[r].head # None
  BY <1>1, RevisionIs, Approved, Numbers, RevisionFields DEF StepFits, After
<1>3. ASSUME Retry(p), Leave(p), UNCHANGED <<reviewing, bundle, world, lost, slipped>>
      PROVE  LoopInv'
  BY <1>1, <1>3, RetryKeeps, Counted, WorldIs
<1>4. ASSUME Proceed(p, "finish"), UNCHANGED <<reviewing, revision, world, lost, slipped>>
      PROVE  /\ job' \in [Procs -> Work] /\ Others(p) /\ job'[p].pc = "finish"
             /\ job'[p].round = r /\ job'[p].pc \in RevisionPc \ Making /\ StepFits(job'[p], rc)
  <2>1. /\ job' \in [Procs -> Work] /\ Others(p) /\ job'[p].pc = "finish" /\ job'[p].round = r
    BY <1>4, Going, PlacesAre DEF LoopInv, TypeOK, Proceed
  <2> QED
    BY <1>2, <2>1 DEF RevisionPc, StepFits, Making
<1>5. ASSUME Proceed(p, "finish"), UNCHANGED <<reviewing, revision, world, lost, slipped>>,
             bundle' = bundle
      PROVE  LoopInv'
  BY <1>1, <1>4, <1>5, ProceedKeeps DEF Proceed, rest
<1>6. ASSUME Proceed(p, "finish"), UNCHANGED <<reviewing, revision, world, lost, slipped>>,
             bundle[r + 1].head = None, bundle' = [bundle EXCEPT ![r + 1] = NextBundle(p)]
      PROVE  LoopInv'
  <2>1. NextBundle(p) \in Bundle /\ NextBundle(p).head = rc.commit
    <3>1. review[r].verdict \in Kinds \cup {"none"} /\ rc.head \in Commit
      BY <1>2, RevisionFields DEF LoopInv, TypeOK, ReviewReceipt
    <3> QED
      BY <1>2, <3>1 DEF NextBundle, Bundle
  <2>2. /\ bundle' \in [Rounds -> Bundle] /\ bundle'[r + 1].head = rc.commit
        /\ \A s \in Rounds \ {r + 1} : bundle'[s] = bundle[s]
    BY <1>2, <1>6, <2>1 DEF LoopInv, TypeOK
  <2>3. \A s \in Rounds : bundle[s].head # None => bundle'[s] = bundle[s]
    BY <1>6, <2>2
  <2>4. TypeOK'
    BY <1>4, <1>6, <2>2, Counted DEF LoopInv, TypeOK, reviewing, Proceed
  <2>5. Holding'
    <3>1. Holds(p)' /\ Untaken(p)
      BY <1>1, <1>4, <1>6, PlacesAre DEF LoopInv, Holding, Holds, Untaken, Proceed
    <3> QED
      BY <1>4, <1>6, <3>1, HoldingMoves
  <2>6. DecisionsFit' /\ ReviewsFit'
    <3>1. VerdictFits(job[p])'
      BY <1>4, <1>6 DEF VerdictFits, ReviewHeld, ReviewPc
    <3> QED
      BY <1>4, <1>6, <2>3, <3>1, ReviewUntouched DEF reviewing
  <2>7. ChainFits'
    <3>1. \A s \in 1..r : bundle[s].head # None
      <4>1. CASE r = 1
        BY <1>2, <4>1
      <4>2. CASE r # 1
        <5>1. r - 1 \in Revisions /\ (r - 1) + 1 = r /\ \A s \in 1..r : s = r \/ s \in 1..(r - 1)
          BY <1>2, <4>2, Numbers
        <5>2. \A s \in 1..(r - 1) : bundle[s].head # None
          BY <1>2, <5>1 DEF LoopInv, ChainFits
        <5> QED
          BY <1>2, <5>1, <5>2
      <4> QED
        BY <4>1, <4>2
    <3>2. \A s \in 1..r : s \in Rounds
      BY <1>2, Numbers
    <3>3. review[r].state = "REVISION_REQUESTED"
      BY <1>2 DEF LoopInv, RevisionsFit, Mine
    <3>4. ASSUME NEW s \in Revisions, bundle'[s + 1].head # None
          PROVE  /\ review'[s].state = "REVISION_REQUESTED"
                 /\ \A u \in 1..s : bundle'[u].head # None
                 /\ bundle'[s + 1].head = revision'[s].commit /\ revision'[s].head = bundle'[s].head
                 /\ Stands(revision[s])' \in After
      <4>1. CASE s = r
        <5>1. bundle'[r] = bundle[r] /\ \A u \in 1..r : bundle'[u] = bundle[u]
          BY <1>2, <2>3, <3>1, <3>2
        <5> QED
          BY <1>2, <1>6, <2>2, <3>1, <3>3, <4>1, <5>1 DEF reviewing, Mine, Stands
      <4>2. CASE s # r
        <5>1. s \in Rounds /\ s + 1 \in Rounds /\ s + 1 # r + 1 /\ \A u \in 1..s : u \in Rounds
          BY <1>2, <4>2, Numbers
        <5>2. bundle'[s + 1] = bundle[s + 1]
          BY <2>2, <5>1
        <5>3. /\ review[s].state = "REVISION_REQUESTED"
              /\ \A u \in 1..s : bundle[u].head # None
              /\ bundle[s + 1].head = revision[s].commit /\ revision[s].head = bundle[s].head
              /\ Stands(revision[s]) \in After
          BY <3>4, <5>2 DEF LoopInv, ChainFits
        <5>4. \A u \in 1..s : bundle'[u] = bundle[u]
          BY <2>3, <5>1, <5>3
        <5>5. s \in 1..s
          BY Numbers
        <5> QED
          BY <1>6, <5>2, <5>3, <5>4, <5>5 DEF reviewing, Stands
      <4> QED
        BY <4>1, <4>2
    <3>5. bundle'[1].head # None
      BY <2>3, Numbers DEF LoopInv, ChainFits
    <3> QED
      BY <3>4, <3>5 DEF ChainFits
  <2>8. RevisionsFit'
    BY <1>6, <2>3, Numbers DEF LoopInv, RevisionsFit, reviewing
  <2>9. StepsFit'
    BY <1>4, <1>6 DEF LoopInv, StepsFit, Others, Mine
  <2>10. LostFits'
    BY <1>2, <1>4, <1>6, <1>1, RevisionIs DEF LoopInv, LostFits, Others
  <2>11. ContentFits'
    <3>1. \A s \in Revisions : TreesFit(s, revision[s])'
      BY <1>6 DEF LoopInv, ContentFits, TreesFit, Verified, Reviewed
    <3>2. ASSUME NEW q \in Procs, job'[q].pc \in Making
          PROVE  SetFits(job[q], revision[job[q].round], world.worktree)'
      <4>1. job'[q] = job[q]
        BY <1>4, <1>6, <3>2 DEF Others
      <4>2. SetFits(job[q], revision[job[q].round], world.worktree)
        BY <3>2, <4>1 DEF LoopInv, ContentFits
      <4> QED
        BY <1>6, <4>1, <4>2 DEF SetFits, Verified, Reviewed
    <3> QED
      BY <3>1, <3>2 DEF ContentFits
  <2> QED
    BY <2>4, <2>5, <2>6, <2>7, <2>8, <2>9, <2>10, <2>11, Composed, PTL
<1>7. bundle[r + 1] = NextBundle(p) /\ bundle' = [bundle EXCEPT ![r + 1] = NextBundle(p)] => bundle' = bundle
  BY <1>2 DEF LoopInv, TypeOK
<1> QED
  BY <1>3, <1>5, <1>6, <1>7 DEF Package

-----------------------------------------------------------------------------
(* Others, and the specification.                                          *)

\* Whoever edits the worktree while a revision reads it and compares nothing is
\* remembered; everywhere else the revision has to compare.
LEMMA InterfereKeeps ==
  ASSUME LoopInv, Interfere
  PROVE  LoopInv'
<1> DEFINE edited == {<<job[p].round, job[p].pc>> : p \in {q \in Procs : job[q].pc \in Blind}}
<1>1. /\ UNCHANGED <<review, sealed, bundle, locks, job, revision, lost, faults>>
      /\ interference' \in 0..MaxInterference
  BY LoopAssumption DEF Interfere, reviewing, LoopInv, TypeOK
<1>2. \/ world'.worktree \in Trees /\ slipped' = slipped \cup edited
      \/ world'.worktree = world.worktree /\ slipped' = slipped
  BY WorldIs DEF Interfere, World
<1>3. world' \in World
  <2>1. /\ world.head \in Seq(Trees) /\ world.remote \in Seq(Trees) /\ world.worktree \in Trees
        /\ world.pull \in BOOLEAN /\ None \in Seq(Trees)
    BY WorldIs DEF World, Commit, None
  <2>2. /\ Append(world.head, world.worktree) \in Seq(Trees)
        /\ \A t \in Trees : Append(world.remote, t) \in Seq(Trees)
    BY <2>1
  <2> QED
    BY <2>1, <2>2, WorldIs DEF Interfere, World, Commit
<1>4. edited \subseteq Rounds \X Blind
  BY DEF LoopInv, TypeOK, Work
<1>5. TypeOK'
  BY <1>1, <1>2, <1>3, <1>4 DEF LoopInv, TypeOK, World
<1>6. Holding' /\ DecisionsFit' /\ ReviewsFit' /\ ChainFits' /\ RevisionsFit' /\ StepsFit' /\ LostFits'
  BY <1>1 DEF LoopInv, Holding, Holds, DecisionsFit, RoundFits, Complete, ReviewsFit, VerdictFits,
              ChainFits, RevisionsFit, StepsFit, LostFits
<1>7. ContentFits'
  <2>1. slipped \subseteq slipped'
    BY <1>2
  <2>2. \A r \in Revisions : TreesFit(r, revision[r])'
    BY <1>1, <2>1 DEF LoopInv, ContentFits, TreesFit, Verified, Reviewed
  <2>3. ASSUME NEW p \in Procs, job[p].pc \in Making
        PROVE  SetFits(job[p], revision[job[p].round], world.worktree)'
    <3>1. SetFits(job[p], revision[job[p].round], world.worktree)
      BY <2>3 DEF LoopInv, ContentFits
    <3>2. CASE world'.worktree = world.worktree
      BY <1>1, <2>1, <3>1, <3>2 DEF SetFits, Verified, Reviewed
    <3>3. CASE slipped' = slipped \cup edited
      <4>1. job[p].pc \in Blind => <<job[p].round, job[p].pc>> \in slipped'
        BY <3>3
      <4> QED
        BY <1>1, <2>1, <3>1, <4>1 DEF SetFits, Verified, Reviewed, Blind
    <3> QED
      BY <1>2, <3>2, <3>3
  <2> QED
    BY <1>1, <2>2, <2>3 DEF ContentFits
<1> QED
  BY <1>5, <1>6, <1>7, Composed, PTL

LEMMA InitKeeps ==
  ASSUME Init
  PROVE  LoopInv
<1> USE DEF Init, ReviewInit, RevisionInit
<1>1. None \in Commit /\ <<Start>> \in Commit /\ <<Start>> # None
  BY ReviewAssumption DEF Commit, None
<1>2. \A p \in Procs : job[p] = AtRest
  OBVIOUS
<1>3. \A p \in Procs : /\ job[p].pc = "idle"
                       /\ job[p].pc \notin ReviewHeld \cup RevisionHeld \cup RevisionPc \cup Making
  BY <1>2, Rested, PlacesAre
<1>4. \A r \in Revisions : /\ revision[r].state = "NONE" /\ revision[r].commit = None
                           /\ revision[r].verified = "none" /\ revision[r].reviewed = "none"
                           /\ revision[r].approved = "none"
  OBVIOUS
<1>5. \A r \in Rounds : /\ review[r].state = "NONE" /\ review[r].verdict = "none"
                        /\ \A a \in Artifacts : sealed[r][a] = "none"
                        /\ bundle[r].head # None => r = 1
  OBVIOUS
<1>6. TypeOK
  <2>1. review \in [Rounds -> ReviewReceipt] /\ sealed \in [Rounds -> [Artifacts -> Kinds \cup {"none"}]]
    BY <1>1 DEF ReviewReceipt
  <2>2. bundle \in [Rounds -> Bundle]
    BY <1>1 DEF Bundle
  <2>3. /\ locks \in [LockNames -> Procs \cup {"free", "orphan"}] /\ job \in [Procs -> Work]
        /\ world \in [worktree : Trees, head : Commit, remote : Commit, pull : BOOLEAN]
    BY <1>1, Rested, ReviewAssumption
  <2>4. revision \in [Revisions -> RevisionReceipt]
    BY <1>1, RevisionAssumption DEF RevisionReceipt
  <2>5. /\ lost \subseteq Revisions /\ slipped \subseteq Rounds \X Blind
        /\ faults \in 0..MaxFaults /\ interference \in 0..MaxInterference
    BY LoopAssumption
  <2> QED
    BY <2>1, <2>2, <2>3, <2>4, <2>5 DEF TypeOK
<1>7. Holding
  BY <1>3 DEF Holding, Holds, ReviewHeld, RevisionHeld
<1>8. DecisionsFit
  BY <1>5, Decisions DEF DecisionsFit, RoundFits, Artifacts
<1>9. ReviewsFit
  BY <1>3 DEF ReviewsFit, VerdictFits, ReviewHeld, ReviewPc
<1>10. ChainFits
  <2>1. \A r \in Revisions : r + 1 \in Rounds /\ r + 1 # 1
    BY Numbers
  <2>2. bundle[1].head # None
    BY <1>1, Numbers
  <2> QED
    BY <1>5, <2>1, <2>2 DEF ChainFits
<1>11. RevisionsFit
  BY <1>4 DEF RevisionsFit, ReceiptFits, Stands, Before
<1>12. StepsFit /\ LostFits
  BY <1>3 DEF StepsFit, LostFits
<1>13. ContentFits
  BY <1>3, <1>4 DEF ContentFits, TreesFit
<1> QED
  BY <1>6, <1>7, <1>8, <1>9, <1>10, <1>11, <1>12, <1>13, Composed

LEMMA ReviewingKeeps ==
  ASSUME LoopInv, NEW p \in Procs, Reviewing(p)
  PROVE  LoopInv'
<1> USE DEF Reviewing
<1>1. CASE TakeReviewLock(p)
  BY <1>1, TakeReviewLockKeeps
<1>2. CASE SealedAlready(p)
  BY <1>2, SealedAlreadyKeeps
<1>3. CASE Inspect(p)
  BY <1>3, InspectKeeps
<1>4. CASE OpenReview(p)
  BY <1>4, OpenReviewKeeps
<1>5. CASE Validate(p)
  BY <1>5, ValidateKeeps
<1>6. CASE AttestReview(p)
  BY <1>6, AttestReviewKeeps
<1>7. CASE SealVerdict(p)
  BY <1>7, SealVerdictKeeps
<1>8. CASE SealRequest(p)
  BY <1>8, SealRequestKeeps
<1>9. CASE SealEvent(p)
  BY <1>9, SealEventKeeps
<1>10. CASE Dispatch(p)
  BY <1>10, DispatchKeeps
<1> QED
  BY <1>1, <1>2, <1>3, <1>4, <1>5, <1>6, <1>7, <1>8, <1>9, <1>10 DEF ReviewStep

LEMMA RevisingKeeps ==
  ASSUME LoopInv, NEW p \in Procs, Revising(p)
  PROVE  LoopInv'
<1>1. UNCHANGED counts
  BY DEF Revising
<1>2. ASSUME TakeRevisionLock(p) \/ RefuseRevision(p) \/ BeginRevision(p) \/ ResumeRevision(p)
      PROVE  LoopInv'
  BY <1>1, <1>2, TakeRevisionLockKeeps, RefuseRevisionKeeps, BeginRevisionKeeps, ResumeRevisionKeeps
<1>3. ASSUME Implement(p) \/ Turn(p) \/ CheckPolicy(p) \/ ComputeChanges(p) \/ Verify(p) \/ Measure(p)
      PROVE  LoopInv'
  BY <1>1, <1>3, ImplementKeeps, TurnKeeps, CheckPolicyKeeps, ComputeChangesKeeps, VerifyKeeps, MeasureKeeps
<1>4. ASSUME BeginReview(p) \/ ReviewTurn(p) \/ RecordReview(p) \/ CompareFinal(p) \/ Snapshot(p)
      PROVE  LoopInv'
  BY <1>1, <1>4, BeginReviewKeeps, ReviewTurnKeeps, RecordReviewKeeps, CompareFinalKeeps, SnapshotKeeps
<1>5. ASSUME MakeCommit(p) \/ AdoptHead(p) \/ RecordRevisionCommit(p) \/ LookAtRemote(p)
      PROVE  LoopInv'
  BY <1>1, <1>5, MakeCommitKeeps, AdoptHeadKeeps, RecordRevisionCommitKeeps, LookAtRemoteKeeps
<1>6. ASSUME PushRevision(p) \/ ConfirmPush(p) \/ AttestPushed(p) \/ Package(p) \/ FinishRevision(p)
      PROVE  LoopInv'
  BY <1>1, <1>6, PushRevisionKeeps, ConfirmPushKeeps, AttestPushedKeeps, PackageKeeps, FinishRevisionKeeps
<1> QED
  BY <1>2, <1>3, <1>4, <1>5, <1>6 DEF Revising, RevisionStep

LEMMA StutterKeeps ==
  ASSUME LoopInv, UNCHANGED vars
  PROVE  LoopInv'
<1> USE DEF vars
<1>1. TypeOK' /\ Holding' /\ DecisionsFit' /\ ReviewsFit' /\ ChainFits'
  BY DEF LoopInv, TypeOK, Holding, Holds, DecisionsFit, RoundFits, Complete, ReviewsFit,
         VerdictFits, ChainFits
<1>2. RevisionsFit' /\ StepsFit' /\ LostFits'
  BY DEF LoopInv, RevisionsFit, StepsFit, LostFits
<1>3. ContentFits'
  BY DEF LoopInv, ContentFits, TreesFit, SetFits, Verified, Reviewed
<1> QED
  BY <1>1, <1>2, <1>3, Composed, PTL

LEMMA NextKeeps ==
  ASSUME LoopInv, [Next]_vars
  PROVE  LoopInv'
<1>1. ASSUME NEW p \in Procs, Reviewing(p) \/ Revising(p) \/ GiveUp(p)
      PROVE  LoopInv'
  BY <1>1, ReviewingKeeps, RevisingKeeps, GiveUpKeeps
<1>2. ASSUME NEW p \in Procs, SubmitVerdict(p)
      PROVE  LoopInv'
  <2>1. PICK r \in Rounds, k \in Kinds : Submit(p, r, k) /\ UNCHANGED <<revising, counts>>
    BY <1>2 DEF SubmitVerdict
  <2> QED
    BY <2>1, SubmitKeeps
<1>3. ASSUME NEW p \in Procs, AskRevision(p)
      PROVE  LoopInv'
  <2>1. PICK r \in Revisions : Revise(p, r) /\ UNCHANGED counts
    BY <1>3 DEF AskRevision
  <2> QED
    BY <2>1, ReviseKeeps
<1>4. ASSUME NEW p \in Procs, Trouble(p)
      PROVE  LoopInv'
  BY <1>4, ReviewTroubleKeeps, RevisionTroubleKeeps, AnswerLostKeeps DEF Trouble
<1>5. ASSUME NEW p \in Procs, Crash(p)
      PROVE  LoopInv'
  BY <1>5, CrashKeeps
<1>6. CASE RemoveLock
  BY <1>6, RemoveLockKeeps
<1>7. CASE Interfere
  BY <1>7, InterfereKeeps
<1>8. CASE UNCHANGED vars
  BY <1>8, StutterKeeps
<1> QED
  BY <1>1, <1>2, <1>3, <1>4, <1>5, <1>6, <1>7, <1>8 DEF Next

\* Whatever processes crash, fail and race, and whatever others do to the worktree,
\* the branch and the pull request: every round on disk, every receipt and every
\* process at work fit together (web-review and revision services).
THEOREM LoopInvariant == Spec => []LoopInv
<1>1. Init => LoopInv
  BY InitKeeps
<1>2. LoopInv /\ [Next]_vars => LoopInv'
  BY NextKeeps
<1> QED
  BY <1>1, <1>2, PTL DEF Spec

\* What a revision commits was verified and approved (revision-service.ts), but for
\* an edit at one of the three places where nothing is compared.
THEOREM PublicationsAreReviewed == Spec => []PublishedWasReviewed
<1>1. LoopInv => PublishedWasReviewed
  <2> SUFFICES ASSUME LoopInv, NEW r \in Revisions, revision[r].commit # None
               PROVE  \/ <<r, "snapshot">> \in slipped
                      \/ /\ Tip(revision[r].commit) \in Passing \/ <<r, "measure">> \in slipped
                         /\ Tip(revision[r].commit) \in Acceptable \/ <<r, "review">> \in slipped
    BY DEF PublishedWasReviewed
  <2>1. /\ revision[r] \in RevisionReceipt /\ ReceiptFits(revision[r]) /\ TreesFit(r, revision[r])
    BY DEF LoopInv, TypeOK, RevisionsFit, ContentFits
  <2>2. revision[r].approved # "none" /\ revision[r].commit = ApprovedCommit(revision[r])
    BY <2>1 DEF ReceiptFits
  <2>3. Tip(revision[r].commit) = revision[r].approved
    BY <2>1, <2>2, Commits
  <2> QED
    BY <2>1, <2>2, <2>3 DEF TreesFit, Verified, Reviewed
<1> QED
  BY <1>1, LoopInvariant, PTL

\* A model turn whose outcome nobody recorded is never followed by another one of
\* the same revision (revision-service.ts, the ambiguous checkpoints).
THEOREM LostTurnsAreFinal == Spec => []NoTurnAfterLost
<1>1. LoopInv => NoTurnAfterLost
  BY DEF LoopInv, LostFits, NoTurnAfterLost, InTurn, RevisionPc
<1> QED
  BY <1>1, LoopInvariant, PTL

-----------------------------------------------------------------------------
(* The chain of heads and decisions.                                       *)

\* A review writes the receipt of its own round, while that is undecided, and only
\* Dispatch decides it.
WritesOwnRound(p) ==
  \E r \in Rounds :
    /\ r = job[p].round /\ bundle[r].head # None /\ review[r].state \notin Terminal
    /\ \A s \in Rounds \ {r} : review'[s] = review[s]
    /\ review[r].verdict # "none" => review'[r].verdict = review[r].verdict
    /\ review'[r].state \notin Terminal \/ (review'[r].state \in Terminal /\ Dispatch(p))

\* A refused verdict writes its own round only ...
LEMMA Refusing ==
  ASSUME LoopInv, NEW p \in Procs, job[p].pc \in ReviewPc, NEW state \in {"BLOCKED", "FAILED"},
         Refuse(p, state)
  PROVE  WritesOwnRound(p)
<1>1. job[p].pc \in ReviewHeld
  BY PlacesAre
<1>2. PICK r \in Rounds : r = job[p].round
  BY <1>1, ReviewIs
<1>3. review[r] \in ReviewReceipt /\ VerdictFits(job[p])
  BY <1>1, <1>2, ReviewIs
<1>4. bundle[r].head # None /\ review[r].state \notin Terminal
  BY <1>1, <1>2, <1>3 DEF VerdictFits
<1>5. LET n == [review[r] EXCEPT !.state = state]
      IN  n \in ReviewReceipt /\ n.state = state /\ n.verdict = review[r].verdict
  BY <1>3 DEF ReviewReceipt
<1>6. /\ review'[r].state = state /\ review'[r].verdict = review[r].verdict
      /\ \A s \in Rounds \ {r} : review'[s] = review[s]
  BY <1>2, <1>5, Written DEF Refuse
<1>7. state \notin Terminal
  BY Decisions
<1> QED
  BY <1>2, <1>4, <1>6, <1>7 DEF WritesOwnRound

\* ... as does every other step that writes a review receipt ...
LEMMA Writing ==
  ASSUME LoopInv, NEW p \in Procs, job[p].pc = "open" \/ job[p].pc \in ReviewPc,
         NEW rc \in ReviewReceipt, Wrote(job[p].round, rc),
         rc.state \notin Terminal \/ Dispatch(p),
         review[job[p].round].verdict # "none" => rc.verdict = review[job[p].round].verdict
  PROVE  WritesOwnRound(p)
<1>1. job[p].pc \in ReviewHeld
  BY DEF ReviewHeld
<1>2. PICK r \in Rounds : r = job[p].round
  BY <1>1, ReviewIs
<1>3. bundle[r].head # None /\ review[r].state \notin Terminal
  BY <1>1, <1>2, ReviewIs DEF VerdictFits
<1>4. review'[r] = rc /\ \A s \in Rounds \ {r} : review'[s] = review[s]
  BY <1>2, Written
<1> QED
  BY <1>2, <1>3, <1>4 DEF WritesOwnRound

\* ... and that is all a review writes.
LEMMA ReviewsWrite ==
  ASSUME LoopInv, NEW p \in Procs, Reviewing(p) \/ ReviewTrouble(p)
  PROVE  bundle' = bundle /\ (review' = review \/ WritesOwnRound(p))
<1>1. bundle' = bundle
  BY DEF Reviewing, ReviewStep, TakeReviewLock, SealedAlready, Inspect, OpenReview, Validate,
         AttestReview, SealVerdict, SealRequest, SealEvent, Dispatch, ReviewTrouble, reviewing
<1>2. CASE TakeReviewLock(p) \/ SealedAlready(p) \/ Inspect(p)
  BY <1>2 DEF TakeReviewLock, SealedAlready, Inspect, reviewing
<1>3. CASE ReviewTrouble(p)
  BY <1>3, Refusing DEF ReviewTrouble
<1>4. CASE Validate(p)
  BY <1>4, Refusing DEF Validate, ReviewPc
<1>5. CASE SealVerdict(p) \/ SealRequest(p) \/ SealEvent(p)
  BY <1>5, Refusing DEF SealVerdict, SealRequest, SealEvent, Artifact, ReviewPc
<1>6. CASE OpenReview(p)
  <2>1. job[p].pc = "open" /\ job[p].pc \in ReviewHeld
    BY <1>6 DEF OpenReview, ReviewHeld
  <2>2. PICK r \in Rounds : r = job[p].round
    BY <2>1, ReviewIs
  <2>3. /\ review[r] \in ReviewReceipt /\ job[p].verdict \in Kinds
        /\ review[r].verdict \in {"none", job[p].verdict}
    BY <2>1, <2>2, ReviewIs DEF VerdictFits
  <2> DEFINE n == [review[r] EXCEPT !.state = "VALIDATING", !.verdict = job[p].verdict]
  <2>4. n \in ReviewReceipt /\ n.state = "VALIDATING" /\ n.verdict = job[p].verdict
    BY <2>3 DEF ReviewReceipt
  <2>5. Wrote(job[p].round, n)
    BY <1>6, <2>2 DEF OpenReview
  <2> HIDE DEF n
  <2>6. n.state \notin Terminal
    BY <2>4, Decisions
  <2> QED
    BY <1>1, Writing, <2>1, <2>2, <2>3, <2>4, <2>5, <2>6
<1>7. CASE AttestReview(p)
  <2>1. job[p].pc = "attest" /\ job[p].pc \in ReviewHeld /\ job[p].pc \in ReviewPc
    BY <1>7 DEF AttestReview, ReviewHeld, ReviewPc
  <2>2. PICK r \in Rounds : r = job[p].round
    BY <2>1, ReviewIs
  <2>3. review[r] \in ReviewReceipt /\ bundle[r].head \in Commit
    BY <2>1, <2>2, ReviewIs DEF LoopInv, TypeOK, Bundle
  <2> DEFINE n == [review[r] EXCEPT !.state = "VALIDATED", !.head = bundle[r].head]
  <2>4. n \in ReviewReceipt /\ n.state = "VALIDATED" /\ n.verdict = review[r].verdict
    BY <2>3 DEF ReviewReceipt
  <2>5. Wrote(job[p].round, n) \/ Refuse(p, "BLOCKED")
    BY <1>7, <2>2 DEF AttestReview
  <2> HIDE DEF n
  <2>6. n.state \notin Terminal
    BY <2>4, Decisions
  <2> QED
    BY <1>1, Writing, <2>1, <2>2, <2>4, <2>5, <2>6, Refusing
<1>8. CASE Dispatch(p)
  <2>1. job[p].pc = "dispatch" /\ job[p].pc \in ReviewHeld /\ job[p].pc \in ReviewPc
    BY <1>8 DEF Dispatch, ReviewHeld, ReviewPc
  <2>2. PICK r \in Rounds : r = job[p].round
    BY <2>1, ReviewIs
  <2>3. /\ review[r] \in ReviewReceipt /\ job[p].verdict \in Kinds
        /\ PolicyAllows(r, job[p].verdict)
    BY <2>1, <2>2, ReviewIs DEF VerdictFits, ReviewHeld
  <2>4. Decided[job[p].verdict] \in Terminal
    BY <2>3, Decisions DEF PolicyAllows, Sound
  <2> DEFINE n == [review[r] EXCEPT !.state = Decided[job[p].verdict]]
  <2>5. n \in ReviewReceipt /\ n.verdict = review[r].verdict
    BY <2>3, <2>4 DEF ReviewReceipt
  <2>6. Wrote(job[p].round, n)
    BY <1>8, <2>2 DEF Dispatch
  <2> HIDE DEF n
  <2> QED
    BY <1>1, Writing, <1>8, <2>1, <2>2, <2>5, <2>6
<1> QED
  BY <1>1, <1>2, <1>3, <1>4, <1>5, <1>6, <1>7, <1>8 DEF Reviewing, ReviewStep

\* Every step: a review writes its round, a new bundle follows, or the rounds and the
\* bundles stay as they are.
LEMMA LoopWrites ==
  ASSUME LoopInv, [Next]_vars
  PROVE  \/ \E p \in Procs : bundle' = bundle /\ WritesOwnRound(p)
         \/ \E p \in Procs : Package(p)
         \/ UNCHANGED <<review, bundle>>
<1> USE DEF reviewing
<1>1. ASSUME NEW p \in Procs, Reviewing(p) \/ ReviewTrouble(p)
      PROVE  bundle' = bundle /\ (review' = review \/ WritesOwnRound(p))
  BY <1>1, ReviewsWrite
<1>2. ASSUME NEW p \in Procs, Revising(p)
      PROVE  Package(p) \/ UNCHANGED <<review, bundle>>
  BY <1>2 DEF Revising, RevisionStep, TakeRevisionLock, RefuseRevision, BeginRevision, ResumeRevision,
    Implement, Turn, CheckPolicy, ComputeChanges, Verify, Measure, BeginReview, ReviewTurn,
    RecordReview, CompareFinal, Snapshot, MakeCommit, AdoptHead, RecordRevisionCommit, LookAtRemote,
    PushRevision, ConfirmPush, AttestPushed, FinishRevision, rest
<1>3. ASSUME NEW p \in Procs, GiveUp(p) \/ SubmitVerdict(p) \/ AskRevision(p) \/ Crash(p)
      PROVE  UNCHANGED <<review, bundle>>
  BY <1>3 DEF GiveUp, ReviewLocked, RevisionLocked, SubmitVerdict, Submit, AskRevision, Revise, Crash, rest
<1>4. ASSUME NEW p \in Procs, RevisionTrouble(p) \/ AnswerLost(p)
      PROVE  UNCHANGED <<review, bundle>>
  BY <1>4 DEF RevisionTrouble, AnswerLost
<1>5. RemoveLock \/ Interfere \/ UNCHANGED vars => UNCHANGED <<review, bundle>>
  BY DEF RemoveLock, Interfere, vars
<1> QED
  BY <1>1, <1>2, <1>3, <1>4, <1>5 DEF Next, Trouble

\* A round keeps its first verdict, and a decided round everything (web-review
\* service, the receipt of a round).
THEOREM VerdictsStand == Spec => VerdictStands
<1>1. ASSUME LoopInv, [Next]_vars, NEW r \in Rounds
      PROVE  /\ review[r].verdict # "none" => review'[r].verdict = review[r].verdict
             /\ review[r].state \in Terminal => review'[r] = review[r]
  <2>1. CASE \E p \in Procs : WritesOwnRound(p)
    BY <2>1 DEF WritesOwnRound
  <2>2. CASE \E p \in Procs : Package(p)
    BY <2>2 DEF Package, reviewing
  <2>3. CASE review' = review
    BY <2>3
  <2> QED
    BY <1>1, <2>1, <2>2, <2>3, LoopWrites
<1>2. LoopInv /\ [Next]_vars =>
        [\A r \in Rounds :
           /\ review[r].verdict # "none" => review'[r].verdict = review[r].verdict
           /\ review[r].state \in Terminal => review'[r] = review[r]]_vars
  BY <1>1
<1> QED
  BY <1>2, LoopInvariant, PTL DEF Spec, VerdictStands

\* The rounds that have a bundle are the first ones.
Bundled == {s \in Rounds : bundle[s].head # None}
Opinion(r) == IF review[r].state \in Terminal THEN review[r].state ELSE "none"
Link(r) == [head |-> bundle[r].head, decision |-> Opinion(r)]
Chain == [r \in 1..Cardinality(Bundled) |-> Link(r)]

\* The rounds that have a bundle are the first ones.
LEMMA FirstRounds ==
  LoopInv => Cardinality(Bundled) \in Rounds /\ Bundled = 1..Cardinality(Bundled)
<1> SUFFICES ASSUME LoopInv
             PROVE  Cardinality(Bundled) \in Rounds /\ Bundled = 1..Cardinality(Bundled)
  OBVIOUS
<1> DEFINE c == Cardinality(Bundled)
<1>1. IsFiniteSet(Bundled) /\ c \in Nat
  <2>1. IsFiniteSet(1..MaxRound) /\ Bundled \in SUBSET (1..MaxRound)
    BY FS_Interval, Numbers DEF Bundled
  <2> QED
    BY <2>1, FS_Subset, FS_CardinalityType
<1>2. ASSUME NEW s \in Bundled PROVE s \in Nat /\ s >= 1 /\ s <= MaxRound /\ s <= c
  <2>1. s \in Nat /\ s >= 1 /\ s <= MaxRound /\ s \in Rounds /\ bundle[s].head # None
    BY Numbers DEF Bundled
  <2>2. \A u \in 1..s : u \in Rounds /\ bundle[u].head # None
    <3>1. CASE s = 1
      BY <2>1, <3>1
    <3>2. CASE s # 1
      <4>1. s - 1 \in Revisions /\ (s - 1) + 1 = s /\ \A u \in 1..s : u \in Rounds /\ (u = s \/ u \in 1..(s - 1))
        BY <2>1, <3>2, Numbers
      <4>2. \A u \in 1..(s - 1) : bundle[u].head # None
        BY <2>1, <4>1 DEF LoopInv, ChainFits
      <4> QED
        BY <2>1, <4>1, <4>2
    <3> QED
      BY <3>1, <3>2
  <2>3. 1..s \in SUBSET Bundled
    BY <2>2 DEF Bundled
  <2>4. Cardinality(1..s) = s
    BY <2>1, FS_Interval
  <2>5. Cardinality(1..s) <= c
    BY <1>1, <2>3, FS_Subset
  <2> QED
    BY <2>1, <2>4, <2>5
<1>3. 1 \in Bundled
  BY Numbers DEF LoopInv, ChainFits, Bundled
<1>4. Bundled = 1..c
  <2>1. Bundled \in SUBSET (1..c)
    BY <1>1, <1>2
  <2>2. IsFiniteSet(1..c) /\ Cardinality(1..c) = c
    BY <1>1, FS_Interval
  <2> QED
    BY <2>1, <2>2, FS_Subset
<1>5. c \in Bundled
  BY <1>1, <1>2, <1>3, <1>4
<1> QED
  BY <1>4, <1>5 DEF Bundled

\* Whoever writes an undecided round that has a bundle writes the last one.
LEMMA LastRound ==
  ASSUME LoopInv, NEW r \in Rounds, bundle[r].head # None,
         r \in Revisions => review[r].state # "REVISION_REQUESTED" \/ bundle[r + 1].head = None
  PROVE  r = Cardinality(Bundled)
<1>1. r \in Bundled
  BY DEF Bundled
<1>2. r \in Nat /\ MaxRound \in Nat /\ \A s \in Rounds : s \in Nat /\ s >= 1 /\ s <= MaxRound
  BY Numbers
<1>3. ASSUME r # Cardinality(Bundled)
      PROVE  FALSE
  <2>1. r \in Revisions /\ r + 1 \in Bundled
    BY <1>1, <1>2, <1>3, FirstRounds, Numbers
  <2> QED
    BY <2>1 DEF LoopInv, ChainFits, Bundled
<1> QED
  BY <1>3

\* The chain as a sequence: as long as there are bundles, one link for each.
Links == [head : Commit, decision : Terminal \cup {"none"}]
Linked ==
  /\ Chain \in Seq(Links) /\ Len(Chain) \in Rounds /\ Bundled = 1..Len(Chain)
  /\ \A r \in Bundled : Chain[r] = Link(r)

\* The chain is a sequence of links, in the order of the rounds.
LEMMA ChainIsLinked == LoopInv => Linked
<1> SUFFICES ASSUME LoopInv PROVE Linked
  OBVIOUS
<1>1. PICK c \in Rounds : c = Cardinality(Bundled) /\ Bundled = 1..c /\ c \in Nat
  BY FirstRounds, Numbers
<1>2. \A r \in 1..c : Link(r) \in Links
  BY <1>1 DEF Link, Links, Opinion, LoopInv, TypeOK, Bundle, ReviewReceipt, Bundled
<1>3. Chain = [r \in 1..c |-> Link(r)]
  BY <1>1 DEF Chain
<1>4. Chain \in Seq(Links) /\ Len(Chain) = c
  <2>1. [r \in 1..c |-> Link(r)] \in [1..c -> Links]
    BY <1>2
  <2>2. \A f \in [1..c -> Links] : f \in Seq(Links) /\ Len(f) = c
    BY <1>1
  <2> QED
    BY <1>3, <2>1, <2>2
<1>5. \A r \in 1..c : Chain[r] = Link(r)
  BY <1>3
<1> QED
  BY <1>1, <1>4, <1>5 DEF Linked

\* Two chains that differ in nothing, in the last decision, or in one more link.
LEMMA SameChain ==
  ASSUME NEW S, NEW c \in Seq(S), NEW n \in Seq(S), Len(n) = Len(c),
         \A r \in 1..Len(c) : n[r] = c[r]
  PROVE  n = c
OBVIOUS

\* A chain that differs in one decision.
LEMMA DecidedChain ==
  ASSUME NEW c \in Seq(Links), NEW n \in Seq(Links), Len(n) = Len(c), NEW k \in 1..Len(c),
         \A r \in 1..Len(c) : r # k => n[r] = c[r],
         n[k].head = c[k].head
  PROVE  n = [c EXCEPT ![k].decision = n[k].decision]
<1>1. c[k] \in Links /\ n[k] \in Links
  OBVIOUS
<1>2. [c[k] EXCEPT !.decision = n[k].decision] = n[k]
  BY <1>1 DEF Links
<1> QED
  BY <1>2

\* A chain that differs by a last link.
LEMMA LongerChain ==
  ASSUME NEW S, NEW c \in Seq(S), NEW n \in Seq(S), Len(n) = Len(c) + 1,
         \A r \in 1..Len(c) : n[r] = c[r]
  PROVE  n = Append(c, n[Len(c) + 1])
OBVIOUS

\* Without a new bundle or decision the chain stays.
LEMMA ChainStutters ==
  ASSUME LoopInv, bundle' = bundle, \A r \in Bundled : Opinion(r)' = Opinion(r)
  PROVE  Chain' = Chain
<1>1. Bundled' = Bundled
  BY DEF Bundled
<1>2. \A r \in 1..Cardinality(Bundled) : Link(r)' = Link(r)
  BY FirstRounds DEF Link
<1> QED
  BY <1>1, <1>2 DEF Chain

\* A sealed verdict decides the last link and no other.
LEMMA ChainDecides ==
  ASSUME LoopInv, LoopInv', NEW p \in Procs, WritesOwnRound(p), bundle' = bundle
  PROVE  Chain' = Chain \/
         LET n == Len(Chain)
         IN  /\ Chain[n].decision = "none"
             /\ \E d \in {"APPROVED", "REVISION_REQUESTED", "ESCALATED"} :
                  Chain' = [Chain EXCEPT ![n].decision = d]
<1>1. PICK r \in Rounds :
        /\ bundle[r].head # None /\ review[r].state \notin Terminal
        /\ \A s \in Rounds \ {r} : review'[s] = review[s]
  BY DEF WritesOwnRound
<1>2. Linked /\ Linked'
  BY ChainIsLinked, PTL
<1>3. r = Cardinality(Bundled) /\ r \in Nat /\ r \in 1..r /\ Bundled = 1..r /\ Bundled' = Bundled
  <2>1. r = Cardinality(Bundled) /\ r \in Nat /\ r >= 1
    BY <1>1, LastRound, Numbers, Decisions
  <2> QED
    BY <2>1, FirstRounds DEF Bundled
<1>4. Len(Chain) = r /\ Len(Chain') = r
  BY <1>2, <1>3, Numbers DEF Linked
<1>5. /\ \A s \in 1..r : s # r => Link(s)' = Link(s)
      /\ Link(r).decision = "none" /\ Link(r)'.head = Link(r).head
      /\ Link(r)'.decision \in {"none", "APPROVED", "REVISION_REQUESTED", "ESCALATED"}
  BY <1>1, <1>3, Decisions DEF Link, Opinion, Bundled
<1>6. \A s \in 1..r : Chain[s] = Link(s) /\ Chain'[s] = Link(s)'
  BY <1>2, <1>3 DEF Linked
<1>7. Chain \in Seq(Links) /\ Chain' \in Seq(Links)
  BY <1>2 DEF Linked
<1>8. \A s \in 1..Len(Chain) : s # r => Chain'[s] = Chain[s]
  BY <1>4, <1>5, <1>6
<1>9. Chain' = [Chain EXCEPT ![r].decision = Chain'[r].decision]
  <2>1. Chain'[r].head = Chain[r].head
    BY <1>3, <1>5, <1>6
  <2> QED
    <3>1. Len(Chain') = Len(Chain) /\ r \in 1..Len(Chain)
      BY <1>3, <1>4
    <3> QED
      BY <1>7, <1>8, <2>1, <3>1, DecidedChain
<1>10. CASE Chain'[r].decision = "none"
  <2>1. Chain'[r] \in Links /\ Chain[r] \in Links
    BY <1>3, <1>4, <1>7
  <2>2. Chain'[r] = Chain[r]
    BY <1>3, <1>5, <1>6, <1>10, <2>1 DEF Links
  <2>3. \A s \in 1..Len(Chain) : Chain'[s] = Chain[s]
    BY <1>8, <2>2
  <2> QED
    BY <1>4, <1>7, <2>3, SameChain
<1>11. CASE Chain'[r].decision # "none"
  BY <1>3, <1>4, <1>5, <1>6, <1>9, <1>11
<1> QED
  BY <1>10, <1>11

\* A packaged revision appends a commit on the head that was to be revised.
LEMMA ChainFollows ==
  ASSUME LoopInv, LoopInv', NEW p \in Procs, Package(p)
  PROVE  Chain' = Chain \/
         LET n == Len(Chain)
         IN  /\ Chain[n].decision = "REVISION_REQUESTED"
             /\ \E t \in Trees :
                  Chain' = Append(Chain, [head |-> Append(Chain[n].head, t), decision |-> "none"])
<1>1. job[p].pc = "package" /\ job[p].pc \in RevisionPc \ Making /\ review' = review
  BY DEF Package, RevisionPc, Making, reviewing
<1>2. PICK r \in Revisions : r = job[p].round
  BY <1>1, RevisionIs
<1> DEFINE rc == revision[r]
<1>3. /\ r \in Rounds /\ r + 1 \in Rounds /\ rc \in RevisionReceipt
      /\ rc.state = "PUSHED" /\ rc.commit = ApprovedCommit(rc) /\ rc.approved \in Trees
      /\ rc.head = bundle[r].head /\ bundle[r].head # None
  BY <1>1, <1>2, RevisionIs, Approved, Numbers, Commits DEF StepFits, Mine
<1>4. review[r].state = "REVISION_REQUESTED"
  BY <1>3 DEF LoopInv, RevisionsFit
<1>5. CASE bundle' = bundle
  BY <1>1, <1>5, ChainStutters DEF Opinion
<1>6. CASE bundle[r + 1].head = None /\ bundle' = [bundle EXCEPT ![r + 1] = NextBundle(p)]
  <2>1. Linked /\ Linked'
    BY ChainIsLinked, PTL
  <2>2. r = Cardinality(Bundled) /\ r \in Nat /\ r \in 1..r /\ Bundled = 1..r
    <3>1. r = Cardinality(Bundled) /\ r \in Nat /\ r >= 1
      BY <1>3, <1>6, LastRound, Numbers
    <3> QED
      BY <3>1, FirstRounds
  <2>3. /\ bundle'[r + 1].head = rc.commit /\ bundle'[r + 1].head # None
        /\ \A s \in Rounds \ {r + 1} : bundle'[s] = bundle[s]
    BY <1>1, <1>2, <1>3, <1>6, Approved DEF LoopInv, TypeOK, NextBundle, Mine
  <2>4. Bundled' = 1..(r + 1)
    <3>1. \A s \in Rounds : s \in Bundled' <=> s \in Bundled \/ s = r + 1
      BY <2>3 DEF Bundled
    <3>2. Bundled' \subseteq Rounds /\ Bundled \subseteq Rounds
      BY DEF Bundled
    <3>3. Bundled' = Bundled \cup {r + 1}
      BY <1>3, <3>1, <3>2
    <3>4. 1..(r + 1) = 1..r \cup {r + 1}
      BY <2>2
    <3> QED
      BY <2>2, <3>3, <3>4
  <2>5. Len(Chain) = r /\ Len(Chain') = r + 1
    BY <2>1, <2>2, <2>4, Numbers DEF Linked
  <2>6. review[r + 1].state \notin Terminal
    <3>1. RoundFits(r + 1)
      BY <1>3 DEF LoopInv, DecisionsFit
    <3> QED
      BY <1>6, <3>1 DEF RoundFits
  <2>7. \A s \in 1..r : Link(s)' = Link(s)
    <3>1. \A s \in 1..r : s \in Rounds \ {r + 1}
      BY <2>2 DEF Bundled
    <3> QED
      BY <1>1, <2>3, <3>1 DEF Link, Opinion
  <2>8. Link(r + 1)' = [head |-> Append(bundle[r].head, rc.approved), decision |-> "none"]
    BY <1>1, <1>3, <2>3, <2>6 DEF Link, Opinion, ApprovedCommit
  <2>9. Link(r).decision = "REVISION_REQUESTED" /\ Link(r).head = bundle[r].head
    BY <1>4, Decisions DEF Link, Opinion
  <2>10. /\ Chain \in Seq(Links) /\ Chain' \in Seq(Links)
         /\ \A s \in 1..r : Chain[s] = Link(s)
         /\ \A s \in 1..(r + 1) : Chain'[s] = Link(s)'
    BY <2>1, <2>2, <2>4 DEF Linked
  <2>11. r + 1 \in 1..(r + 1) /\ \A s \in 1..r : s \in 1..(r + 1)
    BY <2>2
  <2>12. Chain' = Append(Chain, Chain'[r + 1])
    BY <2>5, <2>7, <2>10, <2>11, LongerChain
  <2>13. Chain'[r + 1] = [head |-> Append(Chain[r].head, rc.approved), decision |-> "none"]
    BY <2>2, <2>8, <2>9, <2>10, <2>11
  <2>14. Chain[r].decision = "REVISION_REQUESTED"
    BY <2>2, <2>9, <2>10
  <2> QED
    BY <1>3, <2>5, <2>12, <2>13, <2>14
<1>7. \/ bundle' = bundle
      \/ bundle[r + 1].head = None /\ bundle' = [bundle EXCEPT ![r + 1] = NextBundle(p)]
  <2>1. bundle[r + 1] = NextBundle(p) /\ bundle' = [bundle EXCEPT ![r + 1] = NextBundle(p)] => bundle' = bundle
    BY <1>3 DEF LoopInv, TypeOK
  <2> QED
    BY <1>2, <2>1 DEF Package
<1> QED
  BY <1>5, <1>6, <1>7

\* The rounds of a run follow the promised chain: one decision on each head, and a
\* head that was to be revised is answered by one commit on it (revision-service.ts,
\* service.ts of the web review).
THEOREM LoopKeepsChain == Spec => KeepsChain
<1>1. Init => Promise!Init
  <2> SUFFICES ASSUME Init PROVE Promise!Init
    OBVIOUS
  <2>1. LoopInv
    BY InitKeeps
  <2>2. /\ bundle[1].head = <<Start>> /\ review[1].state = "NONE"
        /\ \A r \in Rounds : bundle[r].head # None => r = 1
    BY Numbers DEF Init, ReviewInit
  <2>3. Bundled = {1} /\ Cardinality(Bundled) = 1
    <3>1. Bundled = {1}
      BY <2>2, ReviewAssumption, Numbers DEF Bundled, None
    <3>2. Cardinality(Bundled) \in Nat /\ Bundled = 1..Cardinality(Bundled)
      BY <2>1, FirstRounds, Numbers
    <3>3. Cardinality(Bundled) \in 1..Cardinality(Bundled)
      BY <2>1, FirstRounds, Numbers
    <3> QED
      BY <3>1, <3>2, <3>3
  <2>4. Link(1) = [head |-> <<Start>>, decision |-> "none"]
    BY <2>2, Decisions DEF Link, Opinion
  <2>5. Chain = <<[head |-> <<Start>>, decision |-> "none"]>>
    BY <2>3, <2>4 DEF Chain
  <2> QED
    BY <2>5, ReviewAssumption DEF Promise!Init, Chain, Link, Opinion, Bundled
<1>2. ASSUME LoopInv, LoopInv', [Next]_vars
      PROVE  [Promise!Next]_Chain
  <2>1. CASE \E p \in Procs : bundle' = bundle /\ WritesOwnRound(p)
    BY <1>2, <2>1, ChainDecides DEF Promise!Next, Promise!Decide, Promise!Last, Chain, Link, Opinion, Bundled
  <2>2. CASE \E p \in Procs : Package(p)
    BY <1>2, <2>2, ChainFollows DEF Promise!Next, Promise!Follow, Promise!Last, Chain, Link, Opinion, Bundled
  <2>3. CASE UNCHANGED <<review, bundle>>
    BY <1>2, <2>3, ChainStutters DEF Opinion
  <2> QED
    BY <1>2, <2>1, <2>2, <2>3, LoopWrites
<1> QED
  BY <1>1, <1>2, LoopInvariant, PTL DEF Spec, KeepsChain, Promise!Spec, Chain, Link, Opinion, Bundled
=============================================================================
