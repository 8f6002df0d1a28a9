-------------------------- MODULE TicketLockProofs --------------------------
(***************************************************************************)
(* Proofs about the ticket lock, for any number of processes and tickets.  *)
(* The inductive invariant LockInv says what a waiting process has ruled   *)
(* out; it is lost exactly when a ticket is created below an existing one. *)
(***************************************************************************)
EXTENDS RelayWriters, TLAPS

\* The initial state satisfies the invariant.
LEMMA LockInvInit == Init => LockInv
BY TicketAssumption DEF Init, LockInv, TypeOK, Numbered, LooksBelow, NothingLeft, LiveTicketsKept, Cleared,
   UnlinksOnlyTheDead, Place, Tickets

\* Every step keeps the types.
LEMMA TypeStep == TypeOK /\ [Next]_vars => TypeOK'
<1> SUFFICES ASSUME TypeOK, [Next]_vars PROVE TypeOK'
  OBVIOUS
<1> USE DEF TypeOK, Goto, Leave, EndRound, Place, TicketFile
<1>1. ASSUME NEW p \in Procs, List(p) PROVE TypeOK'
  BY <1>1 DEF List
<1>2. ASSUME NEW p \in Procs, Create(p) PROVE TypeOK'
  BY <1>2 DEF Create
<1>3. ASSUME NEW p \in Procs, Relist(p) PROVE TypeOK'
  BY <1>3 DEF Relist
<1>4. ASSUME NEW p \in Procs, WriteBody(p) PROVE TypeOK'
  BY <1>4 DEF WriteBody, Owns
<1>5. ASSUME NEW p \in Procs, ReadBack(p) PROVE TypeOK'
  BY <1>5 DEF ReadBack
<1>6. ASSUME NEW p \in Procs, Scan(p) PROVE TypeOK'
  BY <1>6 DEF Scan, Older, Taken
<1>7. ASSUME NEW p \in Procs, SkipGone(p) PROVE TypeOK'
  BY <1>7 DEF SkipGone
<1>8. ASSUME NEW p \in Procs, Inspect(p) PROVE TypeOK'
  BY <1>8 DEF Inspect
<1>9. ASSUME NEW p \in Procs, UnlinkDead(p) PROVE TypeOK'
  BY <1>9 DEF UnlinkDead
<1>10. ASSUME NEW p \in Procs, Enter(p) \/ Poll(p) \/ TimeOut(p) PROVE TypeOK'
  BY <1>10 DEF Enter, Poll, TimeOut
<1>11. ASSUME NEW p \in Procs, Release(p) \/ UnlinkOwn(p) PROVE TypeOK'
  BY <1>11 DEF Release, UnlinkOwn
<1>12. ASSUME NEW p \in Procs, Crash(p) PROVE TypeOK'
  BY <1>12 DEF Crash
<1>13. CASE UNCHANGED vars
  BY <1>13 DEF vars
<1> QED
  BY <1>1, <1>2, <1>3, <1>4, <1>5, <1>6, <1>7, <1>8, <1>9, <1>10, <1>11, <1>12, <1>13
  DEF Next, Proceed

\* Dead processes stay dead.
LEMMA DeadStays ==
  ASSUME TypeOK, Next, NEW q \in Procs, ~Alive(q)
  PROVE  ~Alive(q)'
BY DEF TypeOK, Next, Proceed, List, Create, Relist, WriteBody, ReadBack, Scan, SkipGone,
  Inspect, UnlinkDead, Enter, Poll, TimeOut, Release, UnlinkOwn, Crash, Goto, Leave,
  EndRound, Alive

\* History only grows, and a step that leaves it unset created no ticket below
\* an existing one.
LEMMA OvertakenGrows ==
  ASSUME Next, ~overtaken'
  PROVE  /\ ~overtaken
         /\ \A p \in Procs : Create(p) => \A t \in Taken : ~(t > own[p])
<1>1. ASSUME NEW p \in Procs, Create(p)
      PROVE  ~overtaken /\ \A t \in Taken : ~(t > own[p])
  BY <1>1, Zenon DEF Create
<1>2. ASSUME NEW p \in Procs, ~Create(p), List(p) \/ Proceed(p) \/ TimeOut(p) \/ Crash(p)
      PROVE  overtaken' = overtaken
  BY <1>2, Zenon DEF Proceed, List, Relist, WriteBody, ReadBack, Scan, SkipGone,
    Inspect, UnlinkDead, Enter, Poll, TimeOut, Release, UnlinkOwn, Crash
<1>3. PICK p \in Procs : List(p) \/ Proceed(p) \/ TimeOut(p) \/ Crash(p)
  BY DEF Next
<1>4. ~overtaken
  <2>1. CASE Create(p)
    BY <2>1, <1>1, Zenon
  <2>2. CASE ~Create(p)
    BY <2>2, <1>2, <1>3, Zenon
  <2> QED BY <2>1, <2>2, Zenon
<1> QED
  BY <1>1, <1>4, Zenon

\* A process is inside only after it has looked at every lower ticket.
LEMMA NothingLeftStep == TypeOK /\ NothingLeft /\ Next => NothingLeft'
BY DEF TypeOK, NothingLeft, Next, Proceed, List, Create, Relist, WriteBody, ReadBack,
  Scan, SkipGone, Inspect, UnlinkDead, Enter, Poll, TimeOut, Release, UnlinkOwn, Crash,
  Goto, Leave, EndRound

\* Only lower tickets are listed.
LEMMA LooksBelowStep == TypeOK /\ NothingLeft /\ LooksBelow /\ Next => LooksBelow'
<1> SUFFICES ASSUME TypeOK, NothingLeft, LooksBelow, Next, NEW q \in Procs, NEW t \in todo'[q]
             PROVE  t < own'[q]
  BY DEF LooksBelow
<1>1. CASE Scan(q)
  BY <1>1 DEF Scan, Older, TypeOK
<1>2. CASE ~Scan(q)
  <2>1. t \in todo[q]
    BY <1>2 DEF TypeOK, Next, Proceed, List, Create, Relist, WriteBody, ReadBack, Scan,
      SkipGone, Inspect, UnlinkDead, Enter, Poll, TimeOut, Release, UnlinkOwn, Crash,
      Goto, Leave, EndRound
  <2>2. pc[q] \in {"scanning", "unlinking"} /\ t < own[q]
    BY <2>1 DEF NothingLeft, LooksBelow
  <2>3. own'[q] = own[q]
    BY <2>1, <2>2 DEF TypeOK, Next, Proceed, List, Create, Relist, WriteBody, ReadBack,
      Scan, SkipGone, Inspect, UnlinkDead, Enter, Poll, TimeOut, Release, UnlinkOwn,
      Crash, Goto, Leave, EndRound
  <2> QED
    BY <2>2, <2>3
<1> QED
  BY <1>1, <1>2

\* A planned number is a ticket's.
LEMMA NumberedStep == TypeOK /\ Numbered /\ Next => Numbered'
BY DEF TypeOK, Numbered, Next, Proceed, List, Create, Relist, WriteBody, ReadBack,
  Scan, SkipGone, Inspect, UnlinkDead, Enter, Poll, TimeOut, Release, UnlinkOwn, Crash,
  Goto, Leave, EndRound

\* A file is never the absence of one.
LEMMA FileIsNotFree ==
  ASSUME NEW p \in Procs, NEW b \in BOOLEAN
  PROVE  [owner |-> p, written |-> b] # Free
<1>1. [owner |-> p, written |-> b] \in TicketFile
  BY DEF TicketFile
<1> QED
  BY <1>1, TicketAssumption, Zenon

Queued(p) == pc[p] \notin {"idle", "listing", "planned", "dead"}

\* No step but a crash of the owner takes a queued process's ticket away.
LEMMA KeptStep ==
  ASSUME TypeOK, Numbered, UnlinksOnlyTheDead, Next, ~overtaken,
         \A p \in Procs : Queued(p) => Owns(p, own[p])
  PROVE  \A p \in Procs : Queued(p)' => Owns(p, own[p])'
<1> SUFFICES ASSUME NEW q \in Procs, Queued(q)' PROVE Owns(q, own[q])'
  OBVIOUS
<1> USE DEF TypeOK, Queued, Owns, Goto, Leave, EndRound, TicketFile
<1>1. ASSUME NEW p \in Procs, List(p) PROVE Owns(q, own[q])'
  BY <1>1 DEF List
<1>2. ASSUME NEW p \in Procs, Create(p) PROVE Owns(q, own[q])'
  <2>1. [owner |-> p, written |-> FALSE] # Free
    BY FileIsNotFree, Zenon
  <2> QED
    BY <1>2, <2>1 DEF Create, Numbered
<1>3. ASSUME NEW p \in Procs, Relist(p) \/ Scan(p) \/ SkipGone(p) \/ Inspect(p)
                \/ Enter(p) \/ Poll(p) \/ TimeOut(p) \/ Release(p) \/ Crash(p)
      PROVE  Owns(q, own[q])'
  BY <1>3 DEF Relist, Scan, SkipGone, Inspect, Enter, Poll, TimeOut, Release, Crash
<1>4. ASSUME NEW p \in Procs, WriteBody(p) PROVE Owns(q, own[q])'
  <2>1. [owner |-> p, written |-> TRUE] # Free
    BY FileIsNotFree, Zenon
  <2> QED
    BY <1>4, <2>1 DEF WriteBody, Numbered
<1>5. ASSUME NEW p \in Procs, ReadBack(p) PROVE Owns(q, own[q])'
  BY <1>5 DEF ReadBack
<1>6. ASSUME NEW p \in Procs, UnlinkDead(p) PROVE Owns(q, own[q])'
  <2>1. PICK t \in todo[p] : Looks(p, t) /\ dir' = [dir EXCEPT ![t] = Free]
    BY <1>6 DEF UnlinkDead
  <2>2. own[q] # t \/ ~Queued(q)
    BY <1>6, <2>1 DEF UnlinkDead, UnlinksOnlyTheDead, Alive
  <2> QED
    BY <1>6, <2>1, <2>2 DEF UnlinkDead
<1>7. ASSUME NEW p \in Procs, UnlinkOwn(p) PROVE Owns(q, own[q])'
  BY <1>7 DEF UnlinkOwn
<1> QED
  BY <1>1, <1>2, <1>3, <1>4, <1>5, <1>6, <1>7 DEF Next, Proceed

\* A ticket that is free or a dead process's stays so, unless it is created
\* above every existing ticket.
LEMMA StaysClear ==
  ASSUME TypeOK, Next, ~overtaken', NEW t \in Tickets,
         dir[t] = Free \/ ~Alive(dir[t].owner), NEW u \in Taken, t < u
  PROVE  (dir[t] = Free \/ ~Alive(dir[t].owner))'
<1>1. \A p \in Procs : Create(p) => ~(u > own[p])
  BY OvertakenGrows, Zenon
<1>2. dir'[t] = Free \/ dir'[t] = dir[t] \/ (dir[t] # Free /\ dir'[t].owner = dir[t].owner)
  <2>1. ASSUME NEW p \in Procs, Create(p) PROVE dir'[t] = dir[t]
    BY <1>1, <2>1 DEF Create, Taken, Tickets, TypeOK
  <2>2. ASSUME NEW p \in Procs, WriteBody(p)
        PROVE  dir'[t] = dir[t] \/ (dir[t] # Free /\ dir'[t].owner = dir[t].owner)
    BY <2>2 DEF WriteBody, TypeOK, Owns
  <2>3. ASSUME NEW p \in Procs, ReadBack(p) \/ UnlinkDead(p) \/ UnlinkOwn(p)
        PROVE  dir'[t] = dir[t] \/ dir'[t] = Free
    BY <2>3 DEF ReadBack, UnlinkDead, UnlinkOwn, TypeOK
  <2>4. ASSUME NEW p \in Procs, List(p) \/ Relist(p) \/ Scan(p) \/ SkipGone(p)
                  \/ Inspect(p) \/ Enter(p) \/ Poll(p) \/ TimeOut(p) \/ Release(p) \/ Crash(p)
        PROVE  dir'[t] = dir[t]
    BY <2>4 DEF List, Relist, Scan, SkipGone, Inspect, Enter, Poll, TimeOut, Release, Crash
  <2> QED
    BY <2>1, <2>2, <2>3, <2>4 DEF Next, Proceed
<1>3. CASE dir'[t] = Free
  BY <1>3
<1>4. CASE dir'[t] # Free
  <2>1. dir[t] # Free /\ dir'[t].owner = dir[t].owner /\ dir[t].owner \in Procs
    BY <1>2, <1>4 DEF TypeOK, TicketFile
  <2>2. PICK q \in Procs : q = dir[t].owner
    BY <2>1
  <2>3. ~Alive(q)
    BY <2>1, <2>2
  <2>4. ~Alive(q)'
    BY <2>3, DeadStays
  <2> QED
    BY <2>1, <2>2, <2>4 DEF Alive
<1> QED
  BY <1>3, <1>4

Dismissed(t) == dir[t] = Free \/ ~Alive(dir[t].owner)

\* What a process in the queue has ruled out stays ruled out.
LEMMA ClearedStep ==
  ASSUME TypeOK, Numbered, Next, ~overtaken', Cleared,
         \A p \in Procs : Queued(p) => Owns(p, own[p])
  PROVE  Cleared'
<1> SUFFICES ASSUME NEW q \in Procs, (pc[q] \in {"scanning", "unlinking", "holding"})',
                    NEW t \in Tickets, (t < own[q])'
             PROVE  (Dismissed(t) \/ t \in todo[q])'
  BY DEF Cleared, Dismissed
<1>1. CASE pc[q] \in {"scanning", "unlinking", "holding"}
  <2>1. own'[q] = own[q]
    BY <1>1 DEF TypeOK, Next, Proceed, List, Create, Relist, WriteBody, ReadBack,
      Scan, SkipGone, Inspect, UnlinkDead, Enter, Poll, TimeOut, Release, UnlinkOwn,
      Crash, Goto, Leave, EndRound
  <2>2. own[q] \in Taken /\ t < own[q]
    BY <1>1, <2>1 DEF Numbered, Queued, Owns, Taken
  <2>3. CASE Dismissed(t)
    BY <2>2, <2>3, StaysClear DEF Dismissed
  <2>4. CASE t \in todo[q] /\ t \in todo'[q]
    BY <2>4
  <2>5. CASE t \in todo[q] /\ t \notin todo'[q]
    <3>1. SkipGone(q) \/ UnlinkDead(q)
      BY <1>1, <2>5 DEF TypeOK, Next, Proceed, List, Create, Relist, WriteBody, ReadBack,
        Scan, SkipGone, Inspect, UnlinkDead, Enter, Poll, TimeOut, Release, UnlinkOwn,
        Crash, Goto, Leave, EndRound
    <3> QED
      BY <2>5, <3>1 DEF SkipGone, UnlinkDead, TypeOK, Dismissed
  <2> QED
    BY <1>1, <2>2, <2>3, <2>4, <2>5 DEF Cleared, Dismissed
<1>2. CASE pc[q] \notin {"scanning", "unlinking", "holding"}
  <2>1. Scan(q)
    BY <1>2 DEF TypeOK, Next, Proceed, List, Create, Relist, WriteBody, ReadBack,
      Scan, SkipGone, Inspect, UnlinkDead, Enter, Poll, TimeOut, Release, UnlinkOwn,
      Crash, Goto, Leave, EndRound
  <2> QED
    BY <2>1 DEF Scan, Older, Taken, TypeOK, Dismissed
<1> QED
  BY <1>1, <1>2

\* The ticket a process is about to unlink stays a dead one's: its number is
\* below the process's own, so it is not created anew.
LEMMA TargetStep ==
  ASSUME TypeOK, Numbered, Next, ~overtaken', UnlinksOnlyTheDead, LooksBelow,
         \A p \in Procs : Queued(p) => Owns(p, own[p])
  PROVE  UnlinksOnlyTheDead'
<1> SUFFICES ASSUME NEW q \in Procs, NEW t \in todo'[q], (pc[q] = "unlinking")',
                    Looks(q, t)'
             PROVE  Dismissed(t)'
  BY DEF UnlinksOnlyTheDead, Dismissed
<1>1. CASE pc[q] = "unlinking"
  <2>1. todo'[q] = todo[q]
    BY <1>1 DEF TypeOK, Next, Proceed, List, Create, Relist, WriteBody, ReadBack,
      Scan, SkipGone, Inspect, UnlinkDead, Enter, Poll, TimeOut, Release, UnlinkOwn,
      Crash, Goto, Leave, EndRound
  <2>2. t \in Tickets /\ t \in todo[q] /\ Looks(q, t)
    BY <2>1 DEF Looks, TypeOK
  <2>3. Dismissed(t)
    BY <1>1, <2>2 DEF UnlinksOnlyTheDead, Dismissed
  <2>4. own[q] \in Taken /\ t < own[q]
    BY <1>1, <2>2 DEF Numbered, Queued, Owns, Taken, LooksBelow
  <2> QED
    BY <2>2, <2>3, <2>4, StaysClear DEF Dismissed
<1>2. CASE pc[q] # "unlinking"
  <2>1. Inspect(q)
    BY <1>2 DEF TypeOK, Next, Proceed, List, Create, Relist, WriteBody, ReadBack,
      Scan, SkipGone, Inspect, UnlinkDead, Enter, Poll, TimeOut, Release, UnlinkOwn,
      Crash, Goto, Leave, EndRound
  <2>2. PICK u \in todo[q] : Looks(q, u) /\ ~Alive(dir[u].owner) /\ UNCHANGED <<dir, todo>>
    BY <2>1 DEF Inspect, EndRound, Goto, TypeOK
  <2>3. t = u
    BY <2>2 DEF Looks, TypeOK, Tickets
  <2>4. PICK v \in Procs \cup {dir[u].owner} : v = dir[u].owner
    OBVIOUS
  <2>5. CASE dir[u] = Free
    BY <2>2, <2>3, <2>5 DEF Dismissed
  <2>6. CASE dir[u] # Free
    <3>1. v \in Procs
      BY <2>2, <2>4, <2>6 DEF TypeOK, TicketFile
    <3>2. ~Alive(v)'
      BY <2>2, <2>4, <3>1, DeadStays
    <3> QED
      BY <2>2, <2>3, <2>4, <3>2 DEF Dismissed, Alive
  <2> QED
    BY <2>5, <2>6
<1> QED
  BY <1>1, <1>2

\* The invariant is inductive.
LEMMA LockInvStep == LockInv /\ [Next]_vars => LockInv'
<1> SUFFICES ASSUME LockInv, [Next]_vars PROVE LockInv'
  OBVIOUS
<1>1. CASE UNCHANGED vars
  BY <1>1 DEF vars, LockInv, TypeOK, Numbered, LooksBelow, NothingLeft, LiveTicketsKept,
    Cleared, UnlinksOnlyTheDead, Looks, Owns, Alive
<1>2. CASE Next
  <2>1. TypeOK' /\ Numbered' /\ LooksBelow' /\ NothingLeft'
    BY <1>2, TypeStep, NumberedStep, LooksBelowStep, NothingLeftStep DEF LockInv
  <2>2. ASSUME ~overtaken'
        PROVE  /\ \A p \in Procs : Queued(p)' => Owns(p, own[p])'
               /\ Cleared' /\ UnlinksOnlyTheDead'
    <3>1. ~overtaken
      BY <1>2, <2>2, OvertakenGrows, Zenon
    <3>2. /\ TypeOK /\ Numbered /\ LooksBelow /\ Cleared /\ UnlinksOnlyTheDead
          /\ \A p \in Procs : Queued(p) => Owns(p, own[p])
      BY <3>1, Zenon DEF LockInv, LiveTicketsKept, Queued
    <3> QED
      BY <1>2, <2>2, <3>1, <3>2, KeptStep, ClearedStep, TargetStep, Zenon
  <2> QED
    BY <2>1, <2>2, Zenon DEF LockInv, LiveTicketsKept, Queued
<1> QED
  BY <1>1, <1>2

\* Every reachable state of the lock satisfies the invariant.
THEOREM LockInvariant == Spec => []LockInv
BY LockInvInit, LockInvStep, PTL DEF Spec

\* Types hold, for any number of processes and tickets.
THEOREM TicketTypes == Spec => []TypeOK
<1>1. LockInv => TypeOK
  BY DEF LockInv
<1> QED
  BY <1>1, LockInvariant, PTL

\* No process takes away the ticket of a live one unless a number was overtaken.
THEOREM LiveTicketsAreKept == Spec => []LiveTicketsKept
<1>1. LockInv => LiveTicketsKept
  BY DEF LockInv
<1> QED
  BY <1>1, LockInvariant, PTL

\* Whoever is inside has the lowest ticket of a live process.
LEMMA FirstFromInv == LockInv => HolderIsFirst
BY DEF LockInv, HolderIsFirst, Cleared, NothingLeft, Owns, TypeOK, Tickets

\* The lock is first come, first served unless a number was overtaken.
THEOREM HoldersAreFirst == Spec => []HolderIsFirst
BY FirstFromInv, LockInvariant, PTL

\* Of two holders the one with the higher ticket would have seen the other.
LEMMA MutexFromInv == LockInv => MutexUnlessOvertaken
<1> SUFFICES ASSUME LockInv, ~overtaken, NEW p \in Procs, NEW q \in Procs,
                    pc[p] = "holding", pc[q] = "holding"
             PROVE  p = q
  BY Zenon DEF MutexUnlessOvertaken, MutualExclusion
<1>1. Owns(p, own[p]) /\ Owns(q, own[q])
  BY DEF LockInv, LiveTicketsKept
<1>2. own[p] <= own[q] /\ own[q] <= own[p]
  BY <1>1, FirstFromInv DEF HolderIsFirst, Alive, LockInv, Numbered
<1>3. own[p] = own[q]
  BY <1>2 DEF LockInv, Numbered, Tickets
<1> QED
  BY <1>1, <1>3 DEF Owns

\* Mutual exclusion, for any number of processes, unless a number was overtaken.
THEOREM MutexHolds == Spec => []MutexUnlessOvertaken
BY MutexFromInv, LockInvariant, PTL

-----------------------------------------------------------------------------
(* The writers of a relay record, who work under the lock.                 *)

\* A writer's step is a step of the lock, or leaves the lock alone.
LEMMA WriterStepsAreLockSteps == WNext => [Next]_vars
BY Zenon DEF WNext, Next, Read, Append, Finish, Acknowledge, LockStep, CrashStep, Proceed

\* The writers' initial state satisfies their invariant.
LEMMA WriterInvInit == WInit => WriterInv
<1> SUFFICES ASSUME WInit PROVE WriterInv
  OBVIOUS
<1>1. LockInv /\ TypeOK
  BY LockInvInit DEF WInit, LockInv
<1> QED
  BY <1>1 DEF WInit, Init, WriterInv, WTypeOK, Stages, CopyIsCurrent

\* The writers keep the types and the stages of their operations.
LEMMA StagesStep == WriterInv /\ WNext => WTypeOK' /\ Stages'
<1> SUFFICES ASSUME WriterInv, WNext PROVE WTypeOK' /\ Stages'
  OBVIOUS
<1>1. TypeOK /\ TypeOK'
  BY WriterStepsAreLockSteps, TypeStep DEF WriterInv, LockInv
<1> USE DEF WriterInv, WTypeOK, Stages
<1>2. ASSUME NEW p \in Procs, Read(p) PROVE WTypeOK' /\ Stages'
  BY <1>1, <1>2 DEF Read, vars
<1>3. ASSUME NEW p \in Procs, Append(p) PROVE WTypeOK' /\ Stages'
  BY <1>1, <1>3 DEF Append, vars
<1>4. ASSUME NEW p \in Procs, Finish(p) PROVE WTypeOK' /\ Stages'
  BY <1>1, <1>4 DEF Finish, Release, Goto, Leave, TypeOK
<1>5. ASSUME NEW p \in Procs, Acknowledge(p) PROVE WTypeOK' /\ Stages'
  BY <1>1, <1>5 DEF Acknowledge, UnlinkOwn, Goto, Leave, TypeOK
<1>6. ASSUME NEW p \in Procs, LockStep(p) PROVE WTypeOK' /\ Stages'
  BY <1>1, <1>6 DEF LockStep, List, Proceed, Create, Relist, WriteBody, ReadBack, Scan,
    SkipGone, Inspect, UnlinkDead, Enter, Poll, TimeOut, Release, UnlinkOwn, Goto, Leave,
    EndRound, TypeOK
<1>7. ASSUME NEW p \in Procs, CrashStep(p) PROVE WTypeOK' /\ Stages'
  BY <1>1, <1>7 DEF CrashStep, Crash, Goto, Leave, TypeOK
<1> QED
  BY <1>2, <1>3, <1>4, <1>5, <1>6, <1>7, Zenon DEF WNext

Intact ==
  /\ \A p \in Procs : phase[p] = "read" => copy[p] = record
  /\ \A p \in Procs : phase[p] = "written" => p \in record
  /\ acked \subseteq record

\* While mutual exclusion holds, nobody changes the record under a writer.
LEMMA IntactStep ==
  ASSUME WTypeOK, Stages, WNext, MutualExclusion, Intact
  PROVE  Intact'
<1> USE DEF WTypeOK, Stages, Intact
<1>1. ASSUME NEW p \in Procs, Read(p) PROVE Intact'
  BY <1>1 DEF Read
<1>2. ASSUME NEW p \in Procs, Append(p) PROVE Intact'
  BY <1>2 DEF Append, MutualExclusion
<1>3. ASSUME NEW p \in Procs, Finish(p) PROVE Intact'
  BY <1>3 DEF Finish
<1>4. ASSUME NEW p \in Procs, Acknowledge(p) PROVE Intact'
  BY <1>4 DEF Acknowledge
<1>5. ASSUME NEW p \in Procs, LockStep(p) PROVE Intact'
  BY <1>5 DEF LockStep
<1>6. ASSUME NEW p \in Procs, CrashStep(p) PROVE Intact'
  BY <1>6 DEF CrashStep
<1> QED
  BY <1>1, <1>2, <1>3, <1>4, <1>5, <1>6, Zenon DEF WNext

\* The writers' invariant is inductive.
LEMMA WriterInvStep == WriterInv /\ [WNext]_writerVars => WriterInv'
<1> SUFFICES ASSUME WriterInv, [WNext]_writerVars PROVE WriterInv'
  OBVIOUS
<1>1. CASE UNCHANGED writerVars
  <2>1. LockInv'
    BY <1>1, LockInvStep, Zenon DEF writerVars, vars, WriterInv
  <2> QED
    BY <1>1, <2>1 DEF writerVars, WriterInv, WTypeOK, LockInv, Stages, CopyIsCurrent
<1>2. CASE WNext
  <2>1. WTypeOK' /\ Stages'
    BY <1>2, StagesStep
  <2>2. LockInv' /\ [Next]_vars
    BY <1>2, WriterStepsAreLockSteps, LockInvStep DEF WriterInv
  <2>3. ASSUME ~overtaken' PROVE Intact'
    <3>1. ~overtaken
      BY <2>2, <2>3, OvertakenGrows, Zenon DEF vars
    <3>2. MutualExclusion
      BY <3>1, MutexFromInv, Zenon DEF WriterInv, MutexUnlessOvertaken
    <3>3. WTypeOK /\ Stages /\ Intact
      BY <3>1, Zenon DEF WriterInv, Stages, CopyIsCurrent, Intact
    <3> QED
      BY <1>2, <3>2, <3>3, IntactStep
  <2> QED
    BY <2>1, <2>2, <2>3, Zenon DEF WriterInv, Intact, CopyIsCurrent
<1> QED
  BY <1>1, <1>2

\* The whole invariant of the writers: lock, record and what every writer knows of
\* it fit, and no acknowledged event is lost unless a number was overtaken.
THEOREM WriterInvariant == WSpec => []WriterInv
<1> QED
  BY WriterInvInit, WriterInvStep, PTL DEF WSpec

\* Types hold of the lock and the record together.
THEOREM WriterTypes == WSpec => []WTypeOK
<1>1. WriterInv => WTypeOK
  BY DEF WriterInv
<1> QED
  BY <1>1, WriterInvInit, WriterInvStep, PTL DEF WSpec

\* No acknowledged event is lost, whatever crashes, unless a number was overtaken.
THEOREM EventsAreKept == WSpec => []NoEventLostUnlessOvertaken
<1>1. WriterInv => NoEventLostUnlessOvertaken
  BY Zenon DEF WriterInv, NoEventLostUnlessOvertaken
<1> QED
  BY <1>1, WriterInvInit, WriterInvStep, PTL DEF WSpec
=============================================================================
