----------------------------- MODULE TicketLock -----------------------------
(***************************************************************************)
(* The crash-recoverable ticket lock that serialises the writers of the    *)
(* relay store (shared/ticket-file-lock.ts).  A process lists a directory  *)
(* of ticket files, creates the file numbered one above the highest, and   *)
(* holds the lock once no live process owns a lower ticket; tickets of dead*)
(* processes are deleted by whoever waits behind them.                     *)
(*                                                                         *)
(* Each step is one file-system call: listing, exclusive creation, writing *)
(* the body, reading a body, unlinking.  Every pair of them may be         *)
(* separated by steps, and crashes, of the other processes.                *)
(***************************************************************************)
EXTENDS Integers

CONSTANTS
  Procs,      \* the processes, each acquiring the lock for one operation at a time
  MaxTicket,  \* highest ticket number; a bound of the model (999 999 999 999)
  Free        \* no ticket file of that number

Tickets == 1..MaxTicket

\* The file is created empty and its body written afterwards.
TicketFile == [owner : Procs, written : BOOLEAN]

Place ==
  {"idle", "listing", "planned", "created", "written", "waiting", "scanning",
   "unlinking", "blocked", "holding", "refused", "releasing", "dead"}

ASSUME TicketAssumption == MaxTicket \in Nat /\ Free \notin TicketFile

VARIABLES
  dir,       \* the lock directory: the file of each number
  pc,        \* what each process does next
  own,       \* the number a process planned or holds, 0 before the first
  todo,      \* the lower tickets of its last listing it has not looked at
  overtaken  \* history: a ticket was created below an existing one

vars == <<dir, pc, own, todo, overtaken>>

Init ==
  /\ dir = [t \in Tickets |-> Free]
  /\ pc = [p \in Procs |-> "idle"]
  /\ own = [p \in Procs |-> 0]
  /\ todo = [p \in Procs |-> {}]
  /\ overtaken = FALSE

-----------------------------------------------------------------------------
Taken == {t \in Tickets : dir[t] # Free}

\* The ticket process p looks at next: the lowest it has not looked at.
Looks(p, t) == t \in todo[p] /\ \A u \in todo[p] : t <= u

\* The number allocateTicket plans: one above the highest listed.
IsNextTicket(n) ==
  /\ n \in Tickets
  /\ \A t \in Taken : t < n
  /\ n = 1 \/ n - 1 \in Taken

\* processIsAlive
Alive(p) == pc[p] # "dead"

Owns(p, t) == dir[t] # Free /\ dir[t].owner = p

\* Mutants: empty tickets are skipped; the predecessor is skipped.
OlderWritten(p) == {t \in Taken : t < own[p] /\ dir[t].written}
\* The tickets acquireTicketFileLock looks at in one round.
Older(p) == {t \in Taken : t < own[p]}

Goto(p, place) == pc' = [pc EXCEPT ![p] = place]

\* The end of a call, or of the process: its local variables are gone.
Leave(p, place) ==
  /\ Goto(p, place)
  /\ own' = [own EXCEPT ![p] = 0]
  /\ todo' = [todo EXCEPT ![p] = {}]

\* The end of a round of the waiting loop.
EndRound(p, place) == Goto(p, place) /\ todo' = [todo EXCEPT ![p] = {}]
-----------------------------------------------------------------------------
\* allocateTicket: list, plan a number, create the file, write it, read it back.
List(p) ==
  /\ pc[p] \in {"idle", "listing"}
  /\ \E n \in Tickets : IsNextTicket(n) /\ own' = [own EXCEPT ![p] = n]
  /\ Goto(p, "planned")
  /\ UNCHANGED <<dir, todo, overtaken>>

Create(p) ==
  /\ pc[p] = "planned"
  /\ dir[own[p]] = Free
  /\ dir' = [dir EXCEPT ![own[p]] = [owner |-> p, written |-> FALSE]]
  /\ overtaken' = (overtaken \/ \E t \in Taken : t > own[p])
  /\ Goto(p, "created")
  /\ UNCHANGED <<own, todo>>

\* EEXIST: somebody else created the planned number first.
Relist(p) ==
  /\ pc[p] = "planned"
  /\ dir[own[p]] # Free
  /\ Leave(p, "listing")
  /\ UNCHANGED <<dir, overtaken>>

\* The body goes to the opened file, which may have lost its name meanwhile.
WriteBody(p) ==
  /\ pc[p] = "created"
  /\ dir' = IF Owns(p, own[p])
            THEN [dir EXCEPT ![own[p]] = [owner |-> p, written |-> TRUE]] ELSE dir
  /\ Goto(p, "written")
  /\ UNCHANGED <<own, todo, overtaken>>

ReadBack(p) ==
  /\ pc[p] = "written"
  /\ IF Owns(p, own[p])
     THEN Goto(p, "waiting") /\ UNCHANGED <<dir, own, todo>>
     ELSE Leave(p, "idle") /\ dir' = [dir EXCEPT ![own[p]] = Free]
  /\ UNCHANGED overtaken

\* One round of the waiting loop: list, then look at each lower ticket in turn.
Scan(p) ==
  /\ pc[p] = "waiting"
  /\ todo' = [todo EXCEPT ![p] = Older(p)]
  /\ Goto(p, "scanning")
  /\ UNCHANGED <<dir, own, overtaken>>

\* The owner of the ticket released it after the listing.
SkipGone(p) ==
  /\ pc[p] = "scanning"
  /\ \E t \in todo[p] :
       /\ Looks(p, t) /\ dir[t] = Free
       /\ todo' = [todo EXCEPT ![p] = @ \ {t}]
  /\ UNCHANGED <<dir, pc, own, overtaken>>

\* Mutant: any lower ticket blocks, whether its owner lives or not.
InspectTrusting(p) ==
  /\ pc[p] = "scanning"
  /\ \E t \in todo[p] :
       /\ Looks(p, t) /\ dir[t] # Free
       /\ EndRound(p, IF dir[t].written THEN "blocked" ELSE "refused")
  /\ UNCHANGED <<dir, own, overtaken>>

\* An empty body is TICKET_LOCK_INVALID; a live owner blocks the round.
Inspect(p) ==
  /\ pc[p] = "scanning"
  /\ \E t \in todo[p] :
       /\ Looks(p, t) /\ dir[t] # Free
       /\ IF dir[t].written /\ ~Alive(dir[t].owner)
          THEN Goto(p, "unlinking") /\ UNCHANGED todo
          ELSE EndRound(p, IF dir[t].written THEN "blocked" ELSE "refused")
  /\ UNCHANGED <<dir, own, overtaken>>

\* The dead predecessor's ticket is unlinked by name, whoever owns it by now.
UnlinkDead(p) ==
  /\ pc[p] = "unlinking"
  /\ \E t \in todo[p] :
       /\ Looks(p, t)
       /\ dir' = [dir EXCEPT ![t] = Free]
       /\ todo' = [todo EXCEPT ![p] = @ \ {t}]
  /\ Goto(p, "scanning")
  /\ UNCHANGED <<own, overtaken>>

Enter(p) ==
  /\ pc[p] = "scanning" /\ todo[p] = {}
  /\ Goto(p, "holding")
  /\ UNCHANGED <<dir, own, todo, overtaken>>

Poll(p) ==
  /\ pc[p] = "blocked"
  /\ Goto(p, "waiting")
  /\ UNCHANGED <<dir, own, todo, overtaken>>

\* TICKET_LOCKED: the wait lasted timeoutMs.
TimeOut(p) ==
  /\ pc[p] = "blocked"
  /\ Goto(p, "refused")
  /\ UNCHANGED <<dir, own, todo, overtaken>>

\* release, by the holder or after a refusal: look at the own ticket, then
\* unlink it; a ticket that is gone or replaced is left alone.
Release(p) ==
  /\ pc[p] \in {"holding", "refused"}
  /\ IF Owns(p, own[p]) THEN Goto(p, "releasing") /\ UNCHANGED <<own, todo>>
                        ELSE Leave(p, "idle")
  /\ UNCHANGED <<dir, overtaken>>

UnlinkOwn(p) ==
  /\ pc[p] = "releasing"
  /\ dir' = [dir EXCEPT ![own[p]] = Free]
  /\ Leave(p, "idle")
  /\ UNCHANGED overtaken

Crash(p) ==
  /\ pc[p] \notin {"idle", "dead"}
  /\ Leave(p, "dead")
  /\ UNCHANGED <<dir, overtaken>>

\* What a live process does of its own accord, but for starting and giving up.
Proceed(p) ==
  \/ Create(p) \/ Relist(p) \/ WriteBody(p) \/ ReadBack(p)
  \/ Scan(p) \/ SkipGone(p) \/ Inspect(p) \/ UnlinkDead(p) \/ Enter(p) \/ Poll(p)
  \/ Release(p) \/ UnlinkOwn(p)

Next == \E p \in Procs : List(p) \/ Proceed(p) \/ TimeOut(p) \/ Crash(p)

Spec == Init /\ [][Next]_vars

FairSpec == Spec /\ \A p \in Procs : WF_vars(Proceed(p))

-----------------------------------------------------------------------------
(* Properties                                                              *)

TypeOK ==
  /\ dir \in [Tickets -> TicketFile \cup {Free}]
  /\ pc \in [Procs -> Place]
  /\ own \in [Procs -> Tickets \cup {0}]
  /\ todo \in [Procs -> SUBSET Tickets]
  /\ overtaken \in BOOLEAN

\* Only one process at a time is between acquire and release ("serializes
\* mutations across WCO processes").
MutualExclusion ==
  \A p, q \in Procs : pc[p] = "holding" /\ pc[q] = "holding" => p = q

\* A waiting process only deletes the ticket of a dead one; part of LockInv.
UnlinksOnlyTheDead ==
  \A p \in Procs : \A t \in todo[p] :
    pc[p] = "unlinking" /\ Looks(p, t) /\ dir[t] # Free => ~Alive(dir[t].owner)

\* Mutual exclusion is lost only through a number that was planned before, and
\* created after, a higher ticket.
MutexUnlessOvertaken == ~overtaken => MutualExclusion

\* Without such a number the lock is first come, first served: nobody enters
\* while a live process is in the queue with a lower ticket.
HolderIsFirst ==
  ~overtaken =>
    \A p, q \in Procs :
      pc[p] = "holding" /\ Alive(q) /\ own[q] \in Tickets /\ Owns(q, own[q])
        => own[p] <= own[q]

\* Without such a number nobody takes the ticket of a live process away.
LiveTicketsKept ==
  ~overtaken =>
    \A p \in Procs :
      pc[p] \notin {"idle", "listing", "planned", "dead"} => Owns(p, own[p])

\* A process in the queue ends up inside, is refused, or dies; it never waits
\* behind the tickets of dead processes for ever.
EverySeekerAnswered ==
  \A p \in Procs : pc[p] = "waiting" ~> pc[p] \in {"holding", "refused", "dead"}

-----------------------------------------------------------------------------
(* The inductive invariant behind the properties.                          *)

\* What a process has already ruled out: each lower ticket is gone, is still
\* to be looked at in this round, or belongs to a dead process.
Cleared ==
  \A p \in Procs :
    pc[p] \in {"scanning", "unlinking", "holding"} =>
      \A t \in Tickets :
        t < own[p] => dir[t] = Free \/ t \in todo[p] \/ ~Alive(dir[t].owner)

\* From planning on a process has a number.
Numbered ==
  \A p \in Procs : pc[p] \notin {"idle", "listing", "dead"} => own[p] \in Tickets

\* A round looks at lower tickets only.
LooksBelow == \A p \in Procs : \A t \in todo[p] : t < own[p]

\* Outside a round nothing is left to look at.
NothingLeft ==
  \A p \in Procs : pc[p] \notin {"scanning", "unlinking"} => todo[p] = {}

LockInv ==
  /\ TypeOK
  /\ Numbered /\ LooksBelow
  /\ NothingLeft
  /\ LiveTicketsKept
  /\ ~overtaken => Cleared /\ UnlinksOnlyTheDead
=============================================================================
