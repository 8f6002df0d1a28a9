---------------------------- MODULE RelayWriters ----------------------------
(***************************************************************************)
(* Several WCO processes append events to one relay record, a file that is *)
(* read, extended and renamed over under the ticket lock (locked, append   *)
(* and write of web-bridge/relay/file-store.ts).  Composes TicketLock with *)
(* the record: what the lock's holder does between acquire and release.    *)
(***************************************************************************)
EXTENDS TicketLock

VARIABLES
  record,  \* the events in the file; each process appends one of its own
  copy,    \* the record as a process read it
  phase,   \* how far the operation of the lock's holder got
  acked    \* events whose append returned to its caller

writerVars == <<dir, pc, own, todo, overtaken, record, copy, phase, acked>>

WInit ==
  /\ Init
  /\ record = {}
  /\ copy = [p \in Procs |-> {}]
  /\ phase = [p \in Procs |-> "none"]
  /\ acked = {}

Read(p) ==
  /\ pc[p] = "holding" /\ phase[p] = "none"
  /\ copy' = [copy EXCEPT ![p] = record]
  /\ phase' = [phase EXCEPT ![p] = "read"]
  /\ UNCHANGED <<vars, record, acked>>

\* Mutant: the file is rewritten with the new event only.
AppendBlind(p) ==
  /\ pc[p] = "holding" /\ phase[p] = "read"
  /\ record' = {p}
  /\ phase' = [phase EXCEPT ![p] = "written"]
  /\ copy' = [copy EXCEPT ![p] = {}]
  /\ UNCHANGED <<vars, acked>>

\* The replay of an event under its idempotency key writes nothing new.
Append(p) ==
  /\ pc[p] = "holding" /\ phase[p] = "read"
  /\ record' = copy[p] \cup {p}
  /\ phase' = [phase EXCEPT ![p] = "written"]
  /\ copy' = [copy EXCEPT ![p] = {}]
  /\ UNCHANGED <<vars, acked>>

\* locked: the lock is released once the operation is over.  A ticket that is
\* gone counts as released; one that changed hands is reported as a failure.
Finish(p) ==
  /\ pc[p] = "holding" /\ phase[p] = "written"
  /\ Release(p)
  /\ phase' = IF Owns(p, own[p]) THEN phase ELSE [phase EXCEPT ![p] = "none"]
  /\ acked' = IF dir[own[p]] = Free THEN acked \cup {p} ELSE acked
  /\ UNCHANGED <<record, copy>>

Acknowledge(p) ==
  /\ phase[p] = "written"
  /\ UnlinkOwn(p)
  /\ phase' = [phase EXCEPT ![p] = "none"]
  /\ acked' = acked \cup {p}
  /\ UNCHANGED <<record, copy>>

LockStep(p) ==
  /\ phase[p] = "none" /\ pc[p] # "holding"
  /\ List(p) \/ Proceed(p) \/ TimeOut(p)
  /\ UNCHANGED <<record, copy, phase, acked>>

CrashStep(p) ==
  /\ Crash(p)
  /\ copy' = [copy EXCEPT ![p] = {}]
  /\ phase' = [phase EXCEPT ![p] = "none"]
  /\ UNCHANGED <<record, acked>>

WNext ==
  \E p \in Procs :
    Read(p) \/ Append(p) \/ Finish(p) \/ Acknowledge(p) \/ LockStep(p) \/ CrashStep(p)

WSpec == WInit /\ [][WNext]_writerVars

-----------------------------------------------------------------------------
WTypeOK ==
  /\ TypeOK
  /\ record \subseteq Procs
  /\ copy \in [Procs -> SUBSET Procs]
  /\ phase \in [Procs -> {"none", "read", "written"}]
  /\ acked \subseteq Procs

\* The record loses an acknowledged event only after a ticket was overtaken:
\* the read, the write and the crashes of the others never lose one.
NoEventLostUnlessOvertaken == ~overtaken => acked \subseteq record

\* Until then, what the writer read is still the whole record when it writes.
CopyIsCurrent ==
  ~overtaken => \A p \in Procs :
    pc[p] = "holding" /\ phase[p] = "read" => copy[p] = record

\* The inductive invariant: who is inside, and what the writers may rely on.
Stages ==
  \A p \in Procs :
    /\ phase[p] = "read" => pc[p] = "holding"
    /\ phase[p] = "written" => pc[p] \in {"holding", "releasing"}

WriterInv ==
  /\ WTypeOK /\ LockInv /\ Stages /\ CopyIsCurrent
  /\ ~overtaken => /\ acked \subseteq record
                   /\ \A p \in Procs : phase[p] = "written" => p \in record
=============================================================================
