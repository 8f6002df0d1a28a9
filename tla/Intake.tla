------------------------------- MODULE Intake -------------------------------
(***************************************************************************)
(* Intake of a Task Bundle: the archive is copied from one open file into  *)
(* quarantine, named by its hash, judged, and moved with its receipt into  *)
(* the accepted or the rejected store.  Any number of processes take in    *)
(* archives; only the final rename decides between them.                   *)
(***************************************************************************)
EXTENDS Integers, Sequences

CONSTANTS
  Procs,    \* wco processes
  Archives, \* archives by content
  Flaw,     \* what is wrong with each, "none" for a good one
  Branches, \* delivery branches
  BranchOf, \* the branch each archive asks for
  Files     \* file names in the inbox

Flaws == {"none", "entries", "root", "checksum_file", "checksums", "contract", "commands", "payload", "old",
  "undeliverable"}

ASSUME IntakeAssumption ==
  /\ Flaw \in [Archives -> Flaws] /\ BranchOf \in [Archives -> Branches]
  /\ Procs \cap {"free", "orphan"} = {} /\ Archives \cap {"none", "nobody", "others"} = {}

VARIABLES
  files,    \* each file of the inbox: its archive and the version others gave it
  accepted, \* archives in the accepted store
  rejected, \* the refusal stored for each: "none", "rejected" or "blocked", as scans name its code
  misread,  \* archives refused because the disk failed while they were checked
  job       \* what each process is doing

Idle(p) == job[p].pc = "idle"
GoTo(p, pc) == job' = [job EXCEPT ![p].pc = pc]

\* The end of prepareTask for its caller.
Answer(p, result) == job' = [job EXCEPT ![p].pc = "answered", ![p].result = result]

\* What the bytes of an archive are checked for, in this order: names, types and
\* sizes of its entries; one root; the list of checksums and the checksums; manifest and acceptance; validation
\* commands; the payload.
SafeEntries(a) == Flaw[a] # "entries"
OneRoot(a) == Flaw[a] # "root"
ChecksumsMatch(a) == Flaw[a] \notin {"checksum_file", "checksums"}
ContractValid(a) == Flaw[a] # "contract"
PayloadDeclared(a) == Flaw[a] # "payload"
CommandsAllowed(a) == Flaw[a] # "commands"
BundleValid(a) == ContractValid(a) /\ CommandsAllowed(a) /\ PayloadDeclared(a)
Sound(a) == SafeEntries(a) /\ OneRoot(a) /\ ChecksumsMatch(a) /\ BundleValid(a)

\* Schemas before 1.2 have no execution contract.
Executable(a) == Flaw[a] # "old"
Deliverable(a) == Flaw[a] # "undeliverable"

-----------------------------------------------------------------------------
\* The open file is copied to its end: what happens to its name no longer matters.
CopyArchive(p) ==
  /\ job[p].pc = "copy"
  /\ job' = [job EXCEPT ![p].pc = "find", ![p].archive = files[job[p].file].archive]
  /\ UNCHANGED <<files, accepted, rejected, misread>>

Taken(p) == IF Executable(job[p].archive) THEN GoTo(p, "lock") ELSE Answer(p, "rejected")

\* An archive that was decided before is not judged again, rejections first.
FindReceipt(p) ==
  LET a == job[p].archive
  IN  /\ job[p].pc = "find"
      /\ IF rejected[a] # "none" THEN Answer(p, rejected[a])
         ELSE IF a \in accepted THEN Taken(p)
         ELSE GoTo(p, "judge")
      /\ UNCHANGED <<files, accepted, rejected, misread>>

\* The staged directory is renamed into place; whoever comes second takes the
\* receipt of the first.
Accept(p, a) == accepted' = accepted \cup {a} /\ Taken(p)

Refuse(p, a, as) ==
  LET stored == IF rejected[a] = "none" THEN as ELSE rejected[a]
  IN  rejected' = [rejected EXCEPT ![a] = stored] /\ Answer(p, stored)

\* CHECKSUMS_INVALID does not begin as the codes that a scan takes for rejections do.
Refusals == {"rejected", "blocked"}
RefusalOf(a) == IF Flaw[a] = "checksum_file" THEN "blocked" ELSE "rejected"

Judge(p) ==
  LET a == job[p].archive
  IN  /\ job[p].pc = "judge"
      /\ IF Sound(a) THEN Accept(p, a) /\ UNCHANGED rejected
         ELSE Refuse(p, a, RefusalOf(a)) /\ UNCHANGED accepted
      /\ UNCHANGED <<files, misread>>

\* Most errors of the disk remove the quarantine and store nothing; the archive that
\* cannot be looked at is answered as one that is not there.
CopyTrouble(p) ==
  /\ job[p].pc = "copy" /\ (Answer(p, "failed") \/ Answer(p, "blocked"))
  /\ UNCHANGED <<files, accepted, rejected, misread>>

\* A receipt that cannot be read counts as one that is not there.
FindTrouble(p) ==
  /\ job[p].pc = "find"
  /\ \/ Answer(p, "failed") \/ GoTo(p, "judge")
     \/ job[p].archive \in accepted /\ Taken(p)
  /\ UNCHANGED <<files, accepted, rejected, misread>>

\* An error while the archive is inspected, extracted, hashed or validated is taken
\* for a flaw of the archive and stored as its refusal.  When it is the manifest that
\* cannot be read, the checksums are not verified.
JudgeTrouble(p) ==
  LET a == job[p].archive
  IN  /\ job[p].pc = "judge"
      /\ \/ Answer(p, "failed") /\ UNCHANGED <<accepted, rejected, misread>>
         \/ /\ \E as \in Refusals : Refuse(p, a, as)
            /\ misread' = misread \cup {a} /\ UNCHANGED accepted
         \/ ~ChecksumsMatch(a) /\ Accept(p, a) /\ UNCHANGED <<rejected, misread>>
      /\ UNCHANGED files

IntakeTrouble(p) == CopyTrouble(p) \/ FindTrouble(p) \/ JudgeTrouble(p)

IntakeStep(p) == CopyArchive(p) \/ FindReceipt(p) \/ Judge(p)
=============================================================================
