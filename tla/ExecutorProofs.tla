--------------------------- MODULE ExecutorProofs ---------------------------
(***************************************************************************)
(* Proofs about ExecutorTransaction, for packs of any length, any number   *)
(* of repair generations and of edits by others.  A lemma named after an   *)
(* action, as in WriteKeeps, says that the action keeps ExecutorInv.       *)
(***************************************************************************)
EXTENDS ExecutorTransaction, TLAPS

-----------------------------------------------------------------------------
(* Images and trees.                                                       *)

\* The images of a path are numbers, older ones the smaller: base, pack, repairs,
\* foreign.
LEMMA Images ==
  /\ 1 \in Paths /\ NumOps \in Paths /\ Paths \subseteq Nat
  /\ Image \subseteq Nat /\ Base \in Image /\ Pack \in Image /\ Foreign \in Image
  /\ Base = 0 /\ Pack = 1 /\ Foreign = 2 + MaxGenerations
  /\ \A g \in 1..MaxGenerations : Fix(g) \in Image /\ Fix(g) > Pack /\ Fix(g) < Foreign
BY OpsAssumption, BoundsAssumption DEF Paths, Image, Base, Pack, Foreign, Fix

\* A tree of one image is a tree, and no tree is the missing digest.
LEMMA Trees ==
  /\ \A image \in Image : Uniform(image) \in Tree
  /\ NoDigest \notin Tree
  /\ Uniform(Base) # PackTree
<1>1. \A image \in Image : Uniform(image) \in Tree
  BY DEF Uniform, Tree
<1>2. NoDigest \notin Tree
  <2> SUFFICES ASSUME NoDigest \in Tree PROVE FALSE
    OBVIOUS
  <2>1. DOMAIN NoDigest = Paths
    BY DEF Tree
  <2>2. DOMAIN NoDigest = {}
    BY DEF NoDigest
  <2> QED
    BY <2>1, <2>2, Images
<1>3. Uniform(Base)[1] # PackTree[1]
  BY Images DEF Uniform, PackTree
<1> QED
  BY <1>1, <1>2, <1>3

\* The images a repair of some paths may have.
Posts == UNION {[S -> Image] : S \in SUBSET Paths}

\* The postimages of a repair give an image to some of the paths.
LEMMA PostsAre ==
  ASSUME NEW f
  PROVE  f \in Posts <=> f \in [DOMAIN f -> Image] /\ DOMAIN f \subseteq Paths
<1>1. ASSUME f \in Posts PROVE f \in [DOMAIN f -> Image] /\ DOMAIN f \subseteq Paths
  <2>1. PICK S \in SUBSET Paths : f \in [S -> Image]
    BY <1>1 DEF Posts
  <2> QED
    BY <2>1
<1>2. ASSUME f \in [DOMAIN f -> Image], DOMAIN f \subseteq Paths PROVE f \in Posts
  BY <1>2 DEF Posts
<1> QED
  BY <1>1, <1>2

\* The record of a repair, with its postimages as a set of their own.
LEMMA RepairIs ==
  Repair = [by : {"none", "model", "web"}, post : Posts,
            state : {"NONE", "PROPOSED", "APPLYING", "APPLIED", "VERIFIED"},
            source : Digest, final : Digest]
BY DEF Repair, Posts

\* What the fields of a repair are.
LEMMA RepairFields ==
  ASSUME NEW r \in Repair
  PROVE  /\ r.by \in {"none", "model", "web"}
         /\ r.state \in {"NONE", "PROPOSED", "APPLYING", "APPLIED", "VERIFIED"}
         /\ r.source \in Digest /\ r.final \in Digest
         /\ r.post \in [DOMAIN r.post -> Image] /\ DOMAIN r.post \subseteq Paths
<1>1. r.post \in Posts /\ r.by \in {"none", "model", "web"} /\ r.source \in Digest /\ r.final \in Digest
      /\ r.state \in {"NONE", "PROPOSED", "APPLYING", "APPLIED", "VERIFIED"}
  BY RepairIs
<1> QED
  BY <1>1, PostsAre

\* A change of the repair's state or outcome leaves the rest of it.
LEMMA RepairMoves ==
  ASSUME NEW r \in Repair,
         NEW state \in {"NONE", "PROPOSED", "APPLYING", "APPLIED", "VERIFIED"}
  PROVE  LET n == [r EXCEPT !.state = state]
         IN  /\ n \in Repair /\ n.state = state /\ n.by = r.by /\ n.post = r.post
             /\ n.source = r.source /\ n.final = r.final
BY RepairIs

\* Recording the final digest of a repair leaves the rest of it alone.
LEMMA RepairEnds ==
  ASSUME NEW r \in Repair, NEW final \in Digest
  PROVE  LET n == [r EXCEPT !.final = final]
         IN  /\ n \in Repair /\ n.state = r.state /\ n.by = r.by /\ n.post = r.post
             /\ n.source = r.source /\ n.final = final
BY RepairIs

\* What bindReviewerRepair and bindWebReviewRepair propose is a repair of its
\* generation.
LEMMA Proposals ==
  ASSUME NEW by \in {"model", "web"}, NEW paths \in SUBSET Paths,
         NEW g \in 1..MaxGenerations, NEW source \in Digest
  PROVE  LET r == Proposal(by, paths, g, source)
         IN  /\ r \in Repair /\ r.by = by /\ r.state = "PROPOSED"
             /\ r.source = source /\ r.final = NoDigest
             /\ DOMAIN r.post = paths /\ \A p \in paths : r.post[p] = Fix(g)
<1> DEFINE post == [p \in paths |-> Fix(g)]
<1>1. post \in Posts
  BY PostsAre, Images
<1>2. DOMAIN post = paths /\ \A p \in paths : post[p] = Fix(g)
  OBVIOUS
<1>3. NoDigest \in Digest
  BY DEF Digest
<1>4. Proposal(by, paths, g, source) =
        [by |-> by, post |-> post, state |-> "PROPOSED", source |-> source, final |-> NoDigest]
  BY DEF Proposal
<1> HIDE DEF post
<1> QED
  BY <1>1, <1>2, <1>3, <1>4, RepairIs

\* What the fields of a receipt are.
LEMMA ReceiptFields ==
  ASSUME NEW r \in Receipt
  PROVE  /\ r.state \in ReceiptState /\ r.applied \subseteq Paths /\ r.digest \in Digest
         /\ r.passed \in Digest /\ r.verdict \in {"NONE", "APPROVE", "REVISE", "ESCALATE"}
         /\ r.reviewed \in Digest
BY DEF Receipt

\* A change of the receipt's state leaves the rest of it.
LEMMA ReceiptMoves ==
  ASSUME NEW r \in Receipt, NEW state \in ReceiptState
  PROVE  LET n == [r EXCEPT !.state = state]
         IN  /\ n \in Receipt /\ n.state = state /\ n.applied = r.applied /\ n.digest = r.digest
             /\ n.passed = r.passed /\ n.verdict = r.verdict /\ n.reviewed = r.reviewed
BY DEF Receipt

\* The states of a receipt, one by one.
LEMMA States ==
  ReceiptState = {"NONE", "PREPARED", "APPLYING", "APPLIED", "VERIFYING", "REVIEWING",
                  "REVIEWING_WEB", "REPAIR_APPLYING", "REPAIR_APPLIED", "READY_FOR_PUBLISH",
                  "ESCALATE_TO_WEB", "FAILED"}
BY DEF ReceiptState, Terminal

\* The effective tree (effectiveFinal) is one, and the pack until a repair is applied.
LEMMA EffectiveIs ==
  ASSUME TypeOK
  PROVE  /\ Effective \in Tree
         /\ repair.state \notin {"APPLIED", "VERIFIED"} => Effective = PackTree
         /\ Effective # NoDigest
<1>1. repair.post \in [Patched -> Image] /\ Patched \subseteq Paths
  BY RepairFields DEF TypeOK, Patched
<1>2. Effective \in Tree
  BY <1>1, Images DEF Effective, Tree
<1>3. ASSUME repair.state \notin {"APPLIED", "VERIFIED"} PROVE Effective = PackTree
  BY <1>3 DEF Effective, PackTree, Uniform
<1> QED
  BY <1>2, <1>3, Trees

\* The generation of the current repair is one there may be.
LEMMA GenerationIs ==
  ASSUME TypeOK, DigestsFit
  PROVE  Fixed \in 1..MaxGenerations /\ Fixed = Len(history) + 1 /\ Len(history) \in Nat
<1>1. Len(history) \in Nat
  BY DEF TypeOK
<1>2. CASE repair.by = "none"
  BY BoundsAssumption DEF DigestsFit, Fixed
<1>3. CASE repair.by # "none"
  BY <1>3 DEF DigestsFit, Fixed
<1> QED
  BY <1>1, <1>2, <1>3

-----------------------------------------------------------------------------
(* What a step leaves alone.                                               *)

ProcessType ==
  /\ lock \in BOOLEAN /\ at \in 0..NumOps + 1
  /\ pc \in {"idle", "dispatch", "failing", "ready", "seal"} \cup ApplyPc \cup GatePc \cup RepairPc
  /\ fault \in Terminal /\ unresolved \in BOOLEAN /\ looked \in Nat

\* The part of the invariant that depends on the place of the process.
PlaceInv == AtPlace /\ TurnMarked /\ ImagesFit /\ NothingUnseen /\ PlaceTrue

\* The part of the invariant about the receipt and the repairs.
RecordInv == ChainUnbroken /\ DigestsFit /\ ReviewsFit

\* It depends only on the postimages of the repair and on whether they are applied.
LEMMA EffectiveStays ==
  ASSUME repair'.post = repair.post,
         (repair'.state \in {"APPLIED", "VERIFIED"}) <=> (repair.state \in {"APPLIED", "VERIFIED"})
  PROVE  Effective' = Effective
BY DEF Effective

\* What the receipt says of digests and reviews stays while nobody writes it.
LEMMA RecordStays ==
  ASSUME RecordInv, UNCHANGED <<durable, strategy>>, verified \subseteq verified', approved \subseteq approved'
  PROVE  RecordInv'
<1>1. Effective' = Effective
  BY EffectiveStays DEF durable
<1>2. ChainUnbroken'
  BY DEF RecordInv, ChainUnbroken, durable
<1>3. DigestsFit'
  BY <1>1 DEF RecordInv, DigestsFit, durable, Sealed, Fixed, Patched
<1>4. ReviewsFit'
  BY DEF RecordInv, ReviewsFit, durable
<1> QED
  BY <1>2, <1>3, <1>4 DEF RecordInv

\* What is true of an undisturbed worktree stays while nobody writes there.
LEMMA TreeStays ==
  ASSUME TreeTrue, UNCHANGED <<workspace, durable, edits>>, rejected => rejected'
  PROVE  TreeTrue'
<1>1. Effective' = Effective
  BY EffectiveStays DEF durable
<1> QED
  BY <1>1 DEF TreeTrue, Undisturbed, AtBase, durable, workspace, Patched

\* A worktree that holds what the receipt says gives no cause to escalate, so who
\* escalated had one.
LEMMA CauseFound ==
  ASSUME TreeTrue, TypeOK
  PROVE  EscalatesForCause
BY DEF TreeTrue, Undisturbed, EscalatesForCause, TypeOK

\* A step of the process alone.
LEMMA ProcessMoves ==
  ASSUME ExecutorInv, UNCHANGED <<workspace, durable, calls, edits, rejected, verified, approved>>,
         ProcessType', PlaceInv'
  PROVE  ExecutorInv'
<1> USE DEF ExecutorInv
<1>1. TypeOK'
  BY DEF TypeOK, ProcessType, workspace, durable
<1>2. WriteAhead'
  BY DEF WriteAhead, workspace, durable
<1>3. RecordInv'
  BY RecordStays DEF RecordInv, workspace
<1>4. TreeTrue'
  BY TreeStays
<1>5. EscalatesForCause'
  BY <1>1, <1>4, CauseFound, PTL
<1>6. ReviewerCalledOnce' /\ PublishedIsVerified'
  BY DEF ReviewerCalledOnce, PublishedIsVerified, AtBase, workspace
<1> QED
  BY <1>1, <1>2, <1>3, <1>4, <1>5, <1>6 DEF RecordInv, PlaceInv

\* The images of the current repair and of the tree it starts from.
LEMMA CurrentImages ==
  ASSUME TypeOK, DigestsFit
  PROVE  /\ Fix(Fixed) \in Image /\ Fix(Fixed) # Base /\ Fix(Fixed) # Pack /\ Fix(Fixed) # Foreign
         /\ \A p \in Patched : p \in Paths
         /\ repair.by # "none" =>
              /\ \A p \in Patched : repair.post[p] = Fix(Fixed)
              /\ repair.source \in Tree
              /\ \A p \in Paths : /\ repair.source[p] \in Image /\ repair.source[p] # Fix(Fixed)
                                  /\ repair.source[p] # Foreign
<1>1. /\ Fix(Fixed) \in Nat /\ Fix(Fixed) \in Image
      /\ Fix(Fixed) > Pack /\ Fix(Fixed) < Foreign
  BY GenerationIs, Images
<1>2. \A p \in Patched : p \in Paths
  BY RepairFields DEF TypeOK, Patched
<1>3. ASSUME repair.by # "none"
      PROVE  repair.source \in Tree /\ \A p \in Patched : repair.post[p] = Fix(Fixed)
  BY <1>3 DEF DigestsFit, TypeOK
<1>4. ASSUME repair.by # "none", NEW p \in Paths
      PROVE  /\ repair.source[p] \in Image /\ repair.source[p] # Fix(Fixed)
             /\ repair.source[p] # Foreign
  <2>1. repair.source[p] \in Image /\ repair.source[p] < Fix(Fixed)
    BY <1>3, <1>4 DEF DigestsFit, Tree
  <2>2. repair.source[p] \in Nat /\ Foreign \in Nat
    BY <2>1, Images
  <2>3. repair.source[p] < Foreign
    BY <1>1, <2>1, <2>2
  <2> QED
    BY <1>1, <2>1, <2>2
<1>5. Fix(Fixed) # Base /\ Fix(Fixed) # Pack /\ Fix(Fixed) # Foreign
  BY <1>1, Images
<1> QED
  BY <1>1, <1>2, <1>3, <1>4, <1>5

\* A repair that is under way was proposed by somebody.
LEMMA ActiveRepair ==
  ASSUME DigestsFit, repair.state # "NONE"
  PROVE  repair.by # "none"
BY DEF DigestsFit, NoRepair

\* The invariant from its parts.
LEMMA Composed ==
  ASSUME TypeOK', WriteAhead', RecordInv', TreeTrue', PlaceInv', ReviewerCalledOnce', PublishedIsVerified'
  PROVE  ExecutorInv'
<1>1. EscalatesForCause'
  BY CauseFound, PTL
<1> QED
  BY <1>1 DEF RecordInv, PlaceInv, ExecutorInv

\* The type invariant from what a step assigns.
LEMMA Types ==
  ASSUME TypeOK, UNCHANGED strategy, files' \in Tree, stray' \in BOOLEAN, head' \in Tree,
         receipt' \in Receipt, repair' \in Repair, history' \in Seq(Generation), ProcessType',
         calls' \in Nat, edits' \in 0..MaxEdits, rejected' \in BOOLEAN,
         verified' \subseteq Tree, approved' \subseteq Tree
  PROVE  TypeOK'
BY DEF TypeOK, ProcessType

\* A process that ended has its type.
LEMMA EndedType ==
  ASSUME Ended, lock' \in BOOLEAN, looked' \in Nat
  PROVE  ProcessType'
<1>1. at' \in 0..NumOps + 1
  BY OpsAssumption DEF Ended
<1>2. unresolved' \in BOOLEAN /\ fault' \in Terminal /\ pc' = "idle"
  BY DEF Ended, Terminal
<1> QED
  BY <1>1, <1>2 DEF ProcessType

\* A tree no repair is in.
LEMMA EffectiveBecomes ==
  ASSUME repair'.state \notin {"APPLIED", "VERIFIED"}
  PROVE  Effective' = PackTree
BY DEF Effective, PackTree, Uniform

-----------------------------------------------------------------------------
(* Starting, failing, dying.                                               *)

LEMMA StartFreshKeeps ==
  ASSUME ExecutorInv, StartFresh
  PROVE  ExecutorInv'
<1> USE DEF ExecutorInv, StartFresh, Enter, workspace, ghosts, Writing, Resumable, Terminal,
            ApplyPc, GatePc, RepairPc
<1>0. Effective' = Effective
  BY EffectiveStays
<1>1. TypeOK'
  <2>1. receipt' \in Receipt
    BY ReceiptMoves DEF TypeOK, ReceiptState
  <2>2. ProcessType'
    BY OpsAssumption DEF ProcessType, TypeOK
  <2> QED
    BY <2>1 DEF TypeOK
<1>2. WriteAhead'
  BY CurrentImages, ActiveRepair DEF WriteAhead
<1>3. RecordInv'
  BY <1>0
     DEF RecordInv, ChainUnbroken, DigestsFit, ReviewsFit, Sealed, Fixed, Patched, TypeOK,
         AtPlace
<1>4. TreeTrue'
  BY <1>0 DEF TreeTrue, Undisturbed, Attested, AtPlace, Patched
<1>5. AtPlace'
  BY DEF AtPlace, Sealed, Paths, Patched
<1>6. TurnMarked'
  BY ReceiptFields DEF TurnMarked
<1>7. ImagesFit'
  BY DEF ImagesFit, AtPlace, Fixed, Patched
<1>8. NothingUnseen'
  BY DEF NothingUnseen
<1>9. PlaceTrue'
  BY DEF PlaceTrue, TypeOK, Paths, Patched
<1>10. ReviewerCalledOnce' /\ PublishedIsVerified'
  BY DEF ReviewerCalledOnce, PublishedIsVerified, AtBase
<1> QED
  BY <1>1, <1>2, <1>3, <1>4, <1>5, <1>6, <1>7, <1>8, <1>9, <1>10, Composed DEF PlaceInv

LEMMA ResumeKeeps ==
  ASSUME ExecutorInv, Resume
  PROVE  ExecutorInv'
<1> USE DEF ExecutorInv, Resume, Enter, workspace, durable, ghosts, Writing, Resumable,
            AmbiguousReview, Terminal, ApplyPc, GatePc, RepairPc
<1>0. Effective' = Effective
  BY EffectiveStays
<1>1. ProcessType'
  BY RepairFields DEF ProcessType, TypeOK
<1>2. AtPlace'
  BY DEF AtPlace, DigestsFit, ReviewsFit, Sealed
<1>3. TurnMarked'
  BY DEF TurnMarked
<1>4. ImagesFit'
  BY DEF ImagesFit, Fixed, TypeOK, Paths, Patched
<1>5. NothingUnseen'
  BY DEF NothingUnseen, Patched, Fix, Fixed
<1>6. PlaceTrue'
  BY DEF PlaceTrue, DigestsFit, TypeOK, Paths
<1> QED
  BY <1>1, <1>2, <1>3, <1>4, <1>5, <1>6, ProcessMoves DEF PlaceInv

LEMMA ResumeRefusedKeeps ==
  ASSUME ExecutorInv, ResumeRefused
  PROVE  ExecutorInv'
<1> USE DEF ExecutorInv, ResumeRefused, workspace, durable, ghosts, Writing, Resumable,
            AmbiguousReview, Terminal, ApplyPc, GatePc, RepairPc
<1>0. Effective' = Effective
  BY EffectiveStays
<1>1. ProcessType'
  BY RepairFields DEF ProcessType, TypeOK
<1>2. AtPlace'
  BY DEF AtPlace, DigestsFit, ReviewsFit, Sealed
<1>3. TurnMarked'
  BY DEF TurnMarked
<1>4. ImagesFit'
  BY DEF ImagesFit, Fixed, TypeOK, Paths, Patched
<1>5. NothingUnseen'
  BY DEF NothingUnseen, Patched, Fix, Fixed
<1>6. PlaceTrue'
  BY DEF PlaceTrue, Undisturbed, AtBase, DigestsFit, TypeOK, Paths
<1> QED
  BY <1>1, <1>2, <1>3, <1>4, <1>5, <1>6, ProcessMoves DEF PlaceInv

LEMMA FailKeeps ==
  ASSUME ExecutorInv, Fail
  PROVE  ExecutorInv'
<1> USE DEF ExecutorInv, Fail, Release, Ended, workspace, ghosts, Writing, Resumable, Terminal,
            ApplyPc, GatePc, RepairPc
<1>0. Effective' = Effective
  BY EffectiveStays
<1>1. TypeOK'
  <2>1. receipt' \in Receipt
    BY ReceiptMoves DEF TypeOK, ReceiptState
  <2>2. ProcessType'
    BY EndedType DEF TypeOK
  <2> QED
    BY <2>1, <2>2, Types DEF TypeOK
<1>2. WriteAhead'
  BY CurrentImages, ActiveRepair DEF WriteAhead
<1>3. RecordInv'
  BY <1>0
     DEF RecordInv, ChainUnbroken, DigestsFit, ReviewsFit, Sealed, Fixed, Patched, TypeOK,
         AtPlace
<1>4. TreeTrue'
  BY <1>0 DEF TreeTrue, Undisturbed, AtBase, AtPlace, PlaceTrue, Patched
<1>5. AtPlace'
  BY DEF AtPlace, Sealed, Paths, Patched
<1>6. TurnMarked'
  BY ReceiptFields DEF TurnMarked, TypeOK
<1>7. ImagesFit'
  BY DEF ImagesFit, AtPlace, Fixed, Patched
<1>8. NothingUnseen'
  BY DEF NothingUnseen
<1>9. PlaceTrue'
  BY DEF PlaceTrue, TypeOK, Paths, Patched
<1>10. ReviewerCalledOnce' /\ PublishedIsVerified'
  BY DEF ReviewerCalledOnce, PublishedIsVerified, AtBase
<1> QED
  BY <1>1, <1>2, <1>3, <1>4, <1>5, <1>6, <1>7, <1>8, <1>9, <1>10, Composed DEF PlaceInv

LEMMA CrashKeeps ==
  ASSUME ExecutorInv, Crash
  PROVE  ExecutorInv'
<1> USE DEF ExecutorInv, Crash, Ended, durable, Writing, Resumable, Terminal, ApplyPc, GatePc,
            RepairPc
<1>0. Effective' = Effective
  BY EffectiveStays
<1>1. TypeOK'
  <2>1. receipt' \in Receipt
    BY DEF TypeOK
  <2>2. ProcessType'
    BY EndedType DEF TypeOK
  <2> QED
    BY <2>2, Types DEF TypeOK
<1>2. WriteAhead'
  BY CurrentImages, ActiveRepair DEF WriteAhead
<1>3. RecordInv'
  BY RecordStays DEF RecordInv
<1>4. TreeTrue'
  BY <1>0 DEF TreeTrue, Undisturbed, AtBase, Attested, AtPlace, Patched
<1>5. AtPlace'
  BY DEF AtPlace, Sealed, Paths, Patched
<1>6. TurnMarked'
  BY ReceiptFields DEF TurnMarked
<1>7. ImagesFit'
  BY DEF ImagesFit, AtPlace, Fixed, Patched
<1>8. NothingUnseen'
  BY DEF NothingUnseen, TypeOK
<1>9. PlaceTrue'
  BY DEF PlaceTrue, TypeOK, Paths, Patched
<1>10. ReviewerCalledOnce' /\ PublishedIsVerified'
  BY DEF ReviewerCalledOnce, PublishedIsVerified, AtBase
<1> QED
  BY <1>1, <1>2, <1>3, <1>4, <1>5, <1>6, <1>7, <1>8, <1>9, <1>10, Composed DEF PlaceInv

LEMMA AbortKeeps ==
  ASSUME ExecutorInv, Abort
  PROVE  ExecutorInv'
<1> USE DEF ExecutorInv, Abort, Release, Ended, workspace, durable, ghosts, Writing, Resumable,
            Terminal, ApplyPc, GatePc, RepairPc
<1>0. Effective' = Effective
  BY EffectiveStays
<1>1. ProcessType'
  <2>1. lock' \in BOOLEAN /\ pc' = "idle" /\ at' = 1 /\ fault' \in Terminal
    OBVIOUS
  <2>2. unresolved' \in BOOLEAN /\ looked' \in Nat
    BY DEF TypeOK
  <2> QED
    BY <2>1, <2>2, OpsAssumption DEF ProcessType
<1>2. AtPlace'
  BY DEF AtPlace, DigestsFit, ReviewsFit, Sealed
<1>3. TurnMarked'
  BY DEF TurnMarked
<1>4. ImagesFit'
  BY DEF ImagesFit, Fixed, TypeOK, Paths, Patched
<1>5. NothingUnseen'
  BY DEF NothingUnseen, Patched, Fix, Fixed
<1>6. PlaceTrue'
  BY DEF PlaceTrue, DigestsFit, TypeOK, Paths
<1> QED
  BY <1>1, <1>2, <1>3, <1>4, <1>5, <1>6, ProcessMoves DEF PlaceInv

LEMMA ClearLockKeeps ==
  ASSUME ExecutorInv, ClearLock
  PROVE  ExecutorInv'
<1> USE DEF ExecutorInv, ClearLock, workspace, durable, ghosts, Writing, Resumable, Terminal,
            ApplyPc, GatePc, RepairPc
<1>0. Effective' = Effective
  BY EffectiveStays
<1>1. ProcessType'
  BY RepairFields DEF ProcessType, TypeOK
<1>2. AtPlace'
  BY DEF AtPlace, DigestsFit, ReviewsFit, Sealed
<1>3. TurnMarked'
  BY DEF TurnMarked
<1>4. ImagesFit'
  BY DEF ImagesFit, Fixed, TypeOK, Paths, Patched
<1>5. NothingUnseen'
  BY DEF NothingUnseen, Patched, Fix, Fixed
<1>6. PlaceTrue'
  BY DEF PlaceTrue, DigestsFit, TypeOK, Paths
<1> QED
  BY <1>1, <1>2, <1>3, <1>4, <1>5, <1>6, ProcessMoves DEF PlaceInv

-----------------------------------------------------------------------------
(* Applying the pack.                                                      *)

LEMMA OpenApplyKeeps ==
  ASSUME ExecutorInv, OpenApply
  PROVE  ExecutorInv'
<1> USE DEF ExecutorInv, OpenApply, GotoAt, workspace, ghosts, Writing, Resumable, Terminal,
            ApplyPc, GatePc, RepairPc
<1>0. Effective' = Effective
  BY EffectiveStays
<1>1. TypeOK'
  <2>1. receipt' \in Receipt
    BY ReceiptMoves DEF TypeOK, ReceiptState
  <2>2. ProcessType'
    BY OpsAssumption DEF ProcessType, TypeOK
  <2> QED
    BY <2>1, <2>2, Types DEF TypeOK
<1>2. WriteAhead'
  BY CurrentImages, ActiveRepair DEF WriteAhead
<1>3. RecordInv'
  BY DEF RecordInv, ChainUnbroken, DigestsFit, ReviewsFit, Patched, TypeOK, AtPlace
<1>4. TreeTrue'
  BY DEF TreeTrue, Undisturbed, AtBase, Attested, AtPlace
<1>5. AtPlace'
  BY DEF AtPlace, Sealed, Paths, Patched
<1>6. TurnMarked'
  BY ReceiptFields DEF TurnMarked
<1>7. ImagesFit'
  BY DEF ImagesFit, AtPlace, Fixed, Patched
<1>8. NothingUnseen'
  BY DEF NothingUnseen
<1>9. PlaceTrue'
  BY DEF PlaceTrue, TypeOK, Paths, Patched
<1>10. ReviewerCalledOnce' /\ PublishedIsVerified'
  BY DEF ReviewerCalledOnce, PublishedIsVerified, AtBase
<1> QED
  BY <1>1, <1>2, <1>3, <1>4, <1>5, <1>6, <1>7, <1>8, <1>9, <1>10, Composed DEF PlaceInv

LEMMA InspectKeeps ==
  ASSUME ExecutorInv, Inspect
  PROVE  ExecutorInv'
<1> USE DEF ExecutorInv, Inspect, Goto, Undo, workspace, durable, ghosts, Writing, Resumable,
            Terminal, ApplyPc, GatePc, RepairPc
<1>0. Effective' = Effective
  BY EffectiveStays
<1>1. ProcessType'
  BY Images, RepairFields DEF ProcessType, TypeOK
<1>2. AtPlace'
  BY Images DEF AtPlace, DigestsFit, ReviewsFit, Sealed
<1>3. TurnMarked'
  BY DEF TurnMarked
<1>4. ImagesFit'
  BY DEF ImagesFit, AtPlace, DigestsFit, Fixed, TypeOK, Paths
<1>5. NothingUnseen'
  BY DEF NothingUnseen, Patched, Fix, Fixed
<1>6. PlaceTrue'
  BY DEF PlaceTrue, TreeTrue, Undisturbed, AtBase, AtPlace, DigestsFit, TypeOK, Paths
<1> QED
  BY <1>1, <1>2, <1>3, <1>4, <1>5, <1>6, ProcessMoves DEF PlaceInv

LEMMA WriteKeeps ==
  ASSUME ExecutorInv, Write
  PROVE  ExecutorInv'
<1> USE DEF ExecutorInv, Write, Goto, Undo, workspace, durable, Writing, Resumable, Terminal,
            ApplyPc, GatePc, RepairPc
<1>0. Effective' = Effective
  BY EffectiveStays
<1>1. ProcessType'
  BY Images, RepairFields DEF ProcessType, TypeOK
<1>2. AtPlace'
  BY Images DEF AtPlace, DigestsFit, ReviewsFit, Sealed
<1>3. TurnMarked'
  BY DEF TurnMarked
<1>4. ImagesFit'
  BY DEF ImagesFit, AtPlace, DigestsFit, Fixed, TypeOK, Paths
<1>5. NothingUnseen'
  BY Images, BoundsAssumption DEF NothingUnseen, TypeOK, Patched, Fix, Fixed
<1>6. PlaceTrue'
  BY DEF PlaceTrue, Undisturbed, AtBase, DigestsFit, TypeOK, Paths
<1> QED
  BY <1>1, <1>2, <1>3, <1>4, <1>5, <1>6, ProcessMoves DEF PlaceInv

LEMMA InstallKeeps ==
  ASSUME ExecutorInv, Install
  PROVE  ExecutorInv'
<1> USE DEF ExecutorInv, Install, Put, Goto, durable, Writing, Resumable, Terminal, ApplyPc,
            GatePc, RepairPc
<1>0. Effective' = Effective
  BY EffectiveStays
<1>1. TypeOK'
  <2>1. receipt' \in Receipt
    BY DEF TypeOK
  <2>2. ProcessType'
    BY OpsAssumption DEF ProcessType, TypeOK
  <2>3. files' \in Tree
    BY Images DEF TypeOK, Tree
  <2> QED
    BY <2>2, <2>3 DEF TypeOK
<1>2. WriteAhead'
  BY Images, CurrentImages, ActiveRepair DEF WriteAhead
<1>3. RecordInv'
  BY DEF RecordInv, ChainUnbroken, DigestsFit, ReviewsFit, Patched, TypeOK, AtPlace
<1>4. TreeTrue'
  BY DEF TreeTrue, Undisturbed, AtBase, Attested, AtPlace
<1>5. AtPlace'
  BY DEF AtPlace, Sealed, Paths, Patched
<1>6. TurnMarked'
  BY ReceiptFields DEF TurnMarked
<1>7. ImagesFit'
  BY CurrentImages DEF ImagesFit, AtPlace, Fixed, Patched
<1>8. NothingUnseen'
  BY DEF NothingUnseen, TypeOK
<1>9. PlaceTrue'
  BY DEF PlaceTrue, Undisturbed, AtBase, AtPlace, TypeOK, Paths, Patched, Tree
<1>10. ReviewerCalledOnce' /\ PublishedIsVerified'
  BY DEF ReviewerCalledOnce, PublishedIsVerified, AtBase
<1> QED
  BY <1>1, <1>2, <1>3, <1>4, <1>5, <1>6, <1>7, <1>8, <1>9, <1>10, Composed DEF PlaceInv

\* A write whose target was changed at once is not flagged as applied ...
LEMMA FlagMissed ==
  ASSUME ExecutorInv, Flag, files[at] # Pack
  PROVE  ExecutorInv'
<1> USE DEF ExecutorInv, Flag, GotoAt, Undo, workspace, durable, ghosts, Writing, Resumable, Terminal,
            ApplyPc, GatePc, RepairPc
<1>0. Effective' = Effective /\ UNCHANGED receipt
  BY EffectiveStays
<1>1. ProcessType'
  BY Images, RepairFields DEF ProcessType, TypeOK
<1>2. AtPlace'
  BY Images DEF AtPlace, DigestsFit, ReviewsFit, Sealed
<1>3. TurnMarked'
  BY DEF TurnMarked
<1>4. ImagesFit'
  BY DEF ImagesFit, AtPlace, DigestsFit, Fixed, TypeOK, Paths
<1>5. NothingUnseen'
  BY DEF NothingUnseen, Patched, Fix, Fixed
<1>6. PlaceTrue'
  BY DEF PlaceTrue, Undisturbed, AtBase, DigestsFit, TypeOK, Paths
<1> QED
  BY <1>1, <1>2, <1>3, <1>4, <1>5, <1>6, ProcessMoves DEF PlaceInv

\* ... and one that is found there is.
LEMMA FlagSet ==
  ASSUME ExecutorInv, Flag, files[at] = Pack
  PROVE  ExecutorInv'
<1> USE DEF ExecutorInv, Flag, GotoAt, Undo, workspace, ghosts, Writing, Resumable, Terminal,
            ApplyPc, GatePc, RepairPc
<1>0. Effective' = Effective
  BY EffectiveStays
<1>1. TypeOK'
  <2>1. receipt' \in Receipt
    BY DEF TypeOK, Receipt, AtPlace
  <2>2. ProcessType'
    BY OpsAssumption DEF ProcessType, TypeOK, AtPlace, Paths
  <2> QED
    BY <2>1, <2>2, Types DEF TypeOK
<1>2. WriteAhead'
  BY CurrentImages, ActiveRepair DEF WriteAhead
<1>3. RecordInv'
  <2>1. /\ receipt'.state = receipt.state /\ receipt'.digest = receipt.digest /\ receipt'.passed = receipt.passed
        /\ receipt'.verdict = receipt.verdict /\ receipt'.reviewed = receipt.reviewed /\ receipt.state = "APPLYING"
    BY DEF TypeOK, Receipt, AtPlace
  <2>4. ChainUnbroken'
    BY DEF ChainUnbroken
  <2>5. DigestsFit'
    BY <1>0, <2>1 DEF DigestsFit, Sealed, Fixed, Patched
  <2>6. ReviewsFit'
    BY <2>1 DEF ReviewsFit
  <2> QED
    BY <2>4, <2>5, <2>6 DEF RecordInv
<1>4. TreeTrue'
  <2>1. /\ receipt'.state = receipt.state /\ receipt'.digest = receipt.digest /\ receipt'.passed = receipt.passed
        /\ receipt'.verdict = receipt.verdict /\ receipt'.reviewed = receipt.reviewed /\ receipt.state = "APPLYING"
    BY DEF TypeOK, Receipt, AtPlace
  <2> QED
    BY <1>0, <2>1 DEF TreeTrue, Undisturbed, AtBase, Patched
<1>5. AtPlace'
  <2>1. /\ receipt'.state = receipt.state /\ receipt'.digest = receipt.digest /\ receipt'.passed = receipt.passed
        /\ receipt'.verdict = receipt.verdict /\ receipt'.reviewed = receipt.reviewed /\ receipt.state = "APPLYING"
    BY DEF TypeOK, Receipt, AtPlace
  <2> QED
    BY <2>1, Images DEF AtPlace
<1>6. TurnMarked'
  <2>1. /\ receipt'.state = receipt.state /\ receipt'.digest = receipt.digest /\ receipt'.passed = receipt.passed
        /\ receipt'.verdict = receipt.verdict /\ receipt'.reviewed = receipt.reviewed /\ receipt.state = "APPLYING"
    BY DEF TypeOK, Receipt, AtPlace
  <2> QED
    BY <2>1 DEF TurnMarked
<1>7. ImagesFit'
  BY DEF ImagesFit, AtPlace, Fixed, Patched
<1>8. NothingUnseen'
  BY DEF NothingUnseen
<1>9. PlaceTrue'
  BY DEF PlaceTrue, Undisturbed, AtBase, TypeOK, Paths, Patched
<1>10. ReviewerCalledOnce' /\ PublishedIsVerified'
  BY DEF ReviewerCalledOnce, PublishedIsVerified, AtBase
<1> QED
  BY <1>1, <1>2, <1>3, <1>4, <1>5, <1>6, <1>7, <1>8, <1>9, <1>10, Composed DEF PlaceInv

LEMMA FlagKeeps ==
  ASSUME ExecutorInv, Flag
  PROVE  ExecutorInv'
BY FlagMissed, FlagSet

LEMMA AppliedKeeps ==
  ASSUME ExecutorInv, Applied
  PROVE  ExecutorInv'
<1> USE DEF ExecutorInv, Applied, Goto, workspace, ghosts, Writing, Resumable, Terminal,
            ApplyPc, GatePc, RepairPc
<1>0. Effective' = Effective
  BY EffectiveStays
<1>1. TypeOK'
  <2>1. receipt' \in Receipt
    BY ReceiptMoves DEF TypeOK, ReceiptState
  <2>2. ProcessType'
    BY OpsAssumption DEF ProcessType, TypeOK
  <2> QED
    BY <2>1 DEF TypeOK
<1>2. WriteAhead'
  BY CurrentImages, ActiveRepair DEF WriteAhead
<1>3. RecordInv'
  BY DEF RecordInv, ChainUnbroken, DigestsFit, ReviewsFit, Patched, TypeOK, AtPlace
<1>4. TreeTrue'
  <2>1. ASSUME Undisturbed PROVE files = PackTree
    <3>1. \A p \in Paths : p < at
      BY OpsAssumption DEF AtPlace, TypeOK, Paths
    <3>2. \A p \in Paths : files[p] = Pack
      BY <2>1, <3>1 DEF PlaceTrue
    <3> QED
      BY <3>2 DEF TypeOK, Tree, PackTree, Uniform
  <2> QED
    BY <2>1 DEF TreeTrue, Undisturbed, AtBase, AtPlace
<1>5. AtPlace'
  BY DEF AtPlace, Sealed, Paths, Patched
<1>6. TurnMarked'
  BY ReceiptFields DEF TurnMarked, AtPlace
<1>7. ImagesFit'
  BY DEF ImagesFit, AtPlace, Fixed, Patched
<1>8. NothingUnseen'
  BY DEF NothingUnseen
<1>9. PlaceTrue'
  BY DEF PlaceTrue, TypeOK, Paths, Patched
<1>10. ReviewerCalledOnce' /\ PublishedIsVerified'
  BY DEF ReviewerCalledOnce, PublishedIsVerified, AtBase
<1> QED
  BY <1>1, <1>2, <1>3, <1>4, <1>5, <1>6, <1>7, <1>8, <1>9, <1>10, Composed DEF PlaceInv

LEMMA UndoSkipKeeps ==
  ASSUME ExecutorInv, UndoSkip
  PROVE  ExecutorInv'
<1> USE DEF ExecutorInv, UndoSkip, workspace, durable, ghosts, Writing, Resumable, Terminal,
            ApplyPc, GatePc, RepairPc
<1>0. Effective' = Effective
  BY EffectiveStays
<1>1. ProcessType'
  <2>1. at' \in 0..NumOps + 1
    BY OpsAssumption DEF Paths
  <2>2. unresolved' \in BOOLEAN
    BY DEF TypeOK
  <2> QED
    BY <2>1 DEF ProcessType, TypeOK
<1>2. AtPlace'
  BY Images DEF AtPlace, DigestsFit, ReviewsFit, Sealed
<1>3. TurnMarked'
  BY DEF TurnMarked
<1>4. ImagesFit'
  BY DEF ImagesFit, AtPlace, DigestsFit, Fixed, TypeOK, Paths
<1>5. NothingUnseen'
  BY DEF NothingUnseen, Patched, Fix, Fixed
<1>6. PlaceTrue'
  BY DEF PlaceTrue, Undisturbed, AtBase, DigestsFit, TypeOK, Paths
<1> QED
  BY <1>1, <1>2, <1>3, <1>4, <1>5, <1>6, ProcessMoves DEF PlaceInv

LEMMA UndoClassifyKeeps ==
  ASSUME ExecutorInv, UndoClassify
  PROVE  ExecutorInv'
<1> USE DEF ExecutorInv, UndoClassify, Goto, workspace, durable, Writing, Resumable, Terminal,
            ApplyPc, GatePc, RepairPc
<1>0. Effective' = Effective
  BY EffectiveStays
<1>1. ProcessType'
  BY RepairFields DEF ProcessType, TypeOK
<1>2. AtPlace'
  BY ReceiptFields DEF TypeOK, AtPlace
<1>3. TurnMarked'
  BY DEF TurnMarked
<1>4. ImagesFit'
  BY DEF ImagesFit, AtPlace, DigestsFit, Fixed, TypeOK, Paths
<1>5. NothingUnseen'
  BY Images, BoundsAssumption DEF NothingUnseen, TypeOK, Patched, Fix, Fixed
<1>6. PlaceTrue'
  BY DEF PlaceTrue, Undisturbed, AtBase, DigestsFit, TypeOK, Paths
<1> QED
  BY <1>1, <1>2, <1>3, <1>4, <1>5, <1>6, ProcessMoves DEF PlaceInv

LEMMA RestoreKeeps ==
  ASSUME ExecutorInv, Restore
  PROVE  ExecutorInv'
<1> USE DEF ExecutorInv, Restore, Put, Goto, durable, Writing, Resumable, Terminal, ApplyPc,
            GatePc, RepairPc
<1>0. Effective' = Effective
  BY EffectiveStays
<1>1. TypeOK'
  <2>1. receipt' \in Receipt
    BY DEF TypeOK
  <2>2. ProcessType'
    BY OpsAssumption DEF ProcessType, TypeOK
  <2>3. files' \in Tree
    BY Images DEF TypeOK, Tree
  <2> QED
    BY <2>2, <2>3 DEF TypeOK
<1>2. WriteAhead'
  BY Images, CurrentImages, ActiveRepair DEF WriteAhead
<1>3. RecordInv'
  BY DEF RecordInv, ChainUnbroken, DigestsFit, ReviewsFit, Patched, TypeOK, AtPlace
<1>4. TreeTrue'
  BY DEF TreeTrue, Undisturbed, AtBase, Attested, AtPlace
<1>5. AtPlace'
  BY DEF AtPlace, Sealed, Paths, Patched
<1>6. TurnMarked'
  BY ReceiptFields DEF TurnMarked
<1>7. ImagesFit'
  BY CurrentImages DEF ImagesFit, AtPlace, Fixed, Patched
<1>8. NothingUnseen'
  BY DEF NothingUnseen, TypeOK
<1>9. PlaceTrue'
  BY DEF PlaceTrue, Undisturbed, AtBase, TypeOK, Paths, Patched
<1>10. ReviewerCalledOnce' /\ PublishedIsVerified'
  BY DEF ReviewerCalledOnce, PublishedIsVerified, AtBase
<1> QED
  BY <1>1, <1>2, <1>3, <1>4, <1>5, <1>6, <1>7, <1>8, <1>9, <1>10, Composed DEF PlaceInv

LEMMA UndoFlagKeeps ==
  ASSUME ExecutorInv, UndoFlag
  PROVE  ExecutorInv'
<1> USE DEF ExecutorInv, UndoFlag, GotoAt, workspace, ghosts, Writing, Resumable, Terminal,
            ApplyPc, GatePc, RepairPc
<1>0. Effective' = Effective
  BY EffectiveStays
<1>1. TypeOK'
  <2>1. receipt' \in Receipt
    BY ReceiptFields DEF TypeOK, Receipt
  <2>2. ProcessType'
    BY ReceiptFields, OpsAssumption DEF ProcessType, TypeOK, Paths
  <2> QED
    BY <2>1, <2>2, Types DEF TypeOK
<1>2. WriteAhead'
  BY CurrentImages, ActiveRepair DEF WriteAhead
<1>3. RecordInv'
  BY DEF RecordInv, ChainUnbroken, DigestsFit, ReviewsFit, Patched, TypeOK, AtPlace
<1>4. TreeTrue'
  BY DEF TreeTrue, Undisturbed, AtBase, Attested, AtPlace
<1>5. AtPlace'
  BY Images DEF TypeOK, AtPlace, Sealed, Paths, Patched
<1>6. TurnMarked'
  BY ReceiptFields DEF TurnMarked
<1>7. ImagesFit'
  BY DEF ImagesFit, AtPlace, Fixed, Patched
<1>8. NothingUnseen'
  BY DEF NothingUnseen
<1>9. PlaceTrue'
  BY DEF PlaceTrue, Undisturbed, AtBase, TypeOK, Paths, Patched
<1>10. ReviewerCalledOnce' /\ PublishedIsVerified'
  BY DEF ReviewerCalledOnce, PublishedIsVerified, AtBase
<1> QED
  BY <1>1, <1>2, <1>3, <1>4, <1>5, <1>6, <1>7, <1>8, <1>9, <1>10, Composed DEF PlaceInv

LEMMA UndoneKeeps ==
  ASSUME ExecutorInv, Undone
  PROVE  ExecutorInv'
<1> USE DEF ExecutorInv, Undone, workspace, ghosts, Writing, Resumable, Terminal, ApplyPc,
            GatePc, RepairPc
<1>0. Effective' = Effective
  BY EffectiveStays
<1>1. TypeOK'
  <2>1. receipt' \in Receipt
    BY ReceiptMoves DEF TypeOK, ReceiptState
  <2>2. ProcessType'
    BY OpsAssumption DEF ProcessType, TypeOK
  <2> QED
    BY <2>1 DEF TypeOK
<1>2. WriteAhead'
  BY CurrentImages, ActiveRepair DEF WriteAhead
<1>3. RecordInv'
  BY DEF RecordInv, ChainUnbroken, DigestsFit, ReviewsFit, Patched, TypeOK, AtPlace
<1>4. TreeTrue'
  BY DEF TreeTrue, Undisturbed, AtBase, Attested, AtPlace
<1>5. AtPlace'
  BY DEF AtPlace, Sealed, Paths, Patched
<1>6. TurnMarked'
  BY ReceiptFields DEF TurnMarked, AtPlace
<1>7. ImagesFit'
  BY DEF ImagesFit, AtPlace, Fixed, Patched
<1>8. NothingUnseen'
  BY DEF NothingUnseen
<1>9. PlaceTrue'
  BY DEF PlaceTrue, Undisturbed, AtBase, TypeOK, Paths, Patched
<1>10. ReviewerCalledOnce' /\ PublishedIsVerified'
  BY DEF ReviewerCalledOnce, PublishedIsVerified, AtBase
<1> QED
  BY <1>1, <1>2, <1>3, <1>4, <1>5, <1>6, <1>7, <1>8, <1>9, <1>10, Composed DEF PlaceInv

-----------------------------------------------------------------------------
(* The gates.                                                              *)

LEMMA OpenGatesKeeps ==
  ASSUME ExecutorInv, OpenGates
  PROVE  ExecutorInv'
<1> USE DEF ExecutorInv, OpenGates, Goto, workspace, durable, ghosts, Writing, Resumable,
            Terminal, ApplyPc, GatePc, RepairPc
<1>0. Effective' = Effective
  BY EffectiveStays
<1>1. ProcessType'
  BY RepairFields DEF ProcessType, TypeOK
<1>2. AtPlace'
  BY DEF AtPlace, DigestsFit, ReviewsFit, Sealed
<1>3. TurnMarked'
  BY DEF TurnMarked
<1>4. ImagesFit'
  BY DEF ImagesFit, DigestsFit, Fixed, TypeOK, Paths
<1>5. NothingUnseen'
  BY DEF NothingUnseen, Patched, Fix, Fixed
<1>6. PlaceTrue'
  BY DEF PlaceTrue, DigestsFit, TypeOK, Paths
<1> QED
  BY <1>1, <1>2, <1>3, <1>4, <1>5, <1>6, ProcessMoves DEF PlaceInv

\* Somebody touched the worktree; or its digest has passed; or verification is next.
LEMMA GatesDrift ==
  ASSUME ExecutorInv, EnterGates, ~Attested
  PROVE  ExecutorInv'
<1> USE DEF ExecutorInv, EnterGates, Goto, FailTo, workspace, durable, ghosts, Writing, Resumable,
            Terminal, ApplyPc, GatePc, RepairPc
<1>0. Effective' = Effective /\ UNCHANGED receipt
  BY EffectiveStays
<1>1. ProcessType'
  BY RepairFields DEF ProcessType, TypeOK
<1>2. AtPlace'
  BY DEF AtPlace, DigestsFit, ReviewsFit, Sealed
<1>3. TurnMarked'
  BY DEF TurnMarked
<1>4. ImagesFit'
  BY DEF ImagesFit, AtPlace, DigestsFit, Fixed, TypeOK, Paths
<1>5. NothingUnseen'
  BY DEF NothingUnseen, Patched, Fix, Fixed
<1>6. PlaceTrue'
  BY EffectiveIs DEF PlaceTrue, TreeTrue, Undisturbed, Attested, AtBase, AtPlace
<1> QED
  BY <1>1, <1>2, <1>3, <1>4, <1>5, <1>6, ProcessMoves DEF PlaceInv

\* A digest that was verified already passes the gate again ...
LEMMA GatesPassed ==
  ASSUME ExecutorInv, EnterGates, Attested, receipt.passed = files
  PROVE  ExecutorInv'
<1> USE DEF ExecutorInv, EnterGates, Goto, FailTo, workspace, durable, ghosts, Writing, Resumable,
            Terminal, ApplyPc, GatePc, RepairPc
<1>0. Effective' = Effective
  BY EffectiveStays
<1>a. UNCHANGED receipt
  <2>1. receipt.passed # NoDigest /\ receipt.digest = files
    BY EffectiveIs DEF Attested, DigestsFit
  <2> QED
    BY <2>1 DEF TypeOK, Receipt
<1>1. ProcessType'
  BY RepairFields DEF ProcessType, TypeOK
<1>2. AtPlace'
  BY <1>0, <1>a, EffectiveIs, StrategyAssumption
     DEF TypeOK, AtPlace, DigestsFit, Sealed, Attested
<1>3. TurnMarked'
  BY <1>a DEF TurnMarked
<1>4. ImagesFit'
  BY DEF ImagesFit, AtPlace, DigestsFit, Fixed, TypeOK, Paths
<1>5. NothingUnseen'
  BY DEF NothingUnseen, Patched, Fix, Fixed
<1>6. PlaceTrue'
  BY DEF PlaceTrue, DigestsFit, TypeOK, Paths
<1> QED
  BY <1>1, <1>2, <1>3, <1>4, <1>5, <1>6, <1>a, ProcessMoves DEF PlaceInv

\* ... and any other one is verified.
LEMMA GatesEntered ==
  ASSUME ExecutorInv, EnterGates, Attested, receipt.passed # files
  PROVE  ExecutorInv'
<1> USE DEF ExecutorInv, EnterGates, Goto, FailTo, workspace, ghosts, Writing, Resumable,
            Terminal, ApplyPc, GatePc, RepairPc
<1>0. Effective' = Effective
  BY EffectiveStays
<1>1. TypeOK'
  <2>1. receipt' \in Receipt
    BY States DEF TypeOK, Receipt, Digest
  <2>2. ProcessType'
    BY OpsAssumption DEF ProcessType, TypeOK
  <2> QED
    BY <2>1 DEF TypeOK
<1>2. WriteAhead'
  BY CurrentImages, ActiveRepair DEF WriteAhead
<1>3. RecordInv'
  <2>1. /\ receipt'.state = "VERIFYING" /\ receipt'.digest = files /\ receipt'.passed = receipt.passed
        /\ receipt'.verdict = receipt.verdict /\ receipt'.reviewed = receipt.reviewed
    BY DEF Attested, TypeOK, Receipt
  <2>2. repair.by = "none" /\ repair.state = "NONE" /\ files = PackTree /\ Effective = PackTree
    BY EffectiveIs DEF AtPlace, DigestsFit, Attested
  <2>3. receipt.passed = NoDigest /\ Resumable
    BY <2>2 DEF DigestsFit, AtPlace
  <2>4. ChainUnbroken'
    BY DEF ChainUnbroken
  <2>5. DigestsFit'
    BY <2>1, <2>2, <2>3 DEF DigestsFit, Sealed
  <2>6. ReviewsFit'
    BY <2>1, <2>3 DEF ReviewsFit
  <2> QED
    BY <2>4, <2>5, <2>6 DEF RecordInv
<1>4. TreeTrue'
  <2>1. /\ receipt'.state = "VERIFYING" /\ receipt'.digest = files /\ receipt'.passed = receipt.passed
        /\ receipt'.verdict = receipt.verdict /\ receipt'.reviewed = receipt.reviewed
    BY DEF Attested, TypeOK, Receipt
  <2>2. repair.by = "none" /\ repair.state = "NONE" /\ files = PackTree /\ Effective = PackTree
    BY EffectiveIs DEF AtPlace, DigestsFit, Attested
  <2>3. receipt.passed = NoDigest /\ Resumable
    BY <2>2 DEF DigestsFit, AtPlace
  <2> QED
    BY <2>1, <2>2 DEF TreeTrue, Undisturbed, AtBase
<1>5. AtPlace'
  <2>1. /\ receipt'.state = "VERIFYING" /\ receipt'.digest = files /\ receipt'.passed = receipt.passed
        /\ receipt'.verdict = receipt.verdict /\ receipt'.reviewed = receipt.reviewed
    BY DEF Attested, TypeOK, Receipt
  <2>2. repair.by = "none" /\ repair.state = "NONE" /\ files = PackTree /\ Effective = PackTree
    BY EffectiveIs DEF AtPlace, DigestsFit, Attested
  <2>3. receipt.passed = NoDigest /\ Resumable
    BY <2>2 DEF DigestsFit, AtPlace
  <2> QED
    BY <1>0, <2>1, <2>2 DEF AtPlace
<1>6. TurnMarked'
  <2>1. /\ receipt'.state = "VERIFYING" /\ receipt'.digest = files /\ receipt'.passed = receipt.passed
        /\ receipt'.verdict = receipt.verdict /\ receipt'.reviewed = receipt.reviewed
    BY DEF Attested, TypeOK, Receipt
  <2>2. repair.by = "none" /\ repair.state = "NONE" /\ files = PackTree /\ Effective = PackTree
    BY EffectiveIs DEF AtPlace, DigestsFit, Attested
  <2>3. receipt.passed = NoDigest /\ Resumable
    BY <2>2 DEF DigestsFit, AtPlace
  <2> QED
    BY <2>1, <2>3 DEF TurnMarked
<1>7. ImagesFit'
  BY DEF ImagesFit, AtPlace, Fixed, Patched
<1>8. NothingUnseen'
  BY DEF NothingUnseen
<1>9. PlaceTrue'
  BY DEF PlaceTrue, TypeOK, Paths, Patched
<1>10. ReviewerCalledOnce' /\ PublishedIsVerified'
  BY DEF ReviewerCalledOnce, PublishedIsVerified, AtBase
<1> QED
  BY <1>1, <1>2, <1>3, <1>4, <1>5, <1>6, <1>7, <1>8, <1>9, <1>10, Composed DEF PlaceInv

LEMMA EnterGatesKeeps ==
  ASSUME ExecutorInv, EnterGates
  PROVE  ExecutorInv'
BY GatesDrift, GatesPassed, GatesEntered

LEMMA VerifyDriftKeeps ==
  ASSUME ExecutorInv, VerifyDrift
  PROVE  ExecutorInv'
<1> USE DEF ExecutorInv, VerifyDrift, FailTo, workspace, durable, ghosts, Writing, Resumable,
            Terminal, ApplyPc, GatePc, RepairPc
<1>0. Effective' = Effective
  BY EffectiveStays
<1>1. ProcessType'
  BY RepairFields DEF ProcessType, TypeOK
<1>2. AtPlace'
  BY DEF AtPlace, DigestsFit, ReviewsFit, Sealed
<1>3. TurnMarked'
  BY DEF TurnMarked
<1>4. ImagesFit'
  BY DEF ImagesFit, Fixed, TypeOK, Paths, Patched
<1>5. NothingUnseen'
  BY DEF NothingUnseen, Patched, Fix, Fixed
<1>6. PlaceTrue'
  BY EffectiveIs DEF PlaceTrue, TreeTrue, Undisturbed, Attested, AtBase, AtPlace
<1> QED
  BY <1>1, <1>2, <1>3, <1>4, <1>5, <1>6, ProcessMoves DEF PlaceInv

LEMMA VerifyPassKeeps ==
  ASSUME ExecutorInv, VerifyPass
  PROVE  ExecutorInv'
<1> USE DEF ExecutorInv, VerifyPass, Goto, workspace, Writing, Resumable, Terminal, ApplyPc,
            GatePc, RepairPc
<1>0. Effective' = Effective
  BY EffectiveStays
<1>1. TypeOK'
  <2>1. receipt' \in Receipt
    BY EffectiveIs DEF TypeOK, Receipt
  <2>2. ProcessType'
    BY OpsAssumption DEF ProcessType, TypeOK
  <2> QED
    BY <2>1 DEF TypeOK
<1>2. WriteAhead'
  BY CurrentImages, ActiveRepair DEF WriteAhead
<1>3. RecordInv'
  <2>1. /\ receipt'.state = receipt.state /\ receipt'.digest = receipt.digest /\ receipt'.passed = receipt.digest
        /\ receipt'.verdict = receipt.verdict /\ receipt'.reviewed = receipt.reviewed
    OBVIOUS
  <2>2. receipt.digest = Effective /\ files = Effective /\ verified' = verified \cup {files}
    BY DEF Attested, AtPlace
  <2>3. ChainUnbroken'
    BY DEF ChainUnbroken
  <2>4. DigestsFit'
    BY <1>0, <2>2 DEF DigestsFit, AtPlace, Fixed, Patched
  <2>5. ReviewsFit'
    BY DEF ReviewsFit
  <2> QED
    BY <2>3, <2>4, <2>5 DEF RecordInv
<1>4. TreeTrue'
  BY <1>0 DEF TreeTrue, Undisturbed, AtBase, Attested, AtPlace
<1>5. AtPlace'
  <2>1. /\ receipt'.state = receipt.state /\ receipt'.digest = receipt.digest /\ receipt'.passed = receipt.digest
    OBVIOUS
  <2>2. receipt.digest = Effective /\ strategy \in {"web", "model"}
    BY StrategyAssumption DEF AtPlace, TypeOK
  <2>3. repair.state = "NONE" \/ repair.state = "APPLIED"
    BY DEF AtPlace
  <2> QED
    BY <1>0, <2>2, <2>3 DEF AtPlace, Sealed
<1>6. TurnMarked'
  BY ReceiptFields DEF TurnMarked
<1>7. ImagesFit'
  BY DEF ImagesFit, AtPlace, Fixed, Patched
<1>8. NothingUnseen'
  BY DEF NothingUnseen
<1>9. PlaceTrue'
  BY DEF PlaceTrue, TypeOK, Paths, Patched
<1>10. ReviewerCalledOnce' /\ PublishedIsVerified'
  BY DEF ReviewerCalledOnce, PublishedIsVerified, AtBase
<1> QED
  BY <1>1, <1>2, <1>3, <1>4, <1>5, <1>6, <1>7, <1>8, <1>9, <1>10, Composed DEF PlaceInv

LEMMA VerifyFailKeeps ==
  ASSUME ExecutorInv, VerifyFail
  PROVE  ExecutorInv'
<1> USE DEF ExecutorInv, VerifyFail, Release, Ended, FailTo, workspace, Writing, Resumable,
            Terminal, ApplyPc, GatePc, RepairPc
<1>0. Effective' = Effective
  BY EffectiveStays
<1>1. TypeOK'
  <2>1. receipt' \in Receipt
    BY DEF TypeOK, Receipt, ReceiptState, Digest
  <2>2. ProcessType'
    BY EndedType DEF TypeOK, ProcessType
  <2> QED
    BY <2>1, <2>2, Types DEF TypeOK
<1>2. WriteAhead'
  BY CurrentImages, ActiveRepair DEF WriteAhead
<1>3. RecordInv'
  BY DEF RecordInv, ChainUnbroken, DigestsFit, ReviewsFit, Fixed, Patched, TypeOK, AtPlace
<1>4. TreeTrue'
  BY DEF TreeTrue, Undisturbed, AtBase, Attested, AtPlace
<1>5. AtPlace'
  BY DEF AtPlace, Sealed, Paths, Patched
<1>6. TurnMarked'
  BY ReceiptFields DEF TurnMarked
<1>7. ImagesFit'
  BY DEF ImagesFit, AtPlace, Fixed, Patched
<1>8. NothingUnseen'
  BY DEF NothingUnseen
<1>9. PlaceTrue'
  BY DEF PlaceTrue, Undisturbed, TypeOK, Paths, Patched
<1>10. ReviewerCalledOnce' /\ PublishedIsVerified'
  BY DEF ReviewerCalledOnce, PublishedIsVerified, AtBase
<1> QED
  BY <1>1, <1>2, <1>3, <1>4, <1>5, <1>6, <1>7, <1>8, <1>9, <1>10, Composed DEF PlaceInv

LEMMA ReviewKnownKeeps ==
  ASSUME ExecutorInv, ReviewKnown
  PROVE  ExecutorInv'
<1> USE DEF ExecutorInv, ReviewKnown, Goto, workspace, durable, ghosts, Writing, Resumable,
            Terminal, ApplyPc, GatePc, RepairPc
<1>0. Effective' = Effective
  BY EffectiveStays
<1>1. ProcessType'
  BY RepairFields DEF ProcessType, TypeOK
<1>2. AtPlace'
  BY <1>0 DEF AtPlace, DigestsFit, ReviewsFit, Sealed
<1>3. TurnMarked'
  BY DEF TurnMarked
<1>4. ImagesFit'
  BY DEF ImagesFit, AtPlace, DigestsFit, Fixed, TypeOK, Paths
<1>5. NothingUnseen'
  BY DEF NothingUnseen, Patched, Fix, Fixed
<1>6. PlaceTrue'
  BY DEF PlaceTrue, DigestsFit, TypeOK, Paths
<1> QED
  BY <1>1, <1>2, <1>3, <1>4, <1>5, <1>6, ProcessMoves DEF PlaceInv

LEMMA AskReviewerKeeps ==
  ASSUME ExecutorInv, AskReviewer
  PROVE  ExecutorInv'
<1> USE DEF ExecutorInv, AskReviewer, Goto, FailTo, workspace, Writing, Resumable, Terminal,
            ApplyPc, GatePc, RepairPc
<1>0. Effective' = Effective
  BY EffectiveStays
<1>1. TypeOK'
  <2>1. receipt' \in Receipt
    BY ReceiptMoves DEF TypeOK, ReceiptState
  <2>2. ProcessType'
    BY OpsAssumption DEF ProcessType, TypeOK
  <2> QED
    BY <2>1 DEF TypeOK
<1>2. WriteAhead'
  BY CurrentImages, ActiveRepair DEF WriteAhead
<1>3. RecordInv'
  BY DEF RecordInv, ChainUnbroken, DigestsFit, ReviewsFit, Patched, TypeOK, AtPlace
<1>4. TreeTrue'
  BY DEF TreeTrue, Undisturbed, AtBase, Attested, AtPlace
<1>5. AtPlace'
  BY <1>0 DEF AtPlace, Sealed, Paths, Patched
<1>6. TurnMarked'
  BY ReceiptFields DEF TurnMarked
<1>7. ImagesFit'
  BY DEF ImagesFit, AtPlace, Fixed, Patched
<1>8. NothingUnseen'
  BY DEF NothingUnseen
<1>9. PlaceTrue'
  BY DEF PlaceTrue, TypeOK, Paths, Patched
<1>10. ReviewerCalledOnce' /\ PublishedIsVerified'
  <2>1. calls = 0
    <3>1. repair.by = "none"
      BY DEF AtPlace, DigestsFit
    <3>2. receipt.digest = PackTree /\ receipt.state \notin Terminal
      BY EffectiveIs DEF AtPlace
    <3>3. receipt.verdict = "NONE"
      BY <3>1, <3>2 DEF ReviewsFit
    <3> QED
      BY <3>2, <3>3 DEF TurnMarked, TypeOK
  <2> QED
    BY <2>1 DEF ReviewerCalledOnce, PublishedIsVerified, AtBase
<1> QED
  BY <1>1, <1>2, <1>3, <1>4, <1>5, <1>6, <1>7, <1>8, <1>9, <1>10, Composed DEF PlaceInv

LEMMA AnswerLostKeeps ==
  ASSUME ExecutorInv, AnswerLost
  PROVE  ExecutorInv'
<1> USE DEF ExecutorInv, AnswerLost, FailTo, workspace, durable, ghosts, Writing, Resumable,
            Terminal, ApplyPc, GatePc, RepairPc
<1>0. Effective' = Effective
  BY EffectiveStays
<1>1. ProcessType'
  BY RepairFields DEF ProcessType, TypeOK
<1>2. AtPlace'
  BY DEF AtPlace, DigestsFit, ReviewsFit, Sealed
<1>3. TurnMarked'
  BY DEF TurnMarked
<1>4. ImagesFit'
  BY DEF ImagesFit, AtPlace, DigestsFit, Fixed, TypeOK, Paths
<1>5. NothingUnseen'
  BY DEF NothingUnseen, Patched, Fix, Fixed
<1>6. PlaceTrue'
  BY EffectiveIs DEF PlaceTrue, TreeTrue, Undisturbed, Attested, AtBase, AtPlace
<1> QED
  BY <1>1, <1>2, <1>3, <1>4, <1>5, <1>6, ProcessMoves DEF PlaceInv

LEMMA ApproveKeeps ==
  ASSUME ExecutorInv, Approve
  PROVE  ExecutorInv'
<1> USE DEF ExecutorInv, Approve, Goto, workspace, Writing, Resumable, Terminal, ApplyPc,
            GatePc, RepairPc
<1>0. Effective' = Effective
  BY EffectiveStays
<1>1. TypeOK'
  <2>1. receipt' \in Receipt
    BY DEF TypeOK, Receipt, Answered
  <2>2. ProcessType'
    BY OpsAssumption DEF ProcessType, TypeOK
  <2> QED
    BY <2>1 DEF TypeOK
<1>2. WriteAhead'
  BY CurrentImages, ActiveRepair DEF WriteAhead
<1>3. RecordInv'
  <2>1. /\ receipt'.state = receipt.state /\ receipt'.digest = receipt.digest /\ receipt'.passed = receipt.passed
        /\ receipt'.verdict = "APPROVE" /\ receipt'.reviewed = receipt.digest
    BY States DEF Answered
  <2>2. receipt.digest = Effective /\ repair.state = "NONE" /\ strategy = "model"
    BY DEF AtPlace
  <2>3. repair.by = "none" /\ Effective = PackTree /\ files = Effective
    BY <2>2, EffectiveIs DEF DigestsFit, Attested
  <2>4. ChainUnbroken'
    BY DEF ChainUnbroken
  <2>5. DigestsFit'
    BY <2>1, States DEF DigestsFit, AtPlace
  <2>6. ReviewsFit'
    BY <2>1, <2>2, <2>3 DEF ReviewsFit
  <2> QED
    BY <2>4, <2>5, <2>6 DEF RecordInv
<1>4. TreeTrue'
  <2>1. /\ receipt'.state = receipt.state /\ receipt'.digest = receipt.digest /\ receipt'.passed = receipt.passed
        /\ receipt'.verdict = "APPROVE" /\ receipt'.reviewed = receipt.digest
    BY States DEF Answered
  <2>2. receipt.digest = Effective /\ repair.state = "NONE" /\ strategy = "model"
    BY DEF AtPlace
  <2>3. repair.by = "none" /\ Effective = PackTree /\ files = Effective
    BY <2>2, EffectiveIs DEF DigestsFit, Attested
  <2> QED
    BY <2>1, <2>2 DEF TreeTrue, Undisturbed, AtBase
<1>5. AtPlace'
  <2>1. /\ receipt'.state = receipt.state /\ receipt'.digest = receipt.digest /\ receipt'.passed = receipt.passed
        /\ receipt'.verdict = "APPROVE" /\ receipt'.reviewed = receipt.digest
    BY States DEF Answered
  <2>2. receipt.digest = Effective /\ repair.state = "NONE" /\ strategy = "model"
    BY DEF AtPlace
  <2>3. repair.by = "none" /\ Effective = PackTree /\ files = Effective
    BY <2>2, EffectiveIs DEF DigestsFit, Attested
  <2> QED
    BY <1>0, <2>1, <2>2 DEF AtPlace, Sealed
<1>6. TurnMarked'
  <2>1. /\ receipt'.state = receipt.state /\ receipt'.digest = receipt.digest /\ receipt'.passed = receipt.passed
        /\ receipt'.verdict = "APPROVE" /\ receipt'.reviewed = receipt.digest
    BY States DEF Answered
  <2>2. receipt.digest = Effective /\ repair.state = "NONE" /\ strategy = "model"
    BY DEF AtPlace
  <2>3. repair.by = "none" /\ Effective = PackTree /\ files = Effective
    BY <2>2, EffectiveIs DEF DigestsFit, Attested
  <2> QED
    BY <2>1 DEF TurnMarked
<1>7. ImagesFit'
  BY DEF ImagesFit, AtPlace, Fixed, Patched
<1>8. NothingUnseen'
  BY DEF NothingUnseen
<1>9. PlaceTrue'
  BY DEF PlaceTrue, TypeOK, Paths, Patched
<1>10. ReviewerCalledOnce' /\ PublishedIsVerified'
  BY DEF ReviewerCalledOnce, PublishedIsVerified, AtBase
<1> QED
  BY <1>1, <1>2, <1>3, <1>4, <1>5, <1>6, <1>7, <1>8, <1>9, <1>10, Composed DEF PlaceInv

LEMMA RejectKeeps ==
  ASSUME ExecutorInv, NEW verdict \in {"REVISE", "ESCALATE"}, Reject(verdict)
  PROVE  ExecutorInv'
<1> USE DEF ExecutorInv, Reject, Release, Ended, workspace, Writing, Resumable, Terminal,
            ApplyPc, GatePc, RepairPc
<1>0. Effective' = Effective
  BY EffectiveStays
<1>1. TypeOK'
  <2>1. receipt' \in Receipt
    BY States DEF TypeOK, Receipt, Answered
  <2>2. ProcessType'
    BY EndedType DEF TypeOK
  <2> QED
    BY <2>1, <2>2, Types DEF TypeOK
<1>2. WriteAhead'
  BY CurrentImages, ActiveRepair DEF WriteAhead
<1>3. RecordInv'
  <2>1. /\ receipt'.state = "ESCALATE_TO_WEB" /\ receipt'.digest = receipt.digest /\ receipt'.passed = receipt.passed
        /\ receipt'.verdict = verdict /\ receipt'.reviewed = receipt.digest
    BY States DEF Answered
  <2>2. receipt.digest = Effective /\ repair.state = "NONE" /\ strategy = "model"
    BY DEF AtPlace
  <2>3. repair.by = "none" /\ Effective = PackTree /\ files = Effective
    BY <2>2, EffectiveIs DEF DigestsFit, Attested
  <2>4. ChainUnbroken'
    BY DEF ChainUnbroken
  <2>5. DigestsFit'
    BY <2>1, States DEF DigestsFit, AtPlace
  <2>6. ReviewsFit'
    BY <2>1, <2>2, <2>3 DEF ReviewsFit
  <2> QED
    BY <2>4, <2>5, <2>6 DEF RecordInv
<1>4. TreeTrue'
  BY DEF TreeTrue, Undisturbed, AtBase, Attested, AtPlace
<1>5. AtPlace'
  BY DEF AtPlace, Sealed, Paths, Patched
<1>6. TurnMarked'
  BY ReceiptFields DEF TurnMarked
<1>7. ImagesFit'
  BY DEF ImagesFit, AtPlace, Fixed, Patched
<1>8. NothingUnseen'
  BY DEF NothingUnseen
<1>9. PlaceTrue'
  BY DEF PlaceTrue, TypeOK, Paths, Patched
<1>10. ReviewerCalledOnce' /\ PublishedIsVerified'
  BY DEF ReviewerCalledOnce, PublishedIsVerified, AtBase
<1> QED
  BY <1>1, <1>2, <1>3, <1>4, <1>5, <1>6, <1>7, <1>8, <1>9, <1>10, Composed DEF PlaceInv

LEMMA ReviseWithKeeps ==
  ASSUME ExecutorInv, NEW paths \in (SUBSET Paths) \ {{}}, ReviseWith(paths)
  PROVE  ExecutorInv'
<1> USE DEF ExecutorInv, ReviseWith, Goto, workspace, ghosts, Writing, Resumable, Terminal,
            ApplyPc, GatePc, RepairPc
<1>d. repair.by = "none" /\ repair.state = "NONE" /\ history = <<>> /\ files = PackTree /\ Fixed = 1
      /\ receipt.digest = PackTree /\ receipt.passed = PackTree /\ PackTree \in verified
      /\ strategy = "model" /\ Resumable
  <2>1. repair.state = "NONE" /\ receipt.digest = Effective /\ receipt.passed = Effective
        /\ strategy = "model" /\ Resumable
    BY DEF AtPlace
  <2>2. repair.by = "none" /\ history = <<>> /\ Effective \in verified
    BY <2>1, EffectiveIs DEF DigestsFit
  <2> QED
    BY <2>1, <2>2, EffectiveIs DEF Attested, Fixed
<1>a. /\ receipt' \in Receipt /\ receipt'.state = receipt.state /\ receipt'.digest = receipt.digest
      /\ receipt'.passed = receipt.passed /\ receipt'.verdict = "REVISE" /\ receipt'.reviewed = receipt.digest
  BY DEF TypeOK, Receipt, Answered
<1>b. /\ repair' \in Repair /\ repair'.by = "model" /\ repair'.state = "PROPOSED" /\ repair'.source = receipt.digest
      /\ repair'.final = NoDigest /\ DOMAIN repair'.post = paths /\ \A p \in paths : repair'.post[p] = Fix(1)
  <2>1. 1 \in 1..MaxGenerations /\ receipt.digest \in Digest
    BY BoundsAssumption, ReceiptFields DEF TypeOK
  <2> QED
    BY <2>1, <1>d, Proposals
<1>c. Effective' = PackTree
  BY <1>b, EffectiveBecomes
<1>e. \A p \in Paths : PackTree[p] = Pack /\ \A g \in 1..MaxGenerations : Pack # Fix(g)
  BY Images DEF PackTree, Uniform
<1>1. TypeOK'
  <2>2. ProcessType'
    BY BoundsAssumption DEF ProcessType, TypeOK
  <2> QED
    BY <1>a, <1>b DEF TypeOK
<1>2. WriteAhead'
  BY <1>d DEF WriteAhead
<1>3. RecordInv'
  <2>1. ChainUnbroken'
    BY <1>d DEF ChainUnbroken
  <2>2. DigestsFit'
    <3>1. Fixed' = 1 /\ Patched' = paths /\ 1 <= MaxGenerations
      BY <1>b, <1>d, BoundsAssumption DEF Fixed, Patched
    <3>2. \A p \in Paths : PackTree[p] < Fix(1)
      BY <1>e DEF Pack, Fix
    <3> QED
      BY <1>a, <1>b, <1>d, <3>1, <3>2 DEF DigestsFit
  <2>3. ReviewsFit'
    BY <1>a, <1>b, <1>d DEF ReviewsFit
  <2> QED
    BY <2>1, <2>2, <2>3 DEF RecordInv
<1>4. TreeTrue'
  BY <1>a, <1>b, <1>c, <1>d DEF TreeTrue
<1>5. AtPlace'
  BY <1>a DEF AtPlace
<1>6. TurnMarked'
  BY <1>a DEF TurnMarked
<1>7. ImagesFit'
  BY <1>d, <1>e, BoundsAssumption DEF ImagesFit, Fixed
<1>8. NothingUnseen'
  BY DEF NothingUnseen
<1>9. PlaceTrue'
  BY DEF PlaceTrue
<1>10. ReviewerCalledOnce' /\ PublishedIsVerified'
  BY DEF ReviewerCalledOnce, PublishedIsVerified, AtBase
<1> QED
  BY <1>1, <1>2, <1>3, <1>4, <1>5, <1>6, <1>7, <1>8, <1>9, <1>10, Composed DEF PlaceInv

\* Where nobody interfered and no gate said no, the evidence is there.
LEMMA EvidenceFound ==
  ASSUME ExecutorInv, Undisturbed, pc = "ready"
  PROVE  ReadyEvidence /\ Attested
<1> USE DEF ExecutorInv
<1>1. Sealed /\ Resumable /\ history = <<>> /\ Effective # NoDigest
  BY EffectiveIs DEF AtPlace, Undisturbed
<1>2. strategy \in {"web", "model"}
  BY StrategyAssumption DEF TypeOK
<1>3. CASE repair.by = "none"
  <2>1. repair.state = "NONE" /\ Effective = PackTree
    BY <1>3, EffectiveIs DEF DigestsFit, NoRepair
  <2>2. files = PackTree
    BY <2>1 DEF TreeTrue, AtPlace
  <2>3. strategy = "model" => Reviewed(receipt.digest)
    BY <1>3, <2>1 DEF AtPlace, ReviewsFit, Reviewed, Resumable, Sealed
  <2> QED
    BY <1>1, <1>3, <2>1, <2>2, <2>3 DEF ReadyEvidence, Attested, Undisturbed, ReviewsFit, Sealed
<1>4. CASE repair.by # "none"
  <2>1. repair.state = "VERIFIED" /\ repair.final = Effective
    BY <1>1, <1>4 DEF DigestsFit, Sealed
  <2>2. files = Effective
    BY <2>1 DEF TreeTrue
  <2>3. repair.by = "web" \/ repair.by = "model"
    BY <1>4, RepairFields DEF TypeOK
  <2>4. strategy = "model" => Reviewed(receipt.digest)
    BY <1>1, <2>1, <2>3 DEF ReviewsFit, Reviewed, Covers, Sealed
  <2> QED
    BY <1>1, <2>1, <2>2, <2>4 DEF ReadyEvidence, Attested, Undisturbed, ReviewsFit, Sealed
<1> QED
  BY <1>3, <1>4

\* READY is refused where evidence or worktree do not fit ...
LEMMA ReadyRefused ==
  ASSUME ExecutorInv, Ready, ~(ReadyEvidence /\ Attested)
  PROVE  ExecutorInv'
<1> USE DEF ExecutorInv, Ready, Release, Ended, FailTo, workspace, durable, ghosts, Writing, Resumable,
            Terminal, ApplyPc, GatePc, RepairPc
<1>0. Effective' = Effective /\ UNCHANGED receipt
  BY EffectiveStays
<1>1. ProcessType'
  BY RepairFields DEF ProcessType, TypeOK
<1>2. AtPlace'
  BY DEF AtPlace, DigestsFit, ReviewsFit, Sealed
<1>3. TurnMarked'
  BY DEF TurnMarked
<1>4. ImagesFit'
  BY DEF ImagesFit, Fixed, TypeOK, Paths, Patched
<1>5. NothingUnseen'
  BY DEF NothingUnseen, Patched, Fix, Fixed
<1>6. PlaceTrue'
  BY EvidenceFound DEF PlaceTrue, Undisturbed, AtBase
<1> QED
  BY <1>1, <1>2, <1>3, <1>4, <1>5, <1>6, ProcessMoves DEF PlaceInv

\* ... and written where they do.
LEMMA ReadyGiven ==
  ASSUME ExecutorInv, pc = "ready", Attested,
         receipt' = [receipt EXCEPT !.state = "READY_FOR_PUBLISH"], Release,
         UNCHANGED <<workspace, repair, history, ghosts>>
  PROVE  ExecutorInv'
<1> USE DEF ExecutorInv, Release, Ended, workspace, ghosts, Writing, Resumable, Terminal,
            ApplyPc, GatePc, RepairPc
<1>0. Effective' = Effective
  BY EffectiveStays
<1>1. TypeOK'
  <2>1. receipt' \in Receipt
    BY ReceiptMoves, States DEF TypeOK
  <2>2. ProcessType'
    BY EndedType DEF TypeOK
  <2> QED
    BY <2>1, <2>2, Types DEF TypeOK
<1>2. WriteAhead'
  BY CurrentImages, ActiveRepair DEF WriteAhead
<1>3. RecordInv'
  <2>1. /\ receipt'.state = "READY_FOR_PUBLISH" /\ receipt'.digest = receipt.digest /\ receipt'.passed = receipt.passed
        /\ receipt'.verdict = receipt.verdict /\ receipt'.reviewed = receipt.reviewed
    OBVIOUS
  <2>2. Sealed /\ Resumable /\ files = Effective
    BY DEF AtPlace, Attested
  <2>3. strategy = "model" /\ repair.by = "none" => receipt.verdict = "APPROVE"
    BY DEF AtPlace
  <2>4. ChainUnbroken'
    BY DEF ChainUnbroken
  <2>5. DigestsFit'
    BY <1>0, <2>2 DEF DigestsFit, Sealed, Fixed, Patched
  <2>6. ReviewsFit'
    BY <2>2, <2>3 DEF ReviewsFit
  <2> QED
    BY <2>4, <2>5, <2>6 DEF RecordInv
<1>4. TreeTrue'
  <2>1. /\ receipt'.state = "READY_FOR_PUBLISH" /\ receipt'.digest = receipt.digest /\ receipt'.passed = receipt.passed
        /\ receipt'.verdict = receipt.verdict /\ receipt'.reviewed = receipt.reviewed
    OBVIOUS
  <2>2. Sealed /\ Resumable /\ files = Effective
    BY DEF AtPlace, Attested
  <2>3. strategy = "model" /\ repair.by = "none" => receipt.verdict = "APPROVE"
    BY DEF AtPlace
  <2> QED
    BY <1>0, <2>2, EffectiveIs DEF TreeTrue, Undisturbed, AtBase, Sealed
<1>5. AtPlace'
  BY DEF AtPlace, Sealed, Paths, Patched
<1>6. TurnMarked'
  <2>1. /\ receipt'.state = "READY_FOR_PUBLISH" /\ receipt'.digest = receipt.digest /\ receipt'.passed = receipt.passed
        /\ receipt'.verdict = receipt.verdict /\ receipt'.reviewed = receipt.reviewed
    OBVIOUS
  <2>2. Sealed /\ Resumable /\ files = Effective
    BY DEF AtPlace, Attested
  <2>3. strategy = "model" /\ repair.by = "none" => receipt.verdict = "APPROVE"
    BY DEF AtPlace
  <2> QED
    BY <2>2 DEF TurnMarked
<1>7. ImagesFit'
  BY DEF ImagesFit, AtPlace, Fixed, Patched
<1>8. NothingUnseen'
  BY DEF NothingUnseen
<1>9. PlaceTrue'
  BY DEF PlaceTrue
<1>10. ReviewerCalledOnce' /\ PublishedIsVerified'
  BY DEF ReviewerCalledOnce, PublishedIsVerified, AtBase
<1> QED
  BY <1>1, <1>2, <1>3, <1>4, <1>5, <1>6, <1>7, <1>8, <1>9, <1>10, Composed DEF PlaceInv

LEMMA ReadyKeeps ==
  ASSUME ExecutorInv, Ready
  PROVE  ExecutorInv'
<1>1. CASE ReadyEvidence /\ Attested
  BY <1>1, ReadyGiven DEF Ready
<1>2. CASE ~(ReadyEvidence /\ Attested)
  BY <1>2, ReadyRefused
<1> QED
  BY <1>1, <1>2

-----------------------------------------------------------------------------
(* Applying a repair.                                                      *)

LEMMA OpenRepairKeeps ==
  ASSUME ExecutorInv, OpenRepair
  PROVE  ExecutorInv'
<1> USE DEF ExecutorInv, OpenRepair, GotoAt, workspace, ghosts, Writing, Resumable, Terminal,
            ApplyPc, GatePc, RepairPc
<1>a. /\ receipt' \in Receipt /\ receipt'.state = "REPAIR_APPLYING" /\ receipt'.digest = receipt.digest
      /\ receipt'.passed = receipt.passed /\ receipt'.verdict = receipt.verdict /\ receipt'.reviewed = receipt.reviewed
  BY ReceiptMoves, States DEF TypeOK
<1>b. /\ repair' \in Repair /\ repair'.by = repair.by /\ repair'.state = "APPLYING" /\ repair'.source = repair.source
      /\ repair'.final = repair.final /\ repair'.post = repair.post
  <2>1. repair \in Repair
    BY DEF TypeOK
  <2> QED
    BY <2>1, RepairMoves
<1>c. repair.by # "none" /\ Effective' = Effective
  BY ActiveRepair, EffectiveStays
<1>1. TypeOK'
  <2>2. ProcessType'
    BY OpsAssumption, BoundsAssumption DEF ProcessType, TypeOK
  <2> QED
    BY <1>a, <1>b, <2>2, Types DEF TypeOK
<1>2. WriteAhead'
  BY DEF WriteAhead
<1>3. RecordInv'
  <2>1. ChainUnbroken'
    BY DEF ChainUnbroken
  <2>2. DigestsFit'
    BY <1>c DEF DigestsFit, Fixed, Patched
  <2>3. ReviewsFit'
    BY <1>a, <1>c DEF ReviewsFit
  <2> QED
    BY <2>1, <2>2, <2>3 DEF RecordInv
<1>4. TreeTrue'
  BY DEF TreeTrue, Undisturbed, AtBase, Patched, PackTree, Uniform
<1>5. AtPlace'
  BY <1>a DEF AtPlace
<1>6. TurnMarked'
  BY <1>a DEF TurnMarked, AtPlace
<1>7. ImagesFit'
  BY DEF ImagesFit, Fixed, Patched
<1>8. NothingUnseen'
  BY DEF NothingUnseen
<1>9. PlaceTrue'
  BY CurrentImages DEF PlaceTrue, Patched, Paths
<1>10. ReviewerCalledOnce' /\ PublishedIsVerified'
  BY DEF ReviewerCalledOnce, PublishedIsVerified, AtBase
<1> QED
  BY <1>1, <1>2, <1>3, <1>4, <1>5, <1>6, <1>7, <1>8, <1>9, <1>10, Composed DEF PlaceInv

LEMMA InspectRepairKeeps ==
  ASSUME ExecutorInv, InspectRepair
  PROVE  ExecutorInv'
<1> USE DEF ExecutorInv, InspectRepair, Goto, GotoAt, Unrepair, workspace, durable, ghosts,
            Writing, Resumable, Terminal, ApplyPc, GatePc, RepairPc
<1>0. Effective' = Effective
  BY EffectiveStays
<1>1. ProcessType'
  BY Images DEF ProcessType, TypeOK, Paths
<1>2. AtPlace'
  BY Images DEF AtPlace, ReviewsFit, Sealed, Patched
<1>3. TurnMarked'
  BY DEF TurnMarked
<1>4. ImagesFit'
  BY DEF ImagesFit, Fixed, TypeOK, Paths, Patched
<1>5. NothingUnseen'
  BY DEF NothingUnseen, Patched, Fix, Fixed
<1>6. PlaceTrue'
  <2>1. ASSUME Undisturbed PROVE repair.by # "none" /\ repair.source = PackTree
    BY <2>1 DEF Undisturbed, DigestsFit, AtPlace, NoRepair
  <2>2. \A p \in Patched : p \in Paths
    BY CurrentImages
  <2>3. ASSUME Undisturbed PROVE files[at] = PackTree[at] \/ (at \in Patched /\ files[at] = repair.post[at])
    BY <2>3 DEF TreeTrue, AtPlace, PackTree, Uniform
  <2>4. Undisturbed' = Undisturbed
    BY DEF Undisturbed, AtBase
  <2>5. CASE at \notin Patched \/ files[at] = repair.post[at]
    <3>1. pc' = "repair" /\ at' = at + 1 /\ at \in Nat
      BY <2>5, Images
    <3>2. ASSUME Undisturbed, NEW p \in Patched, p < at + 1 PROVE files[p] = repair.post[p]
      <4>1. p \in Nat
        BY <2>2, Images
      <4> QED
        BY <3>1, <3>2, <4>1 DEF PlaceTrue
    <3> QED
      BY <2>4, <3>1, <3>2 DEF PlaceTrue, Patched
  <2>6. CASE ~(at \notin Patched \/ files[at] = repair.post[at])
    BY <2>1, <2>3, <2>4, <2>6 DEF PlaceTrue, Patched, PackTree, Uniform
  <2> QED
    BY <2>5, <2>6
<1> QED
  BY <1>1, <1>2, <1>3, <1>4, <1>5, <1>6, ProcessMoves DEF PlaceInv

LEMMA RewriteKeeps ==
  ASSUME ExecutorInv, Rewrite
  PROVE  ExecutorInv'
<1> USE DEF ExecutorInv, Rewrite, Goto, Unrepair, workspace, durable, Writing, Resumable,
            Terminal, ApplyPc, GatePc, RepairPc
<1>0. Effective' = Effective
  BY EffectiveStays
<1>1. ProcessType'
  BY Images, RepairFields DEF ProcessType, TypeOK
<1>2. AtPlace'
  BY Images DEF AtPlace, ReviewsFit, Sealed, Patched
<1>3. TurnMarked'
  BY DEF TurnMarked
<1>4. ImagesFit'
  BY DEF ImagesFit, Fixed, TypeOK, Paths, Patched
<1>5. NothingUnseen'
  BY CurrentImages, ActiveRepair DEF NothingUnseen, AtPlace, TypeOK
<1>6. PlaceTrue'
  <2>1. ASSUME Undisturbed PROVE repair.by # "none" /\ repair.source = PackTree
    BY <2>1 DEF Undisturbed, DigestsFit, AtPlace, NoRepair
  <2>2. at \in Paths
    BY RepairFields DEF AtPlace, TypeOK, Patched
  <2> QED
    BY <2>1, <2>2 DEF PlaceTrue, Undisturbed, AtBase, Patched, PackTree, Uniform
<1> QED
  BY <1>1, <1>2, <1>3, <1>4, <1>5, <1>6, ProcessMoves DEF PlaceInv

LEMMA ReinstallKeeps ==
  ASSUME ExecutorInv, Reinstall
  PROVE  ExecutorInv'
<1> USE DEF ExecutorInv, Reinstall, Put, Goto, durable, Writing, Resumable, Terminal, ApplyPc,
            GatePc, RepairPc
<1>0. Effective' = Effective
  BY EffectiveStays
<1>1. TypeOK'
  <2>1. receipt' \in Receipt
    BY DEF TypeOK
  <2>2. ProcessType'
    BY OpsAssumption DEF ProcessType, TypeOK
  <2>3. files' \in Tree
    BY CurrentImages, ActiveRepair DEF TypeOK, Tree, AtPlace
  <2> QED
    BY <2>2, <2>3 DEF TypeOK
<1>2. WriteAhead'
  <2> SUFFICES ASSUME NEW p \in Paths, NEW g \in 1..MaxGenerations, files'[p] = Fix(g), p = at
           PROVE  g \in 1..Fixed /\ repair.state = "APPLYING"
    BY GenerationIs DEF WriteAhead
  <2>1. repair.state = "APPLYING" /\ repair.by # "none"
    BY ActiveRepair DEF AtPlace
  <2>2. Fixed \in 1..MaxGenerations /\ files \in Tree
    BY GenerationIs DEF TypeOK
  <2>3. Fix(g) = Fix(Fixed)
    BY <2>1, <2>2, CurrentImages DEF AtPlace, Tree
  <2> QED
    BY <2>1, <2>2, <2>3 DEF Fix
<1>3. RecordInv'
  BY DEF RecordInv, ChainUnbroken, DigestsFit, ReviewsFit, Fixed, Patched, TypeOK, AtPlace
<1>4. TreeTrue'
  BY DEF TreeTrue, Undisturbed, AtBase, Attested, AtPlace, Patched
<1>5. AtPlace'
  BY DEF AtPlace, Sealed, Paths, Patched
<1>6. TurnMarked'
  BY ReceiptFields DEF TurnMarked
<1>7. ImagesFit'
  BY DEF ImagesFit, AtPlace, Fixed, Patched
<1>8. NothingUnseen'
  BY DEF NothingUnseen, TypeOK
<1>9. PlaceTrue'
  <2>1. files' = [files EXCEPT ![at] = repair.post[at]] /\ files \in Tree /\ at \in Paths /\ pc' = "rerecheck"
    BY CurrentImages DEF TypeOK, AtPlace
  <2>2. files'[at] = repair.post[at] /\ \A p \in Paths : p # at => files'[p] = files[p]
    BY <2>1 DEF Tree
  <2> QED
    BY <2>2 DEF PlaceTrue, Undisturbed, AtBase, Patched
<1>10. ReviewerCalledOnce' /\ PublishedIsVerified'
  BY DEF ReviewerCalledOnce, PublishedIsVerified, AtBase
<1> QED
  BY <1>1, <1>2, <1>3, <1>4, <1>5, <1>6, <1>7, <1>8, <1>9, <1>10, Composed DEF PlaceInv

LEMMA RecheckRepairKeeps ==
  ASSUME ExecutorInv, RecheckRepair
  PROVE  ExecutorInv'
<1> USE DEF ExecutorInv, RecheckRepair, GotoAt, Unrepair, workspace, durable, ghosts, Writing,
            Resumable, Terminal, ApplyPc, GatePc, RepairPc
<1>0. Effective' = Effective
  BY EffectiveStays
<1>1. ProcessType'
  BY Images, RepairFields DEF ProcessType, TypeOK, AtPlace, Paths, Patched
<1>2. AtPlace'
  BY Images DEF TypeOK, AtPlace, DigestsFit, ReviewsFit, Sealed
<1>3. TurnMarked'
  BY DEF TurnMarked
<1>4. ImagesFit'
  BY Images, GenerationIs, RepairFields
     DEF ImagesFit, AtPlace, DigestsFit, Fixed, TypeOK, Paths, Patched, Fix, NoRepair
<1>5. NothingUnseen'
  BY DEF NothingUnseen, Patched, Fix, Fixed
<1>6. PlaceTrue'
  BY RepairFields DEF PlaceTrue, Undisturbed, AtBase, TypeOK, Paths, Patched
<1> QED
  BY <1>1, <1>2, <1>3, <1>4, <1>5, <1>6, ProcessMoves DEF PlaceInv

LEMMA RepairAppliedKeeps ==
  ASSUME ExecutorInv, RepairApplied
  PROVE  ExecutorInv'
<1> USE DEF ExecutorInv, RepairApplied, Goto, workspace, ghosts, Writing, Resumable, Terminal,
            ApplyPc, GatePc, RepairPc
<1>a. /\ receipt' \in Receipt /\ receipt'.state = "REPAIR_APPLIED" /\ receipt'.digest = receipt.digest
      /\ receipt'.passed = NoDigest /\ receipt'.verdict = receipt.verdict /\ receipt'.reviewed = receipt.reviewed
  BY States DEF TypeOK, Receipt, Digest
<1>b. /\ repair' \in Repair /\ repair'.by = repair.by /\ repair'.state = "APPLIED" /\ repair'.source = repair.source
      /\ repair'.final = repair.final /\ repair'.post = repair.post
  <2>1. repair \in Repair
    BY DEF TypeOK
  <2> QED
    BY <2>1, RepairMoves
<1>c. repair.by # "none" /\ repair.state = "APPLYING"
  BY ActiveRepair DEF AtPlace
<1>1. TypeOK'
  <2>2. ProcessType'
    BY BoundsAssumption DEF ProcessType, TypeOK
  <2> QED
    BY <1>a, <1>b DEF TypeOK
<1>2. WriteAhead'
  BY DEF WriteAhead
<1>3. RecordInv'
  <2>1. ChainUnbroken'
    BY DEF ChainUnbroken
  <2>2. DigestsFit'
    BY <1>c DEF DigestsFit, Fixed, Patched
  <2>3. ReviewsFit'
    BY <1>a, <1>c DEF ReviewsFit
  <2> QED
    BY <2>1, <2>2, <2>3 DEF RecordInv
<1>4. TreeTrue'
  <2>1. ASSUME Undisturbed PROVE files = Effective'
    <3>1. \A p \in Paths : p < at
      BY OpsAssumption DEF AtPlace, TypeOK, Paths
    <3>2. \A p \in Patched : files[p] = repair.post[p]
      BY <2>1, <3>1, CurrentImages DEF PlaceTrue
    <3>3. \A p \in Paths : p \notin Patched => files[p] = Pack
      BY <1>c, <2>1 DEF TreeTrue
    <3>4. \A p \in Paths : files[p] = Effective'[p]
      BY <3>2, <3>3 DEF Effective, Patched
    <3> QED
      BY <3>4 DEF Effective, TypeOK, Tree
  <2> QED
    BY <2>1 DEF TreeTrue, Undisturbed, AtBase
<1>5. AtPlace'
  BY DEF AtPlace
<1>6. TurnMarked'
  BY <1>a DEF TurnMarked, AtPlace
<1>7. ImagesFit'
  BY DEF ImagesFit, Fixed, Patched
<1>8. NothingUnseen'
  BY DEF NothingUnseen
<1>9. PlaceTrue'
  BY DEF PlaceTrue
<1>10. ReviewerCalledOnce' /\ PublishedIsVerified'
  BY DEF ReviewerCalledOnce, PublishedIsVerified, AtBase
<1> QED
  BY <1>1, <1>2, <1>3, <1>4, <1>5, <1>6, <1>7, <1>8, <1>9, <1>10, Composed DEF PlaceInv

LEMMA UnrepairStepKeeps ==
  ASSUME ExecutorInv, UnrepairStep
  PROVE  ExecutorInv'
<1> USE DEF ExecutorInv, UnrepairStep, Goto, GotoAt, FailTo, workspace, durable, Writing,
            Resumable, Terminal, ApplyPc, GatePc, RepairPc
<1>0. Effective' = Effective
  BY EffectiveStays
<1>1. ProcessType'
  BY Images DEF ProcessType, TypeOK, Paths
<1>2. AtPlace'
  BY Images DEF AtPlace, Sealed, Patched, NoReceipt
<1>3. TurnMarked'
  BY DEF TurnMarked
<1>4. ImagesFit'
  BY DEF ImagesFit, AtPlace, DigestsFit, Fixed, Paths, Patched, Fix, NoRepair
<1>5. NothingUnseen'
  BY CurrentImages, ActiveRepair DEF NothingUnseen, AtPlace, TypeOK
<1>6. PlaceTrue'
  BY DEF PlaceTrue, Undisturbed, AtBase, DigestsFit, TypeOK, Paths
<1> QED
  BY <1>1, <1>2, <1>3, <1>4, <1>5, <1>6, ProcessMoves DEF PlaceInv

LEMMA UnrestoreKeeps ==
  ASSUME ExecutorInv, Unrestore
  PROVE  ExecutorInv'
<1> USE DEF ExecutorInv, Unrestore, Put, Goto, durable, Writing, Resumable, Terminal, ApplyPc,
            GatePc, RepairPc
<1>0. Effective' = Effective
  BY EffectiveStays
<1>1. TypeOK'
  <2>1. receipt' \in Receipt
    BY DEF TypeOK
  <2>2. ProcessType'
    BY OpsAssumption DEF ProcessType, TypeOK
  <2>3. files' \in Tree
    BY CurrentImages, ActiveRepair DEF TypeOK, Tree, AtPlace
  <2> QED
    BY <2>2, <2>3 DEF TypeOK
<1>2. WriteAhead'
  <2> SUFFICES ASSUME NEW p \in Paths, NEW g \in 1..MaxGenerations, files'[p] = Fix(g), p = at
           PROVE  g \in 1..Fixed /\ repair.state = "APPLYING"
    BY GenerationIs DEF WriteAhead
  <2>1. repair.state = "APPLYING" /\ repair.by # "none"
    BY ActiveRepair DEF AtPlace
  <2>2. Fixed \in 1..MaxGenerations /\ files \in Tree
    BY GenerationIs DEF TypeOK
  <2>3. Fix(g) < Fix(Fixed)
    BY <2>1, <2>2 DEF DigestsFit, Tree
  <2> QED
    BY <2>1, <2>2, <2>3 DEF Fix
<1>3. RecordInv'
  BY DEF RecordInv, ChainUnbroken, DigestsFit, ReviewsFit, Fixed, Patched, TypeOK, AtPlace
<1>4. TreeTrue'
  BY DEF TreeTrue, Undisturbed, AtBase, Attested, AtPlace, PlaceTrue
<1>5. AtPlace'
  BY RepairFields DEF TypeOK, AtPlace, Sealed, Paths, Patched
<1>6. TurnMarked'
  BY ReceiptFields DEF TurnMarked
<1>7. ImagesFit'
  BY DEF ImagesFit, AtPlace, Fixed, Patched
<1>8. NothingUnseen'
  BY DEF NothingUnseen, TypeOK
<1>9. PlaceTrue'
  BY DEF PlaceTrue, Undisturbed, AtBase, TypeOK, Paths, Patched
<1>10. ReviewerCalledOnce' /\ PublishedIsVerified'
  BY DEF ReviewerCalledOnce, PublishedIsVerified, AtBase
<1> QED
  BY <1>1, <1>2, <1>3, <1>4, <1>5, <1>6, <1>7, <1>8, <1>9, <1>10, Composed DEF PlaceInv

LEMMA UnrepairedKeeps ==
  ASSUME ExecutorInv, Unrepaired
  PROVE  ExecutorInv'
<1> USE DEF ExecutorInv, Unrepaired, Goto, workspace, ghosts, Writing, Resumable, Terminal,
            ApplyPc, GatePc, RepairPc
<1>a. /\ receipt' \in Receipt /\ receipt'.state = (IF repair.by = "web" THEN "REVIEWING_WEB" ELSE "REVIEWING") /\ receipt'.digest = receipt.digest
      /\ receipt'.passed = receipt.passed /\ receipt'.verdict = receipt.verdict /\ receipt'.reviewed = receipt.reviewed
  <2>1. receipt \in Receipt
    BY DEF TypeOK
  <2>2. (IF repair.by = "web" THEN "REVIEWING_WEB" ELSE "REVIEWING") \in ReceiptState
    BY States
  <2> QED
    BY <2>1, <2>2, ReceiptMoves
<1>b. /\ repair' \in Repair /\ repair'.by = repair.by /\ repair'.state = "PROPOSED" /\ repair'.source = repair.source
      /\ repair'.final = repair.final /\ repair'.post = repair.post
  <2>1. repair \in Repair
    BY DEF TypeOK
  <2> QED
    BY <2>1, RepairMoves
<1>c. repair.by # "none" /\ repair.state = "APPLYING" /\ at = 0
  BY ActiveRepair DEF AtPlace, TypeOK, Paths
<1>d. \A p \in Paths : files[p] # Fix(Fixed)
  BY <1>c, Images DEF ImagesFit
<1>1. TypeOK'
  <2>2. ProcessType'
    BY BoundsAssumption DEF ProcessType, TypeOK
  <2> QED
    BY <1>a, <1>b DEF TypeOK
<1>2. WriteAhead'
  BY <1>d DEF WriteAhead, Fixed
<1>3. RecordInv'
  <2>1. ChainUnbroken'
    BY DEF ChainUnbroken
  <2>2. DigestsFit'
    BY <1>c DEF DigestsFit, Fixed, Patched
  <2>3. ReviewsFit'
    BY <1>a, <1>c DEF ReviewsFit
  <2> QED
    BY <2>1, <2>2, <2>3 DEF RecordInv
<1>4. TreeTrue'
  BY DEF TreeTrue, PlaceTrue, Undisturbed, AtBase
<1>5. AtPlace'
  BY DEF AtPlace
<1>6. TurnMarked'
  BY <1>a DEF TurnMarked, AtPlace
<1>7. ImagesFit'
  BY <1>d DEF ImagesFit, Fixed
<1>8. NothingUnseen'
  BY DEF NothingUnseen
<1>9. PlaceTrue'
  BY DEF PlaceTrue, Undisturbed, AtBase
<1>10. ReviewerCalledOnce' /\ PublishedIsVerified'
  BY DEF ReviewerCalledOnce, PublishedIsVerified, AtBase
<1> QED
  BY <1>1, <1>2, <1>3, <1>4, <1>5, <1>6, <1>7, <1>8, <1>9, <1>10, Composed DEF PlaceInv

\* A repaired worktree that drifted fails ...
LEMMA RepairDrift ==
  ASSUME ExecutorInv, CheckRepair, ~Attested
  PROVE  ExecutorInv'
<1> USE DEF ExecutorInv, CheckRepair, Goto, FailTo, workspace, durable, ghosts, Writing, Resumable,
            Terminal, ApplyPc, GatePc, RepairPc
<1>0. Effective' = Effective /\ UNCHANGED receipt
  BY EffectiveStays
<1>1. ProcessType'
  BY RepairFields DEF ProcessType, TypeOK
<1>2. AtPlace'
  BY DEF AtPlace, DigestsFit, ReviewsFit, Sealed
<1>3. TurnMarked'
  BY DEF TurnMarked
<1>4. ImagesFit'
  BY DEF ImagesFit, Fixed, TypeOK, Paths, Patched
<1>5. NothingUnseen'
  BY DEF NothingUnseen, Patched, Fix, Fixed
<1>6. PlaceTrue'
  BY DEF PlaceTrue, TreeTrue, Undisturbed, Attested, AtBase
<1> QED
  BY <1>1, <1>2, <1>3, <1>4, <1>5, <1>6, ProcessMoves DEF PlaceInv

\* ... and one that is attested goes to the verifier.
LEMMA RepairChecked ==
  ASSUME ExecutorInv, CheckRepair, Attested
  PROVE  ExecutorInv'
<1> USE DEF ExecutorInv, CheckRepair, Goto, FailTo, workspace, ghosts, Writing, Resumable,
            Terminal, ApplyPc, GatePc, RepairPc
<1>a. /\ receipt' \in Receipt /\ receipt'.state = "VERIFYING" /\ receipt'.digest = files
      /\ receipt'.passed = receipt.passed /\ receipt'.verdict = receipt.verdict /\ receipt'.reviewed = receipt.reviewed
  BY States DEF TypeOK, Receipt, Digest
<1>b. /\ repair' \in Repair /\ repair'.by = repair.by /\ repair'.state = repair.state /\ repair'.source = repair.source
      /\ repair'.final = files /\ repair'.post = repair.post
  <2>1. repair \in Repair /\ files \in Digest
    BY DEF TypeOK, Digest
  <2>2. repair' = [repair EXCEPT !.final = files]
    OBVIOUS
  <2> QED
    BY <2>1, <2>2, RepairEnds
<1>c. repair.by # "none" /\ repair.state = "APPLIED" /\ files = Effective /\ Effective' = Effective /\ Effective # NoDigest
  BY <1>b, ActiveRepair, EffectiveStays, EffectiveIs DEF Attested
<1>1. TypeOK'
  <2>2. ProcessType'
    BY BoundsAssumption DEF ProcessType, TypeOK
  <2> QED
    BY <1>a, <1>b DEF TypeOK
<1>2. WriteAhead'
  BY <1>b DEF WriteAhead
<1>3. RecordInv'
  <2>1. ChainUnbroken'
    BY <1>b DEF ChainUnbroken
  <2>2. DigestsFit'
    BY <1>a, <1>b, <1>c DEF DigestsFit, Fixed, Patched
  <2>3. ReviewsFit'
    BY <1>a, <1>b, <1>c DEF ReviewsFit
  <2> QED
    BY <2>1, <2>2, <2>3 DEF RecordInv
<1>4. TreeTrue'
  BY <1>a, <1>b, <1>c DEF TreeTrue
<1>5. AtPlace'
  BY <1>a, <1>b, <1>c DEF AtPlace
<1>6. TurnMarked'
  BY <1>a DEF TurnMarked, AtPlace
<1>7. ImagesFit'
  BY <1>b DEF ImagesFit, Fixed, Patched
<1>8. NothingUnseen'
  BY DEF NothingUnseen
<1>9. PlaceTrue'
  BY DEF PlaceTrue
<1>10. ReviewerCalledOnce' /\ PublishedIsVerified'
  BY DEF ReviewerCalledOnce, PublishedIsVerified, AtBase
<1> QED
  BY <1>1, <1>2, <1>3, <1>4, <1>5, <1>6, <1>7, <1>8, <1>9, <1>10, Composed DEF PlaceInv

LEMMA CheckRepairKeeps ==
  ASSUME ExecutorInv, CheckRepair
  PROVE  ExecutorInv'
BY RepairDrift, RepairChecked

LEMMA SealKeeps ==
  ASSUME ExecutorInv, Seal
  PROVE  ExecutorInv'
<1> USE DEF ExecutorInv, Seal, Goto, workspace, ghosts, Writing, Resumable, Terminal, ApplyPc,
            GatePc, RepairPc
<1>b. /\ repair' \in Repair /\ repair'.by = repair.by /\ repair'.state = "VERIFIED" /\ repair'.source = repair.source
      /\ repair'.final = repair.final /\ repair'.post = repair.post
  <2>1. repair \in Repair
    BY DEF TypeOK
  <2> QED
    BY <2>1, RepairMoves
<1>c. repair.by # "none" /\ repair.state = "APPLIED" /\ repair.final = Effective /\ receipt.digest = Effective
      /\ receipt.passed = Effective /\ Effective' = Effective
  BY ActiveRepair, EffectiveStays DEF AtPlace
<1>1. TypeOK'
  <2>2. ProcessType'
    BY BoundsAssumption DEF ProcessType, TypeOK
  <2> QED
    BY <1>b DEF TypeOK
<1>2. WriteAhead'
  BY DEF WriteAhead
<1>3. RecordInv'
  <2>1. ChainUnbroken'
    BY DEF ChainUnbroken
  <2>2. DigestsFit'
    BY <1>c DEF DigestsFit, Fixed, Patched, Sealed, AtPlace
  <2>3. ReviewsFit'
    BY DEF ReviewsFit
  <2> QED
    BY <2>1, <2>2, <2>3 DEF RecordInv
<1>4. TreeTrue'
  BY <1>c DEF TreeTrue, Undisturbed, AtBase
<1>5. AtPlace'
  BY <1>c DEF AtPlace, Sealed
<1>6. TurnMarked'
  BY DEF TurnMarked
<1>7. ImagesFit'
  BY DEF ImagesFit, Fixed, Patched
<1>8. NothingUnseen'
  BY DEF NothingUnseen
<1>9. PlaceTrue'
  BY DEF PlaceTrue
<1>10. ReviewerCalledOnce' /\ PublishedIsVerified'
  BY DEF ReviewerCalledOnce, PublishedIsVerified, AtBase
<1> QED
  BY <1>1, <1>2, <1>3, <1>4, <1>5, <1>6, <1>7, <1>8, <1>9, <1>10, Composed DEF PlaceInv

LEMMA ResumeSealedKeeps ==
  ASSUME ExecutorInv, ResumeSealed
  PROVE  ExecutorInv'
<1> USE DEF ExecutorInv, ResumeSealed, Goto, workspace, durable, ghosts, Writing, Resumable,
            Terminal, ApplyPc, GatePc, RepairPc
<1>0. Effective' = Effective
  BY EffectiveStays
<1>1. ProcessType'
  BY RepairFields DEF ProcessType, TypeOK
<1>2. AtPlace'
  BY <1>0 DEF AtPlace, DigestsFit, Sealed, NoRepair
<1>3. TurnMarked'
  BY DEF TurnMarked
<1>4. ImagesFit'
  BY DEF ImagesFit, Fixed, TypeOK, Paths, Patched
<1>5. NothingUnseen'
  BY DEF NothingUnseen, Patched, Fix, Fixed
<1>6. PlaceTrue'
  BY DEF PlaceTrue, DigestsFit, TypeOK, Paths
<1> QED
  BY <1>1, <1>2, <1>3, <1>4, <1>5, <1>6, ProcessMoves DEF PlaceInv

-----------------------------------------------------------------------------
(* What others do.                                                         *)

\* The Web binds a repair to a READY result: nothing runs, and what the repair
\* starts from was verified.
LEMMA BoundToReady ==
  ASSUME ExecutorInv, NEW paths \in (SUBSET Paths) \ {{}}, BindRepair(paths)
  PROVE  /\ pc = "idle" /\ Sealed /\ receipt.digest \in verified /\ receipt.digest = Effective
         /\ repair.by # "none" => repair.state = "VERIFIED" /\ repair.final = Effective
<1> USE DEF ExecutorInv, BindRepair
<1>1. pc = "idle"
  BY DEF AtPlace, Resumable
<1>2. Sealed
  BY DEF DigestsFit
<1>3. receipt.digest = Effective /\ receipt.digest \in verified
  BY EffectiveIs DEF DigestsFit, Sealed
<1> QED
  BY <1>1, <1>2, <1>3 DEF Archivable

\* The chain after the repair before it was archived.
LEMMA ArchivedChain ==
  ASSUME ExecutorInv, NEW paths \in (SUBSET Paths) \ {{}}, BindRepair(paths)
  PROVE  /\ history' \in Seq(Generation) /\ Len(history') + 1 \in 1..MaxGenerations
         /\ history' = <<>> <=> repair.by = "none"
         /\ history' = <<>> => Len(history') = 0
         /\ Len(history) <= Len(history')
         /\ repair.by # "none" => Len(history') = Fixed
         /\ \A i \in 1..Len(history') : history'[i].final \in verified
         /\ \A i \in 1..Len(history') - 1 : history'[i].final = history'[i + 1].source
         /\ history' # <<>> => Last(history') .final = receipt.digest
<1> USE DEF ExecutorInv, BindRepair
<1>a. history \in Seq(Generation) /\ Len(history) \in Nat
  BY DEF TypeOK
<1>1. CASE repair.by = "none"
  <2>1. history' = <<>> /\ history = <<>>
    BY <1>1 DEF Archived, DigestsFit
  <2> QED
    BY <1>1, <2>1, BoundsAssumption
<1>2. CASE repair.by # "none"
  <2> DEFINE last == [by |-> repair.by, source |-> repair.source, final |-> repair.final]
  <2>1. history' = Append(history, last)
    BY <1>2 DEF Archived
  <2>2. last \in Generation
    BY <1>2, RepairFields DEF TypeOK, Generation
  <2>3. last.source = repair.source /\ last.final = receipt.digest /\ receipt.digest \in verified
    BY <1>2, BoundToReady
  <2> HIDE DEF last
  <2>4. /\ history' \in Seq(Generation) /\ Len(history') = Len(history) + 1
        /\ \A i \in 1..Len(history) : history'[i] = history[i]
        /\ history'[Len(history) + 1] = last
    BY <1>a, <2>1, <2>2
  <2>5. Len(history) < MaxGenerations - 1
    BY <1>2 DEF Archivable
  <2>6. ASSUME NEW i \in 1..Len(history') PROVE history'[i].final \in verified
    BY <2>3, <2>4 DEF ChainUnbroken
  <2>7. ASSUME NEW i \in 1..Len(history') - 1 PROVE history'[i].final = history'[i + 1].source
    <3>1. CASE i \in 1..Len(history) - 1
      BY <2>4, <3>1 DEF ChainUnbroken
    <3>2. CASE i = Len(history)
      <4>1. history # <<>> /\ i \in 1..Len(history)
        BY <2>4
      <4> QED
        BY <2>3, <2>4, <3>2 DEF ChainUnbroken, Last
    <3> QED
      BY <2>4, <3>1, <3>2
  <2>8. history' # <<>>
    BY <2>4
  <2> QED
    BY <1>2, <2>3, <2>4, <2>5, <2>6, <2>7, <2>8, BoundsAssumption DEF Last, Fixed
<1> QED
  BY <1>1, <1>2

LEMMA BindRepairKeeps ==
  ASSUME ExecutorInv, NEW paths \in (SUBSET Paths) \ {{}}, BindRepair(paths)
  PROVE  ExecutorInv'
<1> USE DEF ExecutorInv
<1>a. /\ UNCHANGED <<workspace, process, ghosts>>
      /\ repair' = Proposal("web", paths, Len(history') + 1, receipt.digest)
      /\ receipt' = [receipt EXCEPT !.state = "REVIEWING_WEB"] /\ receipt.state = "READY_FOR_PUBLISH"
  BY DEF BindRepair
<1>b. /\ pc = "idle" /\ Sealed /\ receipt.digest \in verified /\ receipt.digest = Effective
      /\ repair.by # "none" => repair.state = "VERIFIED" /\ repair.final = Effective
  BY BoundToReady
<1>c. /\ history' \in Seq(Generation) /\ Len(history') + 1 \in 1..MaxGenerations
      /\ history' = <<>> <=> repair.by = "none"
      /\ history' = <<>> => Len(history') = 0
      /\ Len(history) <= Len(history')
      /\ repair.by # "none" => Len(history') = Fixed
      /\ \A i \in 1..Len(history') : history'[i].final \in verified
      /\ \A i \in 1..Len(history') - 1 : history'[i].final = history'[i + 1].source
      /\ history' # <<>> => Last(history').final = receipt.digest
  BY ArchivedChain
<1>d. /\ repair' \in Repair /\ repair'.by = "web" /\ repair'.state = "PROPOSED"
      /\ repair'.source = receipt.digest /\ repair'.final = NoDigest
      /\ DOMAIN repair'.post = paths /\ \A p \in paths : repair'.post[p] = Fix(Fixed')
  <2>1. receipt.digest \in Digest
    BY ReceiptFields DEF TypeOK
  <2>2. Fixed' = Len(history') + 1 /\ Fixed' \in 1..MaxGenerations /\ paths \in SUBSET Paths
    BY <1>c DEF Fixed
  <2>3. repair' = Proposal("web", paths, Fixed', receipt.digest)
    BY <1>a, <2>2
  <2> QED
    BY <2>1, <2>2, <2>3, Proposals
<1>e. /\ receipt' \in Receipt /\ receipt'.state = "REVIEWING_WEB" /\ receipt'.digest = receipt.digest
      /\ receipt'.passed = receipt.passed /\ receipt'.verdict = receipt.verdict
      /\ receipt'.reviewed = receipt.reviewed
  BY <1>a, ReceiptMoves, States DEF TypeOK
<1>f. repair.by = "none" => /\ repair.state = "NONE" /\ history = <<>> /\ receipt.digest = PackTree
  BY <1>b, EffectiveIs DEF DigestsFit, NoRepair
\* No image lies in the worktree that only the new repair could have put there.
<1>g. \A p \in Paths : files[p] # Fix(Fixed')
  <2> SUFFICES ASSUME NEW p \in Paths, files[p] = Fix(Fixed') PROVE FALSE
    OBVIOUS
  <2>1. Fixed' \in 1..MaxGenerations /\ Fixed' = Len(history') + 1
    BY <1>c DEF Fixed
  <2>2. \/ Fixed' <= Len(history)
        \/ Fixed' = Len(history) + 1 /\ repair.state \in {"APPLYING", "APPLIED", "VERIFIED"}
    BY <2>1 DEF WriteAhead
  <2>3. Len(history') \in Nat /\ Len(history) \in Nat
    OBVIOUS
  <2>4. repair.by # "none" => Len(history') = Len(history) + 1
    BY <1>c DEF Fixed
  <2> QED
    BY <1>f, <2>1, <2>2, <2>4
<1>1. TypeOK'
  <2>1. ProcessType'
    BY <1>a DEF ProcessType, TypeOK, process, ghosts
  <2> QED
    BY <1>a, <1>c, <1>d, <1>e, <2>1, Types DEF TypeOK, workspace, ghosts
<1>2. WriteAhead'
  <2> SUFFICES ASSUME NEW p \in Paths, NEW g \in 1..MaxGenerations, files[p] = Fix(g)
               PROVE  g <= Len(history')
    BY <1>a DEF WriteAhead, workspace
  <2>1. g <= Len(history) \/ (g = Len(history) + 1 /\ repair.by # "none")
    BY <1>f DEF WriteAhead
  <2>2. Len(history') \in Nat /\ Len(history) \in Nat
    OBVIOUS
  <2> QED
    BY <1>c, <2>1 DEF Fixed
<1>3. RecordInv'
  <2>1. ChainUnbroken'
    BY <1>a, <1>c, <1>d DEF ChainUnbroken, ghosts
  <2>2. \A p \in Paths : receipt.digest[p] < Fix(Fixed')
    <3> SUFFICES ASSUME NEW p \in Paths PROVE Effective[p] < Fix(Fixed')
      BY <1>b
    <3>1. Fixed' \in 1..MaxGenerations /\ Fix(Fixed') > Pack /\ Pack \in Nat /\ Fix(Fixed') \in Nat
      BY <1>c, Images DEF Fixed
    <3>2. CASE Effective[p] = Pack
      BY <3>1, <3>2
    <3>3. CASE Effective[p] # Pack
      <4>1. repair.by # "none" /\ p \in Patched /\ Effective[p] = repair.post[p]
        BY <1>f, <3>3 DEF Effective, Patched
      <4>2. Effective[p] = Fix(Fixed) /\ Fixed \in Nat /\ Fixed' = Fixed + 1
        BY <1>c, <4>1, CurrentImages DEF Fixed
      <4> QED
        BY <4>2 DEF Fix
    <3> QED
      BY <3>2, <3>3
  <2>3. Fixed' \in 1..MaxGenerations /\ Patched' = paths /\ Fixed' <= MaxGenerations
    BY <1>c, <1>d DEF Fixed, Patched
  <2>4. receipt.digest \in verified' /\ verified' = verified
    BY <1>a, <1>b DEF ghosts
  <2>5. DigestsFit'
    BY <1>c, <1>d, <1>e, <1>f, <2>2, <2>3, <2>4 DEF DigestsFit
  <2>6. ReviewsFit'
    BY <1>a, <1>c, <1>d, <1>f DEF ReviewsFit, workspace, ghosts, Terminal
  <2> QED
    BY <2>1, <2>5, <2>6 DEF RecordInv
<1>4. TreeTrue'
  BY <1>a, <1>c, <1>d, <1>f DEF TreeTrue, Undisturbed, AtBase, workspace, ghosts
<1>5. PlaceInv'
  <2>1. pc' = "idle" /\ UNCHANGED <<files, at, looked, edits, calls, fault>>
    BY <1>a, <1>b DEF workspace, process, ghosts
  <2>2. AtPlace'
    BY <2>1 DEF AtPlace, ApplyPc, RepairPc, GatePc
  <2>3. TurnMarked'
    BY <1>a, <2>1 DEF TurnMarked, Terminal
  <2>4. ImagesFit' /\ NothingUnseen' /\ PlaceTrue'
    BY <1>g, <2>1 DEF ImagesFit, NothingUnseen, PlaceTrue, Writing
  <2> QED
    BY <2>2, <2>3, <2>4 DEF PlaceInv
<1> QED
  BY <1>a, <1>1, <1>2, <1>3, <1>4, <1>5, Composed
     DEF ReviewerCalledOnce, PublishedIsVerified, AtBase, workspace, ghosts

LEMMA PublishKeeps ==
  ASSUME ExecutorInv, Publish
  PROVE  ExecutorInv'
<1> USE DEF ExecutorInv, Publish, durable, ghosts, process, Writing, Resumable, Terminal,
            ApplyPc, GatePc, RepairPc
<1>0. Effective' = Effective
  BY EffectiveStays
<1>1. TypeOK'
  <2>1. receipt' \in Receipt
    BY DEF TypeOK
  <2>2. ProcessType'
    BY OpsAssumption DEF ProcessType, TypeOK
  <2>4. head' \in Tree
    BY DEF TypeOK
  <2> QED
    BY <2>1, <2>2 DEF TypeOK
<1>2. WriteAhead'
  BY CurrentImages, ActiveRepair DEF WriteAhead
<1>3. RecordInv'
  BY <1>0
     DEF RecordInv, ChainUnbroken, DigestsFit, ReviewsFit, Sealed, Fixed, Patched, TypeOK,
         AtPlace
<1>4. TreeTrue'
  BY <1>0 DEF TreeTrue, Undisturbed, Attested, AtPlace, Patched
<1>5. AtPlace'
  BY DEF AtPlace, Sealed, Paths, Patched
<1>6. TurnMarked'
  BY ReceiptFields DEF TurnMarked
<1>7. ImagesFit'
  BY DEF ImagesFit, AtPlace, Fixed, Patched
<1>8. NothingUnseen'
  BY DEF NothingUnseen
<1>9. PlaceTrue'
  BY DEF PlaceTrue, AtPlace, TypeOK, Paths, Patched
<1>10. ReviewerCalledOnce' /\ PublishedIsVerified'
  <2>1. Effective \in verified
    BY EffectiveIs DEF DigestsFit, Sealed
  <2> QED
    BY <2>1 DEF ReviewerCalledOnce, PublishedIsVerified, Attested
<1> QED
  BY <1>1, <1>2, <1>3, <1>4, <1>5, <1>6, <1>7, <1>8, <1>9, <1>10, Composed DEF PlaceInv

LEMMA InterfereKeeps ==
  ASSUME ExecutorInv, Interfere
  PROVE  ExecutorInv'
<1> USE DEF ExecutorInv, Interfere, durable, process, Writing, Resumable, Terminal, ApplyPc,
            GatePc, RepairPc
<1>0. Effective' = Effective
  BY EffectiveStays
<1>1. TypeOK'
  <2>1. receipt' \in Receipt
    BY DEF TypeOK
  <2>2. ProcessType'
    BY OpsAssumption DEF ProcessType, TypeOK
  <2>3. files' \in Tree
    BY Images DEF TypeOK, Tree
  <2>4. stray' \in BOOLEAN /\ edits' \in 0..MaxEdits
    <3>1. stray' \in BOOLEAN
      BY DEF TypeOK
    <3>2. edits' \in 0..MaxEdits
      BY BoundsAssumption DEF TypeOK
    <3> QED
      BY <3>1, <3>2
  <2> QED
    BY <2>3, <2>4 DEF TypeOK
<1>2. WriteAhead'
  BY Images DEF WriteAhead, TypeOK, Tree
<1>3. RecordInv'
  BY <1>0
     DEF RecordInv, ChainUnbroken, DigestsFit, ReviewsFit, Sealed, Fixed, Patched, TypeOK,
         AtPlace
<1>4. TreeTrue'
  BY DEF TreeTrue, Undisturbed, Attested, AtPlace, TypeOK
<1>5. AtPlace'
  BY <1>0 DEF AtPlace, Sealed, Paths, Patched
<1>6. TurnMarked'
  BY ReceiptFields DEF TurnMarked
<1>7. ImagesFit'
  BY CurrentImages DEF ImagesFit, Fixed, TypeOK, Patched, Tree
<1>8. NothingUnseen'
  BY DEF NothingUnseen, TypeOK
<1>9. PlaceTrue'
  BY DEF PlaceTrue, Undisturbed, TypeOK, Paths, Patched
<1>10. ReviewerCalledOnce' /\ PublishedIsVerified'
  BY DEF ReviewerCalledOnce, PublishedIsVerified, AtBase
<1> QED
  BY <1>1, <1>2, <1>3, <1>4, <1>5, <1>6, <1>7, <1>8, <1>9, <1>10, Composed DEF PlaceInv

-----------------------------------------------------------------------------
(* The theorems.                                                           *)

\* A run starts without a receipt.
LEMMA InitHolds ==
  ASSUME Init
  PROVE  ExecutorInv
<1> USE DEF Init
<1>1. \A p \in Paths : files[p] = Base
  BY DEF Uniform
<1>2. NoReceipt \in Receipt /\ NoDigest \in Digest
  BY States DEF NoReceipt, Receipt, Digest
<1>3. NoRepair \in Repair /\ Fixed = 1 /\ Len(history) = 0
  <2>1. <<>> \in Posts
    <3>1. <<>> \in Seq(Image) /\ Len(<<>>) = 0 /\ 1..0 = {}
      OBVIOUS
    <3>2. <<>> \in [{} -> Image] /\ DOMAIN <<>> = {}
      BY <3>1
    <3> QED
      BY <3>2, PostsAre
  <2> QED
    BY <1>2, <2>1, RepairIs DEF NoRepair, Fixed
<1>4. TypeOK
  <2>1. files \in Tree /\ head \in Tree /\ history \in Seq(Generation)
    BY Trees, Images
  <2>2. at \in 0..NumOps + 1 /\ edits \in 0..MaxEdits /\ looked \in Nat /\ calls \in Nat
    BY OpsAssumption, BoundsAssumption
  <2>3. /\ stray \in BOOLEAN /\ lock \in BOOLEAN /\ unresolved \in BOOLEAN /\ rejected \in BOOLEAN
        /\ fault \in Terminal /\ verified \subseteq Tree /\ approved \subseteq Tree
    BY DEF Terminal
  <2> QED
    BY <1>2, <1>3, <2>1, <2>2, <2>3 DEF TypeOK
<1>5. WriteAhead /\ ImagesFit
  BY <1>1, <1>3, Images, BoundsAssumption DEF WriteAhead, ImagesFit
<1>6. ChainUnbroken
  BY DEF ChainUnbroken
<1>7. DigestsFit
  BY DEF DigestsFit, NoReceipt, NoRepair
<1>8. ReviewsFit
  BY DEF ReviewsFit, NoReceipt, NoRepair
<1>9. AtPlace /\ TurnMarked /\ NothingUnseen /\ PlaceTrue
  BY DEF AtPlace, TurnMarked, NothingUnseen, PlaceTrue, ApplyPc, GatePc, RepairPc, Writing
<1>10. TreeTrue
  BY <1>1 DEF TreeTrue, NoReceipt, NoRepair
<1> QED
  BY <1>4, <1>5, <1>6, <1>7, <1>8, <1>9, <1>10, CauseFound
     DEF ExecutorInv, ReviewerCalledOnce, PublishedIsVerified, AtBase

LEMMA ApplyStepKeeps ==
  ASSUME ExecutorInv, ApplyStep
  PROVE  ExecutorInv'
BY OpenApplyKeeps, InspectKeeps, WriteKeeps, InstallKeeps, FlagKeeps, AppliedKeeps,
   UndoSkipKeeps, UndoClassifyKeeps, RestoreKeeps, UndoFlagKeeps, UndoneKeeps
   DEF ApplyStep

LEMMA GateStepKeeps ==
  ASSUME ExecutorInv, GateStep
  PROVE  ExecutorInv'
BY OpenGatesKeeps, EnterGatesKeeps, VerifyDriftKeeps, VerifyPassKeeps, VerifyFailKeeps,
   ReviewKnownKeeps, AskReviewerKeeps, AnswerLostKeeps, ApproveKeeps, RejectKeeps,
   ReviseWithKeeps, ReadyKeeps
   DEF GateStep

LEMMA RepairStepKeeps ==
  ASSUME ExecutorInv, RepairStep
  PROVE  ExecutorInv'
BY OpenRepairKeeps, InspectRepairKeeps, RewriteKeeps, ReinstallKeeps, RecheckRepairKeeps,
   RepairAppliedKeeps, UnrepairStepKeeps, UnrestoreKeeps, UnrepairedKeeps, CheckRepairKeeps,
   SealKeeps, ResumeSealedKeeps
   DEF RepairStep

LEMMA NextKeeps ==
  ASSUME ExecutorInv, [Next]_vars
  PROVE  ExecutorInv'
<1>1. CASE Next
  BY <1>1, StartFreshKeeps, ResumeKeeps, ResumeRefusedKeeps, ApplyStepKeeps, GateStepKeeps,
     RepairStepKeeps, FailKeeps, AbortKeeps, CrashKeeps, ClearLockKeeps, BindRepairKeeps,
     PublishKeeps, InterfereKeeps
     DEF Next, Step
<1>2. CASE UNCHANGED vars
  <2>1. ProcessType'
    BY <1>2 DEF ExecutorInv, TypeOK, ProcessType, vars, process, ghosts
  <2>2. Effective' = Effective
    BY <1>2, EffectiveStays DEF vars, durable
  <2>3. AtPlace'
    BY <1>2, <2>2
       DEF ExecutorInv, AtPlace, Sealed, Resumable, Patched, vars, workspace, durable, process
  <2>4. TurnMarked' /\ ImagesFit' /\ NothingUnseen'
    BY <1>2
       DEF ExecutorInv, TurnMarked, ImagesFit, NothingUnseen, Fixed, Patched, vars, workspace,
           durable, process, ghosts
  <2>5. PlaceTrue'
    BY <1>2
       DEF ExecutorInv, PlaceTrue, Undisturbed, AtBase, Patched, vars, workspace, durable,
           process, ghosts
  <2> QED
    BY <1>2, <2>1, <2>3, <2>4, <2>5, ProcessMoves DEF PlaceInv, vars, ghosts
<1> QED
  BY <1>1, <1>2

\* The executor's invariant: its types, the reviewer's single turn, the write-ahead of
\* repairs, the chain of their generations and the cause of what went back.
THEOREM ExecutorInvariant == Spec => []ExecutorInv
<1>1. Init => ExecutorInv
  BY InitHolds
<1>2. ExecutorInv /\ [Next]_vars => ExecutorInv'
  BY NextKeeps
<1> QED
  BY <1>1, <1>2, PTL DEF Spec

\* What is published was passed by the verifier as it is, whatever happened to the
\* worktree between READY and the publication.
THEOREM Publications == Spec => []PublishedIsVerified
<1>1. ExecutorInv => PublishedIsVerified
  BY DEF ExecutorInv
<1> QED
  BY <1>1, ExecutorInvariant, PTL

\* Nothing becomes READY but by Ready.
LEMMA OnlyReady ==
  ASSUME ExecutorInv, Next, receipt'.state = "READY_FOR_PUBLISH", receipt.state # "READY_FOR_PUBLISH"
  PROVE  Ready
<1> USE DEF ExecutorInv
<1>1. receipt \in Receipt /\ fault \in Terminal
  BY DEF TypeOK
<1>2. ~UNCHANGED receipt
  OBVIOUS
<1>3. ASSUME ApplyStep PROVE FALSE
  BY <1>1, <1>3
     DEF ApplyStep, OpenApply, Inspect, Write, Install, Flag, Applied, UndoSkip, UndoClassify,
         Restore, UndoFlag, Undone, Put, Receipt, durable
<1>4. ASSUME GateStep, ~Ready PROVE FALSE
  BY <1>1, <1>4
     DEF GateStep, OpenGates, EnterGates, VerifyDrift, VerifyPass, VerifyFail, ReviewKnown,
         AskReviewer, AnswerLost, Approve, Reject, ReviseWith, Answered, Receipt, durable
<1>5. ASSUME RepairStep PROVE FALSE
  BY <1>1, <1>5
     DEF RepairStep, OpenRepair, InspectRepair, Rewrite, Reinstall, RecheckRepair,
         RepairApplied, UnrepairStep, Unrestore, Unrepaired, CheckRepair, Seal, ResumeSealed,
         Put, Receipt, durable
<1>6. ASSUME Fail \/ StartFresh \/ Resume \/ ResumeRefused \/ Abort \/ Crash \/ ClearLock PROVE FALSE
  BY <1>1, <1>6
     DEF Fail, StartFresh, Resume, ResumeRefused, Abort, Crash, ClearLock, Receipt, Terminal,
         durable
<1>7. ASSUME Publish \/ Interfere \/ \E paths \in (SUBSET Paths) \ {{}} : BindRepair(paths) PROVE FALSE
  BY <1>7 DEF Publish, Interfere, BindRepair, durable
<1> QED
  BY <1>3, <1>4, <1>5, <1>6, <1>7 DEF Next, Step

\* What becomes READY lies in the worktree as attested, was verified, and under the model
\* strategy was approved or comes from a sealed repair.
THEOREM ResultsAreExact == Spec => ReadyIsExact
<1> DEFINE Exact ==
      receipt'.state = "READY_FOR_PUBLISH" /\ receipt.state # "READY_FOR_PUBLISH" =>
        /\ files = receipt'.digest /\ ~stray
        /\ files \in verified
        /\ strategy = "model" => files \in approved \/ repair.state = "VERIFIED"
<1>1. ASSUME ExecutorInv, [Next]_vars PROVE [Exact]_vars
  <2> SUFFICES ASSUME Next, receipt'.state = "READY_FOR_PUBLISH", receipt.state # "READY_FOR_PUBLISH"
               PROVE  /\ files = receipt'.digest /\ ~stray
                      /\ files \in verified
                      /\ strategy = "model" => files \in approved \/ repair.state = "VERIFIED"
    BY <1>1
  <2> USE <1>1 DEF ExecutorInv
  <2>1. Ready
    BY OnlyReady
  <2>2. pc = "ready" /\ ReadyEvidence /\ Attested /\ receipt' = [receipt EXCEPT !.state = "READY_FOR_PUBLISH"]
    BY <2>1 DEF Ready
  <2>3. Sealed /\ files = Effective /\ ~stray /\ Effective # NoDigest
    BY <2>2, EffectiveIs DEF AtPlace, Attested
  <2>4. receipt'.digest = files /\ files \in verified
    BY <2>2, <2>3 DEF DigestsFit, Sealed
  <2>5. CASE repair.by = "none"
    <3>1. Effective = PackTree /\ Resumable
      BY <2>2, <2>5, EffectiveIs DEF DigestsFit, NoRepair, AtPlace
    <3>2. strategy = "model" => receipt.reviewed = PackTree /\ receipt.reviewed \in approved
      BY <2>2, <2>5 DEF AtPlace, ReviewsFit, Resumable
    <3> QED
      BY <2>3, <2>4, <3>1, <3>2
  <2>6. CASE repair.by # "none"
    BY <2>3, <2>4, <2>6 DEF Sealed, DigestsFit
  <2> QED
    BY <2>5, <2>6
<1> QED
  BY <1>1, ExecutorInvariant, PTL DEF Spec, ReadyIsExact

\* The images of the worktree change only where an executor replaces a file.
LEMMA OnlyPuts ==
  ASSUME ExecutorInv, Next, edits' = edits, NEW p \in Paths, files'[p] # files[p]
  PROVE  p = at /\ pc \in Writing
<1> USE DEF ExecutorInv
<1>1. files \in Tree /\ edits \in Nat
  BY DEF TypeOK
<1>2. ~UNCHANGED files
  OBVIOUS
<1>3. CASE Install \/ Restore \/ Reinstall \/ Unrestore
  BY <1>1, <1>3 DEF Install, Restore, Reinstall, Unrestore, Put, Writing, Tree
<1>4. ASSUME ApplyStep, ~Install, ~Restore PROVE FALSE
  BY <1>4
     DEF ApplyStep, OpenApply, Inspect, Write, Flag, Applied, UndoSkip, UndoClassify, UndoFlag,
         Undone, workspace
<1>5. ASSUME GateStep PROVE FALSE
  BY <1>5
     DEF GateStep, OpenGates, EnterGates, VerifyDrift, VerifyPass, VerifyFail, ReviewKnown,
         AskReviewer, AnswerLost, Approve, Reject, ReviseWith, Ready, workspace
<1>6. ASSUME RepairStep, ~Reinstall, ~Unrestore PROVE FALSE
  BY <1>6
     DEF RepairStep, OpenRepair, InspectRepair, Rewrite, RecheckRepair, RepairApplied,
         UnrepairStep, Unrepaired, CheckRepair, Seal, ResumeSealed, workspace
<1>7. ASSUME Fail \/ StartFresh \/ Resume \/ ResumeRefused \/ Abort \/ Crash \/ ClearLock PROVE FALSE
  BY <1>7 DEF Fail, StartFresh, Resume, ResumeRefused, Abort, Crash, ClearLock, workspace
<1>8. ASSUME Publish \/ Interfere \/ \E paths \in (SUBSET Paths) \ {{}} : BindRepair(paths) PROVE FALSE
  BY <1>1, <1>8 DEF Publish, Interfere, BindRepair, workspace
<1> QED
  BY <1>3, <1>4, <1>5, <1>6, <1>7, <1>8 DEF Next, Step

\* A foreign image is overwritten by the executor only if it appeared after the executor
\* last read that file.
THEOREM ForeignImagesStand == Spec => OverwritesOnlyUnseen
<1> DEFINE Unseen ==
      \A p \in Paths :
        files[p] = Foreign /\ files'[p] # Foreign /\ edits' = edits => edits > looked
<1>1. ASSUME ExecutorInv, [Next]_vars PROVE [Unseen]_vars
  <2> SUFFICES ASSUME Next, NEW p \in Paths, files[p] = Foreign, files'[p] # Foreign, edits' = edits
               PROVE  edits > looked
    BY <1>1
  <2>1. p = at /\ pc \in Writing
    BY <1>1, OnlyPuts
  <2>2. edits \in Nat /\ looked \in Nat
    BY <1>1 DEF ExecutorInv, TypeOK
  <2> QED
    BY <1>1, <2>1 DEF ExecutorInv, NothingUnseen
<1> QED
  BY <1>1, ExecutorInvariant, PTL DEF Spec, OverwritesOnlyUnseen

=============================================================================
