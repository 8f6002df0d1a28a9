-------------------------- MODULE DraftPullRequest --------------------------
(***************************************************************************)
(* The Draft pull request of a published commit                            *)
(* (pull-request/draft-pr-service.ts behind orchestration/draft-pr.ts).    *)
(* The receipt says that the one create request is about to be sent before *)
(* it is sent; after that the request is never repeated unless GitHub has  *)
(* said that it did not happen, since an answer may be lost and a request  *)
(* may be carried out late.                                                *)
(*                                                                         *)
(* GitHub keeps at most one open pull request per branch, lets its head    *)
(* follow the branch and closes it with the branch.  Whoever may push can  *)
(* open, close, rename or un-draft pull requests.                          *)
(***************************************************************************)
EXTENDS GitPublication, Sequences

CONSTANT MaxPulls  \* pull requests ever opened for the branch

ASSUME MaxPullsAssumption == MaxPulls \in Nat \ {0}

VARIABLES
  pulls,   \* the pull requests of the branch, by number
  flying,  \* create requests sent and neither carried out nor refused
  answer,  \* GitHub's answer to the request the client waits for
  draft    \* Draft PR receipt

github == <<pulls, flying, answer>>

Titles == {"given", "edited"}
Pull == [open : BOOLEAN, draft : BOOLEAN, title : Titles, own : BOOLEAN]
Numbers == 1..MaxPulls
DraftReceipt ==
  [state : {"NONE", "READY_FOR_CREATE", "CREATE_UNCERTAIN", "OPEN", "CONFLICT"},
   attempted : BOOLEAN, number : 0..MaxPulls]

DraftPc == {"drafting", "requesting", "waiting", "confirming"}

DraftInit ==
  /\ pulls = <<>> /\ flying = 0 /\ answer = "none"
  /\ draft = [state |-> "NONE", attempted |-> FALSE, number |-> 0]

-----------------------------------------------------------------------------
(* What the client sees of GitHub.                                         *)

\* An open Draft whose head is the published commit.
Exact(n) == pulls[n].open /\ pulls[n].draft /\ remote = receipt.commit

\* classifyCandidates over the pull requests of the branch: the receipt they
\* lead to, `otherwise` when there is none.
Classified(otherwise) ==
  IF pulls = <<>> THEN otherwise
  ELSE IF Len(pulls) = 1 /\ Exact(1)
  THEN [draft EXCEPT !.state = "OPEN", !.number = 1]
  ELSE [draft EXCEPT !.state = "CONFLICT"]

\* The same over one pull request asked for by its number.
ClassifiedOne(n) ==
  IF Exact(n) THEN [draft EXCEPT !.state = "OPEN", !.number = n]
  ELSE [draft EXCEPT !.state = "CONFLICT"]

Uncertain == [draft EXCEPT !.state = "CREATE_UNCERTAIN"]
NotAttempted == [draft EXCEPT !.attempted = FALSE]
Settled(r) == draft' = r /\ GoTo("idle")

-----------------------------------------------------------------------------
(* The state machine.                                                      *)

MayDraft == pc = "idle" /\ receipt.state = "PUSHED" /\ ReadyAttested

BeginDraft ==
  /\ MayDraft /\ draft.state = "NONE"
  /\ draft' = Classified([draft EXCEPT !.state = "READY_FOR_CREATE"])
  /\ GoTo(IF pulls = <<>> THEN "drafting" ELSE "idle")
  /\ UNCHANGED <<repository, remote, receipt, pushing, github>>

ResumeDraft ==
  /\ MayDraft /\ draft.state = "READY_FOR_CREATE" /\ ~draft.attempted
  /\ GoTo("drafting")
  /\ UNCHANGED <<repository, remote, receipt, pushing, github, draft>>

FateUnknown ==
  \/ draft.state = "CREATE_UNCERTAIN"
  \/ draft.state = "READY_FOR_CREATE" /\ draft.attempted

\* Mutant: a request whose fate is unknown is sent again.
RepeatRequest ==
  /\ MayDraft /\ FateUnknown
  /\ draft' = Classified([NotAttempted EXCEPT !.state = "READY_FOR_CREATE"])
  /\ UNCHANGED <<repository, remote, receipt, pushing, github, pc>>

\* The request may have been sent: only look for what came of it.
Rediscover ==
  /\ MayDraft /\ FateUnknown
  /\ draft' = Classified(Uncertain)
  /\ UNCHANGED <<repository, remote, receipt, pushing, github, pc>>

\* An OPEN receipt is held against the pull request it names.
Recheck ==
  /\ MayDraft /\ draft.state = "OPEN"
  /\ draft' = ClassifiedOne(draft.number)
  /\ UNCHANGED <<repository, remote, receipt, pushing, github, pc>>

\* The write-ahead: list once more, verifyRemoteHead, create_post_attempted.
AnnounceRequest ==
  /\ pc = "drafting"
  /\ IF pulls = <<>>
     THEN IF remote = receipt.commit
          THEN draft' = [draft EXCEPT !.attempted = TRUE] /\ GoTo("requesting")
          ELSE UNCHANGED draft /\ GoTo("idle")
     ELSE Settled(Classified(draft))
  /\ UNCHANGED <<repository, remote, receipt, pushing, github>>

SendRequest ==
  /\ pc = "requesting"
  /\ flying' = flying + 1 /\ answer' = "none"
  /\ GoTo("waiting")
  /\ UNCHANGED <<repository, remote, receipt, pushing, pulls, draft>>

\* 201: ask for the pull request by its number.
Created ==
  /\ pc = "waiting" /\ answer = "created"
  /\ GoTo("confirming")
  /\ UNCHANGED <<repository, remote, receipt, pushing, github, draft>>

VerifyCreated ==
  /\ pc = "confirming"
  /\ \/ \E n \in DOMAIN pulls : pulls[n].own /\ Settled(ClassifiedOne(n))
     \/ Settled(Classified(Uncertain))  \* the answer to the question is lost
  /\ UNCHANGED <<repository, remote, receipt, pushing, github>>

\* 422
Rejected ==
  /\ pc = "waiting" /\ answer = "rejected"
  /\ Settled(Classified(NotAttempted))
  /\ UNCHANGED <<repository, remote, receipt, pushing, github>>

\* 401, 403, 404, 429: the request was not carried out.
Denied ==
  /\ pc = "waiting" /\ answer = "denied"
  /\ Settled(NotAttempted)
  /\ UNCHANGED <<repository, remote, receipt, pushing, github>>

\* Any other answer, or none in time; the list may be lost too.
NoAnswer ==
  /\ pc = "waiting"
  /\ Settled(Classified(Uncertain)) \/ Settled(Uncertain)
  /\ UNCHANGED <<repository, remote, receipt, pushing, github>>

DraftStep ==
  \/ BeginDraft \/ ResumeDraft \/ Rediscover \/ AnnounceRequest \/ SendRequest
  \/ Created \/ VerifyCreated \/ Rejected \/ Denied

-----------------------------------------------------------------------------
(* GitHub, and others who use it.                                          *)

OpenPulls == {n \in DOMAIN pulls : pulls[n].open}

NewPull(author, isDraft) ==
  /\ Len(pulls) < MaxPulls
  /\ pulls' = Append(pulls, [open |-> TRUE, draft |-> isDraft, title |-> "given", own |-> author])

\* A request that is carried out; its sender may have given up long ago.
CarryOut ==
  /\ flying > 0 /\ flying' = flying - 1
  /\ IF remote # NoCommit /\ OpenPulls = {}
     THEN NewPull(TRUE, TRUE) /\ answer' = "created"
     ELSE UNCHANGED pulls /\ answer' = "rejected"
  /\ UNCHANGED <<repository, remote, receipt, pushing, draft, pc>>

Deny ==
  /\ flying > 0 /\ flying' = flying - 1
  /\ answer' = "denied"
  /\ UNCHANGED <<repository, remote, receipt, pushing, pulls, draft, pc>>

Change(n, pull) ==
  /\ pulls' = [pulls EXCEPT ![n] = pull]
  /\ UNCHANGED <<repository, remote, receipt, pushing, flying, answer, draft, pc>>

OthersUsePulls ==
  \/ \E n \in OpenPulls :
       \/ Change(n, [pulls[n] EXCEPT !.open = FALSE])
       \/ pulls[n].draft /\ Change(n, [pulls[n] EXCEPT !.draft = FALSE])
       \/ pulls[n].title = "given" /\ Change(n, [pulls[n] EXCEPT !.title = "edited"])
  \/ /\ remote # NoCommit /\ OpenPulls = {}
     /\ \E isDraft \in BOOLEAN : NewPull(FALSE, isDraft)
     /\ UNCHANGED <<repository, remote, receipt, pushing, flying, answer, draft, pc>>

DeleteBranch ==
  /\ remote # NoCommit /\ remote' = NoCommit
  /\ pulls' = [n \in DOMAIN pulls |-> [pulls[n] EXCEPT !.open = FALSE]]
  /\ UNCHANGED <<repository, receipt, pushing, flying, answer, draft, pc>>

=============================================================================
