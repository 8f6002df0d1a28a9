-------------------------- MODULE DeliveryPromise ---------------------------
(***************************************************************************)
(* What a delivered run promises whoever reviews it: its approved commit   *)
(* is named once, published once, has one pull request, and is sealed once *)
(* under that commit and that number.  Nothing that was said is taken back *)
(* or said differently, whatever crashes and whoever interferes.           *)
(***************************************************************************)
EXTENDS Naturals

CONSTANTS Approved, Nothing, Pulls

VARIABLES
  commit,     \* the commit the run names as its own
  published,  \* it has been seen on the remote
  number,     \* the pull request the run names as its own
  sealed      \* the number in the sealed result, 0 before

promise == <<commit, published, number, sealed>>

Init == commit = Nothing /\ published = FALSE /\ number = 0 /\ sealed = 0

NameCommit ==
  /\ commit = Nothing
  /\ \E c \in Approved : commit' = c
  /\ UNCHANGED <<published, number, sealed>>

Publish ==
  /\ commit # Nothing /\ ~published
  /\ published' = TRUE
  /\ UNCHANGED <<commit, number, sealed>>

NamePull ==
  /\ published /\ number = 0
  /\ \E n \in Pulls : number' = n
  /\ UNCHANGED <<commit, published, sealed>>

Seal ==
  /\ number # 0 /\ sealed = 0
  /\ sealed' = number
  /\ UNCHANGED <<commit, published, number>>

Next == NameCommit \/ Publish \/ NamePull \/ Seal

Spec == Init /\ [][Next]_promise

=============================================================================
