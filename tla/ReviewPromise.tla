--------------------------- MODULE ReviewPromise ---------------------------
(***************************************************************************)
(* What the review of a run promises: a chain of heads.  The last head is  *)
(* undecided or decided for ever; a head that was to be revised is         *)
(* followed by one commit made on it, nothing else is followed.            *)
(***************************************************************************)
EXTENDS Sequences, Integers

CONSTANTS Trees, Decisions, Undecided, Again

VARIABLE chain \* the heads reviewed so far, each with its decision

Last == chain[Len(chain)]

Init == \E t \in Trees : chain = <<[head |-> <<t>>, decision |-> Undecided]>>

Decide ==
  /\ Last.decision = Undecided
  /\ \E d \in Decisions : chain' = [chain EXCEPT ![Len(chain)].decision = d]

Follow ==
  /\ Last.decision = Again
  /\ \E t \in Trees : chain' = Append(chain, [head |-> Append(Last.head, t), decision |-> Undecided])

Next == Decide \/ Follow

Spec == Init /\ [][Next]_chain
=============================================================================
