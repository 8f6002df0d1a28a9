------------------------------ MODULE MCInbox ------------------------------
EXTENDS Inbox, TLC

CONSTANTS p1, p2, a1, a2, a3, br

MCProcs == {p1, p2}
MCArchives == {a1, a2, a3}
MCFlaw == [a \in MCArchives |-> IF a = a3 THEN "checksums" ELSE "none"]
MCBranchOf == [a \in MCArchives |-> br]
MCSymmetry == {p @@ a : p \in Permutations(MCProcs), a \in Permutations({a1, a2})}
=============================================================================
