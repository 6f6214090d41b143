--------------------------- MODULE MCVirtualSocket ---------------------------
(* Small instances of VirtualSocket for TLC. *)
EXTENDS VirtualSocketRefinement, VirtualSocketInv, TLC

CONSTANTS x, y, s1, s2, k1, k2, k3

\* Both services register x, or each an id of its own.
SameID == [s \in Service |-> x]
TwoIDs == [s \in Service |-> IF s = s1 THEN x ELSE y]

\* All clients ask for x, or only the first.
AllWantX == [k \in Client |-> x]
OneWantsX == [k \in Client |-> IF k = k1 THEN x ELSE y]

\* With OneWantsX, the other clients can be exchanged.
Alike == Permutations(Client \ {k1})

\* With SameID and AllWantX, all of a kind can.
AllAlike == Permutations(Service) \cup Permutations(Client)
=============================================================================
