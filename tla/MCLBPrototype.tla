--------------------------- MODULE MCLBPrototype ---------------------------
(* LBPrototype with model values; an identity more than there are clients, so *)
(* that any of them may have the one answered, or none.                       *)
EXTENDS LBPrototype

CONSTANTS c1, c2, c3, w1, w2, id1, id2, id3

ThreeClients == {c1, c2, c3}
TwoWorkers == {w1, w2}
FourIdentities == {Fixed, id1, id2, id3}
=============================================================================
