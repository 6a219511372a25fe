----------------------------- MODULE MCTaskSync -----------------------------
(* TaskSync with sessions as model values and a buffer of two bytes. *)
EXTENDS TaskSync

CONSTANTS s1, s2

OneSession == {s1}
TwoSessions == {s1, s2}

\* Empty, below, at, above and twice the buffer.
AllLengths == {0, 1, 2, 3, 4, 5}
ManyLengths == {0, 1, 2, 5}
=============================================================================
