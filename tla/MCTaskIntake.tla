---------------------------- MODULE MCTaskIntake ----------------------------
(* TaskIntake with model values. *)
EXTENDS TaskIntake, TLC

CONSTANTS i1, i2, n1, n2

TwoIntakes == {i1, i2}
TwoNames == {n1, n2}

\* model/ itself holds several .h5 and no .npy, so that one name stays empty.
NextToTasks == {"model"} \X TwoNames

Alike == Permutations(TwoIntakes) \cup Permutations(TwoNames)
=============================================================================
