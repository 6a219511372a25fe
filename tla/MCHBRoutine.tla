---------------------------- MODULE MCHBRoutine ----------------------------
(* HBRoutine with time in units of half a second. *)
EXTENDS HBRoutine

CONSTANTS c1, c2

TwoClients == {c1, c2}
=============================================================================
