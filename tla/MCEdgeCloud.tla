---------------------------- MODULE MCEdgeCloud ----------------------------
(* EdgeCloud with model values for the clients. *)
EXTENDS EdgeCloud

CONSTANTS c1, c2

TwoClients == {c1, c2}
=============================================================================
