-------------------------- MODULE MCEdgeRetransmit --------------------------
(* EdgeRetransmit with time in seconds. *)
EXTENDS EdgeRetransmit

\* The edge's clock is behind, equal or ahead.
SmallSkews == -1..1
=============================================================================
