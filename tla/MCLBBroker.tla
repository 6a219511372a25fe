----------------------------- MODULE MCLBBroker -----------------------------
(* LBBroker with model values. *)
EXTENDS LBBroker

CONSTANTS w1, w2, c1, h1, h2, k1

TwoWorkers == {w1, w2}
OneClient == {c1}
TwoHb == {h1, h2}
OneTk == {k1}
=============================================================================
