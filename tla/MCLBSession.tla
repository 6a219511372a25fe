---------------------------- MODULE MCLBSession ----------------------------
(* LBSession with model values. *)
EXTENDS LBSession

CONSTANTS w1, w2, c1, c2, h1, h2, i1

TwoWorkers == {w1, w2}
TwoClients == {c1, c2}
TwoHosts == {h1, h2}
OneSlot == {i1}

\* Hosts and workers are alike: of the behaviours that differ only in their names
\* one is enough.  What it fixes is chosen once and holds from then on.
Representative == host[c1] = h1 /\ (w2 \in known => w1 \in known)
=============================================================================
