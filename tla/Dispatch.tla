------------------------------ MODULE Dispatch ------------------------------
(***************************************************************************)
(* What the load balancer promises a client (lbbroker.h:9-12, 204-256): a  *)
(* request is assigned once, to a worker whose heartbeat has been stored,  *)
(* and that worker, and no other, is told of the client, once; or, if its  *)
(* table answers with an error, the request is dropped for good.  Frames   *)
(* of the broker that got mixed up (garbled) void the part about who is    *)
(* told: from then on it may be any worker.                                *)
(*                                                                         *)
(* Nothing is promised about when: an assigned worker that is gone is      *)
(* never told, and the client hears nothing.  The module says nothing of   *)
(* threads, sockets and frames; LBBroker implements it, LBSession uses it. *)
(***************************************************************************)
CONSTANTS Workers, Clients,
          None         \* no worker

VARIABLES asked,       \* the clients whose request the broker has taken
          known,       \* the workers stored in the table
          assigned,    \* the worker picked for each client, or None
          taker,       \* the worker that was told of each client, or None
          garbled,     \* messages to the workers have been mixed up
          refused      \* the clients whose request the broker has dropped

dispatchVars == <<asked, known, assigned, taker, garbled, refused>>

Init ==
  /\ asked = {}
  /\ known \in SUBSET Workers
  /\ assigned = [c \in Clients |-> None]
  /\ taker = [c \in Clients |-> None]
  /\ garbled = FALSE
  /\ refused = {}

Ask(c) ==
  /\ c \notin asked
  /\ asked' = asked \cup {c}
  /\ UNCHANGED <<known, assigned, taker, garbled, refused>>

Store(w) ==
  /\ w \notin known
  /\ known' = known \cup {w}
  /\ UNCHANGED <<asked, assigned, taker, garbled, refused>>

Assign(c, w) ==
  /\ c \in asked \ refused /\ assigned[c] = None
  /\ w \in known
  /\ assigned' = [assigned EXCEPT ![c] = w]
  /\ UNCHANGED <<asked, known, taker, garbled, refused>>

Tell(c, w) ==
  /\ assigned[c] # None /\ taker[c] = None
  /\ w = assigned[c] \/ garbled
  /\ taker' = [taker EXCEPT ![c] = w]
  /\ UNCHANGED <<asked, known, assigned, garbled, refused>>

\* A request for which the table gives no worker is dropped, and the client is not told.
Refuse(c) ==
  /\ c \in asked /\ assigned[c] = None
  /\ refused' = refused \cup {c}
  /\ UNCHANGED <<asked, known, assigned, taker, garbled>>

Garble ==
  /\ garbled' = TRUE
  /\ UNCHANGED <<asked, known, assigned, taker, refused>>

Next ==
  \/ \E c \in Clients : Ask(c) \/ Refuse(c) \/ \E w \in Workers : Assign(c, w) \/ Tell(c, w)
  \/ \E w \in Workers : Store(w)
  \/ Garble

Spec == Init /\ [][Next]_dispatchVars
=============================================================================
