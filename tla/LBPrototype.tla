---------------------------- MODULE LBPrototype ----------------------------
(***************************************************************************)
(* The first load balancer: the programs broker.cc, worker.cc and          *)
(* client.cc of src/src/load-balance.  Clients send HELLO on a REQ socket  *)
(* and wait for the answer; workers send READY and wait.  The broker       *)
(* queues the workers and uses none: it answers every request itself, and  *)
(* always to the identity "CC66-C879" (broker.cc:96).                      *)
(*                                                                         *)
(* Identities are drawn at random (s_set_id, lbhelper.h), so a client may  *)
(* have that one; it is lucky.  ROUTER drops an answer to an identity that *)
(* is not connected.  A REQ socket drops what came before its request is   *)
(* sent, and takes what comes after for the answer, whoever it was for.    *)
(***************************************************************************)
EXTENDS Naturals, Sequences, FiniteSets, Functions

CONSTANTS Clients, Workers,
          Identities, \* what s_set_id can draw
          Fixed       \* "CC66-C879"

VARIABLES identity,     \* of each client
          pc,           \* where each client is
          frontend,     \* the requests of each client that wait at the broker
          answers,      \* the answers on their way to Lucky, or arrived
          ready,        \* where each worker's READY is
          worker_queue, \* the workers that were ready
          loop,         \* where broker_thread is
          revents,      \* zmq_poll found a request as well
          strangers     \* history: the others whose request was answered

vars == <<identity, pc, frontend, answers, ready, worker_queue, loop, revents, strangers>>

\* Eight hexadecimal digits from the random device.  That two clients draw the
\* same, once in 2^32, is left out.
s_set_id == {f \in [Clients -> Identities] : IsInjective(f)}

\* The client with the identity that is answered, if there is one.
Lucky == {c \in Clients : identity[c] = Fixed}

Init ==
  /\ identity \in s_set_id
  /\ pc = [c \in Clients |-> "send"]
  /\ frontend = [c \in Clients |-> 0]
  /\ answers = 0
  /\ ready = [w \in Workers |-> "unsent"]
  /\ worker_queue = <<>>
  /\ loop = "poll" /\ revents = FALSE
  /\ strangers = {}

-----------------------------------------------------------------------------
(* client_thread and worker_thread *)

\* The request is sent; of the answers there are, those that have arrived are lost.
SendHello(c) ==
  /\ pc[c] = "send"
  /\ frontend' = [frontend EXCEPT ![c] = @ + 1]
  /\ IF c \in Lucky THEN answers' \in 0..answers ELSE UNCHANGED answers
  /\ pc' = [pc EXCEPT ![c] = "recv"]
  /\ UNCHANGED <<identity, ready, worker_queue, loop, revents, strangers>>

\* s_recv, after a second of sleep; then the next request.
RecvReply(c) ==
  /\ pc[c] = "recv" /\ c \in Lucky /\ answers > 0
  /\ answers' = answers - 1
  /\ pc' = [pc EXCEPT ![c] = "send"]
  /\ UNCHANGED <<identity, frontend, ready, worker_queue, loop, revents, strangers>>

SendReady(w) ==
  /\ ready[w] = "unsent"
  /\ ready' = [ready EXCEPT ![w] = "sent"]
  /\ UNCHANGED <<identity, pc, frontend, answers, worker_queue, loop, revents, strangers>>

-----------------------------------------------------------------------------
(* broker_thread *)

Requests == \E c \in Clients : frontend[c] > 0
Backend == \E w \in Workers : ready[w] = "sent"

\* zmq_poll on both sockets, whether a worker is queued or not (lines 32-35, which
\* asked, are commented out); the backend is served first.
Poll ==
  /\ loop = "poll" /\ (Backend \/ Requests)
  /\ loop' = IF Backend THEN "backend" ELSE "frontend"
  /\ revents' = Requests
  /\ UNCHANGED <<identity, pc, frontend, answers, ready, worker_queue, strangers>>

\* Three frames of a worker are read, and it is queued.
HandleBackend ==
  /\ loop = "backend"
  /\ \E w \in Workers :
       /\ ready[w] = "sent"
       /\ ready' = [ready EXCEPT ![w] = "queued"]
       /\ worker_queue' = Append(worker_queue, w)
  /\ loop' = IF revents THEN "frontend" ELSE "poll"
  /\ UNCHANGED <<identity, pc, frontend, answers, revents, strangers>>

\* One request of client c is read and Lucky is answered.
HandleRequest(c) ==
  /\ loop = "frontend" /\ frontend[c] > 0
  /\ frontend' = [frontend EXCEPT ![c] = @ - 1]
  /\ answers' = IF Lucky # {} THEN answers + 1 ELSE 0
  /\ strangers' = IF c \in Lucky THEN strangers ELSE strangers \cup {c}
  /\ loop' = "poll"
  /\ UNCHANGED <<identity, pc, ready, worker_queue, revents>>

Broker == Poll \/ HandleBackend \/ \E c \in Clients : HandleRequest(c)

Next ==
  \/ \E c \in Clients : SendHello(c) \/ RecvReply(c)
  \/ \E w \in Workers : SendReady(w)
  \/ Broker

Spec == Init /\ [][Next]_vars

-----------------------------------------------------------------------------
(* Correctness *)

\* The answers a lucky client is sent for others do not make it run away from the
\* broker: what waits for it, requests and answers together, is one more than the
\* others have caused at most, and while it waits it is something.  No other client
\* ever sends a second request.
LuckyIsBalanced ==
  \A c \in Clients :
    IF c \in Lucky
    THEN LET due == frontend[c] + answers
             own == IF pc[c] = "recv" THEN 1 ELSE 0 IN
         own <= due /\ due <= own + Cardinality(strangers)
    ELSE frontend[c] + (IF c \in strangers THEN 1 ELSE 0) <= 1

\* broker.cc:14 and 17: the frontend is polled only if a worker is ready, and a request
\* that is read goes to a worker that is popped.  So none is read while no worker is queued.
FrontendOnlyWithWorker == loop = "frontend" => worker_queue # <<>>
=============================================================================
