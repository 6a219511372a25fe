------------------------------ MODULE LBSession ------------------------------
(***************************************************************************)
(* A client's session from end to end: LBClient::ToBroker (lbclient.h) on  *)
(* the client's host, the broker, for which Dispatch stands, and           *)
(* LBWorker::CreateSocket (lbworker.h) in a thread of the worker's pool.   *)
(*                                                                         *)
(* The client binds a REQ socket to port 10000 of its host and has its     *)
(* address sent to a worker, which connects a REP socket to it.  The       *)
(* client then makes three requests: the task id, the data and the model,  *)
(* each of one short message here (TaskSync has the rest).  REQ gives each *)
(* request to any REP that is connected, and waits for its answer alone;   *)
(* REP answers whoever asked.  Neither side has a timeout.                 *)
(*                                                                         *)
(* Of ZeroMQ the model has what matters when somebody goes away: a broken  *)
(* connection loses the answer that is due on it, and may lose the         *)
(* request; a socket that connects goes on trying, and so reaches whoever  *)
(* binds the port next.  The broker does not crash, and its frames do not  *)
(* get mixed up (LBBroker has both).                                       *)
(***************************************************************************)
EXTENDS Naturals, Sequences

CONSTANTS Workers, Clients,
          Hosts,        \* the hosts clients run on
          Slots,        \* the threads of a worker's pool
          Tries,        \* bound: attempts to bind the port (5001)
          None          \* nobody

Threads == Workers \X Slots

ASSUME SessionAssumption ==
  /\ Tries \in Nat
  /\ None \notin Workers \cup Clients \cup Threads

VARIABLES asked, known, assigned, taker, garbled, refused,  \* the broker: see Dispatch
          host,        \* where each client runs
          enp,         \* the hosts with an interface get_ip() looks for
          port,        \* the client that has port 10000 of each host, or None
          pc, tries,   \* where each client is, its failed attempts to bind
          step,        \* the request it is at: id, data, model
          sentTo,      \* the thread its request is waiting at, or None
          answered,    \* whether an answer is on its way to it
          m_tkPool,    \* the addresses submitted to each worker's pool, by client
          down,        \* the workers that have died
          spc, clientIp,  \* where each thread is, the client it was called for
          link,        \* the client each thread's socket is connected to, or None
          got,         \* the requests each thread has read: client and step
          registered,  \* those of the sessions pushed on receive-task
          strayed      \* history: clients a thread called for another connected to

dispatchVars == <<asked, known, assigned, taker, garbled, refused>>
hostVars == <<host, enp>>
clientVars == <<port, pc, tries, step>>
wireVars == <<sentTo, answered, link>>
workerVars == <<m_tkPool, down, spc, clientIp, got, registered, strayed>>
vars == <<dispatchVars, hostVars, clientVars, wireVars, workerVars>>

D == INSTANCE Dispatch

Init ==
  /\ D!Init
  /\ host \in [Clients -> Hosts]
  /\ enp \in SUBSET Hosts
  /\ port = [h \in Hosts |-> None]
  /\ pc = [c \in Clients |-> "bind"]
  /\ tries = [c \in Clients |-> 0]
  /\ step = [c \in Clients |-> 1]
  /\ sentTo = [c \in Clients |-> None]
  /\ answered = [c \in Clients |-> FALSE]
  /\ m_tkPool = [w \in Workers |-> <<>>]
  /\ down = {}
  /\ spc = [t \in Threads |-> "idle"]
  /\ clientIp = [t \in Threads |-> None]
  /\ link = [t \in Threads |-> None]
  /\ got = [t \in Threads |-> <<>>]
  /\ registered = {} /\ strayed = {}

-----------------------------------------------------------------------------
(* The client *)

\* The loop of CreateSocket binds port 10000 whatever its counter says.
TryBind(c) ==
  /\ pc[c] = "bind"
  /\ \/ /\ port[host[c]] = None
        /\ port' = [port EXCEPT ![host[c]] = c]
        /\ pc' = [pc EXCEPT ![c] = "announce"]
        /\ UNCHANGED tries
     \/ /\ port[host[c]] # None /\ tries[c] < Tries
        /\ tries' = [tries EXCEPT ![c] = @ + 1]
        /\ UNCHANGED <<port, pc>>
  /\ UNCHANGED <<dispatchVars, hostVars, step, wireVars, workerVars>>

\* "No available port !": nothing is sent to the broker, and ClientSyn is called.
NoAvailablePort(c) ==
  /\ pc[c] = "bind" /\ tries[c] = Tries
  /\ pc' = [pc EXCEPT ![c] = "task"]
  /\ UNCHANGED <<dispatchVars, hostVars, port, tries, step, wireVars, workerVars>>

\* The address goes to the broker, with the counter for its port.
Announce(c) ==
  /\ pc[c] = "announce"
  /\ D!Ask(c)
  /\ pc' = [pc EXCEPT ![c] = "task"]
  /\ UNCHANGED <<hostVars, port, tries, step, wireVars, workerVars>>

\* zmq_close: the port is free, the connections end, an answer is not awaited.
Close(c) ==
  /\ port' = [h \in Hosts |-> IF port[h] = c THEN None ELSE port[h]]
  /\ link' = [t \in Threads |-> IF link[t] = c THEN None ELSE link[t]]
  /\ answered' = [answered EXCEPT ![c] = FALSE]

\* ClientSyn reads the task from redis, or fails, and ToBroker is over.
TakeTask(c) ==
  /\ pc[c] = "task"
  /\ pc' = [pc EXCEPT ![c] = "send"]
  /\ UNCHANGED <<dispatchVars, hostVars, port, tries, step, wireVars, workerVars>>

NoRedis(c) ==
  /\ pc[c] = "task"
  /\ pc' = [pc EXCEPT ![c] = "failed"]
  /\ Close(c)
  /\ UNCHANGED <<dispatchVars, hostVars, tries, step, sentTo, workerVars>>

\* StringSend, SendFile: the message goes to one of the sockets connected.
Send(c) ==
  /\ pc[c] = "send"
  /\ \E t \in Threads : link[t] = c /\ sentTo' = [sentTo EXCEPT ![c] = t]
  /\ pc' = [pc EXCEPT ![c] = "await"]
  /\ UNCHANGED <<dispatchVars, hostVars, port, tries, step, answered, link, workerVars>>

\* Mutant: a reply too many is awaited.
RecvReplyOfLast(c) ==
  /\ pc[c] = "await" /\ answered[c]
  /\ answered' = [answered EXCEPT ![c] = FALSE]
  /\ step' = [step EXCEPT ![c] = @ + 1]
  /\ pc' = [pc EXCEPT ![c] = "send"]
  /\ UNCHANGED <<dispatchVars, hostVars, port, tries, sentTo, link, workerVars>>

\* zmq_msg_recv: on to the next request.
RecvReply(c) ==
  /\ pc[c] = "await" /\ answered[c] /\ step[c] < 3
  /\ answered' = [answered EXCEPT ![c] = FALSE]
  /\ step' = [step EXCEPT ![c] = @ + 1]
  /\ pc' = [pc EXCEPT ![c] = "send"]
  /\ UNCHANGED <<dispatchVars, hostVars, port, tries, sentTo, link, workerVars>>

\* Mutant: the model is not sent.
FinishEarly(c) ==
  /\ pc[c] = "await" /\ answered[c] /\ step[c] >= 2
  /\ pc' = [pc EXCEPT ![c] = "done"]
  /\ Close(c)
  /\ UNCHANGED <<dispatchVars, hostVars, tries, step, sentTo, workerVars>>

\* After the last ClientSyn returns and the socket is closed.
Finish(c) ==
  /\ pc[c] = "await" /\ answered[c] /\ step[c] = 3
  /\ pc' = [pc EXCEPT ![c] = "done"]
  /\ Close(c)
  /\ UNCHANGED <<dispatchVars, hostVars, tries, step, sentTo, workerVars>>

\* The client's process ends.  Its request may have arrived.
Kill(c) ==
  /\ pc[c] \notin {"done", "failed", "killed"}
  /\ pc' = [pc EXCEPT ![c] = "killed"]
  /\ Close(c)
  /\ \E t \in {None, sentTo[c]} : sentTo' = [sentTo EXCEPT ![c] = t]
  /\ UNCHANGED <<dispatchVars, hostVars, tries, step, workerVars>>

-----------------------------------------------------------------------------
(* The broker *)

\* HbGetHandle stores a worker, TkGetHandle picks one.
Heartbeat(w) ==
  /\ w \notin down
  /\ D!Store(w)
  /\ UNCHANGED <<hostVars, clientVars, wireVars, workerVars>>

Assign(c) ==
  /\ \E w \in Workers : D!Assign(c, w)
  /\ UNCHANGED <<hostVars, clientVars, wireVars, workerVars>>

\* TkGetHandle is answered with an error, and drops the request.
Refuse(c) ==
  /\ D!Refuse(c)
  /\ UNCHANGED <<hostVars, clientVars, wireVars, workerVars>>

\* HBRoutine reads the address and submits CreateSocket.
Tell(c) ==
  /\ \E w \in Workers \ down :
       /\ D!Tell(c, w)
       /\ m_tkPool' = [m_tkPool EXCEPT ![w] = Append(@, c)]
  /\ UNCHANGED <<hostVars, clientVars, wireVars, down, spc, clientIp, got, registered, strayed>>

-----------------------------------------------------------------------------
(* A thread of the worker's pool *)

Up(t) == t[1] \notin down

\* CreateSocket(clientIp) begins.
CreateSocket(t) ==
  /\ Up(t) /\ spc[t] = "idle" /\ m_tkPool[t[1]] # <<>>
  /\ clientIp' = [clientIp EXCEPT ![t] = Head(m_tkPool[t[1]])]
  /\ m_tkPool' = [m_tkPool EXCEPT ![t[1]] = Tail(@)]
  /\ spc' = [spc EXCEPT ![t] = "id"]
  /\ got' = [got EXCEPT ![t] = <<>>]
  /\ UNCHANGED <<dispatchVars, hostVars, clientVars, wireVars, down, registered, strayed>>

\* The address client c gave leads to its host's port 10000: get_ip() found an
\* interface named enp*, and the first attempt to bind was the one that counted.
Reachable(c) == host[c] \in enp /\ tries[c] = 0

\* The socket connects, and connects again when it has lost its peer.
Connect(t) ==
  /\ Up(t) /\ spc[t] # "idle" /\ link[t] = None
  /\ Reachable(clientIp[t])
  /\ LET peer == port[host[clientIp[t]]] IN
     /\ peer # None
     /\ link' = [link EXCEPT ![t] = peer]
     /\ strayed' = IF peer = clientIp[t] THEN strayed ELSE strayed \cup {peer}
  /\ UNCHANGED <<dispatchVars, hostVars, clientVars, sentTo, answered, m_tkPool, down, spc,
                 clientIp, got, registered>>

\* Mutant: the model is not received.
AfterSkips(p) == CASE p = "id" -> "data" [] p = "data" -> "register" [] p = "model" -> "register"

\* ServerSyn: what follows each request.
After(p) == CASE p = "id" -> "data" [] p = "data" -> "model" [] p = "model" -> "register"

\* Mutant: the last request is not answered.
RecvRequestSilently(t) ==
  /\ Up(t) /\ spc[t] \in {"id", "data", "model"}
  /\ \E c \in Clients :
       /\ sentTo[c] = t
       /\ sentTo' = [sentTo EXCEPT ![c] = None]
       /\ answered' = [answered EXCEPT ![c] = (link[t] = c /\ spc[t] # "model")]
       /\ got' = [got EXCEPT ![t] = Append(@, <<c, step[c]>>)]
  /\ spc' = [spc EXCEPT ![t] = After(@)]
  /\ UNCHANGED <<dispatchVars, hostVars, clientVars, link, m_tkPool, down, clientIp, registered,
                 strayed>>

\* StringRecv, ReceiveFile: the request is taken for the next one due, and
\* answered if whoever sent it is still there.
RecvRequest(t) ==
  /\ Up(t) /\ spc[t] \in {"id", "data", "model"}
  /\ \E c \in Clients :
       /\ sentTo[c] = t
       /\ sentTo' = [sentTo EXCEPT ![c] = None]
       /\ answered' = [answered EXCEPT ![c] = (link[t] = c)]
       /\ got' = [got EXCEPT ![t] = Append(@, <<c, step[c]>>)]
  /\ spc' = [spc EXCEPT ![t] = After(@)]
  /\ UNCHANGED <<dispatchVars, hostVars, clientVars, link, m_tkPool, down, clientIp, registered,
                 strayed>>

\* The socket is closed, with the requests that wait in it.
CloseSocket(T) ==
  /\ link' = [t \in Threads |-> IF t \in T THEN None ELSE link[t]]
  /\ sentTo' = [c \in Clients |-> IF sentTo[c] \in T THEN None ELSE sentTo[c]]

\* LPUSH receive-task, if redis is there; then zmq_close.
Register(t) ==
  /\ Up(t) /\ spc[t] = "register"
  /\ registered' \in {registered, registered \cup {got[t]}}
  /\ CloseSocket({t})
  /\ spc' = [spc EXCEPT ![t] = "idle"]
  /\ clientIp' = [clientIp EXCEPT ![t] = None]
  /\ got' = [got EXCEPT ![t] = <<>>]
  /\ UNCHANGED <<dispatchVars, hostVars, clientVars, answered, m_tkPool, down, strayed>>

\* The worker's process ends.
WorkerDies(w) ==
  /\ w \notin down
  /\ down' = down \cup {w}
  /\ CloseSocket({w} \X Slots)
  /\ UNCHANGED <<dispatchVars, hostVars, clientVars, answered, m_tkPool, spc, clientIp, got,
                 registered, strayed>>

ClientStep(c) ==
  \/ TryBind(c) \/ NoAvailablePort(c) \/ Announce(c) \/ TakeTask(c) \/ NoRedis(c)
  \/ Send(c) \/ RecvReply(c) \/ Finish(c)

ThreadStep(t) == CreateSocket(t) \/ Connect(t) \/ RecvRequest(t) \/ Register(t)

Next ==
  \/ \E c \in Clients : ClientStep(c) \/ Kill(c) \/ Assign(c) \/ Refuse(c) \/ Tell(c)
  \/ \E w \in Workers : Heartbeat(w) \/ WorkerDies(w)
  \/ \E t \in Threads : ThreadStep(t)

Spec == Init /\ [][Next]_vars

\* Programs that run go on, and messages and connections get through.  A socket
\* that connects is not starved by the requests it reads meanwhile.
Fairness ==
  /\ \A c \in Clients : WF_vars(ClientStep(c)) /\ WF_vars(Assign(c)) /\ WF_vars(Tell(c))
  /\ \A t \in Threads : WF_vars(ThreadStep(t))

FairSpec == Spec /\ Fairness

-----------------------------------------------------------------------------
(* Correctness *)

ClientPC == {"bind", "announce", "task", "send", "await", "done", "failed", "killed"}

\* The values the variables range over.
TypeOK ==
  /\ asked \subseteq Clients /\ refused \subseteq Clients /\ known \subseteq Workers /\ ~garbled
  /\ assigned \in [Clients -> Workers \cup {None}] /\ taker \in [Clients -> Workers \cup {None}]
  /\ host \in [Clients -> Hosts] /\ enp \subseteq Hosts
  /\ port \in [Hosts -> Clients \cup {None}]
  /\ pc \in [Clients -> ClientPC]
  /\ tries \in [Clients -> 0..Tries] /\ step \in [Clients -> 1..3]
  /\ sentTo \in [Clients -> Threads \cup {None}] /\ answered \in [Clients -> BOOLEAN]
  /\ m_tkPool \in [Workers -> Seq(Clients)] /\ down \subseteq Workers
  /\ spc \in [Threads -> {"idle", "id", "data", "model", "register"}]
  /\ clientIp \in [Threads -> Clients \cup {None}] /\ link \in [Threads -> Clients \cup {None}]
  /\ got \in [Threads -> Seq(Clients \X (1..3))]
  /\ registered \subseteq Seq(Clients \X (1..3)) /\ strayed \subseteq Clients

\* A client on host h has ended before its session had.
EndedEarly(h) == \E c \in Clients : host[c] = h /\ pc[c] \in {"failed", "killed"}

\* What a worker registers is the id, the data and the model of one client, in
\* this order, however often sockets connect to the port of the host: only after
\* a client of that host has ended early may a session wait for the rest of a
\* task and be given another client's.
RegisteredIsOneTask ==
  \A g \in registered :
    \/ \E c \in Clients : g = <<<<c, 1>>, <<c, 2>>, <<c, 3>>>>
    \/ EndedEarly(host[g[1][1]])

\* No thread of the pool waits for more from a client whose ToBroker has returned
\* with all of its task acknowledged, unless clients of that host ended early.
NoThreadIsStranded ==
  \A t \in Threads :
    spc[t] \in {"id", "data", "model"} /\ pc[clientIp[t]] = "done" => EndedEarly(host[clientIp[t]])

\* What may keep a session from its end: an address that leads nowhere, a request
\* the broker dropped, a client of the host or the worker that is gone, a thread
\* that came for another client.
Disturbed(c) ==
  ~Reachable(c) \/ c \in refused \/ EndedEarly(host[c]) \/ c \in strayed \/ assigned[c] \in down

\* All threads of worker w are taken, by sessions of such clients.
Exhausted(w) ==
  \A i \in Slots : spc[<<w, i>>] # "idle" /\ Disturbed(clientIp[<<w, i>>])

\* A client that begins when a worker is known ends, with its task handed over
\* and the thread that took it free again, unless its session is disturbed or
\* disturbed sessions have taken all the threads of its worker.
SessionEnds ==
  \A c \in Clients :
    (pc[c] = "bind" /\ known # {}) ~>
      \/ pc[c] = "done" /\ \A t \in Threads : clientIp[t] # c
      \/ Disturbed(c)
      \/ \E w \in Workers : assigned[c] = w /\ Exhausted(w)
=============================================================================
