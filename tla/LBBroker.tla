------------------------------ MODULE LBBroker ------------------------------
(***************************************************************************)
(* The load-balancing broker of src/src/load-balance/lbbroker.h, with the  *)
(* part of a worker (lbworker.h, HBRoutine) that reads what it sends.      *)
(*                                                                         *)
(* One thread runs EventLoop.  It takes heartbeats from m_hbBroker and     *)
(* requests from m_tkBroker and submits a handler for each to one of two   *)
(* thread pools; a pool is what TaskPool says: a handler is started, in    *)
(* the order of submission, by a thread that is idle.                      *)
(*                                                                         *)
(* All handlers send on the one socket m_hbBroker, a ROUTER, and each      *)
(* message takes two calls of zmq_send.  The socket is not locked, so the  *)
(* calls of two handlers interleave.  ROUTER takes the first frame of a    *)
(* message for the identity of the peer and gives it the frames that       *)
(* follow, up to one without SNDMORE; a message for an identity it does    *)
(* not know is dropped, and so is a message that is the identity alone.    *)
(* That is what zmq_send does to the socket if the calls themselves do not *)
(* overlap; what two calls at the same instant do is not modelled.         *)
(*                                                                         *)
(* The metric table is the redis sorted set "Worker".  It outlives the     *)
(* broker, so it may hold workers of an earlier run when this one begins.  *)
(***************************************************************************)
EXTENDS Naturals, Sequences

CONSTANTS Workers,      \* the identities of the workers
          Clients,      \* the clients; each sends one request, with its address
          HbThreads,    \* the threads of m_hbPool
          TkThreads,    \* the threads of m_tkPool
          MaxClock,     \* bound: the last instant of the clock
          MaxBeats,     \* bound: heartbeats of one worker
          HbOk,         \* the frame "HB_OK"
          None          \* no time, no worker

ASSUME BrokerAssumption ==
  /\ MaxClock \in Nat /\ MaxBeats \in Nat
  /\ HbThreads \cap TkThreads = {}
  /\ Workers \cap Clients = {}
  /\ None \notin Nat \cup Workers \cup Clients
  /\ HbOk \notin Workers \cup Clients

Threads == HbThreads \cup TkThreads

\* A frame a worker may find in a message: "HB_OK", a client's address, or what
\* should never reach it, the identity of a worker.
Frames == {HbOk} \cup Clients \cup Workers

VARIABLES now,              \* clock_time()
          connected,        \* the workers m_hbBroker knows
          down,             \* the workers that have ended
          beats,            \* heartbeats sent by each worker
          hbIn, tkIn,       \* waiting in m_hbBroker (by worker) and m_tkBroker
          loop,             \* where EventLoop is: "poll", or about to read a request
          hbQueue, tkQueue, \* submitted to m_hbPool (workers) and m_tkPool (clients)
          stage, arg,       \* where each handler is, and what it was called for
          insertTime,       \* HbGetHandle's local variable
          table,            \* the sorted set Worker: scores, or None
          chosen,           \* the worker picked for each client, or None
          more, cur, built, \* the ROUTER: inside a message, its peer, its frames
          inbox,            \* the frames on their way to each worker
          dialled,          \* the clients each worker has called CreateSocket for
          crashed,          \* the broker process has died
          overlapped,       \* history: a message was begun inside another
          redisFailed,      \* history: redisConnect has failed
          refused,          \* history: the clients whose request redis had dropped
          unstored          \* history: the workers whose heartbeat redis did not store

loopVars == <<hbIn, tkIn, loop>>
poolVars == <<hbQueue, tkQueue, stage, arg>>
outVars == <<more, cur, built, overlapped>>
workerVars == <<connected, down, beats, inbox, dialled>>
failVars == <<crashed, redisFailed, refused, unstored>>
vars == <<now, loopVars, poolVars, insertTime, table, chosen, outVars, workerVars, failVars>>

Init ==
  /\ now = 0
  /\ connected = {} /\ down = {}
  /\ beats = [w \in Workers |-> 0]
  /\ hbIn = [w \in Workers |-> 0] /\ tkIn = {}
  /\ loop = "poll"
  /\ hbQueue = <<>> /\ tkQueue = <<>>
  /\ stage = [h \in Threads |-> "idle"]
  /\ arg = [h \in Threads |-> None]
  /\ insertTime = [h \in HbThreads |-> None]
  /\ \E stale \in SUBSET Workers : table = [w \in Workers |-> IF w \in stale THEN 0 ELSE None]
  /\ chosen = [c \in Clients |-> None]
  /\ more = FALSE /\ cur = None /\ built = <<>>
  /\ inbox = [w \in Workers |-> <<>>]
  /\ dialled = [w \in Workers |-> <<>>]
  /\ crashed = FALSE
  /\ overlapped = FALSE /\ redisFailed = FALSE
  /\ refused = {} /\ unstored = {}

Requested == tkIn \cup {tkQueue[i] : i \in DOMAIN tkQueue} \cup {arg[h] : h \in TkThreads}

-----------------------------------------------------------------------------
(* The clients, the workers and the clock *)

Tick ==
  /\ now < MaxClock
  /\ now' = now + 1
  /\ UNCHANGED <<loopVars, poolVars, insertTime, table, chosen, outVars, workerVars, failVars>>

\* A worker connects with its first heartbeat and goes on sending them.
SendBeat(w) ==
  /\ w \notin down
  /\ beats[w] < MaxBeats
  /\ beats' = [beats EXCEPT ![w] = @ + 1]
  /\ connected' = connected \cup {w}
  /\ hbIn' = [hbIn EXCEPT ![w] = @ + 1]
  /\ UNCHANGED <<now, tkIn, loop, poolVars, insertTime, table, chosen, outVars,
                 down, inbox, dialled, failVars>>

\* LBClient::CreateSocket sends the creation time and the client's address.
SendRequest(c) ==
  /\ c \notin Requested \cup refused /\ chosen[c] = None
  /\ tkIn' = tkIn \cup {c}
  /\ UNCHANGED <<now, hbIn, loop, poolVars, insertTime, table, chosen, outVars,
                 workerVars, failVars>>

\* A worker detaches, or loses its power.
Leave(w) ==
  /\ w \in connected \ down
  /\ down' = down \cup {w}
  /\ UNCHANGED <<now, loopVars, poolVars, insertTime, table, chosen, outVars,
                 connected, beats, inbox, dialled, failVars>>

\* HBRoutine reads one frame.  It takes any that is not "HB_OK" for an address
\* and connects to it; an identity is not one, and the assertion ends the worker.
RecvFrame(w) ==
  /\ w \notin down
  /\ inbox[w] # <<>>
  /\ inbox' = [inbox EXCEPT ![w] = Tail(@)]
  /\ LET frame == Head(inbox[w]) IN
     /\ dialled' = IF frame \in Clients THEN [dialled EXCEPT ![w] = Append(@, frame)] ELSE dialled
     /\ down' = IF frame \in Workers THEN down \cup {w} ELSE down
  /\ UNCHANGED <<now, loopVars, poolVars, insertTime, table, chosen, outVars,
                 connected, beats, failVars>>

-----------------------------------------------------------------------------
(* EventLoop *)

\* A heartbeat is read and HbGetHandle submitted.
HandleHb ==
  \E w \in Workers :
    /\ hbIn[w] > 0
    /\ hbIn' = [hbIn EXCEPT ![w] = @ - 1]
    /\ hbQueue' = Append(hbQueue, w)

\* Mutant: the request socket is left out of the poll.
PollHbOnly ==
  /\ ~crashed /\ loop = "poll"
  /\ HandleHb
  /\ UNCHANGED <<now, loop, tkIn, tkQueue, stage, arg, insertTime, table, chosen, outVars,
                 workerVars, failVars>>

\* zmq_poll returns when a socket is readable; a heartbeat is handled at once, a
\* request that was there when poll returned is handled next.
Poll ==
  /\ ~crashed /\ loop = "poll"
  /\ \/ HandleHb
     \/ tkIn # {} /\ (\A w \in Workers : hbIn[w] = 0) /\ UNCHANGED <<hbIn, hbQueue>>
  /\ loop' = IF tkIn = {} THEN "poll" ELSE "tk"
  /\ UNCHANGED <<now, tkIn, tkQueue, stage, arg, insertTime, table, chosen, outVars,
                 workerVars, failVars>>

\* A request is read and TkGetHandle submitted.
HandleTk ==
  /\ ~crashed /\ loop = "tk"
  /\ \E c \in tkIn : tkIn' = tkIn \ {c} /\ tkQueue' = Append(tkQueue, c)
  /\ loop' = "poll"
  /\ UNCHANGED <<now, hbIn, hbQueue, stage, arg, insertTime, table, chosen, outVars,
                 workerVars, failVars>>

-----------------------------------------------------------------------------
(* The handlers *)

\* An idle thread of the pool takes the first submitted handler.
StartHb(h) ==
  /\ ~crashed /\ stage[h] = "idle" /\ hbQueue # <<>>
  /\ arg' = [arg EXCEPT ![h] = Head(hbQueue)]
  /\ hbQueue' = Tail(hbQueue)
  /\ stage' = [stage EXCEPT ![h] = "clock"]
  /\ UNCHANGED <<now, loopVars, tkQueue, insertTime, table, chosen, outVars, workerVars, failVars>>

\* Mutant: the handler is not taken off the queue.
StartTkKeepsQueue(h) ==
  /\ ~crashed /\ stage[h] = "idle" /\ tkQueue # <<>>
  /\ arg' = [arg EXCEPT ![h] = Head(tkQueue)]
  /\ stage' = [stage EXCEPT ![h] = "pick"]
  /\ UNCHANGED <<now, loopVars, hbQueue, tkQueue, insertTime, table, chosen, outVars, workerVars,
                 failVars>>

StartTk(h) ==
  /\ ~crashed /\ stage[h] = "idle" /\ tkQueue # <<>>
  /\ arg' = [arg EXCEPT ![h] = Head(tkQueue)]
  /\ tkQueue' = Tail(tkQueue)
  /\ stage' = [stage EXCEPT ![h] = "pick"]
  /\ UNCHANGED <<now, loopVars, hbQueue, insertTime, table, chosen, outVars, workerVars, failVars>>

\* redisConnect fails: the handler goes on with a context it has freed.  Either
\* the process dies of it, or a heartbeat is answered that was never stored.
RedisDown(h) ==
  /\ ~crashed /\ stage[h] \in {"clock", "pick"}
  /\ redisFailed' = TRUE
  /\ \/ crashed' = TRUE /\ UNCHANGED <<stage, unstored>>
     \/ /\ stage[h] = "clock" /\ stage' = [stage EXCEPT ![h] = "ident"]
        /\ unstored' = unstored \cup {arg[h]}
        /\ UNCHANGED crashed
  /\ UNCHANGED <<now, loopVars, hbQueue, tkQueue, arg, insertTime, table, chosen, outVars, workerVars,
                 refused>>

\* Mutant: the heartbeat is answered and not stored.
ReadClockOnly(h) ==
  /\ ~crashed /\ stage[h] = "clock"
  /\ insertTime' = [insertTime EXCEPT ![h] = now]
  /\ stage' = [stage EXCEPT ![h] = "ident"]
  /\ UNCHANGED <<now, loopVars, hbQueue, tkQueue, arg, table, chosen, outVars, workerVars, failVars>>

\* HbGetHandle: the time is read before redis is asked to store it.
ReadClock(h) ==
  /\ ~crashed /\ stage[h] = "clock"
  /\ insertTime' = [insertTime EXCEPT ![h] = now]
  /\ stage' = [stage EXCEPT ![h] = "store"]
  /\ UNCHANGED <<now, loopVars, hbQueue, tkQueue, arg, table, chosen, outVars, workerVars, failVars>>

\* ZADD Worker insertTime workerHbId: the score is replaced, even by an older one.
\* The reply is freed and not looked at: redis may have refused the command, or be
\* gone, and nothing is stored.
Store(h) ==
  /\ ~crashed /\ stage[h] = "store"
  /\ \/ table' = [table EXCEPT ![arg[h]] = insertTime[h]] /\ UNCHANGED unstored
     \/ unstored' = unstored \cup {arg[h]} /\ UNCHANGED table
  /\ stage' = [stage EXCEPT ![h] = "ident"]
  /\ UNCHANGED <<now, loopVars, hbQueue, tkQueue, arg, insertTime, chosen, outVars, workerVars,
                 crashed, redisFailed, refused>>

\* The member with the highest score; redis breaks a tie by name, the model by
\* either name.
Freshest ==
  {w \in Workers : table[w] # None /\ \A v \in Workers : table[v] # None => table[v] <= table[w]}

\* TkGetHandle: zrange Worker -1 -1.  The command that deletes what has expired
\* is built and not sent; an empty reply is dereferenced.  If redis answers with
\* an error the handler frees the reply and returns: the thread takes the next
\* request, and nobody is told of this one.
Pick(h) ==
  /\ ~crashed /\ stage[h] = "pick"
  /\ \/ \E w \in Freshest :
          /\ chosen' = [chosen EXCEPT ![arg[h]] = w]
          /\ stage' = [stage EXCEPT ![h] = "ident"]
          /\ UNCHANGED <<arg, crashed, refused>>
     \/ Freshest = {} /\ crashed' = TRUE /\ UNCHANGED <<chosen, stage, arg, refused>>
     \/ /\ refused' = refused \cup {arg[h]}
        /\ stage' = [stage EXCEPT ![h] = "idle"]
        /\ arg' = [arg EXCEPT ![h] = None]
        /\ UNCHANGED <<chosen, crashed>>
  /\ UNCHANGED <<now, loopVars, hbQueue, tkQueue, insertTime, table, outVars, workerVars,
                 redisFailed, unstored>>

\* Mutant: the two frames are sent the other way round.
TargetSwapped(h) == IF h \in HbThreads THEN HbOk ELSE arg[h]

\* Mutant: the table is read again when the message is sent.
TargetReread(h) ==
  IF h \in HbThreads THEN arg[h] ELSE CHOOSE w \in Workers : Freshest = {} \/ w \in Freshest

\* The worker a handler's message is for, and what it is to be told.
Target(h) == IF h \in HbThreads THEN arg[h] ELSE chosen[arg[h]]
Body(h) == IF h \in HbThreads THEN HbOk ELSE arg[h]

\* zmq_send(identity, SNDMORE).  Inside a message of another handler it is a
\* frame like any other.
SendIdentity(h) ==
  /\ ~crashed /\ stage[h] = "ident"
  /\ stage' = [stage EXCEPT ![h] = "body"]
  /\ IF more
     THEN /\ built' = Append(built, Target(h))
          /\ overlapped' = TRUE
          /\ UNCHANGED <<more, cur>>
     ELSE /\ more' = TRUE
          /\ cur' = IF Target(h) \in connected THEN Target(h) ELSE None
          /\ UNCHANGED <<built, overlapped>>
  /\ UNCHANGED <<now, loopVars, hbQueue, tkQueue, arg, insertTime, table, chosen, workerVars, failVars>>

\* zmq_send(body, 0) ends the message the socket is in, whoever began it; with
\* none begun, the body is taken for an identity alone and dropped.
SendBody(h) ==
  /\ ~crashed /\ stage[h] = "body"
  /\ stage' = [stage EXCEPT ![h] = "idle"]
  /\ arg' = [arg EXCEPT ![h] = None]
  /\ inbox' = IF more /\ cur # None
              THEN [inbox EXCEPT ![cur] = @ \o Append(built, Body(h))]
              ELSE inbox
  /\ more' = FALSE /\ cur' = None /\ built' = <<>>
  /\ UNCHANGED <<now, loopVars, hbQueue, tkQueue, insertTime, table, chosen, overlapped,
                 connected, down, beats, dialled, failVars>>

Loop == Poll \/ HandleTk

Handler(h) ==
  \/ h \in HbThreads /\ (StartHb(h) \/ ReadClock(h) \/ Store(h))
  \/ h \in TkThreads /\ (StartTk(h) \/ Pick(h))
  \/ SendIdentity(h) \/ SendBody(h)

Next ==
  \/ Tick
  \/ \E w \in Workers : SendBeat(w) \/ Leave(w) \/ RecvFrame(w)
  \/ \E c \in Clients : SendRequest(c)
  \/ Loop
  \/ \E h \in Threads : Handler(h) \/ RedisDown(h)

Spec == Init /\ [][Next]_vars

\* The threads of the broker run, and a worker that is up reads its socket.
Fairness ==
  /\ WF_vars(Loop)
  /\ \A h \in Threads : WF_vars(Handler(h))
  /\ \A w \in Workers : WF_vars(RecvFrame(w))

FairSpec == Spec /\ Fairness

-----------------------------------------------------------------------------
(* Correctness *)

Stage == {"idle", "clock", "store", "pick", "ident", "body"}

\* The values the variables range over.
TypeOK ==
  /\ now \in 0..MaxClock
  /\ connected \subseteq Workers /\ down \subseteq Workers
  /\ beats \in [Workers -> 0..MaxBeats]
  /\ hbIn \in [Workers -> 0..MaxBeats] /\ tkIn \subseteq Clients
  /\ loop \in {"poll", "tk"}
  /\ hbQueue \in Seq(Workers) /\ tkQueue \in Seq(Clients)
  /\ stage \in [Threads -> Stage]
  /\ arg \in [Threads -> Workers \cup Clients \cup {None}]
  /\ insertTime \in [HbThreads -> 0..MaxClock \cup {None}]
  /\ table \in [Workers -> 0..MaxClock \cup {None}]
  /\ chosen \in [Clients -> Workers \cup {None}]
  /\ more \in BOOLEAN /\ cur \in Workers \cup {None} /\ built \in Seq(Workers)
  /\ inbox \in [Workers -> Seq(Frames)]
  /\ dialled \in [Workers -> Seq(Clients)]
  /\ crashed \in BOOLEAN /\ overlapped \in BOOLEAN /\ redisFailed \in BOOLEAN
  /\ refused \subseteq Clients /\ unstored \subseteq Workers

\* The places at which client c's address is on its way to, or has reached, a worker.
Told(c) ==
  {p \in UNION {{w} \X DOMAIN (dialled[w] \o inbox[w]) : w \in Workers} :
     (dialled[p[1]] \o inbox[p[1]])[p[2]] = c}

\* The worker that was told of c, or None.  Two messages are no worker at all.
Taker(c) ==
  CASE Told(c) = {} -> None
    [] Told(c) # {} /\ (\A p, q \in Told(c) : p = q) -> (CHOOSE p \in Told(c) : TRUE)[1]
    [] OTHER -> Told(c)

\* The broker implements what Dispatch promises: a request is the one that was
\* asked, the table holds the known workers, the worker picked is the assigned
\* one, and whoever is sent the address has been told.  Who is refused is so in
\* both.
Disp == INSTANCE Dispatch WITH
  asked <- {c \in Clients : c \in Requested \cup refused \/ chosen[c] # None},
  known <- {w \in Workers : table[w] # None},
  assigned <- chosen,
  taker <- [c \in Clients |-> Taker(c)],
  garbled <- overlapped

\* Every step of the two pools of handlers, of the socket they share and of redis
\* is a step of Dispatch or none: a client is assigned once, to a stored worker,
\* and one worker is told of it, once, the assigned one if no frames overlapped;
\* or it is refused, and then no worker is.
ImplementsDispatch == Disp!Spec

\* Frames go astray in one way only: a handler begins its message while another
\* is between its two calls of zmq_send.  Until then a worker is sent no
\* identity, and a client's address only if it is the worker picked for it.
StrayOnlyByOverlap ==
  ~overlapped =>
    \A w \in Workers :
      /\ \A i \in DOMAIN inbox[w] :
           inbox[w][i] = HbOk \/ (inbox[w][i] \in Clients /\ chosen[inbox[w][i]] = w)
      /\ \A i \in DOMAIN dialled[w] : chosen[dialled[w][i]] = w

\* Whatever is sent to a worker, astray or not, reaches one that is connected,
\* and "HB_OK" does not precede the ZADD it confirms: a worker that is not in the
\* table hears nothing, unless redis did not do what this worker's handler asked.
OnlyStoredWorkersHear ==
  \A w \in Workers :
    inbox[w] # <<>> => w \in connected /\ (table[w] # None \/ w \in unstored)

\* The broker does not fail a request once a worker is in the table: the client
\* is dialled by a worker unless frames overlapped, redis failed or answered this
\* request with an error, or the worker picked is gone (it has left, or was never
\* seen by this broker).
RequestIsServed ==
  \A c \in Clients :
    (c \in tkIn /\ Freshest # {}) ~>
      \/ \E w \in Workers : \E i \in DOMAIN dialled[w] : dialled[w][i] = c
      \/ overlapped \/ redisFailed \/ c \in refused
      \/ chosen[c] \in down \cup (Workers \ connected)

\* "sending on the socket should be thread safe" (lbbroker.h:154): a worker is
\* sent "HB_OK" or an address.  The code breaks it: two handlers interleave their
\* frames, and one worker is sent the identity of another.
MessagesArePaired ==
  \A w \in Workers : \A i \in DOMAIN inbox[w] : inbox[w][i] \notin Workers
=============================================================================
