--------------------------- MODULE LBSessionProofs ---------------------------
(***************************************************************************)
(* Machine-checked proofs about LBSession, for any sets of workers,        *)
(* clients and hosts, and pools of any size.                               *)
(***************************************************************************)
EXTENDS LBSession, SequenceTheorems, TLAPS

-----------------------------------------------------------------------------
(* The inductive invariant *)

\* Where a thread is tells how much it has read, all of it from clients of the host
\* it was called for.
ThreadAt(t) ==
  /\ spc[t] = "idle" => clientIp[t] = None /\ link[t] = None
  /\ spc[t] # "idle" => clientIp[t] # None
  /\ spc[t] = "id" => Len(got[t]) = 0
  /\ spc[t] = "data" => Len(got[t]) = 1
  /\ spc[t] = "model" => Len(got[t]) = 2
  /\ spc[t] = "register" => Len(got[t]) = 3
  /\ \A i \in DOMAIN got[t] : clientIp[t] # None /\ host[got[t][i][1]] = host[clientIp[t]]

ThreadInv == \A t \in Threads : ThreadAt(t)

\* A socket is connected to the client that has the port, and a request waits at a
\* socket of that host.
WireInv ==
  /\ \A h \in Hosts : port[h] # None => host[port[h]] = h
  /\ \A t \in Threads :
       link[t] # None => /\ clientIp[t] # None /\ host[link[t]] = host[clientIp[t]]
                         /\ port[host[link[t]]] = link[t]
  /\ \A c \in Clients :
       sentTo[c] # None =>
         clientIp[sentTo[c]] # None /\ host[clientIp[sentTo[c]]] = host[c]

\* A client has the port from before the broker hears of it until it closes.
TenantInv ==
  \A c \in Clients :
    /\ pc[c] = "bind" => c \notin asked
    /\ pc[c] = "announce" => c \notin asked /\ port[host[c]] = c
    /\ c \in asked /\ pc[c] \in {"task", "send", "await"} => port[host[c]] = c

\* The addresses that wait in a pool, and that none waits twice.
Addresses(q) == {q[i] : i \in DOMAIN q}
Distinct(q) == \A i, j \in DOMAIN q : q[i] = q[j] => i = j

\* An address is in one pool once, or with one thread, of the worker that was told.
OnceInv ==
  /\ \A c \in Clients : assigned[c] # None \/ taker[c] # None => c \in asked
  /\ \A w \in Workers : Distinct(m_tkPool[w]) /\ \A c \in Addresses(m_tkPool[w]) : taker[c] = w
  /\ \A t \in Threads :
       clientIp[t] # None => taker[clientIp[t]] = t[1] /\ clientIp[t] \notin Addresses(m_tkPool[t[1]])
  /\ \A t, u \in Threads : clientIp[t] # None /\ clientIp[t] = clientIp[u] => t = u

\* No thread has begun the session of client c.
Untaken(c) == taker[c] = None \/ \E w \in Workers : c \in Addresses(m_tkPool[w])

\* A client's own requests and answers.
RequestInv(c) ==
  /\ Untaken(c) => step[c] = 1 /\ answered[c] = FALSE /\ pc[c] # "done"
  /\ answered[c] = TRUE => pc[c] = "await" /\ sentTo[c] = None
  /\ sentTo[c] # None => pc[c] = "await" /\ link[sentTo[c]] = c
  /\ pc[c] \in {"bind", "announce", "task"} => step[c] = 1

\* The thread t that was called for client c has read what the client has sent, and
\* is at the request the client is at, or has read that one too.
InStep(c, t) ==
  /\ \A i \in DOMAIN got[t] : got[t][i] = <<c, i>>
  /\ pc[c] = "done" => Len(got[t]) = 3
  /\ pc[c] \in {"task", "send"} => Len(got[t]) + 1 = step[c]
  /\ pc[c] = "await" => Len(got[t]) = step[c] \/ Len(got[t]) + 1 = step[c]
  /\ answered[c] = TRUE => Len(got[t]) = step[c]
  /\ sentTo[c] = t => Len(got[t]) + 1 = step[c]

\* While no client of its host ends early, a client's requests are read by the thread
\* that was called for it and by no other: others have read all of theirs.
InTurn(c) ==
  /\ RequestInv(c)
  /\ \A t \in Threads : clientIp[t] = c => InStep(c, t)
  /\ \A t \in Threads : link[t] = c /\ clientIp[t] # c => spc[t] = "register"

TurnInv(c) == EndedEarly(host[c]) \/ InTurn(c)

IInv ==
  /\ TypeOK /\ ThreadInv /\ WireInv /\ TenantInv /\ OnceInv
  /\ \A c \in Clients : TurnInv(c)
  /\ RegisteredIsOneTask

-----------------------------------------------------------------------------
(* Queues of addresses *)

\* A new address at the end of a queue.
LEMMA AppendAddress ==
  ASSUME NEW S, NEW q \in Seq(S), NEW c \in S
  PROVE  /\ Append(q, c) \in Seq(S) /\ Len(Append(q, c)) = Len(q) + 1
         /\ DOMAIN Append(q, c) = 1..(Len(q) + 1) /\ DOMAIN q = 1..Len(q) /\ Len(q) \in Nat
         /\ Append(q, c)[Len(q) + 1] = c /\ \A i \in 1..Len(q) : Append(q, c)[i] = q[i]
         /\ Addresses(Append(q, c)) = Addresses(q) \cup {c}
         /\ Distinct(q) /\ c \notin Addresses(q) => Distinct(Append(q, c))
  <1>1. /\ Append(q, c) \in Seq(S) /\ Len(Append(q, c)) = Len(q) + 1
        /\ Append(q, c)[Len(q) + 1] = c /\ \A i \in 1..Len(q) : Append(q, c)[i] = q[i]
    BY AppendProperties
  <1>2. Len(q) \in Nat /\ DOMAIN q = 1..Len(q) /\ DOMAIN Append(q, c) = 1..(Len(q) + 1)
    BY <1>1, LenProperties
  <1>3. /\ Len(q) + 1 \in 1..(Len(q) + 1) /\ \A i \in 1..Len(q) : i \in 1..(Len(q) + 1)
        /\ \A i \in 1..(Len(q) + 1) : i \in 1..Len(q) \/ i = Len(q) + 1
    BY <1>2
  <1>4. Addresses(Append(q, c)) = Addresses(q) \cup {c}
    BY <1>1, <1>2, <1>3 DEF Addresses
  <1>5. Distinct(q) /\ c \notin Addresses(q) => Distinct(Append(q, c))
    BY <1>1, <1>2, <1>3 DEF Addresses, Distinct
  <1>. QED  BY <1>1, <1>2, <1>4, <1>5

\* The first address is taken from a queue.
LEMMA TakeAddress ==
  ASSUME NEW S, NEW q \in Seq(S), q # <<>>
  PROVE  /\ Head(q) \in S /\ Head(q) \in Addresses(q) /\ Tail(q) \in Seq(S)
         /\ Addresses(Tail(q)) \subseteq Addresses(q)
         /\ Distinct(q) => /\ Distinct(Tail(q)) /\ Head(q) \notin Addresses(Tail(q))
                           /\ \A c \in Addresses(q) : c = Head(q) \/ c \in Addresses(Tail(q))
  <1>1. /\ Head(q) \in S /\ Head(q) = q[1] /\ Tail(q) \in Seq(S) /\ Len(Tail(q)) = Len(q) - 1
        /\ \A i \in 1..Len(Tail(q)) : Tail(q)[i] = q[i + 1]
    BY HeadTailProperties
  <1>2. Len(q) \in Nat \ {0} /\ DOMAIN q = 1..Len(q) /\ DOMAIN Tail(q) = 1..(Len(q) - 1)
    BY <1>1, LenProperties, EmptySeq
  <1>3. /\ 1 \in 1..Len(q) /\ \A i \in 1..(Len(q) - 1) : i + 1 \in 1..Len(q) /\ i + 1 # 1
        /\ \A i \in 1..Len(q) : i = 1 \/ (i - 1 \in 1..(Len(q) - 1) /\ (i - 1) + 1 = i)
        /\ \A i, j \in 1..(Len(q) - 1) : i + 1 = j + 1 => i = j
    BY <1>2
  <1>4. Head(q) \in Addresses(q) /\ Addresses(Tail(q)) \subseteq Addresses(q)
    BY <1>1, <1>2, <1>3 DEF Addresses
  <1>5. ASSUME Distinct(q)
        PROVE  /\ Distinct(Tail(q)) /\ Head(q) \notin Addresses(Tail(q))
               /\ \A c \in Addresses(q) : c = Head(q) \/ c \in Addresses(Tail(q))
    <2>1. Distinct(Tail(q))
      BY <1>1, <1>2, <1>3, <1>5 DEF Distinct
    <2>2. Head(q) \notin Addresses(Tail(q))
      BY <1>1, <1>2, <1>3, <1>5 DEF Distinct, Addresses
    <2>3. ASSUME NEW c \in Addresses(q), c # Head(q) PROVE c \in Addresses(Tail(q))
      <3>1. PICK i \in 1..Len(q) : c = q[i]
        BY <1>2 DEF Addresses
      <3>2. i - 1 \in 1..(Len(q) - 1) /\ (i - 1) + 1 = i
        BY <1>1, <1>3, <2>3, <3>1
      <3>3. c = Tail(q)[i - 1]
        BY <1>1, <1>2, <3>1, <3>2
      <3>. QED  BY <1>2, <3>2, <3>3 DEF Addresses
    <2>. QED  BY <2>1, <2>2, <2>3
  <1>. QED  BY <1>1, <1>4, <1>5

-----------------------------------------------------------------------------
(* Types *)

Requests == Clients \X (1..3)

LEMMA TypeInit == Init => TypeOK
  <1> SUFFICES ASSUME Init PROVE TypeOK
    OBVIOUS
  <1> USE SessionAssumption
  <1>1. /\ asked \subseteq Clients /\ refused \subseteq Clients /\ known \subseteq Workers /\ ~garbled
        /\ assigned \in [Clients -> Workers \cup {None}]
        /\ taker \in [Clients -> Workers \cup {None}]
    BY DEF Init, D!Init
  <1>2. /\ host \in [Clients -> Hosts] /\ enp \subseteq Hosts
        /\ port \in [Hosts -> Clients \cup {None}] /\ pc \in [Clients -> ClientPC]
    BY DEF Init, ClientPC
  <1>3. /\ tries \in [Clients -> 0..Tries] /\ step \in [Clients -> 1..3]
        /\ sentTo \in [Clients -> Threads \cup {None}] /\ answered \in [Clients -> BOOLEAN]
    BY DEF Init
  <1>4. m_tkPool \in [Workers -> Seq(Clients)] /\ down \subseteq Workers
    BY DEF Init
  <1>5. /\ spc \in [Threads -> {"idle", "id", "data", "model", "register"}]
        /\ clientIp \in [Threads -> Clients \cup {None}]
        /\ link \in [Threads -> Clients \cup {None}]
    BY DEF Init
  <1>6. /\ got \in [Threads -> Seq(Clients \X (1..3))]
        /\ registered \subseteq Seq(Clients \X (1..3)) /\ strayed \subseteq Clients
    BY DEF Init
  <1>. QED  BY <1>1, <1>2, <1>3, <1>4, <1>5, <1>6 DEF TypeOK

LEMMA TypeNext == TypeOK /\ [Next]_vars => TypeOK'
  <1> SUFFICES ASSUME TypeOK, [Next]_vars PROVE TypeOK'
    OBVIOUS
  <1> USE SessionAssumption DEF TypeOK
  <1>a. ASSUME NEW c \in Clients, Close(c)
        PROVE  /\ port' \in [Hosts -> Clients \cup {None}]
               /\ link' \in [Threads -> Clients \cup {None}]
               /\ answered' \in [Clients -> BOOLEAN]
    BY <1>a DEF Close
  <1>b. ASSUME NEW T, CloseSocket(T)
        PROVE  /\ link' \in [Threads -> Clients \cup {None}]
               /\ sentTo' \in [Clients -> Threads \cup {None}]
    BY <1>b DEF CloseSocket
  <1>1. ASSUME NEW c \in Clients, TryBind(c) PROVE TypeOK'
    <2>1. CASE /\ port' = [port EXCEPT ![host[c]] = c] /\ pc' = [pc EXCEPT ![c] = "announce"]
               /\ UNCHANGED tries
      <3>1. port' \in [Hosts -> Clients \cup {None}]
        BY <2>1
      <3>2. pc' \in [Clients -> ClientPC]
        BY <2>1 DEF ClientPC
      <3>. QED
        BY <1>1, <2>1, <3>1, <3>2 DEF TryBind, dispatchVars, hostVars, wireVars, workerVars
    <2>2. CASE /\ tries[c] < Tries /\ tries' = [tries EXCEPT ![c] = tries[c] + 1]
               /\ UNCHANGED <<port, pc>>
      <3>1. tries[c] + 1 \in 0..Tries
        BY <2>2
      <3>2. tries' \in [Clients -> 0..Tries]
        BY <2>2, <3>1
      <3>. QED
        BY <1>1, <2>2, <3>2 DEF TryBind, dispatchVars, hostVars, wireVars, workerVars
    <2>. QED  BY <1>1, <2>1, <2>2 DEF TryBind
  <1>2. ASSUME NEW c \in Clients, NoAvailablePort(c) \/ TakeTask(c) PROVE TypeOK'
    <2>0. PICK p \in ClientPC : pc' = [pc EXCEPT ![c] = p]
      BY <1>2 DEF NoAvailablePort, TakeTask, ClientPC
    <2>1. pc' \in [Clients -> ClientPC]
      BY <2>0
    <2>. QED
      BY <1>2, <2>1 DEF NoAvailablePort, TakeTask, dispatchVars, hostVars, wireVars, workerVars
  <1>3. ASSUME NEW c \in Clients, Announce(c) PROVE TypeOK'
    BY <1>3 DEF Announce, D!Ask, ClientPC, hostVars, wireVars, workerVars
  <1>4. ASSUME NEW c \in Clients, NoRedis(c) \/ Finish(c) PROVE TypeOK'
    <2>0. PICK p \in ClientPC : pc' = [pc EXCEPT ![c] = p]
      BY <1>4 DEF NoRedis, Finish, ClientPC
    <2>1. pc' \in [Clients -> ClientPC] /\ Close(c)
      BY <1>4, <2>0 DEF NoRedis, Finish
    <2>. QED
      BY <1>4, <1>a, <2>1 DEF NoRedis, Finish, dispatchVars, hostVars, workerVars
  <1>5. ASSUME NEW c \in Clients, Send(c) PROVE TypeOK'
    BY <1>5 DEF Send, ClientPC, dispatchVars, hostVars, workerVars
  <1>6. ASSUME NEW c \in Clients, RecvReply(c) PROVE TypeOK'
    <2>1. step[c] + 1 \in 1..3 /\ step' = [step EXCEPT ![c] = step[c] + 1]
      <3>1. step[c] \in 1..3 /\ step[c] < 3
        BY <1>6 DEF RecvReply
      <3>2. \A n \in 1..3 : n < 3 => n + 1 \in 1..3
        OBVIOUS
      <3>. QED  BY <1>6, <3>1, <3>2 DEF RecvReply
    <2>2. step' \in [Clients -> 1..3]
      BY <2>1
    <2>3. pc' \in [Clients -> ClientPC] /\ answered' \in [Clients -> BOOLEAN]
      BY <1>6 DEF RecvReply, ClientPC
    <2>. QED
      BY <1>6, <2>2, <2>3 DEF RecvReply, dispatchVars, hostVars, workerVars
  <1>7. ASSUME NEW c \in Clients, Kill(c) PROVE TypeOK'
    <2>1. pc' \in [Clients -> ClientPC] /\ sentTo' \in [Clients -> Threads \cup {None}] /\ Close(c)
      BY <1>7 DEF Kill, ClientPC
    <2>. QED
      BY <1>7, <1>a, <2>1 DEF Kill, dispatchVars, hostVars, workerVars
  <1>8. ASSUME NEW w \in Workers, Heartbeat(w) PROVE TypeOK'
    BY <1>8 DEF Heartbeat, D!Store, hostVars, clientVars, wireVars, workerVars
  <1>9. ASSUME NEW c \in Clients, Assign(c) \/ Refuse(c) PROVE TypeOK'
    <2>1. CASE Assign(c)
      BY <2>1 DEF Assign, D!Assign, hostVars, clientVars, wireVars, workerVars
    <2>2. CASE Refuse(c)
      BY <2>2 DEF Refuse, D!Refuse, hostVars, clientVars, wireVars, workerVars
    <2>. QED  BY <1>9, <2>1, <2>2
  <1>10. ASSUME NEW c \in Clients, Tell(c) PROVE TypeOK'
    <2>1. PICK w \in Workers \ down : D!Tell(c, w)
                                        /\ m_tkPool' = [m_tkPool EXCEPT ![w] = Append(@, c)]
      BY <1>10 DEF Tell
    <2>2. Append(m_tkPool[w], c) \in Seq(Clients)
      BY AppendAddress
    <2>3. m_tkPool' \in [Workers -> Seq(Clients)] /\ taker' \in [Clients -> Workers \cup {None}]
      BY <2>1, <2>2 DEF D!Tell
    <2>. QED
      BY <1>10, <2>1, <2>3 DEF Tell, D!Tell, hostVars, clientVars, wireVars
  <1>11. ASSUME NEW t \in Threads, CreateSocket(t) PROVE TypeOK'
    <2>1. t[1] \in Workers
      BY DEF Threads
    <2>2. Head(m_tkPool[t[1]]) \in Clients /\ Tail(m_tkPool[t[1]]) \in Seq(Clients)
      BY <1>11, <2>1, TakeAddress DEF CreateSocket
    <2>3. m_tkPool' \in [Workers -> Seq(Clients)] /\ clientIp' \in [Threads -> Clients \cup {None}]
      BY <1>11, <2>1, <2>2 DEF CreateSocket
    <2>4. /\ spc' \in [Threads -> {"idle", "id", "data", "model", "register"}]
          /\ got' \in [Threads -> Seq(Clients \X (1..3))]
      BY <1>11 DEF CreateSocket
    <2>. QED
      BY <1>11, <2>3, <2>4 DEF CreateSocket, dispatchVars, hostVars, clientVars, wireVars
  <1>12. ASSUME NEW t \in Threads, Connect(t) PROVE TypeOK'
    <2>1. PICK p \in Clients : link' = [link EXCEPT ![t] = p]
                                 /\ strayed' \in {strayed, strayed \cup {p}}
      BY <1>12 DEF Connect, Reachable
    <2>2. link' \in [Threads -> Clients \cup {None}] /\ strayed' \subseteq Clients
      BY <2>1
    <2>. QED
      BY <1>12, <2>2 DEF Connect, dispatchVars, hostVars, clientVars
  <1>13. ASSUME NEW t \in Threads, RecvRequest(t) PROVE TypeOK'
    <2>1. PICK c \in Clients : /\ sentTo' = [sentTo EXCEPT ![c] = None]
                               /\ answered' = [answered EXCEPT ![c] = (link[t] = c)]
                               /\ got' = [got EXCEPT ![t] = Append(@, <<c, step[c]>>)]
      BY <1>13 DEF RecvRequest
    <2>2. <<c, step[c]>> \in Requests
      BY DEF Requests
    <2>3. Append(got[t], <<c, step[c]>>) \in Seq(Requests)
      BY <2>2, AppendAddress DEF Requests
    <2>4. /\ got' \in [Threads -> Seq(Clients \X (1..3))]
          /\ sentTo' \in [Clients -> Threads \cup {None}] /\ answered' \in [Clients -> BOOLEAN]
      BY <2>1, <2>3 DEF Requests
    <2>5. spc' \in [Threads -> {"idle", "id", "data", "model", "register"}]
      BY <1>13 DEF RecvRequest, After
    <2>. QED
      BY <1>13, <2>4, <2>5 DEF RecvRequest, dispatchVars, hostVars, clientVars
  <1>14. ASSUME NEW t \in Threads, Register(t) PROVE TypeOK'
    <2>1. /\ spc' \in [Threads -> {"idle", "id", "data", "model", "register"}]
          /\ clientIp' \in [Threads -> Clients \cup {None}]
          /\ got' \in [Threads -> Seq(Clients \X (1..3))]
      BY <1>14 DEF Register
    <2>2. registered' \subseteq Seq(Clients \X (1..3)) /\ CloseSocket({t})
      <3>1. got[t] \in Seq(Clients \X (1..3))
        OBVIOUS
      <3>. QED  BY <1>14, <3>1 DEF Register
    <2>. QED
      BY <1>14, <1>b, <2>1, <2>2 DEF Register, dispatchVars, hostVars, clientVars
  <1>15. ASSUME NEW w \in Workers, WorkerDies(w) PROVE TypeOK'
    <2>1. CloseSocket({w} \X Slots) /\ down' \subseteq Workers
      BY <1>15 DEF WorkerDies
    <2>. QED
      BY <1>15, <1>b, <2>1 DEF WorkerDies, dispatchVars, hostVars, clientVars
  <1>16. CASE UNCHANGED vars
    BY <1>16 DEF vars, dispatchVars, hostVars, clientVars, wireVars, workerVars
  <1>. QED
    BY <1>1, <1>2, <1>3, <1>4, <1>5, <1>6, <1>7, <1>8, <1>9, <1>10, <1>11, <1>12, <1>13, <1>14,
       <1>15, <1>16 DEF Next, ClientStep, ThreadStep

-----------------------------------------------------------------------------
(* What most steps leave alone *)

\* The threads go on where they are, but may lose their connections.
ThreadsStay ==
  /\ UNCHANGED <<spc, clientIp, got, registered>>
  /\ \A t \in Threads : link'[t] = link[t] \/ link'[t] = None

\* The steps that are not a thread's leave the threads where they are.
LEMMA StayNext ==
  ASSUME TypeOK
  PROVE  /\ \A c \in Clients :
              ClientStep(c) \/ Kill(c) \/ Assign(c) \/ Refuse(c) \/ Tell(c) => ThreadsStay
         /\ \A w \in Workers : Heartbeat(w) \/ WorkerDies(w) => ThreadsStay
         /\ UNCHANGED vars => ThreadsStay
  <1>1. ASSUME NEW c \in Clients, Close(c) PROVE \A t \in Threads : link'[t] = link[t] \/ link'[t] = None
    BY <1>1 DEF Close
  <1>2. ASSUME NEW c \in Clients, ClientStep(c) \/ Kill(c) PROVE ThreadsStay
    <2>1. CASE NoRedis(c) \/ Finish(c) \/ Kill(c)
      BY <1>1, <2>1 DEF NoRedis, Finish, Kill, workerVars, ThreadsStay
    <2>. QED
      BY <1>2, <2>1 DEF ClientStep, TryBind, NoAvailablePort, Announce, TakeTask, Send, RecvReply,
                        wireVars, workerVars, ThreadsStay
  <1>3. ASSUME NEW c \in Clients, Assign(c) \/ Refuse(c) \/ Tell(c) PROVE ThreadsStay
    BY <1>3 DEF Assign, Refuse, Tell, wireVars, workerVars, ThreadsStay
  <1>4. ASSUME NEW w \in Workers, Heartbeat(w) \/ WorkerDies(w) PROVE ThreadsStay
    BY <1>4 DEF Heartbeat, WorkerDies, CloseSocket, wireVars, workerVars, ThreadsStay
  <1>5. UNCHANGED vars => ThreadsStay
    BY DEF vars, wireVars, workerVars, ThreadsStay
  <1>. QED  BY <1>2, <1>3, <1>4, <1>5

\* Clients stay on their hosts, and what has ended early has ended.
LEMMA EarlyStays ==
  ASSUME TypeOK, [Next]_vars
  PROVE  host' = host /\ \A h : EndedEarly(h) => EndedEarly(h)'
  <1>1. host' = host
    BY DEF Next, ClientStep, ThreadStep, TryBind, NoAvailablePort, Announce, TakeTask, NoRedis, Send,
           RecvReply, Finish, Kill, Assign, Refuse, Tell, Heartbeat, WorkerDies, CreateSocket, Connect,
           RecvRequest, Register, hostVars, vars
  <1>2. \A c \in Clients : pc[c] \in {"failed", "killed"} => pc'[c] = pc[c]
    <2>1. UNCHANGED pc => \A c \in Clients : pc'[c] = pc[c]
      OBVIOUS
    <2>2. ASSUME NEW c \in Clients, ClientStep(c) \/ Kill(c), NEW d \in Clients,
                 pc[d] \in {"failed", "killed"}
          PROVE  pc'[d] = pc[d]
      BY <2>2 DEF ClientStep, TryBind, NoAvailablePort, Announce, TakeTask, NoRedis, Send,
           RecvReply, Finish, Kill, TypeOK
    <2>3. ASSUME NEW c \in Clients, Assign(c) \/ Refuse(c) \/ Tell(c) PROVE UNCHANGED pc
      BY <2>3 DEF Assign, Refuse, Tell, clientVars
    <2>4. ASSUME NEW w \in Workers, Heartbeat(w) \/ WorkerDies(w) PROVE UNCHANGED pc
      BY <2>4 DEF Heartbeat, WorkerDies, clientVars
    <2>5. ASSUME NEW t \in Threads, ThreadStep(t) PROVE UNCHANGED pc
      BY <2>5 DEF ThreadStep, CreateSocket, Connect, RecvRequest, Register, clientVars
    <2>6. UNCHANGED vars => UNCHANGED pc
      BY DEF vars, clientVars
    <2>. QED  BY <2>1, <2>2, <2>3, <2>4, <2>5, <2>6 DEF Next
  <1>. QED  BY <1>1, <1>2 DEF EndedEarly

-----------------------------------------------------------------------------
(* What the threads have read and registered *)

LEMMA ThreadNext == IInv /\ [Next]_vars => ThreadInv'
  <1> SUFFICES ASSUME IInv, [Next]_vars PROVE ThreadInv'
    OBVIOUS
  <1> USE SessionAssumption
  <1>0. TypeOK /\ ThreadInv /\ WireInv /\ host' = host
    BY EarlyStays DEF IInv
  <1>1. CASE ThreadsStay
    BY <1>0, <1>1 DEF ThreadsStay, ThreadInv, ThreadAt
  <1>2. ASSUME NEW t \in Threads, CreateSocket(t) PROVE ThreadInv'
    <2>1. /\ \A u \in Threads : u # t => /\ spc'[u] = spc[u] /\ clientIp'[u] = clientIp[u]
                                         /\ got'[u] = got[u]
          /\ spc'[t] = "id" /\ got'[t] = <<>> /\ clientIp'[t] = Head(m_tkPool[t[1]])
          /\ link' = link
      BY <1>0, <1>2 DEF CreateSocket, wireVars, TypeOK
    <2>2. Head(m_tkPool[t[1]]) \in Clients
      <3>1. m_tkPool[t[1]] \in Seq(Clients) /\ m_tkPool[t[1]] # <<>>
        BY <1>0, <1>2 DEF CreateSocket, Threads, TypeOK
      <3>. QED  BY <3>1, TakeAddress
    <2>. QED  BY <1>0, <2>1, <2>2 DEF ThreadInv, ThreadAt
  <1>3. ASSUME NEW t \in Threads, Connect(t) PROVE ThreadInv'
    BY <1>0, <1>3 DEF Connect, ThreadInv, ThreadAt, TypeOK
  <1>4. ASSUME NEW t \in Threads, RecvRequest(t) PROVE ThreadInv'
    <2>1. PICK c \in Clients : sentTo[c] = t /\ got' = [got EXCEPT ![t] = Append(@, <<c, step[c]>>)]
      BY <1>4 DEF RecvRequest
    <2>2. /\ UNCHANGED <<link, clientIp>> /\ spc[t] \in {"id", "data", "model"}
          /\ spc'[t] = After(spc[t])
          /\ got'[t] = Append(got[t], <<c, step[c]>>)
          /\ \A u \in Threads : u # t => spc'[u] = spc[u] /\ got'[u] = got[u]
      BY <1>0, <1>4, <2>1 DEF RecvRequest, TypeOK
    <2>3. clientIp[t] # None /\ host[c] = host[clientIp[t]]
      BY <1>0, <2>1 DEF WireInv
    <2>4. /\ Len(got'[t]) = Len(got[t]) + 1 /\ Len(got[t]) \in Nat
          /\ DOMAIN got'[t] = 1..(Len(got[t]) + 1) /\ DOMAIN got[t] = 1..Len(got[t])
          /\ got'[t][Len(got[t]) + 1] = <<c, step[c]>>
          /\ \A i \in 1..Len(got[t]) : got'[t][i] = got[t][i]
      <3>1. got[t] \in Seq(Requests) /\ <<c, step[c]>> \in Requests
        BY <1>0 DEF TypeOK, Requests
      <3>. QED  BY <2>2, <3>1, AppendAddress
    <2>5. \A i \in DOMAIN got'[t] : host[got'[t][i][1]] = host[clientIp[t]]
      <3>1. \A i \in 1..(Len(got[t]) + 1) : i = Len(got[t]) + 1 \/ i \in 1..Len(got[t])
        BY <2>4
      <3>. QED  BY <1>0, <2>3, <2>4, <3>1 DEF ThreadInv, ThreadAt
    <2>6. /\ spc[t] = "id" => spc'[t] = "data"
          /\ spc[t] = "data" => spc'[t] = "model"
          /\ spc[t] = "model" => spc'[t] = "register"
      BY <2>2 DEF After
    <2>7. /\ spc[t] = "id" => Len(got'[t]) = 1
          /\ spc[t] = "data" => Len(got'[t]) = 2
          /\ spc[t] = "model" => Len(got'[t]) = 3
      <3>1. /\ spc[t] = "id" => Len(got[t]) = 0
            /\ spc[t] = "data" => Len(got[t]) = 1
            /\ spc[t] = "model" => Len(got[t]) = 2
        BY <1>0 DEF ThreadInv, ThreadAt
      <3> DEFINE n == Len(got[t])
                 m == Len(got'[t])
      <3>2. m = n + 1 /\ n \in Nat
        BY <2>4
      <3>3. /\ n = 0 => m = 1
            /\ n = 1 => m = 2
            /\ n = 2 => m = 3
        <4> HIDE DEF n, m
        <4>. QED  BY <3>2
      <3>. QED  BY <3>1, <3>3
    <2>8. ASSUME NEW u \in Threads, u # t PROVE ThreadAt(u)'
      BY <1>0, <2>2, <2>8 DEF ThreadInv, ThreadAt
    <2>9. ThreadAt(t)'
      BY <1>0, <2>2, <2>3, <2>5, <2>6, <2>7 DEF ThreadInv, ThreadAt
    <2>. QED  BY <2>8, <2>9 DEF ThreadInv, ThreadAt
  <1>5. ASSUME NEW t \in Threads, Register(t) PROVE ThreadInv'
    <2>1. /\ \A u \in Threads : u # t => /\ spc'[u] = spc[u] /\ clientIp'[u] = clientIp[u]
                                         /\ got'[u] = got[u] /\ link'[u] = link[u]
          /\ spc'[t] = "idle" /\ got'[t] = <<>> /\ clientIp'[t] = None /\ link'[t] = None
      BY <1>0, <1>5 DEF Register, CloseSocket, TypeOK
    <2>. QED  BY <1>0, <2>1 DEF ThreadInv, ThreadAt
  <1>. QED  BY <1>0, <1>1, <1>2, <1>3, <1>4, <1>5, StayNext DEF Next, ThreadStep

\* What a thread registers is what the client it was called for has sent, unless a
\* client of the host ended early.
LEMMA RegisterNext == IInv /\ [Next]_vars => RegisteredIsOneTask'
  <1> SUFFICES ASSUME IInv, [Next]_vars PROVE RegisteredIsOneTask'
    OBVIOUS
  <1>0. /\ TypeOK /\ ThreadInv /\ RegisteredIsOneTask /\ \A c \in Clients : TurnInv(c)
        /\ host' = host /\ \A h : EndedEarly(h) => EndedEarly(h)'
    BY EarlyStays DEF IInv
  <1>1. CASE registered' \subseteq registered
    BY <1>0, <1>1 DEF RegisteredIsOneTask
  <1>2. ASSUME NEW t \in Threads, Register(t) PROVE RegisteredIsOneTask'
    <2> DEFINE c == clientIp[t]
    <2>1. registered' \subseteq registered \cup {got[t]} /\ spc[t] = "register"
      BY <1>2 DEF Register
    <2>2. c \in Clients /\ Len(got[t]) = 3 /\ host[got[t][1][1]] = host[c] /\ DOMAIN got[t] = 1..3
      <3>1. c \in Clients /\ Len(got[t]) = 3
        BY <1>0, <2>1 DEF ThreadInv, ThreadAt, TypeOK
      <3>2. DOMAIN got[t] = 1..3
        BY <1>0, <3>1, LenProperties DEF TypeOK
      <3>. QED  BY <1>0, <3>1, <3>2 DEF ThreadInv, ThreadAt
    <2>3. CASE EndedEarly(host[c])
      BY <1>0, <2>1, <2>2, <2>3 DEF RegisteredIsOneTask
    <2>4. CASE ~EndedEarly(host[c])
      <3>1. \A i \in 1..3 : got[t][i] = <<c, i>>
        BY <1>0, <2>2, <2>4 DEF TurnInv, InTurn, InStep
      <3>2. got[t] = <<<<c, 1>>, <<c, 2>>, <<c, 3>>>>
        <4> DEFINE g == <<<<c, 1>>, <<c, 2>>, <<c, 3>>>>
        <4>1. g \in Seq(Requests) /\ Len(g) = 3 /\ \A i \in 1..3 : g[i] = <<c, i>>
          BY <2>2 DEF Requests
        <4>2. got[t] \in Seq(Requests)
          BY <1>0 DEF TypeOK, Requests
        <4>3. Len(got[t]) = Len(g) /\ \A i \in 1..Len(got[t]) : got[t][i] = g[i]
          <5>1. Len(g) = 3 /\ g[1] = <<c, 1>> /\ g[2] = <<c, 2>> /\ g[3] = <<c, 3>>
            OBVIOUS
          <5> HIDE DEF g
          <5>2. \A i \in 1..3 : i = 1 \/ i = 2 \/ i = 3
            OBVIOUS
          <5>3. \A i \in 1..3 : got[t][i] = g[i]
            BY <3>1, <5>1, <5>2
          <5>. QED  BY <2>2, <5>1, <5>3
        <4> HIDE DEF g
        <4>4. got[t] = g
          BY <4>1, <4>2, <4>3, SeqEqual
        <4>. QED  BY <4>4 DEF g
      <3>. QED  BY <1>0, <2>1, <2>2, <3>2 DEF RegisteredIsOneTask
    <2>. QED  BY <2>3, <2>4
  <1>3. ASSUME NEW t \in Threads, CreateSocket(t) \/ Connect(t) \/ RecvRequest(t)
        PROVE  registered' = registered
    BY <1>3 DEF CreateSocket, Connect, RecvRequest
  <1>4. ThreadsStay => registered' = registered
    BY DEF ThreadsStay
  <1>. QED  BY <1>0, <1>1, <1>2, <1>3, <1>4, StayNext DEF Next, ThreadStep

-----------------------------------------------------------------------------
(* Ports, connections and requests *)

\* The connections and the requests that wait are with sockets of the client's host.
LEMMA WireNext == IInv /\ [Next]_vars => WireInv'
  <1> SUFFICES ASSUME IInv, [Next]_vars PROVE WireInv'
    OBVIOUS
  <1> USE SessionAssumption
  <1>0. TypeOK /\ ThreadInv /\ WireInv /\ host' = host
    BY EarlyStays DEF IInv
  <1>1. CASE UNCHANGED <<port, link, sentTo, clientIp>>
    BY <1>0, <1>1 DEF WireInv
  <1>2. ASSUME NEW c \in Clients, TryBind(c) PROVE WireInv'
    <2>1. CASE port[host[c]] = None /\ port' = [port EXCEPT ![host[c]] = c]
      <3>1. /\ UNCHANGED <<link, sentTo, clientIp>> /\ port'[host[c]] = c
            /\ \A h \in Hosts : h # host[c] => port'[h] = port[h]
        BY <1>0, <1>2, <2>1 DEF TryBind, wireVars, workerVars, TypeOK
      <3>2. \A t \in Threads : link[t] # None => host[link[t]] \in Hosts /\ host[link[t]] # host[c]
        BY <1>0, <2>1 DEF WireInv, TypeOK
      <3>. QED  BY <1>0, <3>1, <3>2 DEF WireInv
    <2>2. CASE UNCHANGED port
      BY <1>0, <1>2, <2>2 DEF TryBind, wireVars, workerVars, WireInv
    <2>. QED  BY <1>2, <2>1, <2>2 DEF TryBind
  <1>3. ASSUME NEW c \in Clients, NoRedis(c) \/ Finish(c) \/ Kill(c) PROVE WireInv'
    <2>1. /\ Close(c) /\ UNCHANGED clientIp
          /\ \A d \in Clients : sentTo'[d] = sentTo[d] \/ sentTo'[d] = None
      BY <1>0, <1>3 DEF NoRedis, Finish, Kill, workerVars, TypeOK
    <2>2. /\ \A h \in Hosts : port'[h] = IF port[h] = c THEN None ELSE port[h]
          /\ \A t \in Threads : link'[t] = IF link[t] = c THEN None ELSE link[t]
      BY <2>1 DEF Close
    <2>3. \A t \in Threads : link[t] # None => host[link[t]] \in Hosts
      BY <1>0 DEF TypeOK
    <2>. QED  BY <1>0, <2>1, <2>2, <2>3 DEF WireInv
  <1>4. ASSUME NEW c \in Clients, Send(c) PROVE WireInv'
    BY <1>0, <1>4 DEF Send, workerVars, WireInv, TypeOK
  <1>5. ASSUME NEW t \in Threads, CreateSocket(t) PROVE WireInv'
    <2>1. /\ UNCHANGED <<port, link, sentTo>> /\ clientIp[t] = None /\ link[t] = None
          /\ \A u \in Threads : u # t => clientIp'[u] = clientIp[u]
      BY <1>0, <1>5 DEF CreateSocket, clientVars, wireVars, ThreadInv, ThreadAt, TypeOK
    <2>2. \A u \in Threads : link[u] # None => u # t
      BY <2>1
    <2>3. \A d \in Clients : sentTo[d] # None => sentTo[d] # t /\ sentTo[d] \in Threads
      BY <1>0, <2>1 DEF WireInv, TypeOK
    <2>. QED  BY <1>0, <2>1, <2>2, <2>3 DEF WireInv
  <1>6. ASSUME NEW t \in Threads, Connect(t) PROVE WireInv'
    <2>1. /\ UNCHANGED <<port, sentTo, clientIp>> /\ clientIp[t] # None
          /\ \A u \in Threads : u # t => link'[u] = link[u]
          /\ link'[t] = port[host[clientIp[t]]] /\ link'[t] # None
      BY <1>0, <1>6 DEF Connect, clientVars, ThreadInv, ThreadAt, TypeOK
    <2>2. host[clientIp[t]] \in Hosts
      BY <1>0, <2>1 DEF TypeOK
    <2>. QED  BY <1>0, <2>1, <2>2 DEF WireInv
  <1>7. ASSUME NEW t \in Threads, RecvRequest(t) PROVE WireInv'
    <2>1. PICK c \in Clients : sentTo' = [sentTo EXCEPT ![c] = None]
      BY <1>7 DEF RecvRequest
    <2>. QED  BY <1>0, <1>7, <2>1 DEF RecvRequest, clientVars, WireInv, TypeOK
  <1>8. ASSUME NEW T \in SUBSET Threads, CloseSocket(T), UNCHANGED port,
               \A u \in Threads \ T : clientIp'[u] = clientIp[u]
        PROVE  WireInv'
    <2>1. /\ \A u \in Threads : link'[u] = IF u \in T THEN None ELSE link[u]
          /\ \A d \in Clients : sentTo'[d] = IF sentTo[d] \in T THEN None ELSE sentTo[d]
      BY <1>8 DEF CloseSocket
    <2>. QED  BY <1>0, <1>8, <2>1 DEF WireInv, TypeOK
  <1>9. ASSUME NEW t \in Threads, Register(t) PROVE WireInv'
    <2>1. /\ CloseSocket({t}) /\ UNCHANGED port
          /\ \A u \in Threads \ {t} : clientIp'[u] = clientIp[u]
      BY <1>0, <1>9 DEF Register, clientVars, TypeOK
    <2>. QED  BY <1>8, <2>1
  <1>10. ASSUME NEW w \in Workers, WorkerDies(w) PROVE WireInv'
    <2>1. /\ CloseSocket({w} \X Slots) /\ UNCHANGED <<port, clientIp>>
          /\ {w} \X Slots \in SUBSET Threads
      BY <1>10 DEF WorkerDies, clientVars, Threads
    <2>. QED  BY <1>8, <2>1
  <1>11. ASSUME NEW c \in Clients,
                \/ NoAvailablePort(c) \/ Announce(c) \/ TakeTask(c) \/ RecvReply(c)
                \/ Assign(c) \/ Refuse(c) \/ Tell(c)
         PROVE  UNCHANGED <<port, link, sentTo, clientIp>>
    BY <1>11 DEF NoAvailablePort, Announce, TakeTask, RecvReply, Assign, Refuse, Tell, clientVars,
                 wireVars, workerVars
  <1>12. /\ \A w \in Workers : Heartbeat(w) => UNCHANGED <<port, link, sentTo, clientIp>>
         /\ UNCHANGED vars => UNCHANGED <<port, link, sentTo, clientIp>>
    BY DEF Heartbeat, vars, clientVars, wireVars, workerVars
  <1>. QED
    BY <1>1, <1>2, <1>3, <1>4, <1>5, <1>6, <1>7, <1>9, <1>10, <1>11, <1>12
    DEF Next, ClientStep, ThreadStep

\* Nobody but a client's own steps takes its port away or moves it past it.
LEMMA TenantNext == IInv /\ [Next]_vars => TenantInv'
  <1> SUFFICES ASSUME IInv, [Next]_vars PROVE TenantInv'
    OBVIOUS
  <1> USE SessionAssumption
  <1>0. TypeOK /\ WireInv /\ TenantInv /\ host' = host
    BY EarlyStays DEF IInv
  <1>1. CASE UNCHANGED <<port, pc, asked>>
    BY <1>0, <1>1 DEF TenantInv
  <1>2. ASSUME NEW c \in Clients, TryBind(c) PROVE TenantInv'
    <2>1. CASE /\ port[host[c]] = None /\ port' = [port EXCEPT ![host[c]] = c]
               /\ pc' = [pc EXCEPT ![c] = "announce"]
      <3>1. /\ UNCHANGED asked /\ port'[host[c]] = c /\ pc'[c] = "announce"
            /\ \A d \in Clients : d # c => pc'[d] = pc[d]
            /\ \A h \in Hosts : h # host[c] => port'[h] = port[h]
        BY <1>0, <1>2, <2>1 DEF TryBind, dispatchVars, TypeOK
      <3>2. c \notin asked /\ host[c] \in Hosts
        BY <1>0, <1>2 DEF TryBind, TenantInv, TypeOK
      <3>3. ASSUME NEW d \in Clients, d # c, port[host[d]] = d PROVE port'[host[d]] = d
        <4>1. d # None /\ host[d] \in Hosts
          BY <1>0 DEF TypeOK
        <4>2. host[d] # host[c]
          BY <2>1, <3>3, <4>1
        <4>. QED  BY <3>1, <3>3, <4>1, <4>2
      <3>. QED  BY <1>0, <3>1, <3>2, <3>3 DEF TenantInv
    <2>2. CASE UNCHANGED <<port, pc>>
      BY <1>0, <1>1, <1>2, <2>2 DEF TryBind, dispatchVars
    <2>. QED  BY <1>2, <2>1, <2>2 DEF TryBind
  <1>3. ASSUME NEW c \in Clients, NoRedis(c) \/ Finish(c) \/ Kill(c) PROVE TenantInv'
    <2>1. /\ Close(c) /\ UNCHANGED asked /\ pc'[c] \in {"done", "failed", "killed"}
          /\ \A d \in Clients : d # c => pc'[d] = pc[d]
      BY <1>0, <1>3 DEF NoRedis, Finish, Kill, dispatchVars, TypeOK
    <2>2. \A d \in Clients : d # c /\ port[host[d]] = d => port'[host[d]] = d
      BY <1>0, <2>1 DEF Close, TypeOK
    <2>. QED  BY <1>0, <2>1, <2>2 DEF TenantInv
  <1>4. ASSUME NEW c \in Clients, Announce(c) PROVE TenantInv'
    <2>1. /\ UNCHANGED port /\ asked' = asked \cup {c} /\ pc[c] = "announce" /\ pc'[c] = "task"
          /\ \A d \in Clients : d # c => pc'[d] = pc[d]
      BY <1>0, <1>4 DEF Announce, D!Ask, TypeOK
    <2>. QED  BY <1>0, <2>1 DEF TenantInv
  <1>5. ASSUME NEW c \in Clients, NoAvailablePort(c) PROVE TenantInv'
    <2>1. /\ UNCHANGED <<port, asked>> /\ pc[c] = "bind" /\ pc'[c] = "task"
          /\ \A d \in Clients : d # c => pc'[d] = pc[d]
      BY <1>0, <1>5 DEF NoAvailablePort, dispatchVars, TypeOK
    <2>. QED  BY <1>0, <2>1 DEF TenantInv
  <1>6. ASSUME NEW c \in Clients, TakeTask(c) \/ Send(c) \/ RecvReply(c) PROVE TenantInv'
    <2>1. /\ UNCHANGED <<port, asked>> /\ pc[c] \in {"task", "send", "await"}
          /\ pc'[c] \in {"send", "await"}
          /\ \A d \in Clients : d # c => pc'[d] = pc[d]
      BY <1>0, <1>6 DEF TakeTask, Send, RecvReply, dispatchVars, TypeOK
    <2>. QED  BY <1>0, <2>1 DEF TenantInv
  <1>7. ASSUME NEW c \in Clients, Assign(c) \/ Refuse(c) \/ Tell(c) PROVE UNCHANGED <<port, pc, asked>>
    BY <1>7 DEF Assign, Refuse, Tell, D!Assign, D!Refuse, D!Tell, clientVars
  <1>8. ASSUME NEW w \in Workers, Heartbeat(w) \/ WorkerDies(w) PROVE UNCHANGED <<port, pc, asked>>
    BY <1>8 DEF Heartbeat, WorkerDies, D!Store, clientVars, dispatchVars
  <1>9. ASSUME NEW t \in Threads, ThreadStep(t) PROVE UNCHANGED <<port, pc, asked>>
    BY <1>9 DEF ThreadStep, CreateSocket, Connect, RecvRequest, Register, clientVars, dispatchVars
  <1>10. UNCHANGED vars => UNCHANGED <<port, pc, asked>>
    BY DEF vars, clientVars, dispatchVars
  <1>. QED
    BY <1>1, <1>2, <1>3, <1>4, <1>5, <1>6, <1>7, <1>8, <1>9, <1>10 DEF Next, ClientStep

-----------------------------------------------------------------------------
(* One thread for each client *)

\* A client's address is submitted once, and is with one thread.
LEMMA OnceNext == IInv /\ [Next]_vars => OnceInv'
  <1> SUFFICES ASSUME IInv, [Next]_vars PROVE OnceInv'
    OBVIOUS
  <1> USE SessionAssumption
  <1>0. TypeOK /\ ThreadInv /\ OnceInv
    BY DEF IInv
  <1>1. CASE UNCHANGED <<asked, assigned, taker, m_tkPool, clientIp>>
    BY <1>0, <1>1 DEF OnceInv
  <1>2. ASSUME NEW c \in Clients, Announce(c) PROVE OnceInv'
    <2>1. /\ UNCHANGED <<assigned, taker, m_tkPool, clientIp>> /\ asked' = asked \cup {c}
      BY <1>2 DEF Announce, D!Ask, workerVars
    <2>. QED  BY <1>0, <2>1 DEF OnceInv
  <1>3. ASSUME NEW c \in Clients, Assign(c) \/ Refuse(c) PROVE OnceInv'
    <2>1. /\ UNCHANGED <<asked, taker, m_tkPool, clientIp>> /\ c \in asked
          /\ \A d \in Clients : d # c => assigned'[d] = assigned[d]
      BY <1>0, <1>3 DEF Assign, Refuse, D!Assign, D!Refuse, workerVars, TypeOK
    <2>. QED  BY <1>0, <2>1 DEF OnceInv
  <1>4. ASSUME NEW c \in Clients, Tell(c) PROVE OnceInv'
    <2>1. PICK w \in Workers : D!Tell(c, w) /\ m_tkPool' = [m_tkPool EXCEPT ![w] = Append(@, c)]
      BY <1>4 DEF Tell
    <2>2. /\ UNCHANGED <<asked, assigned, clientIp>> /\ c \in asked
          /\ taker[c] = None /\ taker'[c] = w
          /\ \A d \in Clients : d # c => taker'[d] = taker[d]
      BY <1>0, <1>4, <2>1 DEF Tell, D!Tell, OnceInv, TypeOK
    <2>3. /\ m_tkPool'[w] = Append(m_tkPool[w], c) /\ m_tkPool[w] \in Seq(Clients)
          /\ \A v \in Workers : v # w => m_tkPool'[v] = m_tkPool[v]
      BY <1>0, <2>1 DEF TypeOK
    <2>4. /\ \A v \in Workers : c \notin Addresses(m_tkPool[v])
          /\ \A t \in Threads : clientIp[t] # c
      <3>1. \A v \in Workers : v # None
        OBVIOUS
      <3>2. \A t \in Threads : t[1] \in Workers
        BY DEF Threads
      <3>3. c # None
        OBVIOUS
      <3>. QED  BY <1>0, <2>2, <3>1, <3>2, <3>3 DEF OnceInv
    <2>5. /\ Addresses(m_tkPool'[w]) = Addresses(m_tkPool[w]) \cup {c}
          /\ Distinct(m_tkPool'[w])
      BY <1>0, <2>3, <2>4, AppendAddress DEF OnceInv
    <2>6. \A v \in Workers : \A d \in Addresses(m_tkPool[v]) : d \in Clients
      BY <1>0 DEF Addresses, TypeOK
    <2>7. ASSUME NEW v \in Workers
          PROVE  Distinct(m_tkPool'[v]) /\ \A d \in Addresses(m_tkPool'[v]) : taker'[d] = v
      <3>1. \A d \in Addresses(m_tkPool[v]) : d # c /\ d \in Clients /\ taker[d] = v
        BY <1>0, <2>4, <2>6 DEF OnceInv
      <3>2. CASE v = w
        BY <2>2, <2>5, <3>1, <3>2
      <3>3. CASE v # w
        BY <1>0, <2>2, <2>3, <3>1, <3>3 DEF OnceInv
      <3>. QED  BY <3>2, <3>3
    <2>8. ASSUME NEW t \in Threads, clientIp[t] # None
          PROVE  taker'[clientIp[t]] = t[1] /\ clientIp[t] \notin Addresses(m_tkPool'[t[1]])
      <3>1. clientIp[t] \in Clients /\ t[1] \in Workers
        BY <1>0, <2>8 DEF TypeOK, Threads
      <3>. QED  BY <1>0, <2>2, <2>3, <2>4, <2>5, <2>8, <3>1 DEF OnceInv
    <2>9. \A d \in Clients : assigned'[d] # None \/ taker'[d] # None => d \in asked'
      BY <1>0, <2>2 DEF OnceInv
    <2>10. \A t, u \in Threads : clientIp'[t] # None /\ clientIp'[t] = clientIp'[u] => t = u
      BY <1>0, <2>2 DEF OnceInv
    <2>. QED  BY <2>2, <2>7, <2>8, <2>9, <2>10 DEF OnceInv
  <1>5. ASSUME NEW t \in Threads, CreateSocket(t) PROVE OnceInv'
    <2> DEFINE q == m_tkPool[t[1]]
               c == Head(q)
    <2>1. t[1] \in Workers /\ q \in Seq(Clients) /\ q # <<>>
      BY <1>0, <1>5 DEF CreateSocket, Threads, TypeOK
    <2>2. /\ UNCHANGED <<asked, assigned, taker>> /\ clientIp'[t] = c
          /\ m_tkPool'[t[1]] = Tail(q) /\ clientIp[t] = None
          /\ \A v \in Workers : v # t[1] => m_tkPool'[v] = m_tkPool[v]
          /\ \A u \in Threads : u # t => clientIp'[u] = clientIp[u]
      BY <1>0, <1>5, <2>1 DEF CreateSocket, dispatchVars, ThreadInv, ThreadAt, TypeOK
    <2>3. /\ c \in Clients /\ c \in Addresses(q) /\ Addresses(Tail(q)) \subseteq Addresses(q)
          /\ Distinct(Tail(q)) /\ c \notin Addresses(Tail(q))
      BY <1>0, <2>1, TakeAddress DEF OnceInv
    <2>4. taker[c] = t[1] /\ \A u \in Threads : clientIp[u] # c
      <3>1. taker[c] = t[1]
        BY <1>0, <2>1, <2>3 DEF OnceInv
      <3>2. ASSUME NEW u \in Threads, clientIp[u] = c PROVE FALSE
        <4>1. clientIp[u] # None
          BY <2>3, <3>2
        <4>2. u[1] = t[1] /\ c \notin Addresses(m_tkPool[u[1]])
          BY <1>0, <3>1, <3>2, <4>1 DEF OnceInv
        <4>. QED  BY <2>3, <4>2
      <3>. QED  BY <3>1, <3>2
    <2> HIDE DEF c, q
    <2>5. ASSUME NEW v \in Workers
          PROVE  Distinct(m_tkPool'[v]) /\ \A d \in Addresses(m_tkPool'[v]) : taker'[d] = v
      <3>1. CASE v = t[1]
        BY <1>0, <2>1, <2>2, <2>3, <3>1 DEF OnceInv, q
      <3>2. CASE v # t[1]
        BY <1>0, <2>2, <3>2 DEF OnceInv
      <3>. QED  BY <3>1, <3>2
    <2>6. ASSUME NEW u \in Threads, clientIp'[u] # None
          PROVE  taker'[clientIp'[u]] = u[1] /\ clientIp'[u] \notin Addresses(m_tkPool'[u[1]])
      <3>1. CASE u = t
        BY <2>2, <2>3, <2>4, <3>1
      <3>2. CASE u # t
        <4>1. clientIp'[u] = clientIp[u] /\ u[1] \in Workers
          BY <2>2, <3>2 DEF Threads
        <4>2. taker[clientIp[u]] = u[1] /\ clientIp[u] \notin Addresses(m_tkPool[u[1]])
          BY <1>0, <2>6, <4>1 DEF OnceInv
        <4>3. Addresses(m_tkPool'[u[1]]) \subseteq Addresses(m_tkPool[u[1]])
          BY <2>2, <2>3, <4>1 DEF q
        <4>. QED  BY <2>2, <4>1, <4>2, <4>3
      <3>. QED  BY <3>1, <3>2
    <2>7. ASSUME NEW u \in Threads, NEW x \in Threads, clientIp'[u] # None, clientIp'[u] = clientIp'[x]
          PROVE  u = x
      BY <1>0, <2>2, <2>4, <2>7 DEF OnceInv
    <2>. QED  BY <1>0, <2>2, <2>5, <2>6, <2>7 DEF OnceInv
  <1>6. ASSUME NEW t \in Threads, Register(t) PROVE OnceInv'
    <2>1. /\ UNCHANGED <<asked, assigned, taker, m_tkPool>> /\ clientIp'[t] = None
          /\ \A u \in Threads : u # t => clientIp'[u] = clientIp[u]
      BY <1>0, <1>6 DEF Register, dispatchVars, TypeOK
    <2>. QED  BY <1>0, <2>1 DEF OnceInv
  <1>7. ASSUME NEW c \in Clients, TryBind(c) \/ NoAvailablePort(c) \/ TakeTask(c) \/ NoRedis(c)
                                  \/ Send(c) \/ RecvReply(c) \/ Finish(c) \/ Kill(c)
        PROVE  UNCHANGED <<asked, assigned, taker, m_tkPool, clientIp>>
    BY <1>7 DEF TryBind, NoAvailablePort, TakeTask, NoRedis, Send, RecvReply, Finish, Kill,
                dispatchVars, workerVars
  <1>8. ASSUME NEW w \in Workers, Heartbeat(w) \/ WorkerDies(w)
        PROVE  UNCHANGED <<asked, assigned, taker, m_tkPool, clientIp>>
    BY <1>8 DEF Heartbeat, WorkerDies, D!Store, dispatchVars, workerVars
  <1>9. ASSUME NEW t \in Threads, Connect(t) \/ RecvRequest(t)
        PROVE  UNCHANGED <<asked, assigned, taker, m_tkPool, clientIp>>
    BY <1>9 DEF Connect, RecvRequest, dispatchVars
  <1>10. UNCHANGED vars => UNCHANGED <<asked, assigned, taker, m_tkPool, clientIp>>
    BY DEF vars, dispatchVars, workerVars
  <1>. QED
    BY <1>1, <1>2, <1>3, <1>4, <1>5, <1>6, <1>7, <1>8, <1>9, <1>10
    DEF Next, ClientStep, ThreadStep

-----------------------------------------------------------------------------
(* Requests are read in turn *)

\* A session that has begun has begun for good.
LEMMA UntakenNext ==
  ASSUME TypeOK, [Next]_vars, NEW d \in Clients, Untaken(d)'
  PROVE  Untaken(d)
  <1> USE SessionAssumption
  <1>1. CASE UNCHANGED <<taker, m_tkPool>>
    BY <1>1 DEF Untaken
  <1>2. ASSUME NEW c \in Clients, Tell(c) PROVE Untaken(d)
    <2>1. PICK w \in Workers : D!Tell(c, w) /\ m_tkPool' = [m_tkPool EXCEPT ![w] = Append(@, c)]
      BY <1>2 DEF Tell
    <2>2. /\ m_tkPool'[w] = Append(m_tkPool[w], c) /\ m_tkPool[w] \in Seq(Clients)
          /\ \A v \in Workers : v # w => m_tkPool'[v] = m_tkPool[v]
          /\ taker[c] = None /\ (d # c => taker'[d] = taker[d])
      BY <2>1 DEF D!Tell, TypeOK
    <2>3. Addresses(m_tkPool'[w]) = Addresses(m_tkPool[w]) \cup {c}
      BY <2>2, AppendAddress
    <2>4. CASE d = c
      BY <2>2, <2>4 DEF Untaken
    <2>5. CASE d # c
      BY <2>2, <2>3, <2>5 DEF Untaken
    <2>. QED  BY <2>4, <2>5
  <1>3. ASSUME NEW t \in Threads, CreateSocket(t) PROVE Untaken(d)
    <2>1. t[1] \in Workers /\ m_tkPool[t[1]] \in Seq(Clients) /\ m_tkPool[t[1]] # <<>>
      BY <1>3 DEF CreateSocket, Threads, TypeOK
    <2>2. /\ UNCHANGED taker /\ m_tkPool'[t[1]] = Tail(m_tkPool[t[1]])
          /\ \A v \in Workers : v # t[1] => m_tkPool'[v] = m_tkPool[v]
      BY <1>3, <2>1 DEF CreateSocket, dispatchVars, TypeOK
    <2>3. Addresses(m_tkPool'[t[1]]) \subseteq Addresses(m_tkPool[t[1]])
      BY <2>1, <2>2, TakeAddress
    <2>. QED  BY <2>1, <2>2, <2>3 DEF Untaken
  <1>4. ASSUME NEW c \in Clients, ClientStep(c) \/ Kill(c) \/ Assign(c) \/ Refuse(c)
        PROVE  UNCHANGED <<taker, m_tkPool>>
    BY <1>4 DEF ClientStep, TryBind, NoAvailablePort, Announce, TakeTask, NoRedis, Send, RecvReply,
                Finish, Kill, Assign, Refuse, D!Ask, D!Assign, D!Refuse, dispatchVars, workerVars
  <1>5. ASSUME NEW w \in Workers, Heartbeat(w) \/ WorkerDies(w) PROVE UNCHANGED <<taker, m_tkPool>>
    BY <1>5 DEF Heartbeat, WorkerDies, D!Store, dispatchVars, workerVars
  <1>6. ASSUME NEW t \in Threads, Connect(t) \/ RecvRequest(t) \/ Register(t)
        PROVE  UNCHANGED <<taker, m_tkPool>>
    BY <1>6 DEF Connect, RecvRequest, Register, dispatchVars
  <1>7. UNCHANGED vars => UNCHANGED <<taker, m_tkPool>>
    BY DEF vars, dispatchVars, workerVars
  <1>. QED  BY <1>1, <1>2, <1>3, <1>4, <1>5, <1>6, <1>7 DEF Next, ThreadStep

\* While no client of its host ends early, only the thread that was called for a client
\* reads its requests, each once and in order.
LEMMA TurnNext ==
  ASSUME IInv, [Next]_vars, NEW d \in Clients, ~EndedEarly(host[d])'
  PROVE  InTurn(d)'
  <1> USE SessionAssumption
  <1>0. /\ TypeOK /\ ThreadInv /\ WireInv /\ TenantInv /\ OnceInv /\ host' = host
        /\ Untaken(d)' => Untaken(d)
    BY EarlyStays, UntakenNext DEF IInv
  <1>1. ASSUME NEW c \in Clients, host[c] = host[d]
        PROVE  InTurn(c) /\ pc[c] \notin {"failed", "killed"} /\ pc'[c] \notin {"failed", "killed"}
    <2>1. ~EndedEarly(host[d])
      BY <1>0, EarlyStays
    <2>2. pc[c] \notin {"failed", "killed"} /\ pc'[c] \notin {"failed", "killed"}
      BY <1>0, <1>1, <2>1 DEF EndedEarly
    <2>3. InTurn(c)
      BY <1>1, <2>1 DEF IInv, TurnInv
    <2>. QED  BY <2>2, <2>3
  <1>2. InTurn(d)
    BY <1>1
  <1>3. ASSUME NEW t \in Threads, clientIp[t] # None
        PROVE  clientIp[t] \in Clients /\ clientIp[t] \in asked /\ ~Untaken(clientIp[t])
    <2>1. clientIp[t] \in Clients /\ t[1] \in Workers /\ t[1] # None
      BY <1>0, <1>3 DEF TypeOK, Threads
    <2>. QED  BY <1>0, <1>3, <2>1 DEF OnceInv, Untaken
  <1>4. ASSUME step'[d] = step[d], answered'[d] = answered[d], pc'[d] = pc[d], sentTo'[d] = sentTo[d],
               UNCHANGED <<spc, clientIp, got, link>>
        PROVE  InTurn(d)'
    BY <1>0, <1>2, <1>4 DEF InTurn, RequestInv, InStep
  <1>5. ASSUME NEW c \in Clients, TryBind(c) \/ NoAvailablePort(c) \/ Announce(c) \/ TakeTask(c)
        PROVE  InTurn(d)'
    <2>1. /\ UNCHANGED <<step, sentTo, answered, link, spc, clientIp, got>>
          /\ c # d => pc'[d] = pc[d]
      BY <1>0, <1>5 DEF TryBind, NoAvailablePort, Announce, TakeTask, wireVars, workerVars, TypeOK
    <2>2. CASE c # d
      BY <1>4, <2>1, <2>2
    <2>3. CASE c = d /\ pc[d] \in {"bind", "announce"}
      <3>1. pc'[d] \in {"bind", "announce", "task"} /\ \A t \in Threads : clientIp[t] # d
        <4>1. d \notin asked
          BY <1>0, <2>3 DEF TenantInv
        <4>2. \A t \in Threads : clientIp[t] # d
          BY <1>3, <4>1
        <4>3. pc'[d] \in {"bind", "announce", "task"}
          BY <1>0, <1>5, <2>3 DEF TryBind, NoAvailablePort, Announce, TakeTask, TypeOK
        <4>. QED  BY <4>2, <4>3
      <3>. QED  BY <1>0, <1>2, <2>1, <2>3, <3>1 DEF InTurn, RequestInv
    <2>4. CASE c = d /\ pc[d] \notin {"bind", "announce"}
      <3>1. pc[d] = "task" /\ pc'[d] = "send"
        BY <1>0, <1>5, <2>4 DEF TryBind, NoAvailablePort, Announce, TakeTask, TypeOK
      <3>. QED  BY <1>0, <1>2, <2>1, <2>4, <3>1 DEF InTurn, RequestInv, InStep
    <2>. QED  BY <2>2, <2>3, <2>4
  <1>6. ASSUME NEW c \in Clients, Send(c) PROVE InTurn(d)'
    <2>1. PICK t \in Threads : link[t] = c /\ sentTo' = [sentTo EXCEPT ![c] = t]
      BY <1>6 DEF Send
    <2>2. /\ UNCHANGED <<step, answered, link, spc, clientIp, got>>
          /\ pc[c] = "send" /\ pc'[c] = "await" /\ sentTo'[c] = t
          /\ c # d => pc'[d] = pc[d] /\ sentTo'[d] = sentTo[d]
      BY <1>0, <1>6, <2>1 DEF Send, workerVars, TypeOK
    <2>3. CASE c # d
      BY <1>4, <2>2, <2>3
    <2>4. CASE c = d
      BY <1>0, <1>2, <2>1, <2>2, <2>4 DEF InTurn, RequestInv, InStep
    <2>. QED  BY <2>3, <2>4
  <1>7. ASSUME NEW c \in Clients, RecvReply(c) PROVE InTurn(d)'
    <2>1. /\ UNCHANGED <<sentTo, link, spc, clientIp, got>>
          /\ pc[c] = "await" /\ answered[c] = TRUE
          /\ pc'[c] = "send" /\ answered'[c] = FALSE /\ step'[c] = step[c] + 1
          /\ c # d => pc'[d] = pc[d] /\ answered'[d] = answered[d] /\ step'[d] = step[d]
      BY <1>0, <1>7 DEF RecvReply, workerVars, TypeOK
    <2>2. CASE c # d
      BY <1>4, <2>1, <2>2
    <2>3. CASE c = d
      <3>1. RequestInv(d)'
        BY <1>0, <1>2, <2>1, <2>3 DEF InTurn, RequestInv
      <3>2. ASSUME NEW t \in Threads, clientIp[t] = d PROVE InStep(d, t)'
        <4>1. Len(got[t]) = step[d] /\ sentTo[d] = None
          BY <1>2, <2>1, <2>3, <3>2 DEF InTurn, RequestInv, InStep
        <4>. QED  BY <1>2, <2>1, <2>3, <3>2, <4>1 DEF InTurn, InStep
      <3>. QED  BY <1>2, <2>1, <3>1, <3>2 DEF InTurn
    <2>. QED  BY <2>2, <2>3
  <1>8. ASSUME NEW c \in Clients, NoRedis(c) \/ Finish(c) \/ Kill(c) PROVE InTurn(d)'
    <2>1. /\ UNCHANGED <<step, spc, clientIp, got>> /\ pc'[c] \in {"done", "failed", "killed"}
          /\ \A t \in Threads : link'[t] = IF link[t] = c THEN None ELSE link[t]
          /\ answered'[c] = FALSE
          /\ c # d => pc'[d] = pc[d] /\ answered'[d] = answered[d] /\ sentTo'[d] = sentTo[d]
      BY <1>0, <1>8 DEF NoRedis, Finish, Kill, Close, workerVars, TypeOK
    <2>2. CASE c # d
      <3>1. RequestInv(d)'
        BY <1>0, <1>2, <2>1, <2>2 DEF InTurn, RequestInv, TypeOK
      <3>2. ASSUME NEW t \in Threads, clientIp[t] = d PROVE InStep(d, t)'
        BY <1>2, <2>1, <2>2, <3>2 DEF InTurn, InStep
      <3>. QED  BY <1>2, <2>1, <3>1, <3>2 DEF InTurn
    <2>3. CASE c = d
      <3>1. Finish(d) /\ pc'[d] = "done"
        BY <1>0, <1>1, <1>8, <2>1, <2>3 DEF NoRedis, Kill, TypeOK
      <3>2. pc[d] = "await" /\ answered[d] = TRUE /\ step[d] = 3 /\ UNCHANGED sentTo
        BY <1>0, <3>1 DEF Finish, TypeOK
      <3>3. sentTo[d] = None /\ ~Untaken(d)
        BY <1>2, <3>2 DEF InTurn, RequestInv
      <3>4. RequestInv(d)'
        BY <1>0, <2>1, <2>3, <3>1, <3>2, <3>3 DEF RequestInv
      <3>5. ASSUME NEW t \in Threads, clientIp[t] = d PROVE InStep(d, t)'
        <4>1. Len(got[t]) = 3 /\ \A i \in DOMAIN got[t] : got[t][i] = <<d, i>>
          BY <1>2, <3>2, <3>5 DEF InTurn, InStep
        <4>. QED  BY <2>1, <2>3, <3>1, <3>2, <3>3, <4>1 DEF InStep
      <3>. QED  BY <1>2, <2>1, <2>3, <3>4, <3>5 DEF InTurn
    <2>. QED  BY <2>2, <2>3
  <1>9. ASSUME NEW c \in Clients, Assign(c) \/ Refuse(c) \/ Tell(c) PROVE InTurn(d)'
    BY <1>4, <1>9 DEF Assign, Refuse, Tell, clientVars, wireVars, workerVars
  <1>10. ASSUME NEW w \in Workers, Heartbeat(w) PROVE InTurn(d)'
    BY <1>4, <1>10 DEF Heartbeat, clientVars, wireVars, workerVars
  <1>11. CASE UNCHANGED vars
    BY <1>4, <1>11 DEF vars, clientVars, wireVars, workerVars
  <1>12. ASSUME NEW t \in Threads, CreateSocket(t) PROVE InTurn(d)'
    <2> DEFINE q == m_tkPool[t[1]]
    <2>1. /\ UNCHANGED <<pc, step, sentTo, answered, link>> /\ clientIp'[t] = Head(q) /\ got'[t] = <<>>
          /\ link[t] = None
          /\ \A u \in Threads : u # t => /\ clientIp'[u] = clientIp[u] /\ got'[u] = got[u]
                                       /\ spc'[u] = spc[u]
      BY <1>0, <1>12 DEF CreateSocket, clientVars, wireVars, ThreadInv, ThreadAt, TypeOK
    <2>2. RequestInv(d)'
      BY <1>0, <1>2, <2>1 DEF InTurn, RequestInv
    <2>3. ASSUME NEW u \in Threads, clientIp'[u] = d PROVE InStep(d, u)'
      <3>1. CASE u # t
        BY <1>2, <2>1, <2>3, <3>1 DEF InTurn, InStep
      <3>2. CASE u = t
        <4>1. Untaken(d)
          <5>1. t[1] \in Workers /\ q \in Seq(Clients) /\ q # <<>>
            BY <1>0, <1>12 DEF CreateSocket, Threads, TypeOK
          <5>2. Head(q) \in Addresses(q)
            BY <5>1, TakeAddress
          <5>. QED  BY <2>1, <2>3, <3>2, <5>1, <5>2 DEF Untaken
        <4>2. step'[d] = 1 /\ answered'[d] = FALSE /\ pc'[d] # "done"
          BY <1>2, <2>1, <4>1 DEF InTurn, RequestInv
        <4>3. Len(got'[t]) = 0 /\ DOMAIN got'[t] = {} /\ 0 + 1 = 1
          <5>1. Len(<<>>) = 0 /\ <<>> \in Seq(Requests)
            BY EmptySeq
          <5>2. DOMAIN <<>> = 1..0
            BY <5>1, LenProperties
          <5>. QED  BY <2>1, <5>1, <5>2
        <4>. QED  BY <3>2, <4>2, <4>3 DEF InStep
      <3>. QED  BY <3>1, <3>2
    <2>4. \A u \in Threads : link[u] = d => u # t
      BY <2>1
    <2>. QED  BY <1>2, <2>1, <2>2, <2>3, <2>4 DEF InTurn
  <1>13. ASSUME NEW t \in Threads, Connect(t) PROVE InTurn(d)'
    <2> DEFINE c == clientIp[t]
    <2>1. /\ UNCHANGED <<pc, step, sentTo, answered, spc, clientIp, got>> /\ link[t] = None
          /\ link'[t] = port[host[c]] /\ spc[t] # "idle" /\ link'[t] # None
          /\ \A u \in Threads : u # t => link'[u] = link[u]
      BY <1>0, <1>13 DEF Connect, clientVars, TypeOK
    <2>2. RequestInv(d)'
      <3>1. sentTo[d] # None => sentTo[d] \in Threads /\ link[sentTo[d]] = d /\ d # None
        BY <1>0, <1>2 DEF InTurn, RequestInv, TypeOK
      <3>2. sentTo[d] # None => link'[sentTo[d]] = d
        BY <2>1, <3>1
      <3>. QED  BY <1>0, <1>2, <2>1, <3>2 DEF InTurn, RequestInv
    <2>3. \A u \in Threads : clientIp[u] = d => InStep(d, u)'
      BY <1>2, <2>1 DEF InTurn, InStep
    <2>4. ASSUME link'[t] = d, c # d PROVE spc[t] = "register"
      <3>1. c \in Clients /\ c \in asked /\ c # None
        <4>1. c # None
          BY <1>0, <2>1 DEF ThreadInv, ThreadAt
        <4>. QED  BY <1>3, <4>1
      <3>2. host[c] = host[d]
        <4>1. host[c] \in Hosts
          BY <1>0, <3>1 DEF TypeOK
        <4>2. port[host[c]] # None => host[port[host[c]]] = host[c]
          BY <1>0, <4>1 DEF WireInv
        <4>. QED  BY <2>1, <2>4, <4>2
      <3>3. pc[c] = "done"
        <4>1. pc[c] \notin {"bind", "announce", "task", "send", "await"}
          BY <1>0, <2>1, <2>4, <3>1 DEF TenantInv
        <4>. QED  BY <1>0, <1>1, <3>1, <3>2, <4>1 DEF TypeOK, ClientPC
      <3>4. Len(got[t]) = 3
        BY <1>1, <3>1, <3>2, <3>3 DEF InTurn, InStep
      <3>5. ThreadAt(t) /\ spc[t] \in {"idle", "id", "data", "model", "register"}
        BY <1>0 DEF ThreadInv, TypeOK
      <3>. QED  BY <2>1, <3>4, <3>5 DEF ThreadAt
    <2>. QED  BY <1>2, <2>1, <2>2, <2>3, <2>4 DEF InTurn
  <1>14. ASSUME NEW t \in Threads, RecvRequest(t) PROVE InTurn(d)'
    <2>1. PICK c \in Clients : /\ sentTo[c] = t /\ sentTo' = [sentTo EXCEPT ![c] = None]
                               /\ answered' = [answered EXCEPT ![c] = (link[t] = c)]
                               /\ got' = [got EXCEPT ![t] = Append(@, <<c, step[c]>>)]
      BY <1>14 DEF RecvRequest
    <2>2. /\ UNCHANGED <<pc, step, link, clientIp>> /\ spc[t] \in {"id", "data", "model"}
          /\ sentTo'[c] = None /\ answered'[c] = (link[t] = c)
          /\ c # d => answered'[d] = answered[d] /\ sentTo'[d] = sentTo[d]
          /\ got'[t] = Append(got[t], <<c, step[c]>>)
          /\ \A u \in Threads : u # t => got'[u] = got[u] /\ spc'[u] = spc[u]
      BY <1>0, <1>14, <2>1 DEF RecvRequest, clientVars, TypeOK
    <2>3. ASSUME host[c] = host[d] PROVE clientIp[t] = c /\ link[t] = c
      <3>1. link[t] = c
        BY <1>1, <2>1, <2>3 DEF InTurn, RequestInv
      <3>. QED  BY <1>1, <2>2, <2>3, <3>1 DEF InTurn
    <2>4. ASSUME NEW u \in Threads, link[u] = d, clientIp[u] # d PROVE spc'[u] = "register"
      BY <1>2, <2>2, <2>4 DEF InTurn
    <2>5. CASE c # d
      <3>1. clientIp[t] # d
        BY <1>0, <2>1, <2>3, <2>5 DEF WireInv
      <3>2. RequestInv(d)'
        BY <1>0, <1>2, <2>2, <2>5 DEF InTurn, RequestInv
      <3>3. ASSUME NEW u \in Threads, clientIp[u] = d PROVE InStep(d, u)'
        BY <1>2, <2>2, <2>5, <3>1, <3>3 DEF InTurn, InStep
      <3>. QED  BY <2>2, <2>4, <3>2, <3>3 DEF InTurn
    <2>6. CASE c = d
      <3>1. clientIp[t] = d /\ link[t] = d
        BY <2>3, <2>6
      <3>2. pc[d] = "await" /\ ~Untaken(d)
        <4>1. pc[d] = "await"
          BY <1>2, <2>1, <2>6 DEF InTurn, RequestInv
        <4>. QED  BY <1>3, <3>1, <4>1
      <3>3. RequestInv(d)'
        BY <1>0, <2>2, <2>6, <3>1, <3>2 DEF RequestInv
      <3>4. InStep(d, t) /\ Len(got[t]) + 1 = step[d] /\ \A i \in DOMAIN got[t] : got[t][i] = <<d, i>>
        BY <1>2, <2>1, <2>6, <3>1 DEF InTurn, InStep
      <3>5. /\ Len(got'[t]) = step[d]
            /\ \A i \in DOMAIN got'[t] : got'[t][i] = <<d, i>>
        <4>1. got[t] \in Seq(Requests) /\ <<d, step[d]>> \in Requests
          BY <1>0 DEF TypeOK, Requests
        <4>2. /\ Len(got'[t]) = Len(got[t]) + 1 /\ Len(got[t]) \in Nat
              /\ DOMAIN got'[t] = 1..(Len(got[t]) + 1) /\ DOMAIN got[t] = 1..Len(got[t])
              /\ got'[t][Len(got[t]) + 1] = <<d, step[d]>>
              /\ \A i \in 1..Len(got[t]) : got'[t][i] = got[t][i]
          BY <2>2, <2>6, <4>1, AppendAddress
        <4>3. \A i \in 1..(Len(got[t]) + 1) : i = Len(got[t]) + 1 \/ i \in 1..Len(got[t])
          BY <4>2
        <4>. QED  BY <3>4, <4>2, <4>3
      <3>6. InStep(d, t)'
        BY <2>2, <2>6, <3>2, <3>5 DEF InStep
      <3>7. \A u \in Threads : clientIp[u] = d => u = t
        <4>1. d # None
          OBVIOUS
        <4>. QED  BY <1>0, <3>1, <4>1 DEF OnceInv
      <3>. QED  BY <2>2, <2>4, <3>3, <3>6, <3>7 DEF InTurn
    <2>. QED  BY <2>5, <2>6
  <1>15. ASSUME NEW T \in SUBSET Threads, CloseSocket(T),
                UNCHANGED <<pc, step, answered>>,
                \A u \in T : clientIp'[u] \in {None, clientIp[u]},
                \A u \in Threads : clientIp'[u] # None => clientIp'[u] = clientIp[u] /\ got'[u] = got[u],
                \A u \in Threads \ T : clientIp'[u] = clientIp[u] /\ spc'[u] = spc[u]
         PROVE  InTurn(d)'
    <2>1. /\ \A u \in Threads : link'[u] = IF u \in T THEN None ELSE link[u]
          /\ sentTo'[d] = IF sentTo[d] \in T THEN None ELSE sentTo[d]
      BY <1>15 DEF CloseSocket
    <2>2. RequestInv(d)'
      BY <1>0, <1>2, <1>15, <2>1 DEF InTurn, RequestInv, TypeOK
    <2>3. ASSUME NEW u \in Threads, clientIp'[u] = d PROVE InStep(d, u)'
      <3>1. clientIp[u] = d /\ got'[u] = got[u]
        BY <1>15, <2>3
      <3>2. sentTo'[d] = u => sentTo[d] = u
        BY <2>1
      <3>. QED  BY <1>2, <1>15, <3>1, <3>2 DEF InTurn, InStep
    <2>4. ASSUME NEW u \in Threads, link'[u] = d, clientIp'[u] # d PROVE spc'[u] = "register"
      <3>1. u \notin T /\ link[u] = d
        BY <2>1, <2>4
      <3>. QED  BY <1>2, <1>15, <2>4, <3>1 DEF InTurn
    <2>. QED  BY <2>2, <2>3, <2>4 DEF InTurn
  <1>16. ASSUME NEW t \in Threads, Register(t) PROVE InTurn(d)'
    <2>1. /\ CloseSocket({t}) /\ UNCHANGED <<pc, step, answered>> /\ clientIp'[t] = None
          /\ \A u \in Threads \ {t} : clientIp'[u] = clientIp[u] /\ spc'[u] = spc[u] /\ got'[u] = got[u]
      BY <1>0, <1>16 DEF Register, clientVars, TypeOK
    <2>. QED  BY <1>15, <2>1
  <1>17. ASSUME NEW w \in Workers, WorkerDies(w) PROVE InTurn(d)'
    <2>1. /\ CloseSocket({w} \X Slots) /\ UNCHANGED <<pc, step, answered, spc, clientIp, got>>
          /\ {w} \X Slots \in SUBSET Threads
      BY <1>17 DEF WorkerDies, clientVars, Threads
    <2>. QED  BY <1>15, <2>1
  <1>. QED
    BY <1>5, <1>6, <1>7, <1>8, <1>9, <1>10, <1>11, <1>12, <1>13, <1>14, <1>16, <1>17
    DEF Next, ClientStep, ThreadStep

-----------------------------------------------------------------------------
(* The theorems *)

LEMMA IInvInit == Init => IInv
  <1> SUFFICES ASSUME Init PROVE IInv
    OBVIOUS
  <1> USE SessionAssumption
  <1>1. TypeOK
    BY TypeInit
  <1>2. Len(<<>>) = 0 /\ DOMAIN <<>> = {}
    <2>1. Len(<<>>) = 0 /\ <<>> \in Seq(Clients)
      BY EmptySeq
    <2>2. DOMAIN <<>> = 1..0
      BY <2>1, LenProperties
    <2>. QED  BY <2>1, <2>2
  <1>3. ThreadInv
    BY <1>2 DEF Init, ThreadInv, ThreadAt
  <1>4. WireInv
    BY DEF Init, WireInv
  <1>5. TenantInv
    BY DEF Init, D!Init, TenantInv
  <1>6. OnceInv
    <2>1. \A w \in Workers : Addresses(m_tkPool[w]) = {} /\ Distinct(m_tkPool[w])
      BY <1>2 DEF Init, Addresses, Distinct
    <2>2. /\ \A c \in Clients : assigned[c] = None /\ taker[c] = None
          /\ \A t \in Threads : clientIp[t] = None
      BY DEF Init, D!Init
    <2>. QED  BY <2>1, <2>2 DEF OnceInv
  <1>7. \A c \in Clients : TurnInv(c)
    BY DEF Init, TurnInv, InTurn, RequestInv
  <1>8. RegisteredIsOneTask
    BY DEF Init, RegisteredIsOneTask
  <1>. QED  BY <1>1, <1>3, <1>4, <1>5, <1>6, <1>7, <1>8 DEF IInv

LEMMA IInvNext == IInv /\ [Next]_vars => IInv'
  <1> SUFFICES ASSUME IInv, [Next]_vars PROVE IInv'
    OBVIOUS
  <1>1. TypeOK'
    BY TypeNext DEF IInv
  <1>2. ThreadInv' /\ WireInv' /\ TenantInv' /\ OnceInv' /\ RegisteredIsOneTask'
    BY ThreadNext, WireNext, TenantNext, OnceNext, RegisterNext
  <1>3. \A c \in Clients : TurnInv(c)'
    BY TurnNext DEF TurnInv
  <1>. QED  BY <1>1, <1>2, <1>3 DEF IInv

\* The invariant above holds of every session the broker, the clients and the threads
\* of the workers can get into.
THEOREM IInvHolds == Spec => []IInv
  <1>. QED  BY IInvInit, IInvNext, PTL DEF Spec

\* The variables of the client, the broker and the threads keep their types.
THEOREM TypeCorrect == Spec => []TypeOK
  <1>1. IInv => TypeOK
    BY DEF IInv
  <1>. QED  BY <1>1, IInvHolds, PTL

\* CreateSocket pushes one client's id, data and model on receive-task, in this order,
\* unless a client of the host has ended early.
THEOREM RegisteredIsOneClients == Spec => []RegisteredIsOneTask
  <1>1. IInv => RegisteredIsOneTask
    BY DEF IInv
  <1>. QED  BY <1>1, IInvHolds, PTL

\* No thread waits for more from a client whose ToBroker has returned, unless a client
\* of the host has ended early: nobody would ever send it anything.
THEOREM NobodyIsStranded == Spec => []NoThreadIsStranded
  <1>1. ASSUME IInv PROVE NoThreadIsStranded
    <2>1. ASSUME NEW t \in Threads, spc[t] \in {"id", "data", "model"}, pc[clientIp[t]] = "done"
          PROVE  EndedEarly(host[clientIp[t]])
      <3>1. ThreadAt(t) /\ TypeOK
        BY <1>1 DEF IInv, ThreadInv
      <3>2. clientIp[t] \in Clients /\ Len(got[t]) # 3
        <4>1. clientIp[t] \in Clients
          BY <2>1, <3>1 DEF ThreadAt, TypeOK
        <4>2. Len(got[t]) \in {0, 1, 2}
          BY <2>1, <3>1 DEF ThreadAt
        <4>. QED  BY <4>1, <4>2
      <3>. QED  BY <1>1, <2>1, <3>2 DEF IInv, TurnInv, InTurn, InStep
    <2>. QED  BY <2>1 DEF NoThreadIsStranded
  <1>. QED  BY <1>1, IInvHolds, PTL

\* A client is served by one thread: CreateSocket is called with its address by no two
\* threads, and not again while one is at it.
THEOREM ServedByOneThread ==
  Spec => [](\A t, u \in Threads :
               clientIp[t] # None /\ clientIp[t] = clientIp[u] =>
                 t = u /\ \A w \in Workers : clientIp[t] \notin Addresses(m_tkPool[w]))
  <1>1. IInv => \A t, u \in Threads :
                  clientIp[t] # None /\ clientIp[t] = clientIp[u] =>
                    t = u /\ \A w \in Workers : clientIp[t] \notin Addresses(m_tkPool[w])
    <2> SUFFICES ASSUME IInv, NEW t \in Threads, clientIp[t] # None
                 PROVE  \A w \in Workers : clientIp[t] \notin Addresses(m_tkPool[w])
      BY DEF IInv, OnceInv
    <2>1. taker[clientIp[t]] = t[1] /\ clientIp[t] \notin Addresses(m_tkPool[t[1]])
      BY DEF IInv, OnceInv
    <2>. QED  BY <2>1 DEF IInv, OnceInv
  <1>. QED  BY <1>1, IInvHolds, PTL

-----------------------------------------------------------------------------
(* Who waits for whom *)

\* A client that goes on without having asked the broker has used up its attempts.
AskedInv(c) ==
  c \in asked \/ pc[c] \in {"bind", "announce", "failed", "killed"} \/ tries[c] = Tries

\* The worker that is told of a client is the one that was picked.
TakenInv(c) == taker[c] # None => taker[c] = assigned[c]

\* A thread connected to a client it was not called for is remembered.
StrayInv == \A t \in Threads : link[t] # None /\ link[t] # clientIp[t] => link[t] \in strayed

InPool(c) == \E w \in Workers : c \in Addresses(m_tkPool[w])

\* The client has been told that all of its task arrived.
Ending(c) == pc[c] = "done" \/ (pc[c] = "await" /\ answered[c] = TRUE /\ step[c] = 3)

\* A client that waits has its request or the answer under way; one that a worker was told
\* of is in its pool, or with a thread, until it has the last answer.
ServedInv(c) ==
  /\ pc[c] = "await" => sentTo[c] # None \/ answered[c] = TRUE
  /\ taker[c] # None => InPool(c) \/ Ending(c) \/ \E t \in Threads : clientIp[t] = c

WaitInv ==
  /\ StrayInv
  /\ \A c \in Clients : AskedInv(c) /\ TakenInv(c) /\ (Disturbed(c) \/ ServedInv(c))

\* A worker that was picked stays picked, what has died has died, and a session that is
\* disturbed stays so.
LEMMA DisturbedStays ==
  ASSUME TypeOK, [Next]_vars, NEW d \in Clients
  PROVE  /\ assigned[d] # None => assigned'[d] = assigned[d]
         /\ Disturbed(d) => Disturbed(d)'
  <1> USE SessionAssumption
  <1>1. host' = host /\ enp' = enp /\ \A h : EndedEarly(h) => EndedEarly(h)'
    <2>1. UNCHANGED enp
      BY DEF Next, ClientStep, ThreadStep, TryBind, NoAvailablePort, Announce, TakeTask, NoRedis, Send,
             RecvReply, Finish, Kill, Assign, Refuse, Tell, Heartbeat, WorkerDies, CreateSocket, Connect,
             RecvRequest, Register, hostVars, vars
    <2>. QED  BY <2>1, EarlyStays
  <1>2. tries[d] # 0 => tries'[d] # 0
    <2>1. ASSUME NEW c \in Clients, TryBind(c) PROVE tries[d] # 0 => tries'[d] # 0
      <3>1. UNCHANGED tries \/ tries' = [tries EXCEPT ![c] = tries[c] + 1]
        BY <2>1 DEF TryBind
      <3>2. tries \in [Clients -> 0..Tries] /\ tries[c] \in Nat
        BY DEF TypeOK
      <3>. QED  BY <3>1, <3>2
    <2>2. \/ UNCHANGED tries
          \/ \E c \in Clients : TryBind(c)
      BY DEF Next, ClientStep, ThreadStep, NoAvailablePort, Announce, TakeTask, NoRedis, Send,
             RecvReply, Finish, Kill, Assign, Refuse, Tell, Heartbeat, WorkerDies, CreateSocket, Connect,
             RecvRequest, Register, clientVars, vars
    <2>. QED  BY <2>1, <2>2
  <1>3. strayed \subseteq strayed' /\ down \subseteq down'
    BY DEF Next, ClientStep, ThreadStep, TryBind, NoAvailablePort, Announce, TakeTask, NoRedis, Send,
           RecvReply, Finish, Kill, Assign, Refuse, Tell, Heartbeat, WorkerDies, CreateSocket, Connect,
           RecvRequest, Register, workerVars, vars
  <1>4. assigned[d] # None => assigned'[d] = assigned[d]
    <2>1. ASSUME NEW c \in Clients, Assign(c) PROVE assigned[d] # None => assigned'[d] = assigned[d]
      BY <2>1 DEF Assign, D!Assign, TypeOK
    <2>2. UNCHANGED assigned \/ \E c \in Clients : Assign(c)
      BY DEF Next, ClientStep, ThreadStep, TryBind, NoAvailablePort, Announce, TakeTask, NoRedis, Send,
             RecvReply, Finish, Kill, Refuse, Tell, Heartbeat, WorkerDies, CreateSocket, Connect,
             RecvRequest, Register, dispatchVars, vars, D!Ask, D!Refuse, D!Tell, D!Store
    <2>. QED  BY <2>1, <2>2
  <1>5. assigned[d] \in down => assigned'[d] \in down'
    BY <1>3, <1>4 DEF TypeOK
  <1>6. refused \subseteq refused'
    <2>1. ASSUME NEW c \in Clients, Refuse(c) PROVE refused \subseteq refused'
      BY <2>1 DEF Refuse, D!Refuse
    <2>2. UNCHANGED refused \/ \E c \in Clients : Refuse(c)
      BY DEF Next, ClientStep, ThreadStep, TryBind, NoAvailablePort, Announce, TakeTask, NoRedis, Send,
             RecvReply, Finish, Kill, Assign, Tell, Heartbeat, WorkerDies, CreateSocket, Connect,
             RecvRequest, Register, dispatchVars, vars, D!Ask, D!Assign, D!Tell, D!Store
    <2>. QED  BY <2>1, <2>2
  <1>. QED  BY <1>1, <1>2, <1>3, <1>4, <1>5, <1>6 DEF Disturbed, Reachable

LEMMA AskedNext ==
  ASSUME TypeOK, [Next]_vars, NEW d \in Clients, AskedInv(d), TakenInv(d)
  PROVE  AskedInv(d)' /\ TakenInv(d)'
  <1> USE SessionAssumption
  <1>1. TakenInv(d)'
    <2>1. ASSUME NEW c \in Clients, Tell(c) PROVE TakenInv(d)'
      <3>1. PICK w \in Workers : D!Tell(c, w)
        BY <2>1 DEF Tell
      <3>. QED  BY <3>1 DEF D!Tell, TakenInv, TypeOK
    <2>2. UNCHANGED taker \/ \E c \in Clients : Tell(c)
      BY DEF Next, ClientStep, ThreadStep, TryBind, NoAvailablePort, Announce, TakeTask, NoRedis, Send,
             RecvReply, Finish, Kill, Assign, Refuse, Heartbeat, WorkerDies, CreateSocket, Connect,
             RecvRequest, Register, dispatchVars, vars, D!Ask, D!Assign, D!Refuse, D!Store
    <2>. QED  BY <2>1, <2>2, DisturbedStays DEF TakenInv
  <1>2. AskedInv(d)'
    <2>1. CASE UNCHANGED <<asked, pc, tries>>
      BY <2>1 DEF AskedInv
    <2>2. ASSUME NEW c \in Clients, ClientStep(c) \/ Kill(c) PROVE AskedInv(d)'
      <3>1. CASE TryBind(c)
        <4>1. /\ UNCHANGED asked /\ pc[c] = "bind"
              /\ \A e \in Clients : e # c => pc'[e] = pc[e] /\ tries'[e] = tries[e]
              /\ pc'[c] \in {"bind", "announce"}
          BY <3>1 DEF TryBind, dispatchVars, TypeOK
        <4>. QED  BY <4>1 DEF AskedInv
      <3>2. CASE NoAvailablePort(c)
        BY <3>2 DEF NoAvailablePort, dispatchVars, TypeOK, AskedInv
      <3>3. CASE Announce(c)
        BY <3>3 DEF Announce, D!Ask, TypeOK, AskedInv
      <3>4. CASE TakeTask(c) \/ Send(c) \/ RecvReply(c)
        BY <3>4 DEF TakeTask, Send, RecvReply, dispatchVars, TypeOK, AskedInv
      <3>5. CASE NoRedis(c) \/ Finish(c) \/ Kill(c)
        BY <3>5 DEF NoRedis, Finish, Kill, dispatchVars, TypeOK, AskedInv
      <3>. QED  BY <2>2, <3>1, <3>2, <3>3, <3>4, <3>5 DEF ClientStep
    <2>3. ASSUME NEW c \in Clients, Assign(c) \/ Refuse(c) \/ Tell(c) PROVE UNCHANGED <<asked, pc, tries>>
      BY <2>3 DEF Assign, Refuse, Tell, D!Assign, D!Refuse, D!Tell, clientVars
    <2>4. ASSUME NEW w \in Workers, Heartbeat(w) \/ WorkerDies(w)
          PROVE  UNCHANGED <<asked, pc, tries>>
      BY <2>4 DEF Heartbeat, WorkerDies, D!Store, clientVars, dispatchVars
    <2>5. ASSUME NEW t \in Threads, ThreadStep(t) PROVE UNCHANGED <<asked, pc, tries>>
      BY <2>5 DEF ThreadStep, CreateSocket, Connect, RecvRequest, Register, clientVars, dispatchVars
    <2>6. UNCHANGED vars => UNCHANGED <<asked, pc, tries>>
      BY DEF vars, clientVars, dispatchVars
    <2>. QED  BY <2>1, <2>2, <2>3, <2>4, <2>5, <2>6 DEF Next
  <1>. QED  BY <1>1, <1>2

LEMMA StrayNext == IInv /\ StrayInv /\ [Next]_vars => StrayInv'
  <1> SUFFICES ASSUME IInv, StrayInv, [Next]_vars PROVE StrayInv'
    OBVIOUS
  <1> USE SessionAssumption
  <1>0. TypeOK /\ ThreadInv
    BY DEF IInv
  <1>1. ASSUME ThreadsStay PROVE StrayInv'
    <2>1. strayed' = strayed
      BY <1>1, <1>0 DEF Next, ClientStep, ThreadStep, TryBind, NoAvailablePort, Announce, TakeTask,
             NoRedis, Send, RecvReply, Finish, Kill, Assign, Refuse, Tell, Heartbeat, WorkerDies,
             CreateSocket, Connect, RecvRequest, Register, workerVars, vars, ThreadsStay, TypeOK
    <2>. QED  BY <1>1, <2>1 DEF ThreadsStay, StrayInv
  <1>2. ASSUME NEW t \in Threads, ThreadStep(t) PROVE StrayInv'
    <2>1. CASE CreateSocket(t)
      <3>1. /\ UNCHANGED <<link, strayed>> /\ link[t] = None
            /\ \A u \in Threads : u # t => clientIp'[u] = clientIp[u]
        BY <1>0, <2>1 DEF CreateSocket, wireVars, TypeOK, ThreadInv, ThreadAt
      <3>. QED  BY <3>1 DEF StrayInv
    <2>2. CASE Connect(t)
      <3>1. PICK p : /\ link' = [link EXCEPT ![t] = p]
                     /\ strayed' = IF p = clientIp[t] THEN strayed ELSE strayed \cup {p}
                     /\ clientIp' = clientIp
        BY <2>2 DEF Connect
      <3>. QED  BY <1>0, <3>1 DEF StrayInv, TypeOK
    <2>3. CASE RecvRequest(t)
      BY <2>3 DEF RecvRequest, StrayInv
    <2>4. CASE Register(t)
      <3>1. /\ UNCHANGED strayed
            /\ \A u \in Threads : link'[u] = IF u = t THEN None ELSE link[u]
            /\ \A u \in Threads : u # t => clientIp'[u] = clientIp[u]
        BY <1>0, <2>4 DEF Register, CloseSocket, TypeOK
      <3>. QED  BY <3>1 DEF StrayInv
    <2>. QED  BY <1>2, <2>1, <2>2, <2>3, <2>4 DEF ThreadStep
  <1>. QED  BY <1>0, <1>1, <1>2, StayNext DEF Next

\* The thread a request of an undisturbed client waits at, and any thread connected to it,
\* is the one that was called for it, of a worker that is up.
LEMMA OwnThread ==
  ASSUME IInv, WaitInv, NEW c \in Clients, ~Disturbed(c)
  PROVE  /\ InTurn(c) /\ ServedInv(c) /\ pc[c] \notin {"failed", "killed"}
         /\ \A t \in Threads : link[t] = c => clientIp[t] = c
         /\ sentTo[c] # None =>
              sentTo[c] \in Threads /\ link[sentTo[c]] = c /\ clientIp[sentTo[c]] = c
         /\ \A t \in Threads : clientIp[t] = c => Up(t) /\ t[1] = assigned[c] /\ taker[c] = t[1]
         /\ \A t \in Threads : clientIp[t] = c => spc[t] # "idle" /\ c \in asked
  <1> USE SessionAssumption
  <1>0. TypeOK /\ ThreadInv /\ WireInv /\ OnceInv /\ StrayInv /\ TakenInv(c) /\ TurnInv(c)
    BY DEF IInv, WaitInv
  <1>1. InTurn(c) /\ ServedInv(c) /\ pc[c] \notin {"failed", "killed"} /\ c # None
    BY <1>0 DEF TurnInv, Disturbed, EndedEarly, WaitInv
  <1>2. \A t \in Threads : link[t] = c => clientIp[t] = c
    BY <1>0, <1>1 DEF StrayInv, Disturbed
  <1>3. sentTo[c] # None => sentTo[c] \in Threads /\ link[sentTo[c]] = c
    BY <1>0, <1>1 DEF InTurn, RequestInv, TypeOK
  <1>4. ASSUME NEW t \in Threads, clientIp[t] = c
        PROVE  /\ Up(t) /\ t[1] = assigned[c] /\ taker[c] = t[1]
               /\ spc[t] # "idle" /\ c \in asked
    <2>1. t[1] \in Workers /\ taker[c] = t[1]
      BY <1>0, <1>1, <1>4 DEF OnceInv, Threads
    <2>. QED  BY <1>0, <1>1, <1>4, <2>1 DEF OnceInv, TakenInv, Disturbed, Up, ThreadInv, ThreadAt
  <1>. QED  BY <1>1, <1>2, <1>3, <1>4

\* No step but one that disturbs the session takes a request or an answer away, or the
\* client from its worker.
LEMMA ServedNext ==
  ASSUME IInv, WaitInv, [Next]_vars, NEW d \in Clients, ~Disturbed(d)'
  PROVE  ServedInv(d)'
  <1> USE SessionAssumption
  <1>0. /\ TypeOK /\ ThreadInv /\ WireInv /\ TenantInv /\ OnceInv /\ ~Disturbed(d) /\ d # None
        /\ host' = host
    BY DisturbedStays, EarlyStays DEF IInv
  <1>a. /\ InTurn(d) /\ RequestInv(d) /\ ServedInv(d) /\ pc'[d] \notin {"failed", "killed"}
        /\ sentTo[d] # None =>
              sentTo[d] \in Threads /\ link[sentTo[d]] = d /\ clientIp[sentTo[d]] = d
        /\ \A t \in Threads : clientIp[t] = d => t[1] = assigned[d]
    <2>1. pc'[d] \notin {"failed", "killed"}
      BY <1>0 DEF Disturbed, EndedEarly
    <2>. QED  BY <1>0, <2>1, OwnThread DEF InTurn
  <1>b. /\ pc[d] = "await" => sentTo[d] # None \/ answered[d] = TRUE
        /\ taker[d] # None => InPool(d) \/ Ending(d) \/ \E t \in Threads : clientIp[t] = d
    BY <1>a DEF ServedInv
  <1>1. ASSUME pc'[d] = pc[d], sentTo'[d] = sentTo[d], answered'[d] = answered[d], step'[d] = step[d],
               UNCHANGED <<taker, m_tkPool, clientIp>>
        PROVE  ServedInv(d)'
    BY <1>b, <1>1 DEF ServedInv, InPool, Ending
  <1>2. ASSUME ~Ending(d), pc'[d] = "await" => sentTo'[d] # None,
               UNCHANGED <<taker, m_tkPool, clientIp>>
        PROVE  ServedInv(d)'
    BY <1>b, <1>2 DEF ServedInv, InPool
  <1>3. ASSUME NEW c \in Clients, TryBind(c) \/ NoAvailablePort(c) \/ Announce(c) \/ TakeTask(c)
        PROVE  ServedInv(d)'
    <2>1. /\ UNCHANGED <<taker, m_tkPool, clientIp, sentTo, answered, step>>
          /\ c # d => pc'[d] = pc[d]
          /\ pc[c] \in {"bind", "announce", "task"} /\ pc'[c] # "await"
      BY <1>0, <1>3 DEF TryBind, NoAvailablePort, Announce, TakeTask, D!Ask, dispatchVars, wireVars,
                        workerVars, TypeOK
    <2>. QED  BY <1>1, <1>2, <2>1 DEF Ending
  <1>4. ASSUME NEW c \in Clients, Send(c) PROVE ServedInv(d)'
    <2>1. PICK t \in Threads : sentTo' = [sentTo EXCEPT ![c] = t]
      BY <1>4 DEF Send
    <2>2. /\ UNCHANGED <<taker, m_tkPool, clientIp, answered, step>> /\ pc[c] = "send"
          /\ c # d => pc'[d] = pc[d] /\ sentTo'[d] = sentTo[d]
          /\ sentTo'[c] # None
      BY <1>0, <1>4, <2>1 DEF Send, dispatchVars, workerVars, TypeOK
    <2>. QED  BY <1>1, <1>2, <2>2 DEF Ending
  <1>5. ASSUME NEW c \in Clients, RecvReply(c) PROVE ServedInv(d)'
    <2>1. /\ UNCHANGED <<taker, m_tkPool, clientIp, sentTo>> /\ step[c] \in 1..3 /\ step[c] < 3
          /\ c # d => pc'[d] = pc[d] /\ answered'[d] = answered[d] /\ step'[d] = step[d]
          /\ pc[c] = "await" /\ pc'[c] = "send"
      BY <1>0, <1>5 DEF RecvReply, dispatchVars, workerVars, TypeOK
    <2>2. step[c] # 3
      BY <2>1
    <2>3. CASE c # d
      BY <1>1, <2>1, <2>3
    <2>4. CASE c = d
      <3>1. ~Ending(d) /\ pc'[d] # "await"
        BY <2>1, <2>2, <2>4 DEF Ending
      <3>. QED  BY <1>2, <2>1, <3>1
    <2>. QED  BY <2>3, <2>4
  <1>6. ASSUME NEW c \in Clients, NoRedis(c) \/ Finish(c) \/ Kill(c) PROVE ServedInv(d)'
    <2>1. /\ UNCHANGED <<taker, m_tkPool, clientIp, step>> /\ pc'[c] \in {"done", "failed", "killed"}
          /\ c # d => pc'[d] = pc[d] /\ answered'[d] = answered[d] /\ sentTo'[d] = sentTo[d]
      BY <1>0, <1>6 DEF NoRedis, Finish, Kill, Close, dispatchVars, workerVars, TypeOK
    <2>2. CASE c # d
      BY <1>1, <2>1, <2>2
    <2>3. CASE c = d
      BY <1>a, <2>1, <2>3 DEF ServedInv, Ending
    <2>. QED  BY <2>2, <2>3
  <1>7. ASSUME NEW c \in Clients, Assign(c) \/ Refuse(c) PROVE ServedInv(d)'
    BY <1>1, <1>7 DEF Assign, Refuse, D!Assign, D!Refuse, clientVars, wireVars, workerVars
  <1>8. ASSUME NEW c \in Clients, Tell(c) PROVE ServedInv(d)'
    <2>1. PICK w \in Workers : D!Tell(c, w) /\ m_tkPool' = [m_tkPool EXCEPT ![w] = Append(@, c)]
      BY <1>8 DEF Tell
    <2>2. /\ m_tkPool'[w] = Append(m_tkPool[w], c) /\ m_tkPool[w] \in Seq(Clients)
          /\ \A v \in Workers : v # w => m_tkPool'[v] = m_tkPool[v]
          /\ d # c => taker'[d] = taker[d]
          /\ UNCHANGED <<pc, sentTo, answered, step, clientIp>>
      BY <1>0, <1>8, <2>1 DEF Tell, D!Tell, clientVars, wireVars, TypeOK
    <2>3. Addresses(m_tkPool'[w]) = Addresses(m_tkPool[w]) \cup {c}
      BY <2>2, AppendAddress
    <2>4. (InPool(d) => InPool(d)') /\ (d = c => InPool(d)')
      BY <2>2, <2>3 DEF InPool
    <2>. QED  BY <1>b, <2>2, <2>4 DEF ServedInv, Ending
  <1>9. ASSUME NEW w \in Workers, Heartbeat(w) PROVE ServedInv(d)'
    BY <1>1, <1>9 DEF Heartbeat, D!Store, clientVars, wireVars, workerVars
  <1>10. ASSUME NEW w \in Workers, WorkerDies(w) PROVE ServedInv(d)'
    <2>1. /\ UNCHANGED <<pc, answered, step, taker, m_tkPool, clientIp, assigned>>
          /\ sentTo'[d] = IF sentTo[d] \in {w} \X Slots THEN None ELSE sentTo[d]
          /\ w \in down'
      BY <1>10 DEF WorkerDies, CloseSocket, clientVars, dispatchVars
    <2>2. sentTo[d] \notin {w} \X Slots
      <3> SUFFICES ASSUME sentTo[d] \in {w} \X Slots PROVE FALSE
        OBVIOUS
      <3>1. sentTo[d] \in Threads /\ sentTo[d][1] = w
        BY DEF Threads
      <3>2. sentTo[d] # None
        BY <3>1
      <3>3. assigned'[d] = w
        BY <1>a, <2>1, <3>1, <3>2
      <3>. QED  BY <2>1, <3>3 DEF Disturbed
    <2>. QED  BY <1>1, <2>1, <2>2
  <1>11. ASSUME NEW t \in Threads, CreateSocket(t) PROVE ServedInv(d)'
    <2>1. t[1] \in Workers /\ m_tkPool[t[1]] \in Seq(Clients) /\ m_tkPool[t[1]] # <<>>
      BY <1>0, <1>11 DEF CreateSocket, Threads, TypeOK
    <2>2. /\ UNCHANGED <<pc, sentTo, answered, step, taker>>
          /\ m_tkPool'[t[1]] = Tail(m_tkPool[t[1]])
          /\ \A v \in Workers : v # t[1] => m_tkPool'[v] = m_tkPool[v]
          /\ clientIp[t] = None /\ clientIp'[t] = Head(m_tkPool[t[1]])
          /\ \A u \in Threads : u # t => clientIp'[u] = clientIp[u]
      BY <1>0, <1>11, <2>1
         DEF CreateSocket, dispatchVars, clientVars, wireVars, TypeOK, ThreadInv, ThreadAt
    <2>3. \A c \in Addresses(m_tkPool[t[1]]) :
            c = Head(m_tkPool[t[1]]) \/ c \in Addresses(Tail(m_tkPool[t[1]]))
      BY <1>0, <2>1, TakeAddress DEF OnceInv
    <2>4. InPool(d) => InPool(d)' \/ clientIp'[t] = d
      BY <2>1, <2>2, <2>3 DEF InPool
    <2>5. \A u \in Threads : clientIp[u] = d => clientIp'[u] = d
      BY <1>0, <2>2
    <2>. QED  BY <1>b, <2>2, <2>4, <2>5 DEF ServedInv, Ending
  <1>12. ASSUME NEW t \in Threads, Connect(t) PROVE ServedInv(d)'
    BY <1>1, <1>12 DEF Connect, dispatchVars, clientVars
  <1>13. ASSUME NEW t \in Threads, RecvRequest(t) PROVE ServedInv(d)'
    <2>1. PICK c \in Clients : /\ sentTo[c] = t
                               /\ sentTo' = [sentTo EXCEPT ![c] = None]
                               /\ answered' = [answered EXCEPT ![c] = (link[t] = c)]
      BY <1>13 DEF RecvRequest
    <2>2. /\ UNCHANGED <<pc, step, taker, m_tkPool, clientIp>>
          /\ c # d => sentTo'[d] = sentTo[d] /\ answered'[d] = answered[d]
          /\ answered'[c] = (link[t] = c)
      BY <1>0, <1>13, <2>1 DEF RecvRequest, dispatchVars, clientVars, TypeOK
    <2>3. CASE c # d
      BY <1>1, <2>2, <2>3
    <2>4. CASE c = d
      <3>1. link[t] = d /\ pc[d] = "await"
        BY <1>a, <2>1, <2>4 DEF RequestInv
      <3>2. answered'[d] = TRUE
        BY <2>2, <2>4, <3>1
      <3>. QED  BY <1>b, <2>2, <3>1, <3>2 DEF ServedInv, InPool, Ending
    <2>. QED  BY <2>3, <2>4
  <1>14. ASSUME NEW t \in Threads, Register(t) PROVE ServedInv(d)'
    <2>1. /\ UNCHANGED <<pc, answered, step, taker, m_tkPool>>
          /\ sentTo'[d] = IF sentTo[d] = t THEN None ELSE sentTo[d]
          /\ \A u \in Threads : u # t => clientIp'[u] = clientIp[u]
          /\ spc[t] = "register"
      BY <1>0, <1>14 DEF Register, CloseSocket, dispatchVars, clientVars, TypeOK
    <2>2. Len(got[t]) = 3 /\ step[d] \in 1..3
      BY <1>0, <2>1 DEF ThreadInv, ThreadAt, TypeOK
    <2>3. sentTo[d] # t
      <3> SUFFICES ASSUME sentTo[d] = t PROVE FALSE
        OBVIOUS
      <3>1. Len(got[t]) + 1 = step[d]
        BY <1>a DEF InTurn, InStep
      <3>. QED  BY <2>2, <3>1
    <2>4. clientIp[t] = d => Ending(d)
      <3> SUFFICES ASSUME clientIp[t] = d PROVE Ending(d)
        OBVIOUS
      <3>1. InStep(d, t)
        BY <1>a DEF InTurn
      <3>2. pc[d] \notin {"bind", "announce"}
        BY <1>0 DEF OnceInv, TenantInv, Threads
      <3>3. pc[d] \notin {"task", "send"}
        BY <2>2, <3>1 DEF InStep
      <3>4. pc[d] = "await" => step[d] = 3
        BY <2>2, <3>1 DEF InStep
      <3>5. sentTo[d] = None
        <4>1. ASSUME sentTo[d] # None PROVE sentTo[d] = t
          BY <1>0, <1>a, <4>1 DEF OnceInv
        <4>. QED  BY <2>3, <4>1
      <3>6. pc[d] \in ClientPC /\ pc[d] \notin {"failed", "killed"}
        BY <1>a, <2>1, <1>0 DEF TypeOK
      <3>. QED  BY <1>b, <3>2, <3>3, <3>4, <3>5, <3>6 DEF Ending, ClientPC
    <2>5. InPool(d)' = InPool(d) /\ Ending(d)' = Ending(d)
      BY <2>1 DEF InPool, Ending
    <2>. QED  BY <1>b, <2>1, <2>3, <2>4, <2>5 DEF ServedInv
  <1>15. CASE UNCHANGED vars
    BY <1>1, <1>15 DEF vars, dispatchVars, clientVars, wireVars, workerVars
  <1>. QED
    BY <1>3, <1>4, <1>5, <1>6, <1>7, <1>8, <1>9, <1>10, <1>11, <1>12, <1>13, <1>14, <1>15
       DEF Next, ClientStep, ThreadStep

LEMMA WaitInvHolds == Spec => [](IInv /\ WaitInv)
  <1>1. Init => WaitInv
    <2> SUFFICES ASSUME Init PROVE WaitInv
      OBVIOUS
    <2>1. StrayInv
      BY SessionAssumption DEF Init, StrayInv
    <2>2. ASSUME NEW c \in Clients PROVE AskedInv(c) /\ TakenInv(c) /\ ServedInv(c)
      BY SessionAssumption DEF Init, D!Init, AskedInv, TakenInv, ServedInv
    <2>. QED  BY <2>1, <2>2 DEF WaitInv
  <1>2. IInv /\ WaitInv /\ [Next]_vars => WaitInv'
    <2> SUFFICES ASSUME IInv, WaitInv, [Next]_vars PROVE WaitInv'
      OBVIOUS
    <2>1. StrayInv'
      BY StrayNext DEF WaitInv
    <2>2. ASSUME NEW c \in Clients
          PROVE  AskedInv(c)' /\ TakenInv(c)' /\ (Disturbed(c)' \/ ServedInv(c)')
      BY AskedNext, ServedNext DEF IInv, WaitInv
    <2>. QED  BY <2>1, <2>2 DEF WaitInv
  <1>3. Init => IInv /\ WaitInv
    BY <1>1, IInvInit
  <1>4. IInv /\ WaitInv /\ [Next]_vars => (IInv /\ WaitInv)'
    BY <1>2, IInvNext
  <1>. QED  BY <1>3, <1>4, PTL DEF Spec

\* The guard of one of the client's own steps holds; the broker has a step to take for it;
\* a thread has one.
ClientMayGoOn(c) ==
  \/ pc[c] \in {"bind", "announce", "task"}
  \/ pc[c] = "send" /\ \E t \in Threads : link[t] = c
  \/ pc[c] = "await" /\ answered[c] = TRUE

BrokerMayGoOn(c) ==
  \/ c \in asked \ refused /\ assigned[c] = None /\ known # {}
  \/ assigned[c] # None /\ assigned[c] \notin down /\ taker[c] = None

ThreadMayGoOn(t) ==
  /\ Up(t)
  /\ \/ spc[t] = "idle" /\ m_tkPool[t[1]] # <<>>
     \/ /\ spc[t] # "idle" /\ link[t] = None
        /\ Reachable(clientIp[t]) /\ port[host[clientIp[t]]] # None
     \/ spc[t] \in {"id", "data", "model"} /\ \E c \in Clients : sentTo[c] = t
     \/ spc[t] = "register"

\* The client, the broker for it, or the thread called for it has a step to take.
GoesOn(c) ==
  \/ ClientMayGoOn(c) \/ BrokerMayGoOn(c)
  \/ \E t \in Threads : clientIp[t] = c /\ ThreadMayGoOn(t)

\* A client whose thread is at work is never stuck with it.
LEMMA ServedGoesOn ==
  ASSUME IInv, WaitInv, NEW c \in Clients, ~Disturbed(c), NEW t \in Threads, clientIp[t] = c
  PROVE  GoesOn(c)
  <1> USE SessionAssumption
  <1>0. /\ TypeOK /\ ThreadInv /\ WireInv /\ TenantInv /\ OnceInv /\ c # None
        /\ pc[c] \in ClientPC
    BY DEF IInv, TypeOK
  <1>1. /\ InTurn(c) /\ ServedInv(c) /\ pc[c] \notin {"failed", "killed"}
        /\ sentTo[c] # None => sentTo[c] \in Threads /\ clientIp[sentTo[c]] = c
        /\ Up(t) /\ spc[t] # "idle" /\ c \in asked
    BY OwnThread
  <1>2. CASE pc[c] \in {"bind", "announce", "task"}
    BY <1>2 DEF GoesOn, ClientMayGoOn
  <1>3. CASE pc[c] = "send"
    <2>1. port[host[c]] = c
      BY <1>0, <1>1, <1>3 DEF TenantInv
    <2>2. CASE link[t] = None
      BY <1>0, <1>1, <2>1, <2>2 DEF Disturbed, ThreadMayGoOn, GoesOn
    <2>3. CASE link[t] # None
      <3>1. link[t] = c
        BY <1>0, <2>1, <2>3 DEF WireInv
      <3>. QED  BY <1>3, <3>1 DEF ClientMayGoOn, GoesOn
    <2>. QED  BY <2>2, <2>3
  <1>4. CASE pc[c] = "await"
    <2>1. CASE answered[c] = TRUE
      BY <1>4, <2>1 DEF ClientMayGoOn, GoesOn
    <2>2. CASE answered[c] # TRUE
      <3>1. sentTo[c] = t
        <4>1. sentTo[c] # None
          BY <1>1, <1>4, <2>2 DEF ServedInv
        <4>. QED  BY <1>0, <1>1, <4>1 DEF OnceInv
      <3>2. spc[t] \in {"id", "data", "model", "register"}
        BY <1>0, <1>1 DEF TypeOK
      <3>. QED  BY <1>1, <3>1, <3>2 DEF ThreadMayGoOn, GoesOn
    <2>. QED  BY <2>1, <2>2
  <1>5. CASE pc[c] = "done"
    <2>1. Len(got[t]) = 3
      BY <1>1, <1>5 DEF InTurn, InStep
    <2>2. spc[t] = "register"
      <3>1. spc[t] \in {"id", "data", "model", "register"}
        BY <1>0, <1>1 DEF TypeOK
      <3>. QED  BY <1>0, <2>1, <3>1 DEF ThreadInv, ThreadAt
    <2>. QED  BY <1>1, <2>2 DEF ThreadMayGoOn, GoesOn
  <1>. QED  BY <1>0, <1>1, <1>2, <1>3, <1>4, <1>5 DEF ClientPC

\* A session that is not disturbed is over, or is not stuck: its client, the broker or its
\* thread has a step to take; or its address waits in the pool of its worker, of which a
\* thread is free or in a session that is not stuck either, or all threads are taken by
\* disturbed sessions.  The safety half of SessionEnds.
THEOREM SessionNeverStuck ==
  Tries # 0 =>
    (Spec => [](\A c \in Clients :
      known # {} /\ ~Disturbed(c) =>
        \/ pc[c] = "done" /\ \A t \in Threads : clientIp[t] # c
        \/ GoesOn(c)
        \/ \E w \in Workers : assigned[c] = w /\
             \/ Exhausted(w)
             \/ \E i \in Slots : \/ ThreadMayGoOn(<<w, i>>)
                                 \/ \E d \in Clients : clientIp[<<w, i>>] = d /\ GoesOn(d)))
  <1> DEFINE Fine(c) ==
               \/ pc[c] = "done" /\ \A t \in Threads : clientIp[t] # c
               \/ GoesOn(c)
               \/ \E w \in Workers : assigned[c] = w /\
                    \/ Exhausted(w)
                    \/ \E i \in Slots : \/ ThreadMayGoOn(<<w, i>>)
                                        \/ \E d \in Clients : clientIp[<<w, i>>] = d /\ GoesOn(d)
  <1> SUFFICES ASSUME Tries # 0
               PROVE  Spec => [](\A c \in Clients : known # {} /\ ~Disturbed(c) => Fine(c))
    OBVIOUS
  <1> USE SessionAssumption
  <1>1. ASSUME IInv, WaitInv, NEW c \in Clients, known # {}, ~Disturbed(c) PROVE Fine(c)
    <2>0. /\ TypeOK /\ ThreadInv /\ OnceInv /\ AskedInv(c) /\ TakenInv(c) /\ ServedInv(c)
          /\ pc[c] \notin {"failed", "killed"} /\ pc[c] \in ClientPC
      BY <1>1, OwnThread DEF IInv, WaitInv, TypeOK
    <2>1. CASE pc[c] \in {"bind", "announce", "task"}
      BY <2>1 DEF GoesOn, ClientMayGoOn
    <2>2. CASE pc[c] \in {"send", "await", "done"}
      <3>1. c \in asked
        BY <1>1, <2>0, <2>2 DEF AskedInv, Disturbed, Reachable
      <3>2. assigned[c] \notin down
        BY <1>1 DEF Disturbed
      <3>3. CASE taker[c] = None
        BY <1>1, <3>1, <3>2, <3>3 DEF Disturbed, BrokerMayGoOn, GoesOn
      <3>4. ASSUME NEW t \in Threads, clientIp[t] = c PROVE Fine(c)
        BY <1>1, <3>4, ServedGoesOn
      <3>5. CASE Ending(c)
        BY <3>4, <3>5 DEF Ending, ClientMayGoOn, GoesOn
      <3>6. ASSUME NEW w \in Workers, c \in Addresses(m_tkPool[w]) PROVE Fine(c)
        <4>1. taker[c] = w /\ assigned[c] = w /\ m_tkPool[w] # <<>>
          <5>1. m_tkPool[w] # <<>>
            BY <3>6 DEF Addresses
          <5>. QED  BY <2>0, <3>6, <5>1 DEF OnceInv, TakenInv
        <4>2. CASE Exhausted(w)
          BY <4>1, <4>2
        <4>3. CASE ~Exhausted(w)
          <5>1. PICK i \in Slots : spc[<<w, i>>] = "idle" \/ ~Disturbed(clientIp[<<w, i>>])
            BY <4>3 DEF Exhausted
          <5>2. <<w, i>> \in Threads /\ <<w, i>>[1] = w
            BY DEF Threads
          <5>3. CASE spc[<<w, i>>] = "idle"
            BY <3>2, <4>1, <5>2, <5>3 DEF ThreadMayGoOn, Up
          <5>4. CASE spc[<<w, i>>] # "idle" /\ ~Disturbed(clientIp[<<w, i>>])
            <6>1. clientIp[<<w, i>>] \in Clients
              BY <2>0, <5>2, <5>4 DEF ThreadInv, ThreadAt, TypeOK
            <6>2. GoesOn(clientIp[<<w, i>>])
              BY <1>1, <5>2, <5>4, <6>1, ServedGoesOn
            <6>. QED  BY <4>1, <6>1, <6>2
          <5>. QED  BY <5>1, <5>3, <5>4
        <4>. QED  BY <4>2, <4>3
      <3>. QED  BY <2>0, <3>3, <3>4, <3>5, <3>6 DEF ServedInv, InPool
    <2>. QED  BY <2>0, <2>1, <2>2 DEF ClientPC
  <1>2. IInv /\ WaitInv => \A c \in Clients : known # {} /\ ~Disturbed(c) => Fine(c)
    BY <1>1
  <1>. QED  BY <1>2, WaitInvHolds, PTL
=============================================================================
