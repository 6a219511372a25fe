--------------------------- MODULE LBBrokerProofs ---------------------------
(***************************************************************************)
(* Machine-checked proofs about LBBroker, for any workers, clients and     *)
(* threads of the two pools, and any bounds.                               *)
(***************************************************************************)
EXTENDS LBBroker, SequenceTheorems, TLAPS

-----------------------------------------------------------------------------
(* The inductive invariant *)

\* No more heartbeats wait than were sent.
BeatsInv == \A w \in Workers : hbIn[w] <= beats[w]

\* A thread works for a worker or a client exactly while it is not idle, and goes
\* through the stages of its own pool.
HandlerInv ==
  /\ \A h \in HbThreads :
       /\ stage[h] # "pick"
       /\ IF stage[h] = "idle" THEN arg[h] = None ELSE arg[h] \in Workers
       /\ stage[h] = "store" => insertTime[h] # None
  /\ \A h \in TkThreads :
       /\ stage[h] \notin {"clock", "store"}
       /\ IF stage[h] = "idle" THEN arg[h] = None ELSE arg[h] \in Clients

TkQueued == {tkQueue[i] : i \in DOMAIN tkQueue}
TkHeld == {arg[h] : h \in TkThreads} \ {None}

\* A request is in one place, and has no worker before its handler picks one; one
\* that was refused is in none, and has no worker.
OnceInv ==
  /\ \A i, j \in DOMAIN tkQueue : tkQueue[i] = tkQueue[j] => i = j
  /\ \A h, g \in TkThreads : arg[h] = arg[g] /\ arg[h] # None => h = g
  /\ tkIn \cap TkQueued = {} /\ TkHeld \cap (tkIn \cup TkQueued) = {}
  /\ \A c \in tkIn \cup TkQueued : chosen[c] = None
  /\ \A h \in TkThreads :
       /\ stage[h] = "pick" => chosen[arg[h]] = None
       /\ stage[h] \in {"ident", "body"} => chosen[arg[h]] # None
  /\ \A c \in refused : chosen[c] = None /\ c \notin tkIn \cup TkQueued \cup TkHeld

\* What the socket is inside of.  While nothing has overlapped that is the
\* message of the one handler that is between its two calls.
RouterInv ==
  /\ ~more => cur = None /\ built = <<>>
  /\ cur # None => cur \in connected
  /\ ~overlapped =>
       /\ built = <<>>
       /\ \A h \in Threads :
            stage[h] = "body" =>
              /\ more /\ cur \in {Target(h), None}
              /\ \A g \in Threads : stage[g] = "body" => g = h

\* Worker w is in the table, or redis did not store it when it was to.
Vouched(w) == table[w] # None \/ w \in unstored

\* Whoever was picked is in the table, and whoever a message is for is there or a
\* handler of his was failed by redis.
StoredInv ==
  /\ \A c \in Clients : chosen[c] # None => table[chosen[c]] # None
  /\ \A h \in HbThreads : stage[h] \in {"ident", "body"} => Vouched(arg[h])
  /\ cur # None => Vouched(cur)

\* A client's address is sent at most once, by the handler of its request.
ToldInv ==
  \A c \in Clients :
    /\ \A p, q \in Told(c) : p = q
    /\ Told(c) # {} => chosen[c] # None /\ \A h \in TkThreads : arg[h] # c

IInv ==
  /\ TypeOK /\ BeatsInv /\ HandlerInv /\ OnceInv /\ RouterInv /\ StoredInv
  /\ StrayOnlyByOverlap /\ OnlyStoredWorkersHear

-----------------------------------------------------------------------------
(* Type correctness *)

LEMMA TypeInit == Init => TypeOK
  <1> SUFFICES ASSUME Init PROVE TypeOK
    OBVIOUS
  <1> USE BrokerAssumption
  <1>1. /\ hbQueue \in Seq(Workers) /\ tkQueue \in Seq(Clients) /\ built \in Seq(Workers)
        /\ inbox \in [Workers -> Seq(Frames)] /\ dialled \in [Workers -> Seq(Clients)]
    BY DEF Init
  <1>2. table \in [Workers -> 0..MaxClock \cup {None}]
    BY DEF Init
  <1>3. /\ beats \in [Workers -> 0..MaxBeats] /\ hbIn \in [Workers -> 0..MaxBeats]
        /\ stage \in [Threads -> Stage]
        /\ arg \in [Threads -> Workers \cup Clients \cup {None}]
        /\ insertTime \in [HbThreads -> 0..MaxClock \cup {None}]
        /\ chosen \in [Clients -> Workers \cup {None}]
    BY DEF Init, Stage
  <1>4. /\ now \in 0..MaxClock /\ connected \subseteq Workers /\ down \subseteq Workers
        /\ tkIn \subseteq Clients /\ loop \in {"poll", "tk"} /\ cur \in Workers \cup {None}
    BY DEF Init
  <1>5. /\ more \in BOOLEAN /\ crashed \in BOOLEAN /\ overlapped \in BOOLEAN /\ redisFailed \in BOOLEAN
        /\ refused \subseteq Clients /\ unstored \subseteq Workers
    BY DEF Init
  <1>. QED  BY <1>1, <1>2, <1>3, <1>4, <1>5 DEF TypeOK

LEMMA TypeNext == IInv /\ [Next]_vars => (TypeOK /\ BeatsInv)'
  <1> SUFFICES ASSUME TypeOK, BeatsInv, HandlerInv, OnceInv, [Next]_vars
               PROVE  (TypeOK /\ BeatsInv)'
    BY DEF IInv
  <1> USE BrokerAssumption
  <1> USE DEF TypeOK, BeatsInv, HandlerInv, Stage, Threads,
              loopVars, poolVars, outVars, workerVars, failVars
  <1>1. CASE Tick
    BY <1>1 DEF Tick
  <1>2. ASSUME NEW w \in Workers, SendBeat(w) \/ Leave(w) PROVE (TypeOK /\ BeatsInv)'
    <2>1. CASE Leave(w)
      BY <2>1 DEF Leave
    <2>2. CASE SendBeat(w)
      <3>1. beats[w] + 1 \in 0..MaxBeats /\ hbIn[w] + 1 \in 0..MaxBeats
        BY <2>2 DEF SendBeat
      <3>2. /\ beats' \in [Workers -> 0..MaxBeats] /\ hbIn' \in [Workers -> 0..MaxBeats]
            /\ BeatsInv'
        BY <2>2, <3>1 DEF SendBeat
      <3>. QED  BY <2>2, <3>2 DEF SendBeat
    <2>. QED  BY <1>2, <2>1, <2>2
  <1>3. ASSUME NEW w \in Workers, RecvFrame(w) PROVE (TypeOK /\ BeatsInv)'
    <2>1. inbox[w] \in Seq(Frames) /\ inbox[w] # <<>> /\ dialled[w] \in Seq(Clients)
      BY <1>3 DEF RecvFrame
    <2>2. Tail(inbox[w]) \in Seq(Frames)
      BY <2>1, HeadTailProperties
    <2>3. Head(inbox[w]) \in Clients => Append(dialled[w], Head(inbox[w])) \in Seq(Clients)
      BY <2>1, AppendProperties
    <2>. QED  BY <1>3, <2>2, <2>3 DEF RecvFrame
  <1>4. ASSUME NEW c \in Clients, SendRequest(c) PROVE (TypeOK /\ BeatsInv)'
    BY <1>4 DEF SendRequest
  <1>5. CASE Poll
    <2>1. \A w \in Workers : Append(hbQueue, w) \in Seq(Workers)
      BY AppendProperties
    <2>2. ASSUME NEW w \in Workers, hbIn[w] > 0, hbIn' = [hbIn EXCEPT ![w] = @ - 1]
          PROVE  hbIn' \in [Workers -> 0..MaxBeats] /\ \A v \in Workers : hbIn'[v] <= beats[v]
      <3>1. hbIn[w] - 1 \in 0..MaxBeats
        BY <2>2
      <3>. QED  BY <2>2, <3>1
    <2>3. ASSUME HandleHb PROVE hbQueue' \in Seq(Workers) /\ hbIn' \in [Workers -> 0..MaxBeats]
                                /\ \A v \in Workers : hbIn'[v] <= beats[v]
      BY <2>1, <2>2, <2>3 DEF HandleHb
    <2>. QED  BY <1>5, <2>3 DEF Poll
  <1>6. CASE HandleTk
    <2>1. \A c \in Clients : Append(tkQueue, c) \in Seq(Clients)
      BY AppendProperties
    <2>. QED  BY <1>6, <2>1 DEF HandleTk
  <1>7. ASSUME NEW h \in HbThreads, StartHb(h) PROVE (TypeOK /\ BeatsInv)'
    <2>1. Head(hbQueue) \in Workers /\ Tail(hbQueue) \in Seq(Workers)
      BY <1>7, HeadTailProperties DEF StartHb
    <2>. QED  BY <1>7, <2>1 DEF StartHb
  <1>8. ASSUME NEW h \in TkThreads, StartTk(h) PROVE (TypeOK /\ BeatsInv)'
    <2>1. Head(tkQueue) \in Clients /\ Tail(tkQueue) \in Seq(Clients)
      BY <1>8, HeadTailProperties DEF StartTk
    <2>. QED  BY <1>8, <2>1 DEF StartTk
  <1>9. ASSUME NEW h \in HbThreads, ReadClock(h) PROVE (TypeOK /\ BeatsInv)'
    BY <1>9 DEF ReadClock
  <1>10. ASSUME NEW h \in HbThreads, Store(h) PROVE (TypeOK /\ BeatsInv)'
    BY <1>10 DEF Store
  <1>11. ASSUME NEW h \in TkThreads, Pick(h) PROVE (TypeOK /\ BeatsInv)'
    <2>1. chosen' \in [Clients -> Workers \cup {None}]
      <3>1. Freshest \subseteq Workers
        BY DEF Freshest
      <3>2. CASE UNCHANGED chosen
        BY <3>2
      <3>3. ASSUME NEW w \in Workers, chosen' = [chosen EXCEPT ![arg[h]] = w]
            PROVE  chosen' \in [Clients -> Workers \cup {None}]
        BY <3>3
      <3>. QED  BY <1>11, <3>1, <3>2, <3>3 DEF Pick
    <2>2. arg' \in [Threads -> Workers \cup Clients \cup {None}] /\ refused' \subseteq Clients
      <3>1. arg[h] \in Clients
        BY <1>11 DEF Pick
      <3>. QED  BY <1>11, <3>1 DEF Pick
    <2>3. stage' \in [Threads -> Stage] /\ crashed' \in BOOLEAN
      BY <1>11 DEF Pick
    <2>. QED  BY <1>11, <2>1, <2>2, <2>3 DEF Pick
  <1>12. ASSUME NEW h \in Threads, RedisDown(h) PROVE (TypeOK /\ BeatsInv)'
    BY <1>12 DEF RedisDown
  <1>13. ASSUME NEW h \in Threads, SendIdentity(h) PROVE (TypeOK /\ BeatsInv)'
    <2>1. Target(h) \in Workers
      BY <1>13 DEF SendIdentity, Target, OnceInv
    <2>2. Append(built, Target(h)) \in Seq(Workers)
      BY <2>1, AppendProperties
    <2>. QED  BY <1>13, <2>1, <2>2 DEF SendIdentity
  <1>14. ASSUME NEW h \in Threads, SendBody(h) PROVE (TypeOK /\ BeatsInv)'
    <2>1. /\ arg' \in [Threads -> Workers \cup Clients \cup {None}]
          /\ stage' \in [Threads -> Stage]
      BY <1>14 DEF SendBody
    <2>2. built' \in Seq(Workers)
      BY <1>14 DEF SendBody
    <2>3. inbox' \in [Workers -> Seq(Frames)]
      <3>1. Body(h) \in Frames /\ built \in Seq(Frames)
        BY <1>14 DEF SendBody, Body, Frames
      <3>2. Append(built, Body(h)) \in Seq(Frames)
        BY <3>1, AppendProperties
      <3>3. \A w \in Workers : inbox[w] \o Append(built, Body(h)) \in Seq(Frames)
        BY <3>2, ConcatProperties
      <3>. QED  BY <1>14, <3>3 DEF SendBody
    <2>. QED  BY <1>14, <2>1, <2>2, <2>3 DEF SendBody
  <1>15. CASE UNCHANGED vars
    BY <1>15 DEF vars
  <1>. QED
    BY <1>1, <1>2, <1>3, <1>4, <1>5, <1>6, <1>7, <1>8, <1>9, <1>10, <1>11, <1>12, <1>13,
       <1>14, <1>15 DEF Next, Loop, Handler

-----------------------------------------------------------------------------
(* Handlers and requests *)

LEMMA HandlerNext == IInv /\ [Next]_vars => HandlerInv'
  <1> SUFFICES ASSUME TypeOK, HandlerInv, [Next]_vars PROVE HandlerInv'
    BY DEF IInv
  <1> USE BrokerAssumption
  <1> USE DEF TypeOK, HandlerInv, Stage, Threads
  <1>1. CASE UNCHANGED <<stage, arg, insertTime>>
    BY <1>1
  <1>2. ASSUME NEW h \in HbThreads, StartHb(h) PROVE HandlerInv'
    <2>1. Head(hbQueue) \in Workers
      BY <1>2, HeadTailProperties DEF StartHb
    <2>. QED  BY <1>2, <2>1 DEF StartHb
  <1>3. ASSUME NEW h \in TkThreads, StartTk(h) PROVE HandlerInv'
    <2>1. Head(tkQueue) \in Clients
      BY <1>3, HeadTailProperties DEF StartTk
    <2>. QED  BY <1>3, <2>1 DEF StartTk
  <1>4. ASSUME NEW h \in HbThreads, ReadClock(h) PROVE HandlerInv'
    BY <1>4 DEF ReadClock
  <1>5. ASSUME NEW h \in HbThreads, Store(h) PROVE HandlerInv'
    BY <1>5 DEF Store
  <1>6. ASSUME NEW h \in TkThreads, Pick(h) PROVE HandlerInv'
    BY <1>6 DEF Pick
  <1>7. ASSUME NEW h \in Threads, RedisDown(h) PROVE HandlerInv'
    BY <1>7 DEF RedisDown
  <1>8. ASSUME NEW h \in Threads, SendIdentity(h) PROVE HandlerInv'
    BY <1>8 DEF SendIdentity
  <1>9. ASSUME NEW h \in Threads, SendBody(h) PROVE HandlerInv'
    BY <1>9 DEF SendBody
  <1>. QED
    BY <1>1, <1>2, <1>3, <1>4, <1>5, <1>6, <1>7, <1>8, <1>9
       DEF Next, vars, poolVars, Loop, Handler, Tick, SendBeat, Leave, RecvFrame, SendRequest,
           Poll, HandleTk

\* What the queue of requests holds once a request it does not hold is appended.
LEMMA QueuedByAppend ==
  ASSUME TypeOK, OnceInv, NEW c \in Clients, c \notin TkQueued, tkQueue' = Append(tkQueue, c)
  PROVE  /\ TkQueued' = TkQueued \cup {c}
         /\ \A i, j \in DOMAIN tkQueue' : tkQueue'[i] = tkQueue'[j] => i = j
  <1> DEFINE q == tkQueue
  <1>1. /\ Len(q) \in Nat /\ DOMAIN q = 1..Len(q) /\ DOMAIN q' = 1..(Len(q) + 1)
        /\ \A i \in DOMAIN q : q'[i] = q[i]
        /\ q'[Len(q) + 1] = c
    BY AppendProperties, LenProperties DEF TypeOK
  <1>2. \A i, j \in DOMAIN q : q[i] = q[j] => i = j
    BY DEF OnceInv
  <1>3. \A i \in DOMAIN q : q[i] # c
    BY DEF TkQueued
  <1> HIDE DEF q
  <1>4. \A i \in DOMAIN q' : i \in DOMAIN q \/ i = Len(q) + 1
    BY <1>1
  <1>5. {q'[i] : i \in DOMAIN q'} = {q[i] : i \in DOMAIN q} \cup {c}
    <2>1. DOMAIN q \subseteq DOMAIN q' /\ Len(q) + 1 \in DOMAIN q'
      BY <1>1
    <2>. QED  BY <1>1, <1>4, <2>1
  <1>6. \A i, j \in DOMAIN q' : q'[i] = q'[j] => i = j
    BY <1>1, <1>2, <1>3, <1>4
  <1>. QED  BY <1>5, <1>6 DEF TkQueued, q

\* What it holds once its first request has been taken.
LEMMA QueuedByTail ==
  ASSUME TypeOK, OnceInv, tkQueue # <<>>, tkQueue' = Tail(tkQueue)
  PROVE  /\ Head(tkQueue) \in Clients /\ Head(tkQueue) \in TkQueued
         /\ TkQueued' = TkQueued \ {Head(tkQueue)}
         /\ \A i, j \in DOMAIN tkQueue' : tkQueue'[i] = tkQueue'[j] => i = j
  <1> DEFINE q == tkQueue
             c == Head(tkQueue)
  <1>1. /\ Len(q) \in Nat \ {0} /\ DOMAIN q = 1..Len(q) /\ DOMAIN q' = 1..(Len(q) - 1)
        /\ c \in Clients /\ c = q[1]
        /\ \A i \in DOMAIN q' : q'[i] = q[i + 1]
    BY HeadTailProperties, LenProperties, EmptySeq DEF TypeOK
  <1>2. \A i, j \in DOMAIN q : q[i] = q[j] => i = j
    BY DEF OnceInv
  <1> HIDE DEF q, c
  <1>3. c \in {q[i] : i \in DOMAIN q}
    <2>1. 1 \in DOMAIN q
      BY <1>1
    <2>. QED  BY <1>1, <2>1
  <1>4. {q'[i] : i \in DOMAIN q'} = {q[i] : i \in DOMAIN q} \ {c}
    <2>1. ASSUME NEW i \in DOMAIN q' PROVE q'[i] \in {q[j] : j \in DOMAIN q} \ {c}
      <3>1. i + 1 \in DOMAIN q /\ 1 \in DOMAIN q /\ i + 1 # 1
        BY <1>1, <2>1
      <3>. QED  BY <1>1, <1>2, <3>1, <2>1
    <2>2. ASSUME NEW j \in DOMAIN q, q[j] # c PROVE q[j] \in {q'[i] : i \in DOMAIN q'}
      <3>1. j - 1 \in DOMAIN q' /\ (j - 1) + 1 = j
        BY <1>1, <2>2
      <3>. QED  BY <1>1, <3>1
    <2>. QED  BY <2>1, <2>2
  <1>5. \A i, j \in DOMAIN q' : q'[i] = q'[j] => i = j
    <2> SUFFICES ASSUME NEW i \in DOMAIN q', NEW j \in DOMAIN q', q'[i] = q'[j]
                 PROVE  i = j
      OBVIOUS
    <2>1. i + 1 \in DOMAIN q /\ j + 1 \in DOMAIN q /\ i \in Nat /\ j \in Nat
      BY <1>1
    <2>2. i + 1 = j + 1
      BY <1>1, <1>2, <2>1
    <2>. QED  BY <2>1, <2>2
  <1>. QED  BY <1>1, <1>3, <1>4, <1>5 DEF TkQueued, q, c

LEMMA OnceNext == IInv /\ [Next]_vars => OnceInv'
  <1> SUFFICES ASSUME TypeOK, HandlerInv, OnceInv, [Next]_vars PROVE OnceInv'
    BY DEF IInv
  <1> USE BrokerAssumption
  <1> USE DEF Threads
  <1>1. CASE UNCHANGED <<tkIn, tkQueue, stage, arg, chosen, refused>>
    BY <1>1 DEF OnceInv, TkQueued, TkHeld
  <1>2. ASSUME NEW c \in Clients, SendRequest(c) PROVE OnceInv'
    <2>1. TkQueued' = TkQueued /\ TkHeld' = TkHeld /\ tkIn' = tkIn \cup {c}
      BY <1>2 DEF SendRequest, poolVars, TkQueued, TkHeld
    <2>2. c \notin TkQueued /\ c \notin TkHeld /\ c \notin refused /\ chosen[c] = None
      BY <1>2 DEF SendRequest, Requested, TkQueued, TkHeld
    <2>3. UNCHANGED <<tkQueue, stage, arg, chosen, refused>>
      BY <1>2 DEF SendRequest, poolVars, failVars
    <2>. QED  BY <2>1, <2>2, <2>3 DEF OnceInv
  <1>3. CASE HandleTk
    <2>1. PICK c \in tkIn : tkIn' = tkIn \ {c} /\ tkQueue' = Append(tkQueue, c)
      BY <1>3 DEF HandleTk
    <2>2. c \in Clients /\ c \notin TkQueued
      BY DEF TypeOK, OnceInv
    <2>3. /\ TkQueued' = TkQueued \cup {c}
          /\ \A i, j \in DOMAIN tkQueue' : tkQueue'[i] = tkQueue'[j] => i = j
      BY <2>1, <2>2, QueuedByAppend
    <2>4. UNCHANGED <<stage, arg, chosen, refused>> /\ TkHeld' = TkHeld
      BY <1>3 DEF HandleTk, TkHeld, failVars
    <2>. QED  BY <2>1, <2>3, <2>4 DEF OnceInv
  <1>4. ASSUME NEW h \in HbThreads, StartHb(h) PROVE OnceInv'
    <2>1. \A g \in TkThreads : arg'[g] = arg[g] /\ stage'[g] = stage[g]
      BY <1>4 DEF StartHb, TypeOK
    <2>2. UNCHANGED <<tkIn, tkQueue, chosen, refused>>
      BY <1>4 DEF StartHb, loopVars, failVars
    <2>. QED  BY <2>1, <2>2 DEF OnceInv, TkQueued, TkHeld
  <1>5. ASSUME NEW h \in TkThreads, StartTk(h) PROVE OnceInv'
    <2> DEFINE c == Head(tkQueue)
    <2>1. /\ c \in Clients /\ c \in TkQueued /\ TkQueued' = TkQueued \ {c}
          /\ \A i, j \in DOMAIN tkQueue' : tkQueue'[i] = tkQueue'[j] => i = j
      BY <1>5, QueuedByTail DEF StartTk
    <2>2. /\ \A g \in TkThreads : /\ arg'[g] = IF g = h THEN c ELSE arg[g]
                                  /\ stage'[g] = IF g = h THEN "pick" ELSE stage[g]
          /\ UNCHANGED <<tkIn, chosen, refused>>
      BY <1>5 DEF StartTk, TypeOK, loopVars, failVars
    <2>3. chosen[c] = None /\ c \notin tkIn /\ c \notin TkHeld
      BY <2>1 DEF OnceInv
    <2>4. TkHeld' \subseteq TkHeld \cup {c} /\ \A g \in TkThreads : arg[g] # c
      <3>1. c # None
        BY <2>1
      <3>. QED  BY <2>2, <2>3, <3>1 DEF TkHeld
    <2> HIDE DEF c
    <2>. QED  BY <2>1, <2>2, <2>3, <2>4 DEF OnceInv
  <1>6. ASSUME NEW h \in HbThreads, ReadClock(h) \/ Store(h) PROVE OnceInv'
    <2>1. \A g \in TkThreads : stage'[g] = stage[g]
      BY <1>6 DEF ReadClock, Store, TypeOK
    <2>2. UNCHANGED <<tkIn, tkQueue, arg, chosen, refused>>
      BY <1>6 DEF ReadClock, Store, loopVars, failVars
    <2>. QED  BY <2>1, <2>2 DEF OnceInv, TkQueued, TkHeld
  <1>7. ASSUME NEW h \in TkThreads, Pick(h) PROVE OnceInv'
    <2>1. UNCHANGED <<tkIn, tkQueue>> /\ TkQueued' = TkQueued
      BY <1>7 DEF Pick, loopVars, TkQueued
    <2>2. CASE UNCHANGED <<chosen, stage, arg, refused>>
      BY <2>1, <2>2 DEF OnceInv, TkHeld
    <2>4. CASE /\ refused' = refused \cup {arg[h]} /\ stage' = [stage EXCEPT ![h] = "idle"]
               /\ arg' = [arg EXCEPT ![h] = None] /\ UNCHANGED chosen
      <3>1. /\ arg[h] \in Clients /\ arg[h] # None /\ arg[h] \in TkHeld
            /\ chosen[arg[h]] = None
        BY <1>7 DEF Pick, HandlerInv, TkHeld, OnceInv
      <3>2. \A g \in TkThreads : /\ stage'[g] = IF g = h THEN "idle" ELSE stage[g]
                                 /\ arg'[g] = IF g = h THEN None ELSE arg[g]
        BY <2>4 DEF TypeOK
      <3>3. TkHeld' = TkHeld \ {arg[h]}
        <4>1. \A g \in TkThreads : arg[g] = arg[h] => g = h
          BY <3>1 DEF OnceInv
        <4>. QED  BY <3>2, <4>1 DEF TkHeld
      <3>4. arg[h] \notin tkIn \cup TkQueued
        BY <3>1 DEF OnceInv
      <3>5. \A c \in refused' : chosen'[c] = None /\ c \notin tkIn' \cup TkQueued' \cup TkHeld'
        BY <2>1, <2>4, <3>1, <3>3, <3>4 DEF OnceInv
      <3>6. /\ \A i, j \in DOMAIN tkQueue' : tkQueue'[i] = tkQueue'[j] => i = j
            /\ \A g, k \in TkThreads : arg'[g] = arg'[k] /\ arg'[g] # None => g = k
            /\ tkIn' \cap TkQueued' = {} /\ TkHeld' \cap (tkIn' \cup TkQueued') = {}
            /\ \A c \in tkIn' \cup TkQueued' : chosen'[c] = None
        BY <2>1, <2>4, <3>2, <3>3 DEF OnceInv
      <3>7. \A g \in TkThreads :
              /\ stage'[g] = "pick" => chosen'[arg'[g]] = None
              /\ stage'[g] \in {"ident", "body"} => chosen'[arg'[g]] # None
        BY <2>4, <3>2 DEF OnceInv
      <3>. QED  BY <3>5, <3>6, <3>7 DEF OnceInv
    <2>3. ASSUME NEW w \in Freshest, chosen' = [chosen EXCEPT ![arg[h]] = w],
                 stage' = [stage EXCEPT ![h] = "ident"], UNCHANGED <<arg, refused>>
          PROVE  OnceInv'
      <3>0. UNCHANGED <<arg, refused>> /\ TkHeld' = TkHeld
        BY <2>3 DEF TkHeld
      <3>1. arg[h] \in Clients /\ arg[h] \in TkHeld /\ w # None
        BY <1>7 DEF Pick, HandlerInv, TkHeld, Freshest
      <3>2. \A c \in Clients : chosen'[c] = IF c = arg[h] THEN w ELSE chosen[c]
        BY <2>3 DEF TypeOK
      <3>3. \A g \in TkThreads : stage'[g] = IF g = h THEN "ident" ELSE stage[g]
        BY <2>3 DEF TypeOK
      <3>4. \A c \in tkIn \cup TkQueued : chosen'[c] = None
        BY <3>1, <3>2 DEF OnceInv, TypeOK, TkQueued
      <3>5. \A g \in TkThreads : g # h /\ stage[g] # "idle" => arg[g] # arg[h] /\ arg[g] \in Clients
        BY <3>1 DEF OnceInv, HandlerInv
      <3>6. \A g \in TkThreads :
              /\ stage'[g] = "pick" => chosen'[arg[g]] = None
              /\ stage'[g] \in {"ident", "body"} => chosen'[arg[g]] # None
        BY <3>1, <3>2, <3>3, <3>5 DEF OnceInv
      <3>7. \A c \in refused : c # arg[h] /\ chosen'[c] = None
        BY <3>1, <3>2 DEF OnceInv, TypeOK
      <3>. QED  BY <2>1, <3>0, <3>4, <3>6, <3>7 DEF OnceInv
    <2>. QED  BY <1>7, <2>2, <2>3, <2>4 DEF Pick
  <1>8. ASSUME NEW h \in Threads, RedisDown(h) PROVE OnceInv'
    <2>1. \A g \in TkThreads : stage'[g] = stage[g]
      BY <1>8 DEF RedisDown, TypeOK, HandlerInv
    <2>2. UNCHANGED <<tkIn, tkQueue, arg, chosen, refused>>
      BY <1>8 DEF RedisDown, loopVars
    <2>. QED  BY <2>1, <2>2 DEF OnceInv, TkQueued, TkHeld
  <1>9. ASSUME NEW h \in Threads, SendIdentity(h) PROVE OnceInv'
    <2>1. \A g \in TkThreads : stage'[g] = IF g = h THEN "body" ELSE stage[g]
      BY <1>9 DEF SendIdentity, TypeOK
    <2>2. UNCHANGED <<tkIn, tkQueue, arg, chosen, refused>> /\ stage[h] = "ident"
      BY <1>9 DEF SendIdentity, loopVars, failVars
    <2>. QED  BY <2>1, <2>2 DEF OnceInv, TkQueued, TkHeld
  <1>10. ASSUME NEW h \in Threads, SendBody(h) PROVE OnceInv'
    <2>1. \A g \in TkThreads : /\ stage'[g] = IF g = h THEN "idle" ELSE stage[g]
                               /\ arg'[g] = IF g = h THEN None ELSE arg[g]
      BY <1>10 DEF SendBody, TypeOK
    <2>2. UNCHANGED <<tkIn, tkQueue, chosen, refused>>
      BY <1>10 DEF SendBody, loopVars, failVars
    <2>3. TkHeld' \subseteq TkHeld
      BY <2>1 DEF TkHeld
    <2>. QED  BY <2>1, <2>2, <2>3 DEF OnceInv, TkQueued
  <1>. QED
    BY <1>1, <1>2, <1>3, <1>4, <1>5, <1>6, <1>7, <1>8, <1>9, <1>10
       DEF Next, vars, poolVars, loopVars, failVars, Loop, Handler, Tick, SendBeat, Leave, RecvFrame,
           Poll

-----------------------------------------------------------------------------
(* The socket and the table *)

\* A worker once picked stays picked, a worker once stored or connected stays so,
\* and what has happened is not forgotten.
LEMMA Kept ==
  ASSUME IInv, [Next]_vars
  PROVE  /\ \A c \in Clients : chosen[c] # None => chosen'[c] = chosen[c]
         /\ \A w \in Workers : table[w] # None => table'[w] # None
         /\ connected \subseteq connected'
         /\ overlapped => overlapped'
         /\ unstored \subseteq unstored'
  <1> USE BrokerAssumption
  <1> USE DEF IInv, TypeOK, Threads
  <1>1. ASSUME NEW w \in Workers, SendBeat(w)
        PROVE  /\ UNCHANGED <<chosen, table, overlapped, unstored>>
               /\ connected \subseteq connected'
    BY <1>1 DEF SendBeat, outVars, failVars
  <1>2. ASSUME NEW h \in HbThreads, Store(h)
        PROVE  /\ UNCHANGED <<chosen, connected, overlapped>> /\ unstored \subseteq unstored'
               /\ \A w \in Workers : table[w] # None => table'[w] # None
    <2>1. insertTime[h] # None /\ arg[h] \in Workers
      BY <1>2 DEF Store, HandlerInv
    <2>. QED  BY <1>2, <2>1 DEF Store, outVars, workerVars, failVars
  <1>3. ASSUME NEW h \in TkThreads, Pick(h)
        PROVE  /\ UNCHANGED <<table, connected, overlapped, unstored>>
               /\ \A c \in Clients : chosen[c] # None => chosen'[c] = chosen[c]
    <2>1. chosen[arg[h]] = None /\ arg[h] \in Clients
      BY <1>3 DEF Pick, HandlerInv, OnceInv
    <2>. QED  BY <1>3, <2>1 DEF Pick, outVars, workerVars
  <1>4. ASSUME NEW h \in Threads, SendIdentity(h)
        PROVE  UNCHANGED <<chosen, table, connected, unstored>> /\ (overlapped => overlapped')
    BY <1>4 DEF SendIdentity, workerVars, failVars
  <1>5. ASSUME NEW h \in Threads, RedisDown(h)
        PROVE  UNCHANGED <<chosen, table, connected, overlapped>> /\ unstored \subseteq unstored'
    BY <1>5 DEF RedisDown, workerVars, outVars
  <1>6. CASE UNCHANGED <<chosen, table, connected, overlapped, unstored>>
    BY <1>6
  <1>. QED
    BY <1>1, <1>2, <1>3, <1>4, <1>5, <1>6
       DEF Next, vars, poolVars, loopVars, outVars, workerVars, failVars, Loop, Handler, Tick,
           Leave, RecvFrame, SendRequest, Poll, HandleTk, StartHb, StartTk, ReadClock, SendBody

\* A handler's message is for a worker, and for the same one until it is sent.
LEMMA TargetKept ==
  ASSUME IInv, [Next]_vars, NEW h \in Threads, stage[h] \in {"ident", "body"}
  PROVE  /\ Target(h) \in Workers
         /\ Body(h) \in {HbOk} \cup Clients
         /\ arg'[h] = arg[h] => Target(h)' = Target(h)
  BY Kept, BrokerAssumption DEF IInv, TypeOK, HandlerInv, OnceInv, Target, Body, Threads

LEMMA RouterNext == IInv /\ [Next]_vars => RouterInv'
  <1> SUFFICES ASSUME IInv, [Next]_vars PROVE RouterInv'
    OBVIOUS
  <1> USE BrokerAssumption
  <1>0. connected \subseteq connected' /\ TypeOK /\ HandlerInv /\ RouterInv
    BY Kept DEF IInv
  <1>1. ASSUME NEW h \in Threads, SendIdentity(h) PROVE RouterInv'
    <2>1. /\ \A g \in Threads : stage'[g] = IF g = h THEN "body" ELSE stage[g]
          /\ UNCHANGED <<arg, chosen, connected>>
      BY <1>0, <1>1 DEF SendIdentity, TypeOK, workerVars
    <2>2. Target(h)' = Target(h)
      BY <2>1 DEF Target
    <2>3. CASE more
      BY <1>0, <1>1, <2>1, <2>3 DEF SendIdentity, RouterInv
    <2>4. CASE ~more
      <3>1. ~overlapped => \A g \in Threads : stage[g] # "body"
        BY <1>0, <2>4 DEF RouterInv
      <3>2. more' /\ UNCHANGED <<built, overlapped>> /\ cur' \in {Target(h), None}
        BY <1>1, <2>4 DEF SendIdentity
      <3>3. cur' # None => cur' \in connected
        BY <1>1, <2>4 DEF SendIdentity
      <3>. QED  BY <1>0, <2>1, <2>2, <2>4, <3>1, <3>2, <3>3 DEF RouterInv
    <2>. QED  BY <2>3, <2>4
  <1>2. ASSUME NEW h \in Threads, SendBody(h) PROVE RouterInv'
    <2>1. /\ \A g \in Threads : stage'[g] = IF g = h THEN "idle" ELSE stage[g]
          /\ stage[h] = "body" /\ ~more' /\ cur' = None /\ built' = <<>>
          /\ overlapped' = overlapped
      BY <1>0, <1>2 DEF SendBody, TypeOK
    <2>2. ~overlapped => \A g \in Threads : stage'[g] # "body"
      BY <1>0, <2>1 DEF RouterInv
    <2>. QED  BY <2>1, <2>2 DEF RouterInv
  <1>3. ASSUME UNCHANGED outVars,
               \A g \in Threads : stage'[g] = "body" => stage[g] = "body" /\ arg'[g] = arg[g]
        PROVE  RouterInv'
    <2>1. \A g \in Threads : stage'[g] = "body" => Target(g)' = Target(g)
      BY <1>3, TargetKept
    <2>. QED  BY <1>0, <1>3, <2>1 DEF RouterInv, outVars
  <1>4. ASSUME NEW h \in HbThreads, StartHb(h) \/ ReadClock(h) \/ Store(h) PROVE RouterInv'
    <2>1. UNCHANGED outVars
      BY <1>4 DEF StartHb, ReadClock, Store
    <2>2. \A g \in Threads : stage'[g] = "body" => stage[g] = "body" /\ arg'[g] = arg[g]
      BY <1>0, <1>4 DEF StartHb, ReadClock, Store, TypeOK, Threads
    <2>. QED  BY <1>3, <2>1, <2>2
  <1>5. ASSUME NEW h \in TkThreads, StartTk(h) \/ Pick(h) PROVE RouterInv'
    <2>1. UNCHANGED outVars
      BY <1>5 DEF StartTk, Pick
    <2>2. \A g \in Threads : stage'[g] = "body" => stage[g] = "body" /\ arg'[g] = arg[g]
      BY <1>0, <1>5 DEF StartTk, Pick, TypeOK, Threads
    <2>. QED  BY <1>3, <2>1, <2>2
  <1>6. ASSUME NEW h \in Threads, RedisDown(h) PROVE RouterInv'
    <2>1. UNCHANGED outVars
      BY <1>6 DEF RedisDown
    <2>2. \A g \in Threads : stage'[g] = "body" => stage[g] = "body" /\ arg'[g] = arg[g]
      BY <1>0, <1>6 DEF RedisDown, TypeOK
    <2>. QED  BY <1>3, <2>1, <2>2
  <1>7. CASE UNCHANGED <<outVars, stage, arg>>
    BY <1>3, <1>7
  <1>. QED
    BY <1>1, <1>2, <1>4, <1>5, <1>6, <1>7
       DEF Next, vars, poolVars, Loop, Handler, Tick, SendBeat, Leave, RecvFrame, SendRequest,
           Poll, HandleTk

LEMMA StoredNext == IInv /\ [Next]_vars => StoredInv'
  <1> SUFFICES ASSUME IInv, [Next]_vars PROVE StoredInv'
    OBVIOUS
  <1> USE BrokerAssumption
  <1> USE DEF Threads
  <1>0. /\ TypeOK /\ HandlerInv /\ OnceInv /\ StoredInv
        /\ \A w \in Workers : table[w] # None => table'[w] # None
        /\ unstored \subseteq unstored'
    BY Kept DEF IInv
  <1>v. \A w \in Workers : Vouched(w) => Vouched(w)'
    BY <1>0 DEF Vouched
  <1>a. /\ cur \in Workers \cup {None} /\ \A c \in Clients : chosen[c] \in Workers \cup {None}
        /\ \A h \in HbThreads : stage[h] \in {"ident", "body"} => arg[h] \in Workers
    BY <1>0 DEF TypeOK, HandlerInv
  <1>1. ASSUME UNCHANGED <<chosen, cur>>,
               \A h \in HbThreads : stage'[h] \in {"ident", "body"} =>
                 stage[h] \in {"ident", "body"} /\ arg'[h] = arg[h]
        PROVE  StoredInv'
    BY <1>0, <1>a, <1>v, <1>1 DEF StoredInv
  <1>2. ASSUME NEW h \in HbThreads, StartHb(h) PROVE StoredInv'
    <2>1. UNCHANGED <<chosen, cur>>
      BY <1>2 DEF StartHb, outVars
    <2>2. \A g \in HbThreads : stage'[g] \in {"ident", "body"} =>
            stage[g] \in {"ident", "body"} /\ arg'[g] = arg[g]
      BY <1>0, <1>2 DEF StartHb, TypeOK
    <2>. QED  BY <1>1, <2>1, <2>2
  <1>3. ASSUME NEW h \in HbThreads, ReadClock(h) PROVE StoredInv'
    <2>1. UNCHANGED <<chosen, cur>>
      BY <1>3 DEF ReadClock, outVars
    <2>2. \A g \in HbThreads : stage'[g] \in {"ident", "body"} =>
            stage[g] \in {"ident", "body"} /\ arg'[g] = arg[g]
      BY <1>0, <1>3 DEF ReadClock, TypeOK
    <2>. QED  BY <1>1, <2>1, <2>2
  <1>4. ASSUME NEW h \in HbThreads, Store(h) PROVE StoredInv'
    <2>1. /\ UNCHANGED <<chosen, cur, arg>>
          /\ \A g \in HbThreads : stage'[g] = IF g = h THEN "ident" ELSE stage[g]
      BY <1>0, <1>4 DEF Store, outVars, TypeOK
    <2>2. Vouched(arg[h])'
      BY <1>0, <1>4 DEF Store, Vouched, TypeOK, HandlerInv
    <2>. QED  BY <1>0, <1>a, <1>v, <2>1, <2>2 DEF StoredInv
  <1>5. ASSUME NEW h \in TkThreads, StartTk(h) \/ Pick(h),
               \A g \in HbThreads : stage'[g] = stage[g] /\ arg'[g] = arg[g]
        PROVE  StoredInv'
    <2>1. cur' = cur /\ table' = table
      BY <1>5 DEF StartTk, Pick, outVars
    <2>2. \A c \in Clients : chosen'[c] # None => table[chosen'[c]] # None
      <3>1. CASE chosen' = chosen
        BY <1>0, <3>1 DEF StoredInv
      <3>2. ASSUME NEW w \in Freshest, chosen' = [chosen EXCEPT ![arg[h]] = w]
            PROVE  \A c \in Clients : chosen'[c] # None => table[chosen'[c]] # None
        BY <1>0, <3>2 DEF StoredInv, TypeOK, Freshest
      <3>. QED  BY <1>5, <3>1, <3>2 DEF StartTk, Pick
    <2>. QED  BY <1>0, <1>a, <1>v, <1>5, <2>1, <2>2 DEF StoredInv
  <1>6. ASSUME NEW h \in TkThreads, StartTk(h) \/ Pick(h)
        PROVE  \A g \in HbThreads : stage'[g] = stage[g] /\ arg'[g] = arg[g]
    BY <1>0, <1>6 DEF StartTk, Pick, TypeOK
  <1>7. ASSUME NEW h \in Threads, RedisDown(h) PROVE StoredInv'
    <2>1. UNCHANGED <<chosen, table, cur, arg>>
      BY <1>7 DEF RedisDown, outVars
    <2>2. \A g \in HbThreads : stage'[g] \in {"ident", "body"} =>
            \/ stage[g] \in {"ident", "body"}
            \/ arg[g] \in unstored'
      BY <1>0, <1>7 DEF RedisDown, TypeOK
    <2>. QED  BY <1>0, <1>a, <1>v, <2>1, <2>2 DEF StoredInv, Vouched
  <1>8. ASSUME NEW h \in Threads, SendIdentity(h) PROVE StoredInv'
    <2>1. /\ UNCHANGED <<chosen, table, arg, unstored>> /\ stage[h] = "ident"
          /\ \A g \in HbThreads : stage'[g] = IF g = h THEN "body" ELSE stage[g]
          /\ cur' \in {cur, Target(h), None}
      BY <1>0, <1>8 DEF SendIdentity, failVars, TypeOK
    <2>2. Vouched(Target(h))
      BY <1>0, <2>1 DEF StoredInv, Vouched, Target, HandlerInv, OnceInv
    <2>. QED  BY <1>0, <2>1, <2>2 DEF StoredInv, Vouched
  <1>9. ASSUME NEW h \in Threads, SendBody(h) PROVE StoredInv'
    <2>1. /\ UNCHANGED <<chosen, table, unstored>> /\ cur' = None
          /\ \A g \in HbThreads : stage'[g] \in {"ident", "body"} =>
               stage[g] \in {"ident", "body"} /\ arg'[g] = arg[g]
      BY <1>0, <1>9 DEF SendBody, failVars, TypeOK
    <2>. QED  BY <1>0, <2>1 DEF StoredInv, Vouched
  <1>10. CASE UNCHANGED <<chosen, cur, stage, arg>>
    BY <1>1, <1>10
  <1>. QED
    BY <1>2, <1>3, <1>4, <1>5, <1>6, <1>7, <1>8, <1>9, <1>10
       DEF Next, vars, poolVars, outVars, Loop, Handler, Tick, SendBeat, Leave, RecvFrame,
           SendRequest, Poll, HandleTk

-----------------------------------------------------------------------------
(* What the workers hear *)

\* The frame a worker reads leaves its inbox, and is dialled if it is an address.
LEMMA FrameRead ==
  ASSUME TypeOK, NEW w \in Workers, RecvFrame(w)
  PROVE  /\ inbox[w] \in Seq(Frames) /\ Len(inbox[w]) \in Nat \ {0}
         /\ DOMAIN inbox'[w] = 1..(Len(inbox[w]) - 1) /\ Len(inbox'[w]) = Len(inbox[w]) - 1
         /\ \A i \in DOMAIN inbox'[w] : i + 1 \in DOMAIN inbox[w] /\ inbox'[w][i] = inbox[w][i + 1]
         /\ IF inbox[w][1] \in Clients
            THEN /\ DOMAIN dialled'[w] = 1..(Len(dialled[w]) + 1)
                 /\ Len(dialled'[w]) = Len(dialled[w]) + 1
                 /\ \A i \in DOMAIN dialled[w] : dialled'[w][i] = dialled[w][i]
                 /\ dialled'[w][Len(dialled[w]) + 1] = inbox[w][1]
            ELSE dialled'[w] = dialled[w]
         /\ \A v \in Workers : v # w => inbox'[v] = inbox[v] /\ dialled'[v] = dialled[v]
  <1> DEFINE q == inbox[w]
             d == dialled[w]
  <1>1. q \in Seq(Frames) /\ d \in Seq(Clients) /\ q # <<>>
    BY DEF TypeOK, RecvFrame
  <1>2. /\ inbox'[w] = Tail(q)
        /\ dialled'[w] = IF Head(q) \in Clients THEN Append(d, Head(q)) ELSE d
        /\ \A v \in Workers : v # w => inbox'[v] = inbox[v] /\ dialled'[v] = dialled[v]
    BY DEF TypeOK, RecvFrame
  <1> HIDE DEF q, d
  <1>3. Len(q) \in Nat \ {0} /\ Head(q) = q[1] /\ DOMAIN q = 1..Len(q)
    BY <1>1, LenProperties, EmptySeq
  <1>4. /\ Tail(q) \in Seq(Frames) /\ Len(Tail(q)) = Len(q) - 1
        /\ \A i \in 1..Len(Tail(q)) : Tail(q)[i] = q[i + 1]
    BY <1>1, HeadTailProperties
  <1>5. DOMAIN Tail(q) = 1..(Len(q) - 1)
    BY <1>4, LenProperties
  <1>6. q[1] \in Clients =>
          /\ DOMAIN Append(d, q[1]) = 1..(Len(d) + 1) /\ Len(Append(d, q[1])) = Len(d) + 1
          /\ \A i \in DOMAIN d : Append(d, q[1])[i] = d[i]
          /\ Append(d, q[1])[Len(d) + 1] = q[1]
    BY <1>1, AppendProperties, LenProperties
  <1>7. \A i \in 1..(Len(q) - 1) : i + 1 \in DOMAIN q
    BY <1>3
  <1>. QED  BY <1>1, <1>2, <1>3, <1>4, <1>5, <1>6, <1>7 DEF q, d

\* What is sent goes to the socket's peer, behind the frames it has begun with.
LEMMA FramesSent ==
  ASSUME IInv, [Next]_vars, NEW h \in Threads, SendBody(h)
  PROVE  /\ \A w \in Workers : w # cur => inbox'[w] = inbox[w]
         /\ cur # None =>
              /\ more /\ cur \in Workers
              /\ Len(inbox[cur]) \in Nat /\ Len(built) \in Nat
              /\ DOMAIN inbox[cur] = 1..Len(inbox[cur])
              /\ DOMAIN inbox'[cur] = 1..(Len(inbox[cur]) + Len(built) + 1)
              /\ \A i \in DOMAIN inbox'[cur] :
                   /\ i \in DOMAIN inbox[cur] => inbox'[cur][i] = inbox[cur][i]
                   /\ i = Len(inbox[cur]) + Len(built) + 1 => inbox'[cur][i] = Body(h)
                   /\ i \notin DOMAIN inbox[cur] /\ i # Len(inbox[cur]) + Len(built) + 1 =>
                        inbox'[cur][i] \in Workers
         /\ Body(h) \in {HbOk} \cup Clients
         /\ dialled' = dialled
  <1> USE BrokerAssumption
  <1>1. Body(h) \in {HbOk} \cup Clients /\ dialled' = dialled
    BY TargetKept DEF SendBody
  <1>2. \A w \in Workers : w # cur => inbox'[w] = inbox[w]
    BY DEF IInv, TypeOK, SendBody
  <1>3. ASSUME cur # None
        PROVE  /\ more /\ cur \in Workers /\ inbox'[cur] = inbox[cur] \o Append(built, Body(h))
               /\ inbox[cur] \in Seq(Frames) /\ built \in Seq(Workers)
    <2>1. more /\ cur \in Workers /\ inbox \in [Workers -> Seq(Frames)] /\ built \in Seq(Workers)
      BY <1>3 DEF IInv, TypeOK, RouterInv
    <2>. QED  BY <1>3, <2>1 DEF SendBody
  <1>4. ASSUME cur # None
        PROVE  /\ Len(inbox[cur]) \in Nat /\ Len(built) \in Nat
               /\ DOMAIN inbox[cur] = 1..Len(inbox[cur])
               /\ DOMAIN inbox'[cur] = 1..(Len(inbox[cur]) + Len(built) + 1)
               /\ \A i \in 1..(Len(inbox[cur]) + Len(built) + 1) :
                    /\ i \in DOMAIN inbox[cur] => inbox'[cur][i] = inbox[cur][i]
                    /\ i = Len(inbox[cur]) + Len(built) + 1 => inbox'[cur][i] = Body(h)
                    /\ i \notin DOMAIN inbox[cur] /\ i # Len(inbox[cur]) + Len(built) + 1 =>
                         inbox'[cur][i] \in Workers
    <2> DEFINE q == inbox[cur]
               b == built
               a == Append(built, Body(h))
               r == inbox'[cur]
    <2>1. q \in Seq(Frames) /\ b \in Seq(Workers) /\ b \in Seq(Frames) /\ Body(h) \in Frames
      BY <1>1, <1>3, <1>4 DEF Frames
    <2>2. /\ a \in Seq(Frames) /\ Len(a) = Len(b) + 1
          /\ \A i \in 1..Len(b) : a[i] = b[i]
          /\ a[Len(b) + 1] = Body(h)
      BY <2>1, AppendProperties
    <2>3. r = q \o a
      BY <1>3, <1>4
    <2> HIDE DEF q, b, a, r
    <2>4. /\ r \in Seq(Frames) /\ Len(r) = Len(q) + Len(a)
          /\ \A i \in 1..(Len(q) + Len(a)) : r[i] = IF i <= Len(q) THEN q[i] ELSE a[i - Len(q)]
      <3>1. /\ q \o a \in Seq(Frames) /\ Len(q \o a) = Len(q) + Len(a)
            /\ \A i \in 1..(Len(q) + Len(a)) :
                 (q \o a)[i] = IF i <= Len(q) THEN q[i] ELSE a[i - Len(q)]
        BY <2>1, <2>2, ConcatProperties, Zenon
      <3>. QED  BY <2>3, <3>1, Zenon
    <2>5. Len(q) \in Nat /\ Len(b) \in Nat /\ DOMAIN q = 1..Len(q)
      BY <2>1, LenProperties
    <2>6. DOMAIN r = 1..(Len(q) + Len(b) + 1)
      BY <2>2, <2>4, <2>5, LenProperties
    <2>7. \A i \in 1..Len(b) : b[i] \in Workers
      BY <2>1, ElementOfSeq
    <2>8. ASSUME NEW i \in 1..(Len(q) + Len(b) + 1)
          PROVE  /\ i \in DOMAIN q => r[i] = q[i]
                 /\ i = Len(q) + Len(b) + 1 => r[i] = Body(h)
                 /\ i \notin DOMAIN q /\ i # Len(q) + Len(b) + 1 => r[i] \in Workers
      <3>1. CASE i \in 1..Len(q)
        BY <2>2, <2>4, <2>5, <3>1
      <3>2. CASE i = Len(q) + Len(b) + 1
        BY <2>2, <2>4, <2>5, <3>2
      <3>3. CASE i \notin 1..Len(q) /\ i # Len(q) + Len(b) + 1
        <4>1. i - Len(q) \in 1..Len(b) /\ ~(i <= Len(q))
          BY <2>5, <3>3
        <4>. QED  BY <2>2, <2>4, <2>5, <2>7, <3>3, <4>1
      <3>. QED  BY <3>1, <3>2, <3>3
    <2>. QED  BY <2>5, <2>6, <2>8 DEF q, b, r
  <1>. QED  BY <1>1, <1>2, <1>3, <1>4

LEMMA StrayNext == IInv /\ [Next]_vars => StrayOnlyByOverlap'
  <1> SUFFICES ASSUME IInv, [Next]_vars, ~overlapped'
               PROVE  \A w \in Workers :
                        /\ \A i \in DOMAIN inbox'[w] :
                             \/ inbox'[w][i] = HbOk
                             \/ inbox'[w][i] \in Clients /\ chosen'[inbox'[w][i]] = w
                        /\ \A i \in DOMAIN dialled'[w] : chosen'[dialled'[w][i]] = w
    BY DEF StrayOnlyByOverlap
  <1> DEFINE Due(w, f) == f \in Clients /\ chosen[f] = w
             Due1(w, f) == f \in Clients /\ chosen'[f] = w
  <1> USE BrokerAssumption
  <1>0. TypeOK /\ RouterInv /\ ~overlapped
    BY Kept DEF IInv
  <1>1. \A w \in Workers, f \in Clients : chosen[f] = w => chosen'[f] = w
    BY Kept
  <1>2. ASSUME NEW w \in Workers
        PROVE  /\ \A i \in DOMAIN inbox[w] : inbox[w][i] = HbOk \/ Due(w, inbox[w][i])
               /\ \A i \in DOMAIN dialled[w] : Due(w, dialled[w][i])
    <2>1. \A i \in DOMAIN dialled[w] : dialled[w][i] \in Clients
      BY <1>0, ElementOfSeq, LenProperties DEF TypeOK
    <2>. QED  BY <1>0, <2>1 DEF IInv, StrayOnlyByOverlap
  <1>3. \A w \in Workers : \A f : Due(w, f) => Due1(w, f)
    BY <1>1
  <1>a. HbOk \notin Clients
    OBVIOUS
  <1> SUFFICES ASSUME NEW w \in Workers
               PROVE  /\ \A i \in DOMAIN inbox'[w] : inbox'[w][i] = HbOk \/ Due1(w, inbox'[w][i])
                      /\ \A i \in DOMAIN dialled'[w] : Due1(w, dialled'[w][i])
    OBVIOUS
  <1> HIDE DEF Due, Due1
  <1>4. CASE UNCHANGED <<inbox, dialled>>
    BY <1>2, <1>3, <1>4
  <1>5. ASSUME NEW v \in Workers, RecvFrame(v)
        PROVE  /\ \A i \in DOMAIN inbox'[w] : inbox'[w][i] = HbOk \/ Due1(w, inbox'[w][i])
               /\ \A i \in DOMAIN dialled'[w] : Due1(w, dialled'[w][i])
    <2>1. CASE v # w
      BY <1>0, <1>2, <1>3, <1>5, <2>1, FrameRead
    <2>2. CASE v = w
      <3>1. \A i \in DOMAIN inbox'[w] : inbox'[w][i] = HbOk \/ Due1(w, inbox'[w][i])
        BY <1>0, <1>2, <1>3, <1>5, <2>2, FrameRead
      <3>2. ASSUME NEW i \in DOMAIN dialled'[w] PROVE Due1(w, dialled'[w][i])
        <4>1. dialled[w] \in Seq(Clients) /\ inbox[w] \in Seq(Frames)
          BY <1>0 DEF TypeOK
        <4>2. Len(dialled[w]) \in Nat /\ DOMAIN dialled[w] = 1..Len(dialled[w])
              /\ DOMAIN inbox[w] = 1..Len(inbox[w])
          BY <4>1, LenProperties
        <4>3. Len(inbox[w]) \in Nat \ {0}
          BY <1>0, <1>5, <2>2, FrameRead
        <4>4. 1 \in DOMAIN inbox[w]
          BY <4>2, <4>3
        <4>5. CASE inbox[w][1] \in Clients
          <5>1. i \in DOMAIN dialled[w] \/ i = Len(dialled[w]) + 1
            BY <1>0, <1>5, <2>2, <3>2, <4>2, <4>5, FrameRead
          <5>2. Due(w, dialled'[w][i])
            BY <1>0, <1>2, <1>5, <1>a, <2>2, <3>2, <4>4, <4>5, <5>1, FrameRead
          <5>. QED  BY <1>3, <5>2
        <4>6. CASE inbox[w][1] \notin Clients
          BY <1>0, <1>2, <1>3, <1>5, <2>2, <3>2, <4>6, FrameRead
        <4>. QED  BY <4>5, <4>6
      <3>. QED  BY <3>1, <3>2
    <2>. QED  BY <2>1, <2>2
  <1>6. ASSUME NEW h \in Threads, SendBody(h)
        PROVE  /\ \A i \in DOMAIN inbox'[w] : inbox'[w][i] = HbOk \/ Due1(w, inbox'[w][i])
               /\ \A i \in DOMAIN dialled'[w] : Due1(w, dialled'[w][i])
    <2>1. CASE w # cur
      BY <1>2, <1>3, <1>6, <2>1, FramesSent
    <2>2. CASE w = cur
      <3>1. cur # None /\ built = <<>> /\ w = Target(h) /\ stage[h] = "body"
        BY <1>0, <1>6, <2>2 DEF RouterInv, SendBody
      <3>2. Len(built) = 0
        BY <3>1
      <3>3. Body(h) = HbOk \/ Due(w, Body(h))
        BY <1>6, <3>1, TargetKept DEF Target, Body, Due, Threads
      <3>4. ASSUME NEW i \in DOMAIN inbox'[w]
            PROVE  inbox'[w][i] = HbOk \/ Due1(w, inbox'[w][i])
        <4>1. i \in DOMAIN inbox[w] \/ i = Len(inbox[w]) + Len(built) + 1
          BY <1>6, <2>2, <3>1, <3>2, <3>4, FramesSent
        <4>2. i \in DOMAIN inbox[w] => inbox'[w][i] = inbox[w][i]
          BY <1>6, <2>2, <3>1, <3>4, FramesSent
        <4>3. i = Len(inbox[w]) + Len(built) + 1 => inbox'[w][i] = Body(h)
          BY <1>6, <2>2, <3>1, <3>4, FramesSent
        <4>. QED  BY <1>2, <1>3, <3>3, <4>1, <4>2, <4>3
      <3>5. dialled' = dialled
        BY <1>6, FramesSent
      <3>. QED  BY <1>2, <1>3, <3>4, <3>5
    <2>. QED  BY <2>1, <2>2
  <1>. QED
    BY <1>4, <1>5, <1>6
       DEF Next, vars, workerVars, Loop, Handler, Tick, SendBeat, Leave, SendRequest, Poll,
           HandleTk, StartHb, StartTk, ReadClock, Store, Pick, SendIdentity, RedisDown

LEMMA HearNext == IInv /\ [Next]_vars => OnlyStoredWorkersHear'
  <1> SUFFICES ASSUME IInv, [Next]_vars, NEW w \in Workers, inbox'[w] # <<>>
               PROVE  w \in connected' /\ Vouched(w)'
    BY DEF OnlyStoredWorkersHear, Vouched
  <1>0. /\ TypeOK /\ RouterInv /\ StoredInv
        /\ connected \subseteq connected' /\ (Vouched(w) => Vouched(w)')
    BY Kept DEF IInv, Vouched
  <1>1. inbox[w] # <<>> => w \in connected' /\ Vouched(w)'
    BY <1>0 DEF IInv, OnlyStoredWorkersHear, Vouched
  <1>2. ASSUME NEW v \in Workers, RecvFrame(v) PROVE inbox[w] # <<>>
    BY <1>0, <1>2 DEF RecvFrame, TypeOK
  <1>3. ASSUME NEW h \in Threads, SendBody(h), inbox[w] = <<>>
        PROVE  w \in connected' /\ Vouched(w)'
    <2>1. inbox'[w] # inbox[w]
      BY <1>3
    <2>2. w = cur /\ cur # None
      BY <1>3, <2>1, BrokerAssumption, FramesSent
    <2>. QED  BY <1>0, <2>2 DEF RouterInv, StoredInv
  <1>4. CASE UNCHANGED inbox
    BY <1>1, <1>4
  <1>. QED
    BY <1>1, <1>2, <1>3, <1>4
       DEF Next, vars, workerVars, Loop, Handler, Tick, SendBeat, Leave, SendRequest, Poll,
           HandleTk, StartHb, StartTk, ReadClock, Store, Pick, SendIdentity, RedisDown

-----------------------------------------------------------------------------
(* The inductive invariant is one *)

LEMMA IInvInit == Init => IInv
  <1> SUFFICES ASSUME Init PROVE IInv
    OBVIOUS
  <1> USE BrokerAssumption
  <1>1. TypeOK
    BY TypeInit
  <1>2. BeatsInv /\ HandlerInv /\ RouterInv
    BY DEF Init, BeatsInv, HandlerInv, RouterInv, Threads
  <1>3. OnceInv
    BY DEF Init, OnceInv, TkQueued, TkHeld, Threads
  <1>4. StoredInv /\ StrayOnlyByOverlap /\ OnlyStoredWorkersHear
    BY DEF Init, StoredInv, StrayOnlyByOverlap, OnlyStoredWorkersHear, Threads
  <1>. QED  BY <1>1, <1>2, <1>3, <1>4 DEF IInv

\* Every reachable state satisfies the inductive invariant.
THEOREM IInvHolds == Spec => []IInv
  <1>1. Init => IInv
    BY IInvInit
  <1>2. IInv /\ [Next]_vars => IInv'
    BY TypeNext, HandlerNext, OnceNext, RouterNext, StoredNext, StrayNext, HearNext DEF IInv
  <1>. QED  BY <1>1, <1>2, PTL DEF Spec

\* The variables keep their types, however the loop, the handlers and the workers
\* interleave.
THEOREM TypeCorrect == Spec => []TypeOK
  <1>1. IInv => TypeOK
    BY DEF IInv
  <1>. QED  BY <1>1, IInvHolds, PTL

\* As long as no handler has begun its message inside another's, a worker is sent
\* its own "HB_OK" and the clients it was picked for, and nothing else.
THEOREM NothingStraysWithoutOverlap == Spec => []StrayOnlyByOverlap
  <1>1. IInv => StrayOnlyByOverlap
    BY DEF IInv
  <1>. QED  BY <1>1, IInvHolds, PTL

\* Whoever is sent a frame has connected, and is in the table unless redis failed to
\* store this very worker, even where frames overlap and whatever redis refuses the
\* others.
THEOREM HearersAreStored == Spec => []OnlyStoredWorkersHear
  <1>1. IInv => OnlyStoredWorkersHear
    BY DEF IInv
  <1>. QED  BY <1>1, IInvHolds, PTL

-----------------------------------------------------------------------------
(* A client's address reaches one worker, once *)

\* Everything a worker has dialled and has still to read, in order.
Line(w) == dialled[w] \o inbox[w]

\* The elements of two sequences put together.
LEMMA JoinFacts ==
  ASSUME NEW d \in Seq(Clients), NEW q \in Seq(Frames)
  PROVE  /\ Len(d) \in Nat /\ Len(q) \in Nat /\ DOMAIN (d \o q) = 1..(Len(d) + Len(q))
         /\ \A i \in 1..(Len(d) + Len(q)) :
              (d \o q)[i] = IF i <= Len(d) THEN d[i] ELSE q[i - Len(d)]
  <1>1. d \in Seq(Frames)
    BY DEF Frames
  <1>2. /\ d \o q \in Seq(Frames) /\ Len(d \o q) = Len(d) + Len(q)
        /\ \A i \in 1..(Len(d) + Len(q)) :
             (d \o q)[i] = IF i <= Len(d) THEN d[i] ELSE q[i - Len(d)]
    BY <1>1, ConcatProperties, Zenon
  <1>3. DOMAIN (d \o q) = 1..Len(d \o q) /\ Len(d) \in Nat /\ Len(q) \in Nat
    BY <1>2, LenProperties
  <1>. QED  BY <1>2, <1>3

LEMMA LineFacts ==
  ASSUME TypeOK, NEW w \in Workers
  PROVE  /\ Len(dialled[w]) \in Nat /\ Len(inbox[w]) \in Nat
         /\ DOMAIN Line(w) = 1..(Len(dialled[w]) + Len(inbox[w]))
         /\ \A i \in 1..(Len(dialled[w]) + Len(inbox[w])) :
              Line(w)[i] = IF i <= Len(dialled[w]) THEN dialled[w][i]
                           ELSE inbox[w][i - Len(dialled[w])]
  <1>1. dialled[w] \in Seq(Clients) /\ inbox[w] \in Seq(Frames)
    BY DEF TypeOK
  <1>. QED  BY <1>1, JoinFacts, Zenon DEF Line

LEMMA LineFactsNext ==
  ASSUME TypeOK', NEW w \in Workers
  PROVE  /\ Len(dialled'[w]) \in Nat /\ Len(inbox'[w]) \in Nat
         /\ DOMAIN Line(w)' = 1..(Len(dialled'[w]) + Len(inbox'[w]))
         /\ \A i \in 1..(Len(dialled'[w]) + Len(inbox'[w])) :
              Line(w)'[i] = IF i <= Len(dialled'[w]) THEN dialled'[w][i]
                            ELSE inbox'[w][i - Len(dialled'[w])]
  <1>1. dialled'[w] \in Seq(Clients) /\ inbox'[w] \in Seq(Frames)
    BY DEF TypeOK
  <1>. QED  BY <1>1, JoinFacts, Zenon DEF Line

\* Told, place by place.
LEMMA ToldIs ==
  ASSUME NEW c, NEW p
  PROVE  /\ p \in Told(c) <=> \E w \in Workers : \E i \in DOMAIN Line(w) :
                                p = <<w, i>> /\ Line(w)[i] = c
         /\ p \in Told(c)' <=> \E w \in Workers : \E i \in DOMAIN Line(w)' :
                                 p = <<w, i>> /\ Line(w)'[i] = c
  <1>1. p \in Told(c) <=> \E w \in Workers : \E i \in DOMAIN Line(w) :
                            p = <<w, i>> /\ Line(w)[i] = c
    <2>1. p \in Told(c) <=> /\ \E w \in Workers : p \in {w} \X DOMAIN Line(w)
                            /\ Line(p[1])[p[2]] = c
      BY DEF Told, Line
    <2>2. \A w \in Workers : p \in {w} \X DOMAIN Line(w) <=>
                               \E i \in DOMAIN Line(w) : p = <<w, i>>
      OBVIOUS
    <2>. QED  BY <2>1, <2>2
  <1>2. p \in Told(c)' <=> \E w \in Workers : \E i \in DOMAIN Line(w)' :
                             p = <<w, i>> /\ Line(w)'[i] = c
    <2>1. p \in Told(c)' <=> /\ \E w \in Workers : p \in {w} \X DOMAIN Line(w)'
                             /\ Line(p[1])'[p[2]] = c
      BY DEF Told, Line
    <2>2. \A w \in Workers : p \in {w} \X DOMAIN Line(w)' <=>
                               \E i \in DOMAIN Line(w)' : p = <<w, i>>
      OBVIOUS
    <2>. QED  BY <2>1, <2>2
  <1>. QED  BY <1>1, <1>2

\* Reading a frame moves an address from the inbox to what is dialled and keeps its
\* place; the place of a frame that is no address is closed up.
LEMMA LineRead ==
  ASSUME TypeOK, TypeOK', NEW w \in Workers, RecvFrame(w)
  PROVE  \E n \in Nat \ {0}, d \in Nat :
           /\ d < n /\ DOMAIN Line(w) = 1..n
           /\ IF inbox[w][1] \in Clients
              THEN DOMAIN Line(w)' = 1..n /\ \A i \in 1..n : Line(w)'[i] = Line(w)[i]
              ELSE /\ DOMAIN Line(w)' = 1..(n - 1) /\ Line(w)[d + 1] \notin Clients
                   /\ \A i \in 1..(n - 1) :
                        Line(w)'[i] = IF i <= d THEN Line(w)[i] ELSE Line(w)[i + 1]
  <1> DEFINE q == inbox[w]
             d == dialled[w]
             r == inbox'[w]
             e == dialled'[w]
             L == Line(w)
             M == Line(w)'
             n == Len(d) + Len(q)
  <1>1. /\ Len(d) \in Nat /\ DOMAIN L = 1..n
        /\ \A i \in 1..n : L[i] = IF i <= Len(d) THEN d[i] ELSE q[i - Len(d)]
    BY LineFacts
  <1>2. /\ Len(e) \in Nat /\ Len(r) \in Nat /\ DOMAIN M = 1..(Len(e) + Len(r))
        /\ \A i \in 1..(Len(e) + Len(r)) : M[i] = IF i <= Len(e) THEN e[i] ELSE r[i - Len(e)]
    BY LineFactsNext
  <1>3. /\ Len(q) \in Nat \ {0} /\ DOMAIN r = 1..(Len(q) - 1) /\ Len(r) = Len(q) - 1
        /\ \A i \in DOMAIN r : r[i] = q[i + 1]
        /\ IF q[1] \in Clients
           THEN /\ DOMAIN e = 1..(Len(d) + 1) /\ Len(e) = Len(d) + 1
                /\ \A i \in DOMAIN d : e[i] = d[i]
                /\ e[Len(d) + 1] = q[1]
           ELSE e = d
    BY FrameRead
  <1>4. DOMAIN d = 1..Len(d)
    BY LenProperties DEF TypeOK
  <1> HIDE DEF q, d, r, e, L, M
  <1>5. n \in Nat \ {0} /\ Len(d) < n
    BY <1>1, <1>3
  <1>6. CASE q[1] \in Clients
    <2>0. Len(e) = Len(d) + 1
      BY <1>3, <1>6, Zenon
    <2>1. Len(e) + Len(r) = n
      BY <1>1, <1>3, <2>0
    <2>2. ASSUME NEW i \in 1..n PROVE M[i] = L[i]
      <3>1. CASE i <= Len(d)
        <4>1. i \in DOMAIN d
          BY <1>1, <1>4, <3>1
        <4>. QED  BY <1>1, <1>2, <1>3, <1>6, <2>1, <3>1, <4>1
      <3>2. CASE i = Len(d) + 1
        BY <1>1, <1>2, <1>3, <1>6, <2>1, <3>2
      <3>3. CASE i > Len(d) + 1
        <4>1. i - Len(e) \in DOMAIN r /\ (i - Len(e)) + 1 = i - Len(d)
          BY <1>1, <1>3, <2>0, <3>3
        <4>2. M[i] = r[i - Len(e)] /\ L[i] = q[i - Len(d)]
          BY <1>1, <1>2, <1>3, <1>6, <2>1, <3>3
        <4>. QED  BY <1>3, <4>1, <4>2
      <3>. QED  BY <1>1, <3>1, <3>2, <3>3
    <2>3. DOMAIN M = 1..n
      BY <1>2, <2>1
    <2>. QED  BY <1>1, <1>5, <1>6, <2>2, <2>3 DEF q, L, M
  <1>7. CASE q[1] \notin Clients
    <2>1. Len(e) + Len(r) = n - 1 /\ e = d
      BY <1>1, <1>3, <1>7
    <2>2. L[Len(d) + 1] \notin Clients
      BY <1>1, <1>3, <1>7
    <2>3. ASSUME NEW i \in 1..(n - 1)
          PROVE  M[i] = IF i <= Len(d) THEN L[i] ELSE L[i + 1]
      <3>1. CASE i <= Len(d)
        BY <1>1, <1>2, <1>3, <2>1, <3>1
      <3>2. CASE i > Len(d)
        <4>1. i - Len(d) \in DOMAIN r /\ (i - Len(d)) + 1 = (i + 1) - Len(d)
          BY <1>1, <1>3, <3>2
        <4>2. M[i] = r[i - Len(d)] /\ L[i + 1] = q[(i + 1) - Len(d)]
          BY <1>1, <1>2, <1>3, <2>1, <3>2
        <4>. QED  BY <1>3, <3>2, <4>1, <4>2
      <3>. QED  BY <1>1, <3>1, <3>2
    <2>4. DOMAIN M = 1..(n - 1)
      BY <1>2, <2>1
    <2>. QED  BY <1>1, <1>5, <1>7, <2>2, <2>3, <2>4 DEF q, L, M
  <1>. QED  BY <1>6, <1>7

\* Sending keeps every place of the peer's line and adds one address at most.
LEMMA LineSent ==
  ASSUME IInv, [Next]_vars, TypeOK', NEW h \in Threads, SendBody(h), NEW w \in Workers
  PROVE  /\ w # cur => Line(w)' = Line(w)
         /\ w = cur =>
              \E n, m \in Nat :
                /\ n < m /\ DOMAIN Line(w) = 1..n /\ DOMAIN Line(w)' = 1..m
                /\ \A i \in 1..n : Line(w)'[i] = Line(w)[i]
                /\ Line(w)'[m] = Body(h)
                /\ \A i \in 1..(m - 1) : i > n => Line(w)'[i] \in Workers
  <1>0. TypeOK /\ dialled' = dialled
    BY FramesSent DEF IInv
  <1>1. w # cur => Line(w)' = Line(w)
    BY <1>0, FramesSent DEF Line
  <1>2. ASSUME w = cur
        PROVE  \E n, m \in Nat :
                 /\ n < m /\ DOMAIN Line(w) = 1..n /\ DOMAIN Line(w)' = 1..m
                 /\ \A i \in 1..n : Line(w)'[i] = Line(w)[i]
                 /\ Line(w)'[m] = Body(h)
                 /\ \A i \in 1..(m - 1) : i > n => Line(w)'[i] \in Workers
    <2> DEFINE q == inbox[w]
               d == dialled[w]
               r == inbox'[w]
               k == Len(q) + Len(built) + 1
               L == Line(w)
               M == Line(w)'
               n == Len(d) + Len(q)
               m == Len(d) + k
    <2>1. /\ Len(d) \in Nat /\ Len(q) \in Nat /\ DOMAIN L = 1..n
          /\ \A i \in 1..n : L[i] = IF i <= Len(d) THEN d[i] ELSE q[i - Len(d)]
      BY <1>0, LineFacts
    <2>2. /\ Len(r) \in Nat /\ DOMAIN M = 1..(Len(d) + Len(r))
          /\ \A i \in 1..(Len(d) + Len(r)) : M[i] = IF i <= Len(d) THEN d[i] ELSE r[i - Len(d)]
      BY <1>0, LineFactsNext
    <2>3. /\ Len(built) \in Nat /\ DOMAIN q = 1..Len(q) /\ DOMAIN r = 1..k
          /\ \A i \in 1..k :
               /\ i \in DOMAIN q => r[i] = q[i]
               /\ i = k => r[i] = Body(h)
               /\ i \notin DOMAIN q /\ i # k => r[i] \in Workers
      BY <1>2, BrokerAssumption, FramesSent
    <2>4. Len(r) = k
      <3>1. r \in Seq(Frames)
        BY DEF TypeOK
      <3>2. DOMAIN r = 1..Len(r)
        BY <3>1, LenProperties
      <3>3. k \in 1..Len(r) /\ (Len(r) > 0 => Len(r) \in 1..k)
        BY <2>1, <2>2, <2>3, <3>2
      <3>. QED  BY <2>1, <2>2, <2>3, <3>3
    <2> HIDE DEF q, d, r, L, M
    <2>5. n \in Nat /\ m \in Nat /\ n < m /\ Len(d) + Len(r) = m
      BY <2>1, <2>3, <2>4
    <2>6. ASSUME NEW i \in 1..n PROVE M[i] = L[i]
      <3>1. CASE i <= Len(d)
        BY <2>1, <2>2, <2>5, <3>1
      <3>2. CASE i > Len(d)
        <4>1. i - Len(d) \in DOMAIN q /\ i - Len(d) \in 1..k
          BY <2>1, <2>3, <3>2
        <4>2. M[i] = r[i - Len(d)] /\ L[i] = q[i - Len(d)]
          BY <2>1, <2>2, <2>5, <3>2
        <4>. QED  BY <2>3, <4>1, <4>2
      <3>. QED  BY <2>1, <3>1, <3>2
    <2>7. M[m] = Body(h)
      <3>1. M[m] = r[m - Len(d)] /\ m - Len(d) = k /\ k \in 1..k
        BY <2>1, <2>2, <2>3, <2>5
      <3>. QED  BY <2>3, <3>1
    <2>8. ASSUME NEW i \in 1..(m - 1), i > n PROVE M[i] \in Workers
      <3>1. i - Len(d) \in 1..k /\ i - Len(d) # k /\ ~(i - Len(d) \in 1..Len(q))
        BY <2>1, <2>3, <2>8
      <3>2. M[i] = r[i - Len(d)]
        BY <2>1, <2>2, <2>3, <2>5, <2>8
      <3>. QED  BY <2>3, <3>1, <3>2
    <2>. QED  BY <2>1, <2>2, <2>5, <2>6, <2>7, <2>8 DEF L, M
  <1>. QED  BY <1>1, <1>2

\* A worker that reads a frame does not change who has been told of a client.
LEMMA ToldWhenRead ==
  ASSUME TypeOK, TypeOK', NEW w \in Workers, RecvFrame(w), NEW c \in Clients,
         \A p, q \in Told(c) : p = q
  PROVE  /\ \A p, q \in Told(c)' : p = q
         /\ Told(c)' = {} <=> Told(c) = {}
         /\ \A p \in Told(c), q \in Told(c)' : p[1] = q[1]
  <1>1. PICK n \in Nat \ {0}, d \in Nat :
           /\ d < n /\ DOMAIN Line(w) = 1..n
           /\ IF inbox[w][1] \in Clients
              THEN DOMAIN Line(w)' = 1..n /\ \A i \in 1..n : Line(w)'[i] = Line(w)[i]
              ELSE /\ DOMAIN Line(w)' = 1..(n - 1) /\ Line(w)[d + 1] \notin Clients
                   /\ \A i \in 1..(n - 1) :
                        Line(w)'[i] = IF i <= d THEN Line(w)[i] ELSE Line(w)[i + 1]
    BY LineRead
  <1>2. \A v \in Workers : v # w => Line(v)' = Line(v)
    BY FrameRead DEF Line
  <1> DEFINE Up(v, i) == IF v = w /\ inbox[w][1] \notin Clients /\ i > d THEN i + 1 ELSE i
  <1>3. ASSUME NEW v \in Workers, NEW i \in DOMAIN Line(v)'
        PROVE  Up(v, i) \in DOMAIN Line(v) /\ Line(v)'[i] = Line(v)[Up(v, i)]
    <2>1. CASE v # w
      BY <1>2, <1>3, <2>1
    <2>2. CASE v = w /\ inbox[w][1] \in Clients
      BY <1>1, <1>3, <2>2
    <2>3. CASE v = w /\ inbox[w][1] \notin Clients
      BY <1>1, <1>3, <2>3
    <2>. QED  BY <2>1, <2>2, <2>3
  <1>4. ASSUME NEW v \in Workers, NEW j \in DOMAIN Line(v), Line(v)[j] = c
        PROVE  \E i \in DOMAIN Line(v)' : Up(v, i) = j
    <2>1. CASE v # w
      BY <1>2, <1>4, <2>1
    <2>2. CASE v = w /\ inbox[w][1] \in Clients
      BY <1>1, <1>4, <2>2
    <2>3. CASE v = w /\ inbox[w][1] \notin Clients
      <3>1. j # d + 1 /\ j \in 1..n
        BY <1>1, <1>4, <2>3
      <3>2. DOMAIN Line(v)' = 1..(n - 1)
        BY <1>1, <2>3
      <3>3. CASE j <= d
        <4>1. j \in 1..(n - 1) /\ ~(j > d)
          BY <1>1, <3>1, <3>3
        <4>. QED  BY <3>2, <4>1
      <3>4. CASE j > d
        <4>1. j - 1 \in 1..(n - 1) /\ j - 1 > d /\ (j - 1) + 1 = j
          BY <1>1, <3>1, <3>4
        <4>. QED  BY <2>3, <3>2, <4>1
      <3>. QED  BY <1>1, <3>1, <3>3, <3>4
    <2>. QED  BY <2>1, <2>2, <2>3
  <1>5. ASSUME NEW v \in Workers, NEW i \in DOMAIN Line(v)', NEW j \in DOMAIN Line(v)',
               Up(v, i) = Up(v, j)
        PROVE  i = j
    <2>1. CASE v # w \/ inbox[w][1] \in Clients
      BY <1>5, <2>1
    <2>2. CASE v = w /\ inbox[w][1] \notin Clients
      <3>1. i \in Int /\ j \in Int /\ d \in Int
        BY <1>1, <1>5, <2>2
      <3>. QED  BY <1>5, <2>2, <3>1
    <2>. QED  BY <2>1, <2>2
  <1> HIDE DEF Up
  <1>6. ASSUME NEW p \in Told(c)'
        PROVE  \E v \in Workers : \E i \in DOMAIN Line(v)' :
                 p = <<v, i>> /\ <<v, Up(v, i)>> \in Told(c)
    <2>1. PICK v \in Workers : \E i \in DOMAIN Line(v)' : p = <<v, i>> /\ Line(v)'[i] = c
      BY <1>6, ToldIs
    <2>2. PICK i \in DOMAIN Line(v)' : p = <<v, i>> /\ Line(v)'[i] = c
      BY <2>1
    <2>3. Up(v, i) \in DOMAIN Line(v) /\ Line(v)[Up(v, i)] = c
      BY <1>3, <2>2
    <2>4. <<v, Up(v, i)>> \in Told(c)
      BY <2>3, ToldIs
    <2>. QED  BY <2>2, <2>4
  <1>7. ASSUME NEW p \in Told(c) PROVE Told(c)' # {}
    <2>1. PICK v \in Workers : \E j \in DOMAIN Line(v) : p = <<v, j>> /\ Line(v)[j] = c
      BY <1>7, ToldIs
    <2>2. PICK j \in DOMAIN Line(v) : Line(v)[j] = c
      BY <2>1
    <2>3. PICK i \in DOMAIN Line(v)' : Up(v, i) = j
      BY <1>4, <2>2
    <2>4. Line(v)'[i] = c
      BY <1>3, <2>2, <2>3
    <2>5. <<v, i>> \in Told(c)'
      BY <2>4, ToldIs
    <2>. QED  BY <2>5
  <1>8. ASSUME NEW p \in Told(c)', NEW q \in Told(c)' PROVE p = q
    <2>1. PICK v \in Workers : \E i \in DOMAIN Line(v)' :
                                 p = <<v, i>> /\ <<v, Up(v, i)>> \in Told(c)
      BY <1>6, <1>8
    <2>2. PICK i \in DOMAIN Line(v)' : p = <<v, i>> /\ <<v, Up(v, i)>> \in Told(c)
      BY <2>1
    <2>3. PICK u \in Workers : \E j \in DOMAIN Line(u)' :
                                 q = <<u, j>> /\ <<u, Up(u, j)>> \in Told(c)
      BY <1>6, <1>8
    <2>4. PICK j \in DOMAIN Line(u)' : q = <<u, j>> /\ <<u, Up(u, j)>> \in Told(c)
      BY <2>3
    <2>5. <<v, Up(v, i)>> = <<u, Up(u, j)>>
      BY <2>2, <2>4
    <2>6. v = u /\ Up(v, i) = Up(v, j)
      BY <2>5
    <2>. QED  BY <1>5, <2>2, <2>4, <2>6
  <1>9. ASSUME NEW p \in Told(c), NEW q \in Told(c)' PROVE p[1] = q[1]
    <2>1. PICK v \in Workers : \E i \in DOMAIN Line(v)' :
                                 q = <<v, i>> /\ <<v, Up(v, i)>> \in Told(c)
      BY <1>6, <1>9
    <2>2. PICK i \in DOMAIN Line(v)' : q = <<v, i>> /\ <<v, Up(v, i)>> \in Told(c)
      BY <2>1
    <2>3. p = <<v, Up(v, i)>>
      BY <1>9, <2>2
    <2>. QED  BY <2>2, <2>3
  <1>10. Told(c)' # {} => Told(c) # {}
    BY <1>6
  <1>. QED  BY <1>7, <1>8, <1>9, <1>10

\* A handler that sends a client's address tells the socket's peer of it, and any
\* other message tells nobody of a client.
LEMMA ToldWhenSent ==
  ASSUME IInv, [Next]_vars, TypeOK', NEW h \in Threads, SendBody(h), NEW c \in Clients
  PROVE  /\ cur = None \/ Body(h) # c => Told(c)' = Told(c)
         /\ cur # None /\ Body(h) = c /\ Told(c) = {} =>
              /\ Told(c)' # {} /\ \A p, q \in Told(c)' : p = q
              /\ \A p \in Told(c)' : p[1] = cur
  <1> USE BrokerAssumption
  <1>0. cur \in Workers \cup {None}
    BY DEF IInv, TypeOK
  <1>1. CASE cur = None
    <2>1. \A w \in Workers : Line(w)' = Line(w)
      BY <1>1, LineSent
    <2>2. ASSUME NEW p PROVE p \in Told(c)' <=> p \in Told(c)
      BY <2>1, ToldIs
    <2>. QED  BY <1>1, <2>2
  <1>2. CASE cur \in Workers
    <2>1. PICK n \in Nat, m \in Nat :
            /\ n < m /\ DOMAIN Line(cur) = 1..n
            /\ \A w \in Workers : w = cur =>
                 /\ DOMAIN Line(w)' = 1..m
                 /\ \A i \in 1..n : Line(w)'[i] = Line(w)[i]
                 /\ Line(w)'[m] = Body(h)
                 /\ \A i \in 1..(m - 1) : i > n => Line(w)'[i] \in Workers
      <3>1. ASSUME NEW w \in Workers, w = cur
            PROVE  \E n, m \in Nat :
                     /\ n < m /\ DOMAIN Line(w) = 1..n /\ DOMAIN Line(w)' = 1..m
                     /\ \A i \in 1..n : Line(w)'[i] = Line(w)[i]
                     /\ Line(w)'[m] = Body(h)
                     /\ \A i \in 1..(m - 1) : i > n => Line(w)'[i] \in Workers
        BY <3>1, LineSent
      <3>. QED  BY <1>2, <3>1
    <2>2. \A w \in Workers : w # cur => Line(w)' = Line(w)
      BY LineSent
    <2>3. ASSUME NEW w \in Workers, NEW i \in DOMAIN Line(w), Line(w)[i] = c
          PROVE  i \in DOMAIN Line(w)' /\ Line(w)'[i] = c
      BY <2>1, <2>2, <2>3
    <2>4. ASSUME NEW w \in Workers, NEW i \in DOMAIN Line(w)', Line(w)'[i] = c
          PROVE  \/ i \in DOMAIN Line(w) /\ Line(w)[i] = c
                 \/ w = cur /\ i = m /\ Body(h) = c
      <3>1. CASE w # cur
        BY <2>2, <2>4, <3>1
      <3>2. CASE w = cur
        <4>1. i \in 1..m
          BY <2>1, <2>4, <3>2
        <4>2. CASE i \in 1..n
          BY <2>1, <2>4, <3>2, <4>2
        <4>3. CASE i = m
          BY <2>1, <2>4, <3>2, <4>3
        <4>4. CASE i \notin 1..n /\ i # m
          <5>1. i \in 1..(m - 1) /\ i > n
            BY <2>1, <4>1, <4>4
          <5>. QED  BY <2>1, <2>4, <3>2, <5>1
        <4>. QED  BY <4>2, <4>3, <4>4
      <3>. QED  BY <3>1, <3>2
    <2>5. Told(c) \subseteq Told(c)'
      BY <2>3, ToldIs
    <2>6. ASSUME NEW p \in Told(c)' PROVE p \in Told(c) \/ (p = <<cur, m>> /\ Body(h) = c)
      BY <2>4, <2>6, ToldIs
    <2>7. Body(h) = c => <<cur, m>> \in Told(c)'
      <3>1. \A w \in Workers : w = cur => m \in DOMAIN Line(w)' /\ Line(w)'[m] = Body(h)
        BY <2>1
      <3>. QED  BY <1>2, <3>1, ToldIs
    <2>8. Body(h) # c => Told(c)' = Told(c)
      BY <2>5, <2>6
    <2>9. Body(h) = c /\ Told(c) = {} => Told(c)' = {<<cur, m>>}
      BY <2>6, <2>7
    <2>10. ASSUME Body(h) = c, Told(c) = {}
           PROVE  /\ Told(c)' # {} /\ \A p, q \in Told(c)' : p = q
                  /\ \A p \in Told(c)' : p[1] = cur
      <3>1. Told(c)' = {<<cur, m>>}
        BY <2>9, <2>10
      <3>2. <<cur, m>>[1] = cur
        OBVIOUS
      <3>. QED  BY <3>1, <3>2
    <2>11. cur # None
      BY <1>2
    <2>. QED  BY <2>8, <2>10, <2>11
  <1>. QED  BY <1>0, <1>1, <1>2

\* A client whose request has a worker and is with no handler stays so.
LEMMA DoneStaysDone ==
  ASSUME IInv, [Next]_vars, NEW c \in Clients, chosen[c] # None, \A h \in TkThreads : arg[h] # c
  PROVE  chosen'[c] # None /\ \A h \in TkThreads : arg'[h] # c
  <1> USE BrokerAssumption
  <1>1. chosen'[c] # None
    BY Kept
  <1>2. ASSUME NEW g \in TkThreads, StartTk(g) PROVE \A h \in TkThreads : arg'[h] # c
    <2>1. Head(tkQueue) \in TkQueued
      BY <1>2, QueuedByTail DEF StartTk, IInv
    <2>2. Head(tkQueue) # c
      BY <2>1 DEF IInv, OnceInv
    <2>. QED  BY <1>2, <2>2 DEF StartTk, IInv, TypeOK, Threads
  <1>3. ASSUME NEW g \in HbThreads, StartHb(g) PROVE \A h \in TkThreads : arg'[h] # c
    BY <1>3 DEF StartHb, IInv, TypeOK, Threads
  <1>4. ASSUME NEW g \in Threads, SendBody(g) PROVE \A h \in TkThreads : arg'[h] # c
    BY <1>4 DEF SendBody, IInv, TypeOK, Threads
  <1>5. ASSUME NEW g \in TkThreads, Pick(g) PROVE \A h \in TkThreads : arg'[h] # c
    BY <1>5 DEF Pick, IInv, TypeOK, Threads
  <1>6. CASE UNCHANGED arg
    BY <1>1, <1>6
  <1>. QED
    BY <1>1, <1>2, <1>3, <1>4, <1>5, <1>6
       DEF Next, vars, poolVars, Loop, Handler, Tick, SendBeat, Leave, RecvFrame, SendRequest,
           Poll, HandleTk, ReadClock, Store, SendIdentity, RedisDown

\* The steps that neither read nor send a frame tell nobody of a client.
LEMMA ToldKept ==
  ASSUME [Next]_vars, NEW c \in Clients,
         \A w \in Workers : ~RecvFrame(w), \A h \in Threads : ~SendBody(h)
  PROVE  Told(c)' = Told(c)
  <1>1. UNCHANGED <<inbox, dialled>>
    BY DEF Next, vars, workerVars, Loop, Handler, Tick, SendBeat, Leave, SendRequest, Poll,
           HandleTk, StartHb, StartTk, ReadClock, Store, Pick, SendIdentity, RedisDown
  <1>. QED  BY <1>1 DEF Told

LEMMA ToldNext == IInv /\ ToldInv /\ [Next]_vars => ToldInv'
  <1> SUFFICES ASSUME IInv, ToldInv, [Next]_vars, NEW c \in Clients
               PROVE  /\ \A p, q \in Told(c)' : p = q
                      /\ Told(c)' # {} => chosen'[c] # None /\ \A h \in TkThreads : arg'[h] # c
    BY DEF ToldInv
  <1> USE BrokerAssumption
  <1>0. /\ TypeOK /\ TypeOK' /\ HandlerInv /\ OnceInv
        /\ \A p, q \in Told(c) : p = q
        /\ Told(c) # {} => chosen'[c] # None /\ \A h \in TkThreads : arg'[h] # c
    BY TypeNext, DoneStaysDone DEF IInv, ToldInv
  <1>1. ASSUME NEW w \in Workers, RecvFrame(w)
        PROVE  (\A p, q \in Told(c)' : p = q) /\ (Told(c)' = {} <=> Told(c) = {})
    BY <1>0, <1>1, ToldWhenRead
  <1>2. ASSUME NEW h \in Threads, SendBody(h)
        PROVE  \/ Told(c)' = Told(c)
               \/ /\ \A p, q \in Told(c)' : p = q
                  /\ chosen'[c] # None /\ \A g \in TkThreads : arg'[g] # c
    <2>1. CASE Body(h) # c \/ cur = None
      BY <1>0, <1>2, <2>1, ToldWhenSent
    <2>2. CASE Body(h) = c /\ cur # None
      <3>1. h \in TkThreads /\ arg[h] = c /\ stage[h] = "body"
        BY <1>2, <2>2 DEF Body, SendBody, Threads
      <3>2. Told(c) = {} /\ chosen[c] # None
        BY <3>1 DEF ToldInv, IInv, OnceInv
      <3>3. \A g \in TkThreads : arg'[g] # c
        BY <1>0, <1>2, <3>1 DEF SendBody, OnceInv, TypeOK, Threads
      <3>4. \A p, q \in Told(c)' : p = q
        BY <1>0, <1>2, <2>2, <3>2, ToldWhenSent
      <3>5. chosen' = chosen
        BY <1>2 DEF SendBody
      <3>. QED  BY <3>2, <3>3, <3>4, <3>5
    <2>. QED  BY <2>1, <2>2
  <1>3. CASE (\A w \in Workers : ~RecvFrame(w)) /\ (\A h \in Threads : ~SendBody(h))
    BY <1>0, <1>3, ToldKept
  <1>. QED  BY <1>0, <1>1, <1>2, <1>3

\* However the handlers' frames mix, and whether or not redis answers, the address
\* of a client reaches one worker at most and reaches it once, and it is sent only
\* after a worker was picked.
THEOREM AddressSentOnce == Spec => []ToldInv
  <1>1. Init => ToldInv
    <2> SUFFICES ASSUME Init, NEW c \in Clients PROVE Told(c) = {}
      BY DEF ToldInv
    <2>1. TypeOK
      BY TypeInit
    <2>2. ASSUME NEW w \in Workers PROVE DOMAIN Line(w) = {}
      BY <2>1, LineFacts DEF Init
    <2>. QED  BY <2>2, ToldIs
  <1>2. IInv /\ ToldInv /\ [Next]_vars => ToldInv'
    BY ToldNext
  <1>. QED  BY <1>1, <1>2, IInvHolds, PTL DEF Spec

-----------------------------------------------------------------------------
(* The broker implements Dispatch *)

Asked == {c \in Clients : c \in Requested \cup refused \/ chosen[c] # None}
Known == {w \in Workers : table[w] # None}
Takers == [c \in Clients |-> Taker(c)]

\* Taker, where an address is in one place at most.
LEMMA TakerIs ==
  ASSUME NEW c
  PROVE  /\ Told(c) = {} => Taker(c) = None
         /\ Told(c)' = {} => Taker(c)' = None
         /\ \A p \in Told(c) : (\A q, r \in Told(c) : q = r) => Taker(c) = p[1]
         /\ \A p \in Told(c)' : (\A q, r \in Told(c)' : q = r) => Taker(c)' = p[1]
  <1>1. (Told(c) = {} => Taker(c) = None) /\ (Told(c)' = {} => Taker(c)' = None)
    BY DEF Taker
  <1>2. ASSUME NEW T, NEW p \in T, \A q, r \in T : q = r PROVE (CHOOSE q \in T : TRUE) = p
    BY <1>2
  <1>3. ASSUME NEW p \in Told(c), \A q, r \in Told(c) : q = r PROVE Taker(c) = p[1]
    <2>1. Taker(c) = (CHOOSE q \in Told(c) : TRUE)[1]
      BY <1>3 DEF Taker
    <2>. QED  BY <1>2, <1>3, <2>1
  <1>4. ASSUME NEW p \in Told(c)', \A q, r \in Told(c)' : q = r PROVE Taker(c)' = p[1]
    <2>1. Taker(c)' = (CHOOSE q \in Told(c)' : TRUE)[1]
      BY <1>4 DEF Taker
    <2>. QED  BY <1>2, <1>4, <2>1
  <1>. QED  BY <1>1, <1>3, <1>4

\* Only a client's request adds to what has been asked.
LEMMA AskedKept ==
  ASSUME IInv, [Next]_vars, \A c \in Clients : ~SendRequest(c)
  PROVE  Asked' = Asked
  <1> USE BrokerAssumption
  <1> USE DEF Threads
  <1>0. TypeOK /\ HandlerInv /\ OnceInv
    BY DEF IInv
  <1>1. \A c \in Clients : /\ c \in Asked <=> \/ c \in tkIn \/ c \in TkQueued
                                              \/ c \in TkHeld \/ c \in refused \/ chosen[c] # None
                           /\ c \in Asked' <=> \/ c \in tkIn' \/ c \in TkQueued'
                                               \/ c \in TkHeld' \/ c \in refused' \/ chosen'[c] # None
    BY DEF Asked, Requested, TkQueued, TkHeld
  <1> SUFFICES ASSUME NEW c \in Clients PROVE c \in Asked' <=> c \in Asked
    BY DEF Asked
  <1>2. CASE HandleTk
    <2>1. PICK d \in tkIn : tkIn' = tkIn \ {d} /\ tkQueue' = Append(tkQueue, d)
      BY <1>2 DEF HandleTk
    <2>2. d \in Clients /\ d \notin TkQueued
      BY <1>0 DEF TypeOK, OnceInv
    <2>3. TkQueued' = TkQueued \cup {d}
      BY <1>0, <2>1, <2>2, QueuedByAppend
    <2>4. UNCHANGED <<chosen, refused>> /\ TkHeld' = TkHeld
      BY <1>2 DEF HandleTk, TkHeld, failVars
    <2>. QED  BY <1>1, <2>1, <2>3, <2>4
  <1>3. ASSUME NEW h \in TkThreads, StartTk(h) PROVE c \in Asked' <=> c \in Asked
    <2> DEFINE d == Head(tkQueue)
    <2>1. d \in Clients /\ d \in TkQueued /\ TkQueued' = TkQueued \ {d}
      BY <1>0, <1>3, QueuedByTail DEF StartTk
    <2>2. /\ \A g \in TkThreads : arg'[g] = IF g = h THEN d ELSE arg[g]
          /\ UNCHANGED <<tkIn, chosen, refused>> /\ arg[h] = None
      BY <1>0, <1>3 DEF StartTk, TypeOK, HandlerInv, loopVars, failVars
    <2> HIDE DEF d
    <2>3. c \in TkHeld' <=> c \in TkHeld \/ c = d
      <3>1. c # None
        OBVIOUS
      <3>. QED  BY <2>2, <3>1 DEF TkHeld
    <2>. QED  BY <1>1, <2>1, <2>2, <2>3
  <1>4. ASSUME NEW h \in HbThreads, StartHb(h) PROVE c \in Asked' <=> c \in Asked
    <2>1. UNCHANGED <<tkIn, tkQueue, chosen, refused>> /\ \A g \in TkThreads : arg'[g] = arg[g]
      BY <1>0, <1>4 DEF StartHb, TypeOK, loopVars, failVars
    <2>. QED  BY <1>1, <2>1 DEF TkQueued, TkHeld
  <1>5. ASSUME NEW h \in TkThreads, Pick(h) PROVE c \in Asked' <=> c \in Asked
    <2>1. arg[h] \in TkHeld /\ UNCHANGED <<tkIn, tkQueue>>
      BY <1>0, <1>5 DEF Pick, HandlerInv, TkHeld, loopVars
    <2>2. CASE UNCHANGED <<arg, refused>>
      <3>1. c # arg[h] => chosen'[c] = chosen[c]
        BY <1>0, <1>5 DEF Pick, TypeOK
      <3>2. CASE c # arg[h]
        BY <1>1, <2>1, <2>2, <3>1, <3>2 DEF TkQueued, TkHeld
      <3>3. CASE c = arg[h]
        BY <1>1, <2>1, <2>2, <3>3 DEF TkHeld
      <3>. QED  BY <3>2, <3>3
    <2>3. CASE /\ refused' = refused \cup {arg[h]} /\ arg' = [arg EXCEPT ![h] = None]
               /\ UNCHANGED chosen
      <3>1. \A g \in TkThreads : arg'[g] = IF g = h THEN None ELSE arg[g]
        BY <1>0, <2>3 DEF TypeOK
      <3>2. TkHeld' \subseteq TkHeld /\ TkHeld \subseteq TkHeld' \cup {arg[h]}
        BY <3>1 DEF TkHeld
      <3>. QED  BY <1>1, <2>1, <2>3, <3>2 DEF TkQueued
    <2>. QED  BY <1>5, <2>2, <2>3 DEF Pick
  <1>6. ASSUME NEW h \in Threads, SendBody(h) PROVE c \in Asked' <=> c \in Asked
    <2>1. /\ UNCHANGED <<tkIn, tkQueue, chosen, refused>> /\ stage[h] = "body"
          /\ \A g \in TkThreads : arg'[g] = IF g = h THEN None ELSE arg[g]
      BY <1>0, <1>6 DEF SendBody, TypeOK, loopVars, failVars
    <2>2. h \in TkThreads => chosen[arg[h]] # None
      BY <1>0, <2>1 DEF OnceInv
    <2>3. c \in TkHeld' => c \in TkHeld
      BY <2>1 DEF TkHeld
    <2>4. c \in TkHeld => c \in TkHeld' \/ chosen[c] # None
      BY <2>1, <2>2 DEF TkHeld
    <2>. QED  BY <1>1, <2>1, <2>3, <2>4 DEF TkQueued
  <1>7. CASE UNCHANGED <<tkIn, tkQueue, arg, chosen, refused>>
    BY <1>1, <1>7 DEF TkQueued, TkHeld
  <1>. QED
    BY <1>2, <1>3, <1>4, <1>5, <1>6, <1>7
       DEF Next, vars, poolVars, loopVars, failVars, Loop, Handler, Tick, SendBeat, Leave, RecvFrame,
           Poll, ReadClock, Store, SendIdentity, RedisDown

\* Only the last frame of a handler's message may tell a worker of a client.
LEMMA TakersKept ==
  ASSUME IInv, ToldInv, [Next]_vars, \A h \in TkThreads : ~(SendBody(h) /\ cur # None)
  PROVE  Takers' = Takers
  <1> USE BrokerAssumption
  <1> SUFFICES ASSUME NEW c \in Clients PROVE Taker(c)' = Taker(c)
    BY DEF Takers
  <1>0. TypeOK /\ TypeOK' /\ \A p, q \in Told(c) : p = q
    BY TypeNext DEF IInv, ToldInv
  <1>1. ASSUME NEW w \in Workers, RecvFrame(w) PROVE Taker(c)' = Taker(c)
    <2>1. /\ \A p, q \in Told(c)' : p = q
          /\ Told(c)' = {} <=> Told(c) = {}
          /\ \A p \in Told(c), q \in Told(c)' : p[1] = q[1]
      BY <1>0, <1>1, ToldWhenRead
    <2>2. CASE Told(c) = {}
      BY <2>1, <2>2, TakerIs
    <2>3. ASSUME NEW p \in Told(c), NEW q \in Told(c)' PROVE Taker(c)' = Taker(c)
      <3>1. Taker(c) = p[1]
        BY <1>0, TakerIs
      <3>2. Taker(c)' = q[1]
        BY <2>1, TakerIs
      <3>. QED  BY <2>1, <3>1, <3>2
    <2>. QED  BY <2>1, <2>2, <2>3
  <1>2. Told(c)' = Told(c) => Taker(c)' = Taker(c)
    BY DEF Taker
  <1>3. ASSUME NEW h \in Threads, SendBody(h) PROVE Told(c)' = Told(c)
    <2>1. cur = None \/ Body(h) # c
      BY <1>3 DEF Body, Threads
    <2>. QED  BY <1>0, <1>3, <2>1, ToldWhenSent
  <1>. QED  BY <1>1, <1>2, <1>3, ToldKept

LEMMA DispInit == Init => Disp!Init
  <1> SUFFICES ASSUME Init PROVE Disp!Init
    OBVIOUS
  <1> USE BrokerAssumption
  <1>1. \A c \in Clients : c \notin Requested \cup refused /\ chosen[c] = None
    BY DEF Init, Requested, Threads
  <1>2. \A c \in Clients : Told(c) = {}
    <2> SUFFICES ASSUME NEW c \in Clients PROVE Told(c) = {}
      OBVIOUS
    <2>1. TypeOK
      BY TypeInit
    <2>2. ASSUME NEW w \in Workers PROVE DOMAIN Line(w) = {}
      BY <2>1, LineFacts DEF Init
    <2>. QED  BY <2>2, ToldIs
  <1>3. \A c \in Clients : Taker(c) = None
    BY <1>2, TakerIs
  <1>. QED  BY <1>1, <1>3 DEF Init, Disp!Init

LEMMA DispNext == IInv /\ ToldInv /\ [Next]_vars => [Disp!Next]_(Disp!dispatchVars)
  <1> SUFFICES ASSUME IInv, ToldInv, [Next]_vars PROVE [Disp!Next]_(Disp!dispatchVars)
    OBVIOUS
  <1> USE BrokerAssumption
  <1>0. TypeOK /\ HandlerInv /\ OnceInv /\ RouterInv
    BY DEF IInv
  <1>a. UNCHANGED <<inbox, dialled>> => Takers' = Takers
    BY DEF Takers, Taker, Told
  <1>b. UNCHANGED <<Asked, Known, chosen, Takers, overlapped, refused>> => UNCHANGED Disp!dispatchVars
    BY DEF Disp!dispatchVars, Asked, Known, Takers
  <1>1. ASSUME NEW c \in Clients, SendRequest(c) PROVE Disp!Ask(c)
    <2>1. c \notin Asked
      BY <1>1 DEF SendRequest, Asked
    <2>2. Asked' = Asked \cup {c}
      BY <1>1 DEF SendRequest, Asked, Requested, poolVars, failVars
    <2>3. UNCHANGED <<Known, chosen, overlapped, refused>>
      BY <1>1 DEF SendRequest, Known, outVars, failVars
    <2>4. Takers' = Takers
      BY <1>1, <1>a DEF SendRequest, workerVars
    <2>. QED  BY <2>1, <2>2, <2>3, <2>4 DEF Disp!Ask, Asked, Known, Takers
  <1>2. ASSUME NEW h \in HbThreads, Store(h), Asked' = Asked
        PROVE  (\E w \in Workers : Disp!Store(w)) \/ UNCHANGED Disp!dispatchVars
    <2>1. PICK w \in Workers : w = arg[h] /\ insertTime[h] # None
      BY <1>0, <1>2 DEF Store, HandlerInv
    <2>2. Known' = Known \cup {w} \/ Known' = Known
      <3>1. CASE UNCHANGED table
        BY <3>1 DEF Known
      <3>2. CASE table' = [table EXCEPT ![w] = insertTime[h]]
        BY <1>0, <2>1, <3>2 DEF Known, TypeOK
      <3>. QED  BY <1>2, <2>1, <3>1, <3>2 DEF Store
    <2>3. UNCHANGED <<chosen, overlapped, Takers, refused>>
      BY <1>2, <1>a DEF Store, outVars, workerVars
    <2>4. CASE w \in Known \/ Known' = Known
      BY <1>2, <1>b, <2>2, <2>3, <2>4
    <2>5. CASE w \notin Known /\ Known' = Known \cup {w}
      BY <1>2, <2>2, <2>3, <2>5 DEF Disp!Store, Asked, Known, Takers
    <2>. QED  BY <2>2, <2>4, <2>5
  <1>3. ASSUME NEW h \in TkThreads, Pick(h), Asked' = Asked
        PROVE  \/ \E c \in Clients : Disp!Refuse(c) \/ \E w \in Workers : Disp!Assign(c, w)
               \/ UNCHANGED Disp!dispatchVars
    <2>1. UNCHANGED <<Known, overlapped, Takers>>
      BY <1>3, <1>a DEF Pick, Known, outVars, workerVars
    <2>a. PICK c \in Clients : c = arg[h]
      BY <1>0, <1>3 DEF Pick, HandlerInv
    <2>b. c \in Asked /\ chosen[c] = None /\ c \notin refused
      <3>1. c \in TkHeld /\ stage[h] = "pick"
        BY <1>3, <2>a DEF Pick, TkHeld
      <3>. QED  BY <1>0, <2>a, <3>1 DEF OnceInv, Asked, Requested
    <2>2. CASE UNCHANGED <<chosen, refused>>
      BY <1>3, <1>b, <2>1, <2>2
    <2>4. CASE UNCHANGED chosen /\ refused' = refused \cup {arg[h]}
      BY <1>3, <2>1, <2>4, <2>a, <2>b DEF Disp!Refuse, Asked, Known, Takers
    <2>3. ASSUME NEW w \in Freshest, chosen' = [chosen EXCEPT ![arg[h]] = w], UNCHANGED refused
          PROVE  \E v \in Workers : Disp!Assign(c, v)
      <3>1. w \in Workers /\ w \in Known
        BY DEF Freshest, Known
      <3>2. chosen' = [chosen EXCEPT ![c] = w]
        BY <2>3, <2>a
      <3>. QED  BY <1>3, <2>1, <2>3, <2>b, <3>1, <3>2 DEF Disp!Assign, Asked, Known, Takers
    <2>. QED  BY <1>3, <2>2, <2>3, <2>4 DEF Pick
  <1>4. ASSUME NEW h \in Threads, SendIdentity(h), Asked' = Asked
        PROVE  Disp!Garble \/ UNCHANGED Disp!dispatchVars
    <2>1. UNCHANGED <<Known, chosen, Takers, refused>>
      BY <1>4, <1>a DEF SendIdentity, Known, workerVars, failVars
    <2>2. CASE more
      BY <1>4, <2>1, <2>2 DEF SendIdentity, Disp!Garble, Asked, Known, Takers
    <2>3. CASE ~more
      BY <1>4, <1>b, <2>1, <2>3 DEF SendIdentity
    <2>. QED  BY <2>2, <2>3
  <1>5. ASSUME NEW h \in Threads, SendBody(h), Asked' = Asked
        PROVE  \/ \E c \in Clients, w \in Workers : Disp!Tell(c, w)
               \/ UNCHANGED Disp!dispatchVars
    <2>1. UNCHANGED <<Known, chosen, overlapped, refused>> /\ stage[h] = "body"
      BY <1>5 DEF SendBody, Known, failVars
    <2>2. CASE h \in HbThreads \/ cur = None
      <3>1. \A g \in TkThreads : ~(SendBody(g) /\ cur # None)
        <4>1. CASE cur = None
          BY <4>1
        <4>2. ASSUME NEW g \in TkThreads, SendBody(g), h \in HbThreads PROVE FALSE
          <5>1. g # h /\ g \in Threads
            BY <4>2 DEF Threads
          <5>2. stage'[h] = "idle" /\ stage'[h] = stage[h]
            BY <1>0, <1>5, <4>2, <5>1 DEF SendBody, TypeOK
          <5>. QED  BY <2>1, <5>2
        <4>. QED  BY <2>2, <4>1, <4>2
      <3>. QED  BY <1>5, <1>b, <2>1, <3>1, TakersKept
    <2>3. CASE h \in TkThreads /\ cur # None
      <3>0. PICK c \in Clients : c = arg[h]
        BY <1>0, <2>1, <2>3 DEF HandlerInv
      <3>1. Body(h) = c /\ Target(h) = chosen[c] /\ chosen[c] # None /\ cur \in Workers
        BY <1>0, <2>1, <2>3, <3>0 DEF OnceInv, Body, Target, TypeOK
      <3>2. Told(c) = {}
        BY <2>3, <3>0 DEF ToldInv
      <3>3. cur = chosen[c] \/ overlapped
        BY <1>0, <1>5, <2>1, <2>3, <3>1 DEF RouterInv
      <3>4. Taker(c) = None
        BY <3>2, TakerIs
      <3>5. TypeOK'
        BY TypeNext
      <3>6. Taker(c)' = cur
        <4>1. /\ Told(c)' # {} /\ \A p, q \in Told(c)' : p = q
              /\ \A p \in Told(c)' : p[1] = cur
          BY <1>5, <2>3, <3>1, <3>2, <3>5, ToldWhenSent
        <4>. QED  BY <4>1, TakerIs
      <3>7. \A d \in Clients : d # c => Taker(d)' = Taker(d)
        <4> SUFFICES ASSUME NEW d \in Clients, d # c PROVE Taker(d)' = Taker(d)
          OBVIOUS
        <4>1. Told(d)' = Told(d)
          BY <1>5, <3>1, <3>5, ToldWhenSent
        <4>. QED  BY <4>1 DEF Taker
      <3>8. Takers' = [Takers EXCEPT ![c] = cur]
        BY <3>6, <3>7 DEF Takers
      <3>. QED  BY <1>5, <2>1, <3>1, <3>3, <3>4, <3>8 DEF Disp!Tell, Asked, Known, Takers
    <2>. QED  BY <2>2, <2>3 DEF Threads
  <1>6. ASSUME NEW w \in Workers, RecvFrame(w), Asked' = Asked PROVE UNCHANGED Disp!dispatchVars
    <2>1. UNCHANGED <<Known, chosen, overlapped, refused>> /\ stage' = stage
      BY <1>6 DEF RecvFrame, Known, outVars, poolVars, failVars
    <2>2. \A h \in TkThreads : ~SendBody(h)
      BY <1>0, <2>1 DEF SendBody, TypeOK, Threads
    <2>3. Takers' = Takers
      BY <2>2, TakersKept
    <2>. QED  BY <1>6, <1>b, <2>1, <2>3
  <1>7. ASSUME UNCHANGED <<table, chosen, inbox, dialled, overlapped, refused>>, Asked' = Asked
        PROVE  UNCHANGED Disp!dispatchVars
    BY <1>7, <1>a, <1>b DEF Known
  <1>8. CASE \E c \in Clients : SendRequest(c)
    BY <1>1, <1>8 DEF Disp!Next
  <1>9. CASE \A c \in Clients : ~SendRequest(c)
    <2>1. Asked' = Asked
      BY <1>9, AskedKept
    <2>2. ASSUME NEW h \in HbThreads, Store(h) PROVE [Disp!Next]_(Disp!dispatchVars)
      BY <1>2, <2>1, <2>2 DEF Disp!Next
    <2>3. ASSUME NEW h \in TkThreads, Pick(h) PROVE [Disp!Next]_(Disp!dispatchVars)
      BY <1>3, <2>1, <2>3 DEF Disp!Next
    <2>4. ASSUME NEW h \in Threads, SendIdentity(h) \/ SendBody(h)
          PROVE  [Disp!Next]_(Disp!dispatchVars)
      BY <1>4, <1>5, <2>1, <2>4 DEF Disp!Next
    <2>5. ASSUME NEW w \in Workers, RecvFrame(w) PROVE [Disp!Next]_(Disp!dispatchVars)
      BY <1>6, <2>1, <2>5
    <2>6. CASE UNCHANGED <<table, chosen, inbox, dialled, overlapped, refused>>
      BY <1>7, <2>1, <2>6
    <2>. QED
      BY <1>9, <2>2, <2>3, <2>4, <2>5, <2>6
         DEF Next, vars, poolVars, loopVars, outVars, workerVars, failVars, Loop, Handler, Tick,
             SendBeat, Leave, Poll, HandleTk, StartHb, StartTk, ReadClock, RedisDown
  <1>. QED  BY <1>8, <1>9

\* The broker, with its pools of handlers, its one socket and its table, is an
\* implementation of Dispatch for any workers, clients and threads.
THEOREM BrokerImplementsDispatch == Spec => ImplementsDispatch
  <1>1. Init => Disp!Init
    BY DispInit
  <1>2. IInv /\ ToldInv /\ [Next]_vars => [Disp!Next]_(Disp!dispatchVars)
    BY DispNext
  <1>. QED  BY <1>1, <1>2, IInvHolds, AddressSentOnce, PTL DEF Spec, ImplementsDispatch, Disp!Spec

-----------------------------------------------------------------------------
(* A request that has a worker is not forgotten *)

\* The handler of client c has picked a worker that the socket knows, and has not
\* begun its message.
Picked(c) ==
  chosen[c] \in connected /\ \E h \in TkThreads : arg[h] = c /\ stage[h] = "ident"

\* The message to the worker picked for client c is to be sent, or half of it is and
\* the socket is inside it.
OnItsWay(c) ==
  \E h \in TkThreads :
    /\ arg[h] = c /\ chosen[c] \in connected
    /\ stage[h] = "ident" \/ (stage[h] = "body" /\ cur = chosen[c])

NotForgotten(c) == overlapped \/ Told(c) # {} \/ OnItsWay(c)

\* A client some worker has been told of is not taken back.
LEMMA ToldForGood ==
  ASSUME IInv, ToldInv, [Next]_vars, NEW c \in Clients, Told(c) # {}
  PROVE  Told(c)' # {}
  <1>0. TypeOK /\ TypeOK' /\ (\A p, q \in Told(c) : p = q) /\ \A h \in TkThreads : arg[h] # c
    BY TypeNext DEF IInv, ToldInv
  <1>1. ASSUME NEW w \in Workers, RecvFrame(w) PROVE Told(c)' # {}
    BY <1>0, <1>1, ToldWhenRead
  <1>2. ASSUME NEW h \in Threads, SendBody(h) PROVE Told(c)' # {}
    <2>1. Body(h) # c
      BY <1>0, BrokerAssumption DEF Body, Threads
    <2>. QED  BY <1>0, <1>2, <2>1, ToldWhenSent
  <1>3. CASE (\A w \in Workers : ~RecvFrame(w)) /\ (\A h \in Threads : ~SendBody(h))
    BY <1>3, ToldKept
  <1>. QED  BY <1>1, <1>2, <1>3

\* A message on its way stays so or is told, unless another is begun inside it.
LEMMA OnItsWayNext ==
  ASSUME IInv, ToldInv, [Next]_vars, NEW c \in Clients, OnItsWay(c), ~overlapped'
  PROVE  Told(c)' # {} \/ OnItsWay(c)'
  <1> USE BrokerAssumption
  <1> USE DEF Threads
  <1>0. PICK h \in TkThreads :
          /\ arg[h] = c /\ chosen[c] \in connected
          /\ stage[h] = "ident" \/ (stage[h] = "body" /\ cur = chosen[c])
    BY DEF OnItsWay
  <1>a. TypeOK /\ TypeOK' /\ chosen[c] # None /\ ~overlapped
    <2>1. TypeOK /\ TypeOK'
      BY TypeNext DEF IInv
    <2>2. chosen[c] # None
      BY <1>0, <2>1 DEF TypeOK
    <2>3. ~overlapped
      BY Kept, Zenon
    <2>. QED  BY <2>1, <2>2, <2>3
  <1>1. /\ chosen[c] # None /\ chosen'[c] = chosen[c] /\ chosen'[c] \in connected'
        /\ ~overlapped /\ TypeOK /\ TypeOK' /\ h \in Threads
    BY <1>0, <1>a, Kept
  <1>2. \A g \in TkThreads : arg[g] = c => g = h
    BY <1>0, <1>1 DEF IInv, OnceInv
  <1>3. CASE UNCHANGED <<stage, arg, cur>>
    BY <1>0, <1>1, <1>3 DEF OnItsWay
  <1>4. ASSUME NEW g \in Threads, SendIdentity(g) PROVE OnItsWay(c)'
    <2>1. ~more /\ cur' = IF Target(g) \in connected THEN Target(g) ELSE None
      BY <1>1, <1>4 DEF SendIdentity
    <2>2. stage[h] = "ident"
      BY <1>0, <1>1, <2>1 DEF IInv, RouterInv
    <2>3. g = h => Target(g) = chosen[c]
      BY <1>0 DEF Target
    <2>4. arg'[h] = c /\ stage'[h] = IF g = h THEN "body" ELSE "ident"
      BY <1>0, <1>1, <1>4, <2>2 DEF SendIdentity, TypeOK
    <2>. QED  BY <1>0, <1>1, <2>1, <2>3, <2>4 DEF OnItsWay
  <1>5. ASSUME NEW g \in Threads, SendBody(g) PROVE Told(c)' # {} \/ OnItsWay(c)'
    <2>1. CASE g = h
      <3>1. stage[h] = "body" /\ cur # None /\ Body(h) = c
        BY <1>0, <1>1, <1>5, <2>1 DEF SendBody, Body
      <3>2. Told(c) = {}
        BY <1>0 DEF ToldInv
      <3>. QED  BY <1>1, <1>5, <2>1, <3>1, <3>2, ToldWhenSent
    <2>2. CASE g # h
      <3>1. stage[g] = "body" /\ stage[h] # "body"
        BY <1>1, <1>5, <2>2 DEF SendBody, IInv, RouterInv
      <3>2. arg'[h] = c /\ stage'[h] = "ident"
        BY <1>0, <1>1, <1>5, <2>2, <3>1 DEF SendBody, TypeOK
      <3>. QED  BY <1>1, <3>2 DEF OnItsWay
    <2>. QED  BY <2>1, <2>2
  <1>6. ASSUME NEW g \in Threads, g # h, cur' = cur, arg'[h] = arg[h], stage'[h] = stage[h]
        PROVE  OnItsWay(c)'
    BY <1>0, <1>1, <1>6 DEF OnItsWay
  <1>7. ASSUME NEW g \in HbThreads, StartHb(g) \/ ReadClock(g) \/ Store(g) PROVE OnItsWay(c)'
    <2>1. g # h /\ cur' = cur /\ arg'[h] = arg[h] /\ stage'[h] = stage[h]
      BY <1>0, <1>1, <1>7 DEF StartHb, ReadClock, Store, outVars, TypeOK
    <2>. QED  BY <1>6, <2>1
  <1>8. ASSUME NEW g \in TkThreads, StartTk(g) \/ Pick(g) PROVE OnItsWay(c)'
    <2>1. g # h /\ cur' = cur /\ arg'[h] = arg[h] /\ stage'[h] = stage[h]
      BY <1>0, <1>1, <1>8 DEF StartTk, Pick, outVars, TypeOK
    <2>. QED  BY <1>6, <2>1
  <1>9. ASSUME NEW g \in Threads, RedisDown(g) PROVE OnItsWay(c)'
    <2>1. g # h /\ cur' = cur /\ arg'[h] = arg[h] /\ stage'[h] = stage[h]
      BY <1>0, <1>1, <1>9 DEF RedisDown, outVars, TypeOK
    <2>. QED  BY <1>6, <2>1
  <1>. QED
    BY <1>3, <1>4, <1>5, <1>7, <1>8, <1>9
       DEF Next, vars, poolVars, outVars, Loop, Handler, Tick, SendBeat, Leave, RecvFrame,
           SendRequest, Poll, HandleTk

\* Once a handler has picked a worker that the socket knows, the request is not lost,
\* not even if the worker leaves, redis fails or the process dies: its message is still
\* to be sent to that worker, or a worker has been told of the client, unless another
\* handler has begun a message inside one.  This is the part of RequestIsServed that
\* does not speak of fairness: TkGetHandle drops nothing after its choice.
THEOREM PickedIsNotForgotten ==
  ASSUME NEW c \in Clients
  PROVE  Spec => [](Picked(c) => []NotForgotten(c))
  <1>1. Picked(c) => NotForgotten(c)
    BY DEF Picked, NotForgotten, OnItsWay
  <1>2. IInv /\ ToldInv /\ NotForgotten(c) /\ [Next]_vars => NotForgotten(c)'
    BY ToldForGood, OnItsWayNext, Kept DEF NotForgotten
  <1>. QED  BY <1>1, <1>2, IInvHolds, AddressSentOnce, PTL DEF Spec
=============================================================================
