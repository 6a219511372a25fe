-------------------------- MODULE StandaloneProofs --------------------------
(***************************************************************************)
(* Machine-checked proofs about the programs that stand alone: EdgeCloud,  *)
(* for any clients and any number of packets; LBPrototype (Proto), for any *)
(* clients, workers and identities; CpuUsage (Cpu), for any width of its   *)
(* numbers and any run of the counters.                                    *)
(***************************************************************************)
EXTENDS EdgeCloud, FiniteSetTheorems, TLAPS

-----------------------------------------------------------------------------
(* EdgeCloud: the inductive invariant *)

\* While the edge waits for the cloud its batch or the reply is on its way, and
\* at no other time.
EdgeInv ==
  /\ toCloud # 0 => edge = "wait" /\ toCloud = latest_batch_number
  /\ cloudOk => edge = "wait" /\ toCloud = 0

\* The edge goes to the backend only for a sample that waits there, however long
\* it waited for the cloud since the poll.
BackInv ==
  \/ sample # 0
  \/ edge # "back" /\ (edge \in {"front", "wait"} => ~backReady)

\* The cloud has a batch from the time it takes it to the time it has been told
\* that its sample arrived; the sample is the batch, and is not recorded yet.
CloudInv ==
  /\ batch = 0 <=> cloud \in {"poll", "stopped"}
  /\ cloud = "forward" => batch \notin sample_storage
  /\ sample # 0 => cloud = "wait" /\ sample = batch /\ sample \notin sample_storage
  /\ edgeOk => cloud = "wait" /\ sample = 0

\* Batches are numbered upwards: what is recorded is not newer than what the
\* cloud works on, that is older than what waits for it, and nothing is newer than
\* the last number sent.
OrderInv ==
  /\ batch <= latest_batch_number
  /\ toCloud # 0 => batch < toCloud
  /\ \A n \in sample_storage :
       /\ n <= latest_batch_number
       /\ batch # 0 => n <= batch
       /\ toCloud # 0 => n < toCloud

IInv == TypeOK /\ EdgeInv /\ BackInv /\ CloudInv /\ OrderInv

-----------------------------------------------------------------------------
(* EdgeCloud: the proofs *)

LEMMA IInvInit == Init => IInv
  <1> SUFFICES ASSUME Init PROVE IInv
    OBVIOUS
  <1>1. TypeOK
    <2>1. /\ packet_counter \in [Clients -> Batches] /\ answered \in [Clients -> Batches]
          /\ packet \in [Clients -> Batches] /\ clientOk \in [Clients -> BOOLEAN]
      BY CloudAssumption DEF Init, Batches
    <2>2. /\ latest_batch_number \in Batches
          /\ toCloud \in Batches /\ batch \in Batches /\ sample \in Batches
      BY CloudAssumption DEF Init, Batches
    <2>. QED  BY <2>1, <2>2 DEF Init, TypeOK
  <1>2. EdgeInv /\ BackInv /\ CloudInv
    BY DEF Init, EdgeInv, BackInv, CloudInv
  <1>3. OrderInv
    BY DEF Init, OrderInv
  <1>. QED  BY <1>1, <1>2, <1>3 DEF IInv

LEMMA IInvNext == IInv /\ [Next]_vars => IInv'
  <1> SUFFICES ASSUME IInv, [Next]_vars PROVE IInv'
    OBVIOUS
  <1> USE CloudAssumption
  <1> USE DEF IInv, TypeOK, Batches, EdgeInv, BackInv, CloudInv, OrderInv,
              clientVars, edgeVars, cloudVars, frontVars, linkVars, runVars
  <1>1. ASSUME NEW c \in Clients, SendPacket(c) PROVE IInv'
    BY <1>1 DEF SendPacket
  <1>2. ASSUME NEW c \in Clients, ReceiveOk(c) PROVE IInv'
    BY <1>2 DEF ReceiveOk
  <1>3. CASE EdgePoll
    BY <1>3 DEF EdgePoll
  <1>4. ASSUME NEW c \in Clients, EdgeReceive(c) PROVE IInv'
    <2>1. packet[c] \in 1..MaxPackets
      BY <1>4 DEF EdgeReceive
    <2>2. /\ packet' \in [Clients -> 0..MaxPackets] /\ clientOk' \in [Clients -> BOOLEAN]
          /\ data_storage' \subseteq Clients \X (1..MaxPackets)
      BY <1>4, <2>1 DEF EdgeReceive
    <2>3. CASE IsNew(packet[c])
      BY <1>4, <2>1, <2>2, <2>3 DEF EdgeReceive, IsNew
    <2>4. CASE ~IsNew(packet[c])
      BY <1>4, <2>2, <2>4 DEF EdgeReceive, AfterFront
    <2>. QED  BY <2>3, <2>4
  <1>5. CASE EdgeReceiveOk
    BY <1>5 DEF EdgeReceiveOk, AfterFront
  <1>6. CASE EdgeReceiveSample
    BY <1>6 DEF EdgeReceiveSample
  <1>7. CASE EdgeStops
    <2>1. packet' \in [Clients -> Batches]
      BY <1>7 DEF EdgeStops
    <2>. QED  BY <1>7, <2>1 DEF EdgeStops
  <1>8. CASE CloudReceive
    BY <1>8 DEF CloudReceive
  <1>9. CASE CloudForward
    BY <1>9 DEF CloudForward
  <1>10. CASE CloudReceiveOk
    <2>1. sample = 0 /\ batch' = 0 /\ cloud' = "poll" /\ edgeOk' = FALSE
      BY <1>10 DEF CloudReceiveOk
    <2>2. TypeOK' /\ EdgeInv' /\ BackInv'
      BY <1>10, <2>1 DEF CloudReceiveOk
    <2>3. CloudInv'
      BY <1>10, <2>1 DEF CloudReceiveOk
    <2>4. OrderInv'
      BY <1>10, <2>1 DEF CloudReceiveOk
    <2>. QED  BY <2>2, <2>3, <2>4
  <1>11. CASE CloudStops
    BY <1>11 DEF CloudStops
  <1>12. CASE TimersExpire
    BY <1>12 DEF TimersExpire
  <1>13. CASE UNCHANGED vars
    BY <1>13 DEF vars
  <1>. QED
    BY <1>1, <1>2, <1>3, <1>4, <1>5, <1>6, <1>7, <1>8, <1>9, <1>10, <1>11, <1>12, <1>13
       DEF Next, Edge, Cloud

\* Every reachable state satisfies the inductive invariant.
THEOREM IInvHolds == Spec => []IInv
  <1>1. Init => IInv
    BY IInvInit
  <1>2. IInv /\ [Next]_vars => IInv'
    BY IInvNext
  <1>. QED  BY <1>1, <1>2, PTL DEF Spec

\* The variables keep their types; that what is recorded is a batch and never the
\* absence of one needs the edge's flag of a turn to be still true at its end.
THEOREM TypeCorrect == Spec => []TypeOK
  <1>1. IInv => TypeOK
    BY DEF IInv
  <1>. QED  BY <1>1, IInvHolds, PTL

\* Samples come back in order and once, for any clients with any numbering.
THEOREM SamplesComeInOrder == Spec => []SamplesInOrder
  <1>1. IInv => SamplesInOrder
    BY DEF IInv, TypeOK, Batches, EdgeInv, CloudInv, OrderInv, SamplesInOrder
  <1>. QED  BY <1>1, IInvHolds, PTL

\* Once the two programs wait for each other they do so for ever: neither wait has
\* a timeout, and keep_running is not read in it.
THEOREM CrossedForEver == Spec => [][Crossed => Crossed']_vars
  <1>1. IInv /\ [Next]_vars => [Crossed => Crossed']_vars
    <2> SUFFICES ASSUME IInv, [Next]_vars, Crossed PROVE Crossed'
      OBVIOUS
    <2>1. edge = "wait" /\ toCloud # 0 /\ cloud = "wait" /\ sample # 0 /\ ~cloudOk /\ ~edgeOk
      BY DEF Crossed, IInv, EdgeInv, CloudInv
    <2>2. UNCHANGED <<edge, toCloud, cloud, sample>>
      BY <2>1
         DEF Next, Edge, Cloud, vars, edgeVars, cloudVars, linkVars, SendPacket, ReceiveOk,
             EdgePoll, EdgeReceive, EdgeReceiveOk, EdgeReceiveSample, EdgeStops, CloudReceive,
             CloudForward, CloudReceiveOk, CloudStops, TimersExpire
    <2>. QED  BY <2>1, <2>2 DEF Crossed
  <1>. QED  BY <1>1, IInvHolds, PTL DEF Spec

-----------------------------------------------------------------------------
(* EdgeCloud: what is under way, and who waits for what *)

\* Each wait is for something: a batch or its confirmation, a sample or its
\* confirmation, a packet or its confirmation; or for a program that has stopped.
KeptInv ==
  /\ edge = "wait" => toCloud # 0 \/ cloudOk \/ cloud = "stopped"
  /\ cloud = "wait" => sample # 0 \/ edgeOk \/ edge = "stopped"
  /\ edgeOk => batch \in sample_storage
  /\ edge = "front" => \E c \in Clients : packet[c] # 0
  /\ \A c \in Clients :
       packet_counter[c] # answered[c] => packet[c] # 0 \/ clientOk[c] \/ edge = "stopped"
  /\ cloud # "stopped" /\ edge # "stopped" /\ latest_batch_number # 0 =>
       latest_batch_number \in sample_storage \cup {toCloud, batch}

LEMMA KeptInit == Init => KeptInv
  BY DEF Init, KeptInv

LEMMA KeptNext == IInv /\ KeptInv /\ [Next]_vars => KeptInv'
  <1> SUFFICES ASSUME IInv, KeptInv, [Next]_vars PROVE KeptInv'
    OBVIOUS
  <1> USE DEF KeptInv, TypeOK, EdgeInv, CloudInv,
              clientVars, edgeVars, cloudVars, frontVars, linkVars, runVars
  <1>0. TypeOK /\ EdgeInv /\ CloudInv
    BY DEF IInv
  <1>1. ASSUME NEW c \in Clients, SendPacket(c) PROVE KeptInv'
    <2>1. /\ packet_counter \in [Clients -> Batches] /\ packet_counter[c] \in Nat
          /\ packet \in [Clients -> Batches]
      BY <1>0, CloudAssumption DEF Batches
    <2>2. packet' = [packet EXCEPT ![c] = packet_counter[c] + 1] /\ packet_counter[c] + 1 # 0
      BY <1>1, <2>1 DEF SendPacket
    <2>. QED  BY <1>0, <1>1, <2>1, <2>2 DEF SendPacket
  <1>2. ASSUME NEW c \in Clients, ReceiveOk(c) PROVE KeptInv'
    BY <1>0, <1>2 DEF ReceiveOk
  <1>3. CASE EdgePoll
    BY <1>0, <1>3 DEF EdgePoll
  <1>4. ASSUME NEW c \in Clients, EdgeReceive(c) PROVE KeptInv'
    <2>1. /\ packet[c] # 0 /\ toCloud = 0 /\ edge' \in {"wait", "back", "poll"}
          /\ \A d \in Clients : clientOk'[d] = TRUE \/ (packet'[d] = packet[d] /\ clientOk'[d] = clientOk[d])
          /\ UNCHANGED <<cloud, sample, edgeOk, batch, sample_storage, packet_counter, answered>>
          /\ edge = "front"
      BY <1>0, <1>4 DEF EdgeReceive, AfterFront
    <2>2. \/ latest_batch_number' = packet[c] /\ toCloud' = packet[c]
          \/ edge' # "wait" /\ UNCHANGED <<latest_batch_number, toCloud>>
      BY <1>4 DEF EdgeReceive, AfterFront
    <2>. QED  BY <1>0, <2>1, <2>2
  <1>5. CASE EdgeReceiveOk
    BY <1>0, <1>5 DEF EdgeReceiveOk, AfterFront
  <1>6. CASE EdgeReceiveSample
    BY <1>0, <1>6 DEF EdgeReceiveSample, IInv, BackInv
  <1>7. CASE EdgeStops
    BY <1>0, <1>7 DEF EdgeStops
  <1>8. CASE CloudReceive
    BY <1>0, <1>8 DEF CloudReceive
  <1>9. CASE CloudForward
    BY <1>0, <1>9 DEF CloudForward
  <1>10. CASE CloudReceiveOk
    BY <1>0, <1>10 DEF CloudReceiveOk
  <1>11. CASE CloudStops
    BY <1>0, <1>11 DEF CloudStops
  <1>12. CASE TimersExpire
    BY <1>0, <1>12 DEF TimersExpire
  <1>13. CASE UNCHANGED vars
    BY <1>0, <1>13 DEF vars
  <1>. QED
    BY <1>1, <1>2, <1>3, <1>4, <1>5, <1>6, <1>7, <1>8, <1>9, <1>10, <1>11, <1>12, <1>13
       DEF Next, Edge, Cloud

LEMMA KeptInvHolds == Spec => [](IInv /\ KeptInv)
  <1>1. Init => IInv /\ KeptInv
    BY IInvInit, KeptInit
  <1>2. IInv /\ KeptInv /\ [Next]_vars => (IInv /\ KeptInv)'
    BY IInvNext, KeptNext
  <1>. QED  BY <1>1, <1>2, PTL DEF Spec

\* The guard of one of the edge's steps holds, and of the cloud's.
EdgeMayGoOn ==
  \/ edge = "poll" /\ (~edgeRuns \/ sample # 0 \/ \E c \in Clients : packet[c] # 0)
  \/ edge = "front" /\ \E c \in Clients : packet[c] # 0
  \/ edge = "wait" /\ cloudOk
  \/ edge = "back"

CloudMayGoOn ==
  \/ cloud = "poll" /\ (~cloudRuns \/ toCloud # 0)
  \/ cloud = "forward"
  \/ cloud = "wait" /\ edgeOk

GoesOn == EdgeMayGoOn \/ CloudMayGoOn \/ Crossed \/ edge = "stopped" \/ cloud = "stopped"

\* While a client waits, or a batch is not back, the reply is on its way or one of the
\* programs has a step to take, unless they have crossed or one has stopped: the safety
\* half of ClientIsAnswered and SampleComesBack.
THEOREM OnlyCrossingBlocks ==
  Spec => []/\ \A c \in Clients : packet_counter[c] # answered[c] => clientOk[c] \/ GoesOn
            /\ toCloud # 0 \/ batch # 0 => GoesOn
  <1>1. IInv /\ KeptInv =>
          /\ \A c \in Clients : packet_counter[c] # answered[c] => clientOk[c] \/ GoesOn
          /\ toCloud # 0 \/ batch # 0 => GoesOn
    BY DEF IInv, TypeOK, EdgeInv, CloudInv, KeptInv, GoesOn, EdgeMayGoOn, CloudMayGoOn, Crossed
  <1>. QED  BY <1>1, KeptInvHolds, PTL

\* The batches that wait for the cloud, that it works on, that wait for the edge as
\* samples, and that have come back.
UnderWay == (sample_storage \cup {toCloud, sample, IF cloud = "forward" THEN batch ELSE 0}) \ {0}

\* What zmq_close takes along when one of the programs stops.
LostInStop ==
  (IF edge # "stopped" /\ edge' = "stopped" THEN {sample} ELSE {}) \cup
  (IF cloud # "stopped" /\ cloud' = "stopped" THEN {toCloud} ELSE {})

\* No batch that was sent to the cloud is lost or overwritten on its way, also not when
\* the programs cross, except that a program that stops loses what waits in its socket:
\* the edge a sample, for whose reply the cloud then waits for ever, the cloud a batch,
\* for whose reply the edge does.  So while both run the last batch is under way or back.
THEOREM OnlyStopsLoseBatches ==
  Spec => /\ [](/\ edge # "stopped" /\ cloud # "stopped" /\ latest_batch_number # 0
                => latest_batch_number \in UnderWay)
          /\ [][UnderWay \ UnderWay' \subseteq LostInStop]_vars
  <1>1. IInv /\ KeptInv => (/\ edge # "stopped" /\ cloud # "stopped" /\ latest_batch_number # 0
                            => latest_batch_number \in UnderWay)
    BY DEF KeptInv, UnderWay, IInv, CloudInv, TypeOK
  <1>2. IInv /\ KeptInv /\ [Next]_vars => [UnderWay \ UnderWay' \subseteq LostInStop]_vars
    <2> SUFFICES ASSUME IInv, KeptInv, [Next]_vars PROVE UnderWay \ UnderWay' \subseteq LostInStop
      OBVIOUS
    <2> USE DEF UnderWay, edgeVars, cloudVars, linkVars, LostInStop
    <2>0. EdgeInv /\ CloudInv /\ KeptInv
      BY DEF IInv
    <2>1. ASSUME NEW c \in Clients, EdgeReceive(c) PROVE UnderWay \subseteq UnderWay'
      <3>1. (toCloud = 0 \/ toCloud' = toCloud) /\ UNCHANGED <<sample_storage, sample, batch, cloud>>
        BY <2>0, <2>1 DEF EdgeReceive, EdgeInv, cloudVars
      <3>. QED  BY <3>1
    <2>2. CASE EdgeReceiveSample
      BY <2>0, <2>2 DEF EdgeReceiveSample
    <2>3. CASE EdgeStops
      BY <2>0, <2>3 DEF EdgeStops
    <2>4. CASE CloudReceive
      BY <2>0, <2>4 DEF CloudReceive, CloudInv
    <2>5. CASE CloudForward
      BY <2>0, <2>5 DEF CloudForward, CloudInv
    <2>6. CASE CloudReceiveOk
      BY <2>0, <2>6 DEF CloudReceiveOk, CloudInv, KeptInv
    <2>7. CASE CloudStops
      BY <2>0, <2>7 DEF CloudStops, CloudInv
    <2>8. CASE \/ \E c \in Clients : SendPacket(c) \/ ReceiveOk(c)
               \/ EdgePoll \/ EdgeReceiveOk \/ TimersExpire \/ UNCHANGED vars
      BY <2>8 DEF SendPacket, ReceiveOk, EdgePoll, EdgeReceiveOk, TimersExpire, vars
    <2>. QED  BY <2>1, <2>2, <2>3, <2>4, <2>5, <2>6, <2>7, <2>8 DEF Next, Edge, Cloud
  <1>. QED  BY <1>1, <1>2, KeptInvHolds, PTL DEF Spec

-----------------------------------------------------------------------------
(* LBPrototype: the one client that is answered *)

CONSTANTS Workers, Identities, Fixed

VARIABLES identity, pc, frontend, answers, ready, worker_queue, loop, revents, strangers

Proto == INSTANCE LBPrototype

\* A client that is not answered sends one request, which waits or has made it a stranger.
OneRequest(c) ==
  /\ pc[c] = "send" => frontend[c] = 0 /\ c \notin strangers
  /\ frontend[c] <= 1 /\ (c \in strangers => frontend[c] = 0)

\* One client at most has the identity that is answered, and answers are counted for it.
ProtoInv ==
  /\ identity \in [Clients -> Identities]
  /\ \A c, d \in Proto!Lucky : c = d
  /\ pc \in [Clients -> {"send", "recv"}] /\ frontend \in [Clients -> Nat] /\ answers \in Nat
  /\ IsFiniteSet(strangers) /\ Cardinality(strangers) \in Nat
  /\ \A c \in Clients :
       IF c \in Proto!Lucky
       THEN /\ frontend[c] + answers <= Cardinality(strangers) + 1
            /\ pc[c] = "send" => frontend[c] + answers <= Cardinality(strangers)
            /\ pc[c] = "recv" => 1 <= frontend[c] + answers
       ELSE OneRequest(c)

LEMMA ProtoInit == Proto!Init => ProtoInv
  <1> SUFFICES ASSUME Proto!Init PROVE ProtoInv
    OBVIOUS
  <1>1. identity \in [Clients -> Identities] /\ \A c, d \in Proto!Lucky : c = d
    BY DEF Proto!Init, Proto!s_set_id, Proto!Lucky, Proto!IsInjective
  <1>2. IsFiniteSet(strangers) /\ Cardinality(strangers) = 0
    BY FS_EmptySet DEF Proto!Init
  <1>. QED  BY <1>1, <1>2 DEF Proto!Init, ProtoInv, OneRequest

LEMMA ProtoNext == ProtoInv /\ [Proto!Next]_(Proto!vars) => ProtoInv'
  <1> SUFFICES ASSUME ProtoInv, [Proto!Next]_(Proto!vars) PROVE ProtoInv'
    OBVIOUS
  <1> DEFINE n == Cardinality(strangers)
  <1>0. /\ n \in Nat /\ answers \in Nat /\ IsFiniteSet(strangers) /\ \A c, d \in Proto!Lucky : c = d
        /\ \A c \in Clients : frontend[c] \in Nat /\ pc[c] \in {"send", "recv"}
        /\ frontend \in [Clients -> Nat] /\ pc \in [Clients -> {"send", "recv"}]
        /\ identity \in [Clients -> Identities]
    BY DEF ProtoInv
  <1>1. ASSUME NEW c \in Clients, Proto!SendHello(c) PROVE ProtoInv'
    <2>1. /\ UNCHANGED <<identity, strangers>> /\ pc[c] = "send" /\ pc' = [pc EXCEPT ![c] = "recv"]
          /\ frontend' = [frontend EXCEPT ![c] = frontend[c] + 1]
          /\ IF c \in Proto!Lucky THEN answers' \in 0..answers ELSE UNCHANGED answers
      BY <1>1 DEF Proto!SendHello
    <2>2. /\ Proto!Lucky' = Proto!Lucky /\ answers' \in Nat /\ answers' <= answers
          /\ pc' \in [Clients -> {"send", "recv"}] /\ frontend' \in [Clients -> Nat]
      BY <1>0, <2>1 DEF Proto!Lucky
    <2>3. ASSUME NEW d \in Clients, d \in Proto!Lucky
          PROVE  /\ frontend'[d] + answers' <= n + 1
                 /\ pc'[d] = "send" => frontend'[d] + answers' <= n
                 /\ pc'[d] = "recv" => 1 <= frontend'[d] + answers'
      <3>1. /\ frontend[d] + answers <= n + 1
            /\ pc[d] = "send" => frontend[d] + answers <= n
            /\ pc[d] = "recv" => 1 <= frontend[d] + answers
        BY <2>3 DEF ProtoInv
      <3>2. CASE d = c
        <4>1. frontend[c] + answers <= n /\ pc'[d] = "recv" /\ frontend'[d] = frontend[c] + 1
          BY <1>0, <2>1, <3>1, <3>2
        <4>. QED  BY <1>0, <2>2, <4>1
      <3>3. CASE d # c
        <4>1. c \notin Proto!Lucky
          BY <1>0, <2>3, <3>3
        <4>. QED  BY <1>0, <2>1, <3>1, <3>3, <4>1
      <3>. QED  BY <3>2, <3>3
    <2>4. ASSUME NEW d \in Clients, d \notin Proto!Lucky PROVE OneRequest(d)'
      <3>1. OneRequest(d)
        BY <2>4 DEF ProtoInv
      <3>. QED  BY <1>0, <2>1, <3>1 DEF OneRequest
    <2>. QED  BY <1>0, <2>1, <2>2, <2>3, <2>4 DEF ProtoInv
  <1>2. ASSUME NEW c \in Clients, Proto!RecvReply(c) PROVE ProtoInv'
    <2>1. /\ UNCHANGED <<identity, strangers, frontend>> /\ c \in Proto!Lucky /\ pc[c] = "recv"
          /\ pc' = [pc EXCEPT ![c] = "send"] /\ answers > 0 /\ answers' = answers - 1
      BY <1>2 DEF Proto!RecvReply
    <2>2. /\ Proto!Lucky' = Proto!Lucky /\ answers' \in Nat /\ pc' \in [Clients -> {"send", "recv"}]
          /\ frontend[c] + answers <= n + 1
      BY <1>0, <2>1 DEF Proto!Lucky, ProtoInv
    <2>3. \A d \in Clients : d \in Proto!Lucky => d = c
      BY <1>0, <2>1
    <2>4. ASSUME NEW d \in Clients, d \notin Proto!Lucky PROVE OneRequest(d)'
      <3>1. OneRequest(d) /\ d # c
        BY <2>1, <2>4 DEF ProtoInv
      <3>. QED  BY <1>0, <2>1, <3>1 DEF OneRequest
    <2>5. pc'[c] = "send" /\ frontend'[c] + answers' <= n
      BY <1>0, <2>1, <2>2
    <2>. QED  BY <1>0, <2>1, <2>2, <2>3, <2>4, <2>5 DEF ProtoInv
  <1>3. ASSUME NEW c \in Clients, Proto!HandleRequest(c) PROVE ProtoInv'
    <2>1. /\ UNCHANGED <<identity, pc>> /\ frontend[c] > 0
          /\ frontend' = [frontend EXCEPT ![c] = frontend[c] - 1]
          /\ answers' = IF Proto!Lucky # {} THEN answers + 1 ELSE 0
          /\ strangers' = IF c \in Proto!Lucky THEN strangers ELSE strangers \cup {c}
      BY <1>3 DEF Proto!HandleRequest
    <2>2. /\ Proto!Lucky' = Proto!Lucky /\ answers' \in Nat /\ frontend' \in [Clients -> Nat]
      BY <1>0, <2>1 DEF Proto!Lucky
    <2>3. c \notin Proto!Lucky => c \notin strangers
      BY <1>0, <2>1 DEF ProtoInv, OneRequest
    <2>4. /\ IsFiniteSet(strangers') /\ Cardinality(strangers') \in Nat
          /\ Cardinality(strangers') = IF c \in Proto!Lucky THEN n ELSE n + 1
      <3>1. CASE c \in Proto!Lucky
        BY <1>0, <2>1, <3>1
      <3>2. CASE c \notin Proto!Lucky
        <4>1. strangers' = strangers \cup {c} /\ c \notin strangers
          BY <2>1, <2>3, <3>2
        <4>2. IsFiniteSet(strangers \cup {c}) /\ Cardinality(strangers \cup {c}) = n + 1
          BY <1>0, <4>1, FS_AddElement
        <4>. QED  BY <1>0, <3>2, <4>1, <4>2
      <3>. QED  BY <3>1, <3>2
    <2>5. ASSUME NEW d \in Clients, d \in Proto!Lucky
          PROVE  /\ frontend'[d] + answers' <= Cardinality(strangers') + 1
                 /\ pc'[d] = "send" => frontend'[d] + answers' <= Cardinality(strangers')
                 /\ pc'[d] = "recv" => 1 <= frontend'[d] + answers'
      <3>1. /\ frontend[d] + answers <= n + 1
            /\ pc[d] = "send" => frontend[d] + answers <= n
            /\ pc[d] = "recv" => 1 <= frontend[d] + answers
        BY <2>5 DEF ProtoInv
      <3>2. answers' = answers + 1 /\ pc' = pc
        BY <2>1, <2>5
      <3>3. CASE d = c
        <4>1. frontend'[d] = frontend[d] - 1 /\ Cardinality(strangers') = n
          BY <1>0, <2>1, <2>4, <2>5, <3>3
        <4>. QED  BY <1>0, <3>1, <3>2, <4>1
      <3>4. CASE d # c
        <4>1. c \notin Proto!Lucky
          BY <1>0, <2>5, <3>4
        <4>2. frontend'[d] = frontend[d] /\ Cardinality(strangers') = n + 1
          BY <1>0, <2>1, <2>4, <3>4, <4>1
        <4>. QED  BY <1>0, <3>1, <3>2, <4>2
      <3>. QED  BY <3>3, <3>4
    <2>6. ASSUME NEW d \in Clients, d \notin Proto!Lucky PROVE OneRequest(d)'
      <3>1. OneRequest(d)
        BY <2>6 DEF ProtoInv
      <3>. QED  BY <1>0, <2>1, <3>1 DEF OneRequest
    <2>. QED  BY <1>0, <2>1, <2>2, <2>4, <2>5, <2>6 DEF ProtoInv
  <1>4. CASE UNCHANGED <<identity, pc, frontend, answers, strangers>>
    BY <1>4 DEF ProtoInv, OneRequest, Proto!Lucky
  <1>5. CASE Proto!Poll \/ Proto!HandleBackend \/ \E w \in Workers : Proto!SendReady(w)
    BY <1>4, <1>5 DEF Proto!Poll, Proto!HandleBackend, Proto!SendReady
  <1>6. CASE UNCHANGED Proto!vars
    BY <1>4, <1>6 DEF Proto!vars
  <1>. QED  BY <1>1, <1>2, <1>3, <1>5, <1>6 DEF Proto!Next, Proto!Broker

\* However many clients and workers there are: what waits for the one client that is
\* answered is never more than its own request and what the others have caused, and
\* every other client's first request is its last (broker.cc:96).
THEOREM AnsweredForOthers == Proto!Spec => []Proto!LuckyIsBalanced
  <1>1. ProtoInv => Proto!LuckyIsBalanced
    <2> HAVE ProtoInv
    <2>1. answers \in Nat /\ Cardinality(strangers) \in Nat
      BY DEF ProtoInv
    <2>2. ASSUME NEW c \in Clients
          PROVE  IF c \in Proto!Lucky
                 THEN LET due == frontend[c] + answers
                          own == IF pc[c] = "recv" THEN 1 ELSE 0 IN
                      own <= due /\ due <= own + Cardinality(strangers)
                 ELSE frontend[c] + (IF c \in strangers THEN 1 ELSE 0) <= 1
      <3>1. frontend[c] \in Nat /\ pc[c] \in {"send", "recv"}
        BY DEF ProtoInv
      <3>. QED  BY <2>1, <3>1 DEF ProtoInv, OneRequest
    <2>3. Proto!Cardinality(strangers) = Cardinality(strangers)
      BY DEF Proto!Cardinality, Cardinality
    <2>. QED  BY <2>2, <2>3 DEF Proto!LuckyIsBalanced
  <1>2. Proto!Init => ProtoInv
    BY ProtoInit
  <1>3. ProtoInv /\ [Proto!Next]_(Proto!vars) => ProtoInv'
    BY ProtoNext
  <1>. QED  BY <1>1, <1>2, <1>3, PTL DEF Proto!Spec

-----------------------------------------------------------------------------
(* LBPrototype: the broker gets to the request of the client that is answered *)

\* broker_thread goes for what zmq_poll found, and it is still there: nobody else
\* reads it.
LoopInv ==
  /\ ready \in [Workers -> {"unsent", "sent", "queued"}]
  /\ loop \in {"poll", "backend", "frontend"}
  /\ loop = "backend" => Proto!Backend /\ (revents => Proto!Requests)
  /\ loop = "frontend" => Proto!Requests

\* broker_thread can take its next step: the guards of Poll, HandleBackend and HandleRequest.
BrokerMayGoOn ==
  \/ loop = "poll" /\ (Proto!Backend \/ Proto!Requests)
  \/ loop = "backend" /\ Proto!Backend
  \/ loop = "frontend" /\ Proto!Requests

\* The workers whose READY the broker has not read yet.
Unread == {w \in Workers : ready[w] # "queued"}

\* The broker has read another READY, or has polled and goes for what it found.
BrokerNearer ==
  \/ Unread' \subseteq Unread /\ Unread' # Unread
  \/ Unread' = Unread /\ loop = "poll" /\ loop' # "poll"

\* A client waits for its answer and will be given the next.
Waits(c) == c \in Proto!Lucky /\ pc[c] = "recv" /\ answers = 0

LEMMA LoopInvHolds == Proto!Spec => []LoopInv
  <1>1. Proto!Init => LoopInv
    BY DEF Proto!Init, LoopInv
  <1>2. LoopInv /\ ProtoInv /\ [Proto!Next]_(Proto!vars) => LoopInv'
    <2> SUFFICES ASSUME LoopInv, ProtoInv, [Proto!Next]_(Proto!vars) PROVE LoopInv'
      OBVIOUS
    <2> USE DEF LoopInv, Proto!Backend, Proto!Requests
    <2>0. \A c \in Clients : frontend[c] \in Nat
      BY DEF ProtoInv
    <2>1. ASSUME NEW c \in Clients, Proto!SendHello(c) PROVE LoopInv'
      <3>1. UNCHANGED <<ready, loop, revents>> /\ frontend' = [frontend EXCEPT ![c] = frontend[c] + 1]
        BY <2>1 DEF Proto!SendHello
      <3>2. Proto!Requests => Proto!Requests'
        BY <2>0, <3>1 DEF ProtoInv
      <3>. QED  BY <3>1, <3>2
    <2>2. ASSUME NEW w \in Workers, Proto!SendReady(w) PROVE LoopInv'
      <3>1. UNCHANGED <<frontend, loop, revents>> /\ ready[w] = "unsent"
            /\ ready' = [ready EXCEPT ![w] = "sent"]
        BY <2>2 DEF Proto!SendReady
      <3>2. Proto!Backend => Proto!Backend'
        BY <3>1
      <3>. QED  BY <3>1, <3>2
    <2>3. CASE Proto!Poll
      BY <2>3 DEF Proto!Poll
    <2>4. CASE Proto!HandleBackend
      BY <2>4 DEF Proto!HandleBackend
    <2>5. CASE \E c \in Clients : Proto!HandleRequest(c)
      BY <2>5 DEF Proto!HandleRequest
    <2>6. CASE UNCHANGED <<ready, loop, revents, frontend>>
      BY <2>6
    <2>. QED
      BY <2>1, <2>2, <2>3, <2>4, <2>5, <2>6
         DEF Proto!Next, Proto!Broker, Proto!RecvReply, Proto!vars
  <1>3. ProtoInv /\ [Proto!Next]_(Proto!vars) => ProtoInv'
    BY ProtoNext
  <1>. QED  BY <1>1, <1>2, <1>3, ProtoInit, PTL DEF Proto!Spec

\* While the client with the right identity waits and no answer is on its way, the broker
\* has a step to take, and every step of it gives an answer or is one nearer to it, since
\* each worker is queued once; what clients and workers do meanwhile takes nothing of it
\* back.  No worker needs to be ready for it, which is not what broker.cc:14 says.
THEOREM BrokerComesNearer ==
  Proto!Spec => /\ [](\A c \in Clients : Waits(c) => BrokerMayGoOn)
                /\ [][\A c \in Clients : Waits(c) =>
                        \/ answers' > 0 \/ BrokerNearer
                        \/ ~Proto!Broker /\ Unread' = Unread /\ loop' = loop]_(Proto!vars)
  <1>1. ProtoInv /\ LoopInv => \A c \in Clients : Waits(c) => BrokerMayGoOn
    <2> SUFFICES ASSUME ProtoInv, LoopInv, NEW c \in Clients, Waits(c) PROVE BrokerMayGoOn
      OBVIOUS
    <2>1. frontend[c] \in Nat /\ 1 <= frontend[c] + answers /\ answers = 0
      BY DEF ProtoInv, Waits
    <2>2. Proto!Requests
      BY <2>1 DEF Proto!Requests
    <2>. QED  BY <2>2 DEF LoopInv, BrokerMayGoOn
  <1>2. ProtoInv /\ LoopInv /\ [Proto!Next]_(Proto!vars) =>
          [\A c \in Clients : Waits(c) =>
             \/ answers' > 0 \/ BrokerNearer
             \/ ~Proto!Broker /\ Unread' = Unread /\ loop' = loop]_(Proto!vars)
    <2> SUFFICES ASSUME ProtoInv, LoopInv, Proto!Next, NEW c \in Clients, Waits(c)
                 PROVE  \/ answers' > 0 \/ BrokerNearer
                        \/ ~Proto!Broker /\ Unread' = Unread /\ loop' = loop
      OBVIOUS
    <2>1. CASE Proto!Poll
      BY <2>1 DEF Proto!Poll, BrokerNearer, Unread
    <2>2. CASE Proto!HandleBackend
      <3>1. PICK w \in Workers : ready[w] = "sent" /\ ready' = [ready EXCEPT ![w] = "queued"]
        BY <2>2 DEF Proto!HandleBackend
      <3>2. Unread' \subseteq Unread
        BY <3>1 DEF LoopInv, Unread
      <3>3. w \in Unread
        BY <3>1 DEF Unread
      <3>4. w \notin Unread'
        BY <3>1 DEF LoopInv, Unread
      <3>. QED  BY <3>2, <3>3, <3>4 DEF BrokerNearer
    <2>3. CASE \E d \in Clients : Proto!HandleRequest(d)
      BY <2>3 DEF Proto!HandleRequest, Waits
    <2>4. CASE /\ ~Proto!Broker
               /\ (\E d \in Clients : Proto!SendHello(d) \/ Proto!RecvReply(d))
                  \/ \E w \in Workers : Proto!SendReady(w)
      <3>1. CASE \E w \in Workers : Proto!SendReady(w)
        BY <2>4, <3>1 DEF Proto!SendReady, LoopInv, Unread
      <3>2. CASE \E d \in Clients : Proto!SendHello(d) \/ Proto!RecvReply(d)
        BY <2>4, <3>2 DEF Proto!SendHello, Proto!RecvReply, Unread
      <3>. QED  BY <2>4, <3>1, <3>2
    <2>. QED  BY <2>1, <2>2, <2>3, <2>4 DEF Proto!Next, Proto!Broker
  <1>3. Proto!Spec => []ProtoInv
    BY ProtoInit, ProtoNext, PTL DEF Proto!Spec
  <1>. QED  BY <1>1, <1>2, <1>3, LoopInvHolds, PTL DEF Proto!Spec

-----------------------------------------------------------------------------
(* CpuUsage: arithmetic of remainders and of shares *)

\* What % and \div say of each other.
LEMMA DivMod ==
  ASSUME NEW m \in Nat \ {0}, NEW a \in Nat
  PROVE  /\ (a % m) \in Nat /\ (a % m) < m /\ (a \div m) \in Int
         /\ a = m * (a \div m) + (a % m)
  OBVIOUS

\* The only multiple of m between -m and m is 0.
LEMMA NoMultiple ==
  ASSUME NEW m \in Nat \ {0}, NEW q \in Int, m * q < m, -m < m * q
  PROVE  q = 0
  <1>1. CASE q >= 1
    <2>1. PICK r \in Nat : q = r + 1
      BY <1>1
    <2>2. m * q = m * r + m
      BY <2>1
    <2>3. m * r \in Nat
      BY <2>1
    <2>. QED  BY <2>2, <2>3
  <1>2. CASE q <= -1
    <2>1. PICK r \in Nat : q = -r - 1
      BY <1>2
    <2>2. m * q = -(m * r) - m
      BY <2>1
    <2>3. m * r \in Nat
      BY <2>1
    <2>. QED  BY <2>2, <2>3
  <1>. QED  BY <1>1, <1>2

\* Numbers that differ by a multiple of m have the same remainder.
LEMMA SameRemainder ==
  ASSUME NEW m \in Nat \ {0}, NEW a \in Nat, NEW b \in Nat, NEW q \in Int, a = b + m * q
  PROVE  (a % m) = (b % m)
  <1> DEFINE p == (a \div m) - (b \div m) - q
  <1>1. /\ (a % m) \in Nat /\ (a % m) < m /\ (a \div m) \in Int
        /\ a = m * (a \div m) + (a % m)
    BY DivMod
  <1>2. /\ (b % m) \in Nat /\ (b % m) < m /\ (b \div m) \in Int
        /\ b = m * (b \div m) + (b % m)
    BY DivMod
  <1>3. m * p = m * (a \div m) - m * (b \div m) - m * q
    BY <1>1, <1>2
  <1>4. m * p = (b % m) - (a % m) /\ p \in Int
    <2>1. m * (a \div m) \in Int /\ m * (b \div m) \in Int /\ m * q \in Int
      BY <1>1, <1>2
    <2>. QED  BY <1>1, <1>2, <1>3, <2>1
  <1>5. p = 0
    <2>1. m * p < m /\ -m < m * p
      BY <1>1, <1>2, <1>4
    <2> HIDE DEF p
    <2>. QED  BY <1>4, <2>1, NoMultiple
  <1>6. m * p = 0
    BY <1>5
  <1>. QED  BY <1>1, <1>2, <1>4, <1>6

\* % under a name: with this the provers take it for what it is, some operator.
Rem(a, m) == a % m

\* Adding numbers that were reduced modulo m is adding them, modulo m.
LEMMA SumOfRemainders ==
  ASSUME NEW m \in Nat \ {0}, NEW a \in Nat, NEW b \in Nat, NEW c \in Nat, NEW d \in Nat
  PROVE  Rem(Rem(a, m) + Rem(b, m) + Rem(c, m) + Rem(d, m), m) = Rem(a + b + c + d, m)
  <1> DEFINE r == (a % m) + (b % m) + (c % m) + (d % m)
             q == (a \div m) + (b \div m) + (c \div m) + (d \div m)
  <1>1. (a % m) \in Nat /\ (a \div m) \in Int /\ a = m * (a \div m) + (a % m)
    BY DivMod
  <1>2. (b % m) \in Nat /\ (b \div m) \in Int /\ b = m * (b \div m) + (b % m)
    BY DivMod
  <1>3. (c % m) \in Nat /\ (c \div m) \in Int /\ c = m * (c \div m) + (c % m)
    BY DivMod
  <1>4. (d % m) \in Nat /\ (d \div m) \in Int /\ d = m * (d \div m) + (d % m)
    BY DivMod
  <1>5. q \in Int /\ r \in Nat /\ a + b + c + d \in Nat
    BY <1>1, <1>2, <1>3, <1>4
  <1>6. m * q = m * (a \div m) + m * (b \div m) + m * (c \div m) + m * (d \div m)
    BY <1>1, <1>2, <1>3, <1>4
  <1>7. a + b + c + d = r + m * q
    <2>1. /\ m * (a \div m) \in Int /\ m * (b \div m) \in Int
          /\ m * (c \div m) \in Int /\ m * (d \div m) \in Int
      BY <1>1, <1>2, <1>3, <1>4
    <2>. QED  BY <1>1, <1>2, <1>3, <1>4, <1>6, <2>1
  <1> HIDE DEF r, q
  <1>8. ((a + b + c + d) % m) = (r % m)
    BY <1>5, <1>7, SameRemainder
  <1>. QED  BY <1>8 DEF r, Rem

\* Within one multiple of m, remainders are as far apart as the numbers.
LEMMA SameDistance ==
  ASSUME NEW m \in Nat \ {0}, NEW a \in Nat, NEW b \in Nat, (a \div m) = (b \div m)
  PROVE  (b % m) - (a % m) = b - a
  <1>1. (a % m) \in Nat /\ (a \div m) \in Int /\ a = m * (a \div m) + (a % m)
    BY DivMod
  <1>2. (b % m) \in Nat /\ b = m * (a \div m) + (b % m)
    BY DivMod
  <1>3. m * (a \div m) \in Int
    BY <1>1
  <1>. QED  BY <1>1, <1>2, <1>3

\* Time that is counted neither as work nor as idle makes the share that was not
\* idle larger.
LEMMA LargerShare ==
  ASSUME NEW w \in Nat, NEW i \in Nat, NEW x \in Nat
  PROVE  w * (w + i + x) <= (w + x) * (w + i)
  <1>1. w * (w + i + x) = w * w + w * i + w * x
    OBVIOUS
  <1>2. (w + x) * (w + i) = w * w + w * i + w * x + x * i
    OBVIOUS
  <1>3. w * w \in Nat /\ w * i \in Nat /\ w * x \in Nat /\ x * i \in Nat
    OBVIOUS
  <1>. QED  BY <1>1, <1>2, <1>3

-----------------------------------------------------------------------------
(* CpuUsage: the readings of a monitor *)

CONSTANTS NoSample, W, MaxTicks

VARIABLES start, stat, first, readings

Cpu == INSTANCE CpuUsage WITH sample <- readings

Stats == [Cpu!Counters -> Nat]

\* No counter of o is ahead of that of n.
NotLater(o, n) == \A k \in Cpu!Counters : o[k] <= n[k]

\* What a monitor has read was there before what is there now.
CpuInv ==
  /\ stat \in Stats
  /\ first = [m \in Cpu!Monitors |-> first[m]]
  /\ readings = [m \in Cpu!Monitors |-> readings[m]]
  /\ \A m \in Cpu!Monitors :
       /\ first[m] # NoSample => first[m] \in Stats /\ NotLater(first[m], stat)
       /\ readings[m] # NoSample =>
            \E o, n \in Stats : readings[m] = [old |-> o, new |-> n] /\ NotLater(o, n)

LEMMA CpuInit == ASSUME Cpu!M \in Nat PROVE Cpu!Init => CpuInv
  <1> SUFFICES ASSUME Cpu!Init PROVE CpuInv
    OBVIOUS
  <1>1. PICK w \in 0..(Cpu!M - 1), i \in 0..(Cpu!M - 1) :
          stat = [work |-> w, idle |-> i, iowait |-> 0, irq |-> 0]
    BY DEF Cpu!Init
  <1>2. stat \in Stats
    BY <1>1 DEF Stats, Cpu!Counters
  <1>. QED  BY <1>2 DEF Cpu!Init, CpuInv

LEMMA CpuNext == CpuInv /\ [Cpu!Next]_(Cpu!vars) => CpuInv'
  <1> SUFFICES ASSUME CpuInv, [Cpu!Next]_(Cpu!vars) PROVE CpuInv'
    OBVIOUS
  <1>1. CASE Cpu!Tick
    <2>1. PICK k \in Cpu!Counters : stat' = [stat EXCEPT ![k] = stat[k] + 1]
      BY <1>1 DEF Cpu!Tick
    <2>2. UNCHANGED <<first, readings>>
      BY <1>1 DEF Cpu!Tick
    <2>3. stat' \in Stats /\ NotLater(stat, stat')
      BY <2>1 DEF CpuInv, Stats, NotLater
    <2>4. \A s \in Stats : NotLater(s, stat) => NotLater(s, stat')
      BY <2>3 DEF CpuInv, Stats, NotLater
    <2>. QED  BY <2>2, <2>3, <2>4 DEF CpuInv
  <1>2. ASSUME NEW m \in Cpu!Monitors, Cpu!BeginSample(m) PROVE CpuInv'
    <2>1. /\ first' = [first EXCEPT ![m] = stat]
          /\ UNCHANGED <<stat, readings>>
      BY <1>2 DEF Cpu!BeginSample
    <2>2. NotLater(stat, stat)
      BY DEF CpuInv, Stats, NotLater
    <2>. QED  BY <2>1, <2>2 DEF CpuInv
  <1>3. ASSUME NEW m \in Cpu!Monitors, Cpu!EndSample(m) PROVE CpuInv'
    <2>1. /\ first[m] # NoSample /\ first' = [first EXCEPT ![m] = NoSample]
          /\ readings' = [readings EXCEPT ![m] = [old |-> first[m], new |-> stat]]
          /\ UNCHANGED stat
      BY <1>3 DEF Cpu!EndSample
    <2>2. first[m] \in Stats /\ stat \in Stats /\ NotLater(first[m], stat)
      BY <2>1 DEF CpuInv
    <2>3. readings'[m] = [old |-> first[m], new |-> stat]
      BY <2>1 DEF CpuInv
    <2>4. \A d \in Cpu!Monitors : d # m => readings'[d] = readings[d] /\ first'[d] = first[d]
      BY <2>1 DEF CpuInv
    <2>. QED  BY <2>1, <2>2, <2>3, <2>4 DEF CpuInv
  <1>4. CASE UNCHANGED Cpu!vars
    BY <1>4 DEF Cpu!vars, CpuInv
  <1>. QED  BY <1>1, <1>2, <1>3, <1>4 DEF Cpu!Next

\* The differences of the counters between two readings.
LEMMA Passed ==
  ASSUME NEW o \in Stats, NEW n \in Stats, NotLater(o, n)
  PROVE  /\ \A k \in Cpu!Counters : o[k] \in Nat /\ n[k] \in Nat /\ n[k] - o[k] \in Nat
         /\ Cpu!Total(o) = o["work"] + o["idle"] + o["iowait"] + o["irq"]
         /\ Cpu!Total(n) = n["work"] + n["idle"] + n["iowait"] + n["irq"]
         /\ o # n => Cpu!Total(n) - Cpu!Total(o) > 0
  <1>1. \A k \in Cpu!Counters : o[k] \in Nat /\ n[k] \in Nat /\ o[k] <= n[k]
    BY DEF Stats, NotLater
  <1>2. \A k \in Cpu!Counters : n[k] - o[k] \in Nat
    BY <1>1
  <1>3. /\ Cpu!Total(o) = o["work"] + o["idle"] + o["iowait"] + o["irq"]
        /\ Cpu!Total(n) = n["work"] + n["idle"] + n["iowait"] + n["irq"]
    BY DEF Cpu!Total
  <1>4. o # n => Cpu!Total(n) - Cpu!Total(o) > 0
    <2> SUFFICES ASSUME o # n PROVE Cpu!Total(n) - Cpu!Total(o) > 0
      OBVIOUS
    <2>1. PICK k \in Cpu!Counters : o[k] # n[k]
      BY DEF Stats
    <2>2. o[k] < n[k]
      BY <1>1, <2>1
    <2>. QED  BY <1>1, <1>3, <2>2 DEF Cpu!Counters
  <1>. QED  BY <1>1, <1>2, <1>3, <1>4

\* cpu_percentage never reports more than the share that was not idle.
LEMMA PercentageIsSound ==
  ASSUME NEW o \in Stats, NEW n \in Stats, NotLater(o, n)
  PROVE  Cpu!AtMost(Cpu!cpu_percentage(o, n), Cpu!NotIdle(o, n))
  <1> DEFINE w == n["work"] - o["work"]
             i == n["idle"] - o["idle"]
             x == (n["iowait"] - o["iowait"]) + (n["irq"] - o["irq"])
  <1>1. /\ o["work"] \in Nat /\ o["idle"] \in Nat /\ o["iowait"] \in Nat /\ o["irq"] \in Nat
        /\ n["work"] \in Nat /\ n["idle"] \in Nat /\ n["iowait"] \in Nat /\ n["irq"] \in Nat
        /\ w \in Nat /\ i \in Nat /\ x \in Nat
    BY Passed DEF Cpu!Counters
  <1>2. Cpu!Total(n) - Cpu!Total(o) = w + i + x
    BY <1>1, Passed
  <1>3. Cpu!cpu_percentage(o, n) = [num |-> w, den |-> w + i]
    BY DEF Cpu!cpu_percentage, Cpu!CP_STATES
  <1>4. Cpu!NotIdle(o, n) = [num |-> w + x, den |-> w + i + x]
    <2>1. (w + i + x) - i = w + x /\ n.idle - o.idle = i
      BY <1>1
    <2>. QED  BY <1>2, <2>1 DEF Cpu!NotIdle
  <1> HIDE DEF w, i, x
  <1>5. w * (w + i + x) <= (w + x) * (w + i)
    BY <1>1, LargerShare
  <1>. QED  BY <1>3, <1>4, <1>5 DEF Cpu!AtMost

\* get_sysCpuUsage reports that share exactly, unless a number passed a multiple of
\* 2^W between the readings, however often they had before, or has saturated.
LEMMA UsageIsExact ==
  ASSUME NEW o \in Stats, NEW n \in Stats, NotLater(o, n),
         Cpu!M \in Nat \ {0}, o # n, ~Cpu!Wrapped(o, n),
         NEW wide \in BOOLEAN, wide \/ ~Cpu!Saturated(n)
  PROVE  Cpu!get_sysCpuUsage(o, n, wide) = Cpu!NotIdle(o, n)
  <1> DEFINE Low(s) == [k \in Cpu!Counters |-> s[k] % Cpu!M]
             co == Low(o)
             cn == Low(n)
  <1>0. Cpu!get_cpuoccupy(o, wide) = co /\ Cpu!get_cpuoccupy(n, wide) = cn
    <2>1. \A k \in Cpu!Counters : wide \/ (o[k] < Cpu!M /\ n[k] < Cpu!M)
      BY DEF Cpu!Saturated, NotLater, Stats
    <2>. QED  BY <2>1 DEF Cpu!get_cpuoccupy
  <1>1. \A s \in Stats : Cpu!Sum(Low(s)) = (Cpu!Total(s) % Cpu!M)
    <2> SUFFICES ASSUME NEW s \in Stats
                 PROVE Cpu!Sum(Low(s)) = (Cpu!Total(s) % Cpu!M)
      OBVIOUS
    <2>1. s["work"] \in Nat /\ s["idle"] \in Nat /\ s["iowait"] \in Nat /\ s["irq"] \in Nat
      BY DEF Stats, Cpu!Counters
    <2>2. Cpu!Sum(Low(s)) =
            (((s["work"] % Cpu!M) + (s["idle"] % Cpu!M) + (s["iowait"] % Cpu!M)
               + (s["irq"] % Cpu!M)) % Cpu!M)
      BY DEF Cpu!Sum, Cpu!Counters
    <2>3. Cpu!Total(s) = s["work"] + s["idle"] + s["iowait"] + s["irq"]
      BY DEF Cpu!Total
    <2>4. PICK a, b, c, d \in Nat :
            s["work"] = a /\ s["idle"] = b /\ s["iowait"] = c /\ s["irq"] = d
      BY <2>1
    <2>5. Rem(Rem(a, Cpu!M) + Rem(b, Cpu!M) + Rem(c, Cpu!M) + Rem(d, Cpu!M), Cpu!M)
            = Rem(a + b + c + d, Cpu!M)
      BY SumOfRemainders
    <2>. QED  BY <2>2, <2>3, <2>4, <2>5 DEF Rem
  <1>2. /\ (Cpu!Total(o) \div Cpu!M) = (Cpu!Total(n) \div Cpu!M)
        /\ (o["idle"] \div Cpu!M) = (n["idle"] \div Cpu!M)
    BY DEF Cpu!Wrapped
  <1>3. /\ o["work"] \in Nat /\ o["idle"] \in Nat /\ o["iowait"] \in Nat /\ o["irq"] \in Nat
        /\ n["work"] \in Nat /\ n["idle"] \in Nat /\ n["iowait"] \in Nat /\ n["irq"] \in Nat
    BY Passed DEF Cpu!Counters
  <1>4. /\ Cpu!Total(o) \in Nat /\ Cpu!Total(n) \in Nat /\ Cpu!Total(n) - Cpu!Total(o) # 0
    BY <1>3, Passed
  <1>5. Cpu!Sum(cn) - Cpu!Sum(co) = Cpu!Total(n) - Cpu!Total(o)
    <2>1. (Cpu!Total(n) % Cpu!M) - (Cpu!Total(o) % Cpu!M) = Cpu!Total(n) - Cpu!Total(o)
      BY <1>2, <1>4, SameDistance
    <2>. QED  BY <1>1, <2>1
  <1>6. cn.idle - co.idle = n.idle - o.idle
    <2>1. co.idle = (o["idle"] % Cpu!M) /\ cn.idle = (n["idle"] % Cpu!M)
      BY DEF Cpu!Counters
    <2>2. (n["idle"] % Cpu!M) - (o["idle"] % Cpu!M) = n["idle"] - o["idle"]
      BY <1>2, <1>3, SameDistance
    <2>. QED  BY <2>1, <2>2
  <1> HIDE DEF co, cn
  <1>7. Cpu!cal_cpuoccupy(co, cn) = Cpu!NotIdle(o, n)
    BY <1>4, <1>5, <1>6 DEF Cpu!cal_cpuoccupy, Cpu!NotIdle
  <1>. QED  BY <1>0, <1>7 DEF Cpu!get_sysCpuUsage

\* For numbers of any width, whatever the counters do between the readings: one
\* monitor never reports more than was used, the other exactly that, unless a number
\* wrapped or saturated.  (2^W is a positive number; the provers do not know powers.)
THEOREM BothMeasureUsage ==
  ASSUME Cpu!M \in Nat \ {0}
  PROVE  Cpu!Spec => []Cpu!UsageIsSound
  <1>1. CpuInv => Cpu!UsageIsSound
    <2> HAVE CpuInv
    <2>1. /\ "cpu_percentage" \in Cpu!Monitors /\ "get_sysCpuUsage" \in Cpu!Monitors
      BY DEF Cpu!Monitors
    <2>2. ASSUME readings["cpu_percentage"] # NoSample
          PROVE  LET s == readings["cpu_percentage"] IN
                 Cpu!AtMost(Cpu!cpu_percentage(s.old, s.new), Cpu!NotIdle(s.old, s.new))
      <3>1. PICK o, n \in Stats :
              readings["cpu_percentage"] = [old |-> o, new |-> n] /\ NotLater(o, n)
        BY <2>1, <2>2 DEF CpuInv
      <3>. QED  BY <3>1, PercentageIsSound
    <2>3. ASSUME readings["get_sysCpuUsage"] # NoSample,
                 readings["get_sysCpuUsage"].old # readings["get_sysCpuUsage"].new,
                 ~Cpu!Wrapped(readings["get_sysCpuUsage"].old, readings["get_sysCpuUsage"].new),
                 NEW wide \in BOOLEAN, wide \/ ~Cpu!Saturated(readings["get_sysCpuUsage"].new)
          PROVE  LET s == readings["get_sysCpuUsage"]
                     u == Cpu!get_sysCpuUsage(s.old, s.new, wide) IN
                 /\ u.den > 0
                 /\ Cpu!AtMost(u, Cpu!NotIdle(s.old, s.new))
                 /\ Cpu!AtMost(Cpu!NotIdle(s.old, s.new), u)
      <3>1. PICK o, n \in Stats :
              readings["get_sysCpuUsage"] = [old |-> o, new |-> n] /\ NotLater(o, n)
        BY <2>1, <2>3 DEF CpuInv
      <3>2. readings["get_sysCpuUsage"].old = o /\ readings["get_sysCpuUsage"].new = n
        BY <3>1
      <3>3. Cpu!get_sysCpuUsage(o, n, wide) = Cpu!NotIdle(o, n)
        BY <2>3, <3>1, <3>2, UsageIsExact
      <3>4. /\ Cpu!NotIdle(o, n).den > 0
            /\ Cpu!NotIdle(o, n).num * Cpu!NotIdle(o, n).den \in Int
        <4>1. /\ o["idle"] \in Nat /\ n["idle"] \in Nat
              /\ Cpu!Total(n) \in Nat /\ Cpu!Total(o) \in Nat
          BY <3>1, Passed DEF Cpu!Counters
        <4>2. Cpu!Total(n) - Cpu!Total(o) > 0
          BY <2>3, <3>1, <3>2, Passed
        <4>. QED  BY <4>1, <4>2 DEF Cpu!NotIdle
      <3>5. Cpu!AtMost(Cpu!NotIdle(o, n), Cpu!NotIdle(o, n))
        BY <3>4 DEF Cpu!AtMost
      <3>. QED  BY <3>2, <3>3, <3>4, <3>5
    <2>. QED  BY <2>2, <2>3 DEF Cpu!UsageIsSound
  <1>2. Cpu!Init => CpuInv
    BY CpuInit
  <1>3. CpuInv /\ [Cpu!Next]_(Cpu!vars) => CpuInv'
    BY CpuNext
  <1>. QED  BY <1>1, <1>2, <1>3, PTL DEF Cpu!Spec
=============================================================================
