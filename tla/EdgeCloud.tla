------------------------------ MODULE EdgeCloud ------------------------------
(***************************************************************************)
(* The edge between its clients and the cloud: src/test/net/server-cloud.cc*)
(* (the edge), cloud.cc and client-cloud.cc.                               *)
(*                                                                         *)
(* Each program is one thread.  The edge reads packets of clients and, when*)
(* one has a number it has not seen, sends a sample of it to the cloud on a*)
(* REQ socket and waits for the reply.  The cloud confirms the sample,     *)
(* works on it, sends it back on a REQ socket of its own and waits for the *)
(* reply of the edge.  Neither wait has a timeout, and neither program     *)
(* reads anything else while it waits.                                     *)
(*                                                                         *)
(* keep_running is cleared by a timer of each program and read between two *)
(* turns of its loop.                                                      *)
(***************************************************************************)
EXTENDS Naturals

CONSTANTS Clients,
          MaxPackets  \* bound: packets of one client

ASSUME CloudAssumption == MaxPackets \in Nat

\* Packets and batches are numbered from 1; 0 says that there is none.
VARIABLES packet_counter, \* of each client
          packet,         \* waiting in the edge's frontend, by client
          clientOk,       \* the reply to a client is on its way
          answered,       \* the last packet of each client that was confirmed to it
          edge,           \* "poll", "front", "back", "wait" or "stopped"
          backReady,      \* the revents of the backend in this turn
          latest_batch_number,
          data_storage, sample_storage,
          toCloud,        \* the batch waiting in the cloud's socket
          cloudOk,        \* the reply to edge_send is on its way
          cloud,          \* "poll", "forward", "wait" or "stopped"
          batch,          \* the batch the cloud works on
          sample,         \* the batch waiting in the edge's backend
          edgeOk,         \* the reply to cloud_send is on its way
          edgeRuns, cloudRuns \* keep_running of both programs

clientVars == <<packet_counter, answered>>
edgeVars == <<edge, backReady, latest_batch_number, data_storage, sample_storage>>
cloudVars == <<cloud, batch>>
frontVars == <<packet, clientOk>>
linkVars == <<toCloud, cloudOk, sample, edgeOk>>
runVars == <<edgeRuns, cloudRuns>>
vars == <<clientVars, edgeVars, cloudVars, frontVars, linkVars, runVars>>

Init ==
  /\ packet_counter = [c \in Clients |-> 0]
  /\ packet = [c \in Clients |-> 0]
  /\ clientOk = [c \in Clients |-> FALSE]
  /\ answered = [c \in Clients |-> 0]
  /\ edge = "poll" /\ backReady = FALSE
  /\ latest_batch_number = 0
  /\ data_storage = {} /\ sample_storage = {}
  /\ toCloud = 0 /\ cloudOk = FALSE
  /\ cloud = "poll" /\ batch = 0
  /\ sample = 0 /\ edgeOk = FALSE
  /\ edgeRuns = TRUE /\ cloudRuns = TRUE

-----------------------------------------------------------------------------
(* A client *)

SendPacket(c) ==
  /\ answered[c] = packet_counter[c]
  /\ packet_counter[c] < MaxPackets
  /\ packet_counter' = [packet_counter EXCEPT ![c] = @ + 1]
  /\ packet' = [packet EXCEPT ![c] = packet_counter[c] + 1]
  /\ UNCHANGED <<answered, clientOk, edgeVars, cloudVars, linkVars, runVars>>

ReceiveOk(c) ==
  /\ clientOk[c]
  /\ clientOk' = [clientOk EXCEPT ![c] = FALSE]
  /\ answered' = [answered EXCEPT ![c] = packet_counter[c]]
  /\ UNCHANGED <<packet_counter, packet, edgeVars, cloudVars, linkVars, runVars>>

-----------------------------------------------------------------------------
(* The edge *)

\* zmq_poll says which sockets are readable; the frontend is served first.
EdgePoll ==
  /\ edge = "poll" /\ edgeRuns
  /\ LET frontReady == \E c \in Clients : packet[c] # 0 IN
     /\ frontReady \/ sample # 0
     /\ edge' = IF frontReady THEN "front" ELSE "back"
     /\ backReady' = (sample # 0)
  /\ UNCHANGED <<latest_batch_number, data_storage, sample_storage,
                 clientVars, cloudVars, frontVars, linkVars, runVars>>

AfterFront == IF backReady THEN "back" ELSE "poll"

\* Mutant: any number but the last is new.
IsNewIfOther(n) == n # latest_batch_number

IsNew(n) == n > latest_batch_number

\* A packet is recorded, unless it took too long, and confirmed; a new number is
\* sent on to the cloud.
EdgeReceive(c) ==
  /\ edge = "front"
  /\ packet[c] # 0
  /\ packet' = [packet EXCEPT ![c] = 0]
  /\ clientOk' = [clientOk EXCEPT ![c] = TRUE]
  /\ \/ data_storage' = data_storage \cup {<<c, packet[c]>>}
     \/ UNCHANGED data_storage
  /\ \/ /\ IsNew(packet[c])
        /\ latest_batch_number' = packet[c]
        /\ toCloud' = packet[c]
        /\ edge' = "wait"
     \/ /\ ~IsNew(packet[c])
        /\ edge' = AfterFront
        /\ UNCHANGED <<latest_batch_number, toCloud>>
  /\ UNCHANGED <<backReady, sample_storage, cloudOk, sample, edgeOk,
                 clientVars, cloudVars, runVars>>

\* s_recv(edge_send) returns.
EdgeReceiveOk ==
  /\ edge = "wait" /\ cloudOk
  /\ cloudOk' = FALSE
  /\ edge' = AfterFront
  /\ UNCHANGED <<backReady, latest_batch_number, data_storage, sample_storage,
                 toCloud, sample, edgeOk, clientVars, cloudVars, frontVars, runVars>>

\* Mutant: the backend is read without a message being there.
EdgeReceiveAnything ==
  /\ edge \in {"back", "poll"}
  /\ sample' = 0
  /\ sample_storage' = sample_storage \cup {sample}
  /\ edgeOk' = TRUE
  /\ edge' = "poll"
  /\ UNCHANGED <<backReady, latest_batch_number, data_storage, toCloud, cloudOk,
                 clientVars, cloudVars, frontVars, runVars>>

\* The sample comes back from the cloud: it is recorded and confirmed.
EdgeReceiveSample ==
  /\ edge = "back"
  /\ sample' = 0
  /\ sample_storage' = sample_storage \cup {sample}
  /\ edgeOk' = TRUE
  /\ edge' = "poll"
  /\ UNCHANGED <<backReady, latest_batch_number, data_storage, toCloud, cloudOk,
                 clientVars, cloudVars, frontVars, runVars>>

\* The sockets are closed.  What has arrived in one and was not read goes with it;
\* what is still at its sender stays there.  Replies that were sent are delivered.
EdgeStops ==
  /\ edge = "poll" /\ ~edgeRuns
  /\ edge' = "stopped"
  /\ \E arrived \in SUBSET Clients :
       packet' = [c \in Clients |-> IF c \in arrived THEN 0 ELSE packet[c]]
  /\ sample' \in {0, sample}
  /\ UNCHANGED <<backReady, latest_batch_number, data_storage, sample_storage, clientOk,
                 toCloud, cloudOk, edgeOk, clientVars, cloudVars, runVars>>

-----------------------------------------------------------------------------
(* The cloud *)

\* Mutant: the batch is not confirmed.
CloudReceiveSilently ==
  /\ cloud = "poll" /\ cloudRuns
  /\ toCloud # 0
  /\ batch' = toCloud
  /\ toCloud' = 0
  /\ cloud' = "forward"
  /\ UNCHANGED <<cloudOk, sample, edgeOk, clientVars, edgeVars, frontVars, runVars>>

\* A batch is read and confirmed.
CloudReceive ==
  /\ cloud = "poll" /\ cloudRuns
  /\ toCloud # 0
  /\ batch' = toCloud
  /\ toCloud' = 0
  /\ cloudOk' = TRUE
  /\ cloud' = "forward"
  /\ UNCHANGED <<sample, edgeOk, clientVars, edgeVars, frontVars, runVars>>

\* Mutant: the batch is confirmed and not sent back.
CloudForwardNothing ==
  /\ cloud = "forward"
  /\ batch' = 0
  /\ cloud' = "poll"
  /\ UNCHANGED <<toCloud, cloudOk, sample, edgeOk, clientVars, edgeVars, frontVars, runVars>>

\* After a sleep of up to a second it is sent back.
CloudForward ==
  /\ cloud = "forward"
  /\ sample' = batch
  /\ cloud' = "wait"
  /\ UNCHANGED <<batch, toCloud, cloudOk, edgeOk, clientVars, edgeVars, frontVars, runVars>>

\* s_recv(cloud_send) returns.
CloudReceiveOk ==
  /\ cloud = "wait" /\ edgeOk
  /\ edgeOk' = FALSE
  /\ batch' = 0
  /\ cloud' = "poll"
  /\ UNCHANGED <<toCloud, cloudOk, sample, clientVars, edgeVars, frontVars, runVars>>

\* As EdgeStops: a batch that has arrived and was not read is gone.
CloudStops ==
  /\ cloud = "poll" /\ ~cloudRuns
  /\ cloud' = "stopped"
  /\ toCloud' \in {0, toCloud}
  /\ UNCHANGED <<batch, cloudOk, sample, edgeOk, clientVars, edgeVars, frontVars, runVars>>

-----------------------------------------------------------------------------
(* The timers of the main programs *)

TimersExpire ==
  /\ \/ edgeRuns /\ edgeRuns' = FALSE /\ UNCHANGED cloudRuns
     \/ cloudRuns /\ cloudRuns' = FALSE /\ UNCHANGED edgeRuns
  /\ UNCHANGED <<clientVars, edgeVars, cloudVars, frontVars, linkVars>>

Edge == EdgePoll \/ (\E c \in Clients : EdgeReceive(c)) \/ EdgeReceiveOk
          \/ EdgeReceiveSample \/ EdgeStops

Cloud == CloudReceive \/ CloudForward \/ CloudReceiveOk \/ CloudStops

Next ==
  \/ \E c \in Clients : SendPacket(c) \/ ReceiveOk(c)
  \/ Edge
  \/ Cloud
  \/ TimersExpire

Spec == Init /\ [][Next]_vars

\* Both loops run and messages arrive.
Fairness ==
  /\ WF_vars(Edge) /\ WF_vars(Cloud)
  /\ \A c \in Clients : WF_vars(ReceiveOk(c)) /\ WF_vars(EdgeReceive(c))

FairSpec == Spec /\ Fairness

-----------------------------------------------------------------------------
(* Correctness *)

Batches == 0..MaxPackets

\* The values the variables range over.
TypeOK ==
  /\ packet_counter \in [Clients -> Batches] /\ answered \in [Clients -> Batches]
  /\ packet \in [Clients -> Batches] /\ clientOk \in [Clients -> BOOLEAN]
  /\ edge \in {"poll", "front", "back", "wait", "stopped"} /\ backReady \in BOOLEAN
  /\ latest_batch_number \in Batches
  /\ data_storage \subseteq Clients \X (1..MaxPackets)
  /\ sample_storage \subseteq 1..MaxPackets
  /\ toCloud \in Batches /\ batch \in Batches /\ sample \in Batches
  /\ cloudOk \in BOOLEAN /\ edgeOk \in BOOLEAN
  /\ cloud \in {"poll", "forward", "wait", "stopped"}
  /\ edgeRuns \in BOOLEAN /\ cloudRuns \in BOOLEAN

\* Samples travel in order and one by one: each batch comes back once and before
\* the next, whichever client a number came from.  What is recorded is older
\* than what the cloud works on, unless it is just that, and that is older than
\* what waits for the cloud.
SamplesInOrder ==
  /\ sample # 0 => sample = batch /\ sample \notin sample_storage
  /\ \A n \in sample_storage : batch # 0 => n <= batch
  /\ toCloud # 0 => /\ toCloud = latest_batch_number
                    /\ batch < toCloud
                    /\ \A n \in sample_storage : n < toCloud

\* The two programs wait for each other: the edge for the cloud to take a batch,
\* the cloud for the edge to take a sample.
Crossed == edge = "wait" /\ toCloud # 0 /\ cloud = "wait" /\ sample # 0

\* Nothing else keeps a client waiting: its packet is confirmed unless the two
\* have crossed, or one of them is being stopped.
ClientIsAnswered ==
  \A c \in Clients :
    (packet_counter[c] # answered[c]) ~>
      (packet_counter[c] = answered[c] \/ Crossed \/ ~edgeRuns \/ ~cloudRuns)

\* Each batch sent to the cloud comes back and is recorded, with the same
\* exceptions.
SampleComesBack ==
  \A n \in 1..MaxPackets :
    (toCloud = n) ~> (n \in sample_storage \/ Crossed \/ ~edgeRuns \/ ~cloudRuns)
=============================================================================
