--------------------------- MODULE EdgeRetransmit ---------------------------
(***************************************************************************)
(* A client that sends numbered packets to the edge and sends one again    *)
(* when it is asked to: src/test/net/client.cc and server.cc, with the     *)
(* messages of utils.h.                                                    *)
(*                                                                         *)
(* The client's socket is a REQ and it waits for each reply, so one packet *)
(* is on its way at a time.  The edge is one thread that answers each      *)
(* message before it reads the next and keeps what it knows per client;    *)
(* clients do not touch each other's state, and one of them is modelled.   *)
(*                                                                         *)
(* The time a packet took is the edge's clock when it comes less the       *)
(* client's clock when it was first sent: its age plus the difference of   *)
(* the two clocks.  A copy keeps the time of the original.                 *)
(***************************************************************************)
EXTENDS Integers, Sequences

CONSTANTS
  MAX_STORAGE_SIZE,      \* packets the client keeps
  RETRANSMIT_THRESHOLD,  \* a packet that took as long is asked for again
  LOSS_THRESHOLD,        \* and has that much longer to come
  Skews,                 \* differences of the edge's clock and the client's
  MaxPackets,            \* bound: packets the client sends
  MaxAge,                \* bound: the age at which a packet gets no older
  None                   \* no message, no record

ASSUME EdgeAssumption ==
  /\ MAX_STORAGE_SIZE \in Nat \ {0}
  /\ RETRANSMIT_THRESHOLD \in Nat /\ LOSS_THRESHOLD \in Nat
  /\ Skews \subseteq Int
  /\ MaxPackets \in Nat /\ MaxAge \in Nat
  /\ None \notin Int
  /\ None \notin [id : Int, retransmitted : BOOLEAN] \cup [time : Int, retransmitted : BOOLEAN]

VARIABLES packet_counter, \* the last packet made
          queue,          \* packet_storage: the ids kept, oldest first
          cpc,            \* the client is "ready", or waits for a "reply" or for the
                          \* reply to a copy ("resent")
          age,            \* since the packet was first sent
          skew,
          request,        \* on its way to the edge: [id, retransmitted], or None
          reply,          \* on its way back: "OK", the id to send again, or None
          data_storage,   \* the edge's record of a packet: [time, retransmitted]
          copies,         \* history: how often the edge has received each packet
          missed          \* history: an id asked for was not in the queue

clientVars == <<packet_counter, queue, cpc>>
edgeVars == <<data_storage, copies>>
vars == <<clientVars, age, skew, request, reply, edgeVars, missed>>

Ids == 1..MaxPackets
OK == 0

Init ==
  /\ packet_counter = 0
  /\ queue = <<>>
  /\ cpc = "ready"
  /\ age = 0
  /\ skew \in Skews
  /\ request = None /\ reply = None
  /\ data_storage = [n \in Ids |-> None]
  /\ copies = [n \in Ids |-> 0]
  /\ missed = FALSE

-----------------------------------------------------------------------------
(* The client *)

Kept == {queue[i] : i \in DOMAIN queue}

\* Mutant: nothing is removed.
StoreUnbounded(n) == Append(queue, n)

\* Mutant: when the storage is full the new packet is not kept.
StoreIfRoom(n) == IF Len(queue) >= MAX_STORAGE_SIZE THEN queue ELSE Append(queue, n)

\* The oldest packet makes room for the new one.
Store(n) == Append(IF Len(queue) >= MAX_STORAGE_SIZE THEN Tail(queue) ELSE queue, n)

SendPacket ==
  /\ cpc = "ready"
  /\ packet_counter < MaxPackets
  /\ packet_counter' = packet_counter + 1
  /\ queue' = Store(packet_counter + 1)
  /\ request' = [id |-> packet_counter + 1, retransmitted |-> FALSE]
  /\ age' = 0
  /\ cpc' = "reply"
  /\ UNCHANGED <<skew, reply, edgeVars, missed>>

\* "OK", or whatever answers a copy.
ReceiveReply ==
  /\ cpc = "resent" \/ (cpc = "reply" /\ reply = OK)
  /\ reply # None
  /\ reply' = None
  /\ cpc' = "ready"
  /\ UNCHANGED <<packet_counter, queue, age, skew, request, edgeVars, missed>>

\* "RETRANSMIT|id": the packet is sent again if it is still kept.
Retransmit ==
  /\ cpc = "reply"
  /\ reply \in Ids
  /\ reply' = None
  /\ \/ /\ reply \in Kept
        /\ request' = [id |-> reply, retransmitted |-> TRUE]
        /\ cpc' = "resent"
        /\ UNCHANGED missed
     \/ /\ reply \notin Kept
        /\ missed' = TRUE
        /\ cpc' = "ready"
        /\ UNCHANGED request
  /\ UNCHANGED <<packet_counter, queue, age, skew, edgeVars>>

\* Time passes while a packet or its answer is on its way.
Tick ==
  /\ cpc # "ready"
  /\ age < MaxAge
  /\ age' = age + 1
  /\ UNCHANGED <<clientVars, skew, request, reply, edgeVars, missed>>

-----------------------------------------------------------------------------
(* The edge *)

TransmissionTime == age + skew

\* The record of the packet that has come: the one made when it came first.
Record ==
  IF data_storage[request.id] = None
  THEN [time |-> TransmissionTime, retransmitted |-> request.retransmitted]
  ELSE data_storage[request.id]

Accept ==
  /\ ~request.retransmitted /\ TransmissionTime < RETRANSMIT_THRESHOLD
  /\ data_storage' = [data_storage EXCEPT ![request.id] = Record]
  /\ reply' = OK

\* Mutant: a late packet is lost at once.
AskAgainNever ==
  /\ ~request.retransmitted /\ TransmissionTime >= RETRANSMIT_THRESHOLD
  /\ data_storage' = [data_storage EXCEPT ![request.id] = None]
  /\ reply' = OK

AskAgain ==
  /\ ~request.retransmitted /\ TransmissionTime >= RETRANSMIT_THRESHOLD
  /\ data_storage' = [data_storage EXCEPT ![request.id] = [Record EXCEPT !.retransmitted = TRUE]]
  /\ reply' = request.id

AcceptCopy ==
  /\ request.retransmitted /\ TransmissionTime < LOSS_THRESHOLD + RETRANSMIT_THRESHOLD
  /\ data_storage' = [data_storage EXCEPT ![request.id] = [Record EXCEPT !.time = TransmissionTime]]
  /\ reply' = OK

\* Mutant: a copy that is too late stays on record.
GiveUpKeeps ==
  /\ request.retransmitted /\ TransmissionTime >= LOSS_THRESHOLD + RETRANSMIT_THRESHOLD
  /\ reply' = OK
  /\ UNCHANGED data_storage

\* Mutant: a copy that is too late is not acknowledged.
GiveUpSilently ==
  /\ request.retransmitted /\ TransmissionTime >= LOSS_THRESHOLD + RETRANSMIT_THRESHOLD
  /\ data_storage' = [data_storage EXCEPT ![request.id] = None]
  /\ UNCHANGED reply

GiveUp ==
  /\ request.retransmitted /\ TransmissionTime >= LOSS_THRESHOLD + RETRANSMIT_THRESHOLD
  /\ data_storage' = [data_storage EXCEPT ![request.id] = None]
  /\ reply' = OK

EdgeReceive ==
  /\ request # None
  /\ Accept \/ AskAgain \/ AcceptCopy \/ GiveUp
  /\ copies' = [copies EXCEPT ![request.id] = @ + 1]
  /\ request' = None
  /\ UNCHANGED <<clientVars, age, skew, missed>>

Next == SendPacket \/ ReceiveReply \/ Retransmit \/ Tick \/ EdgeReceive

Spec == Init /\ [][Next]_vars

\* Messages arrive and both loops run.
Fairness == WF_vars(ReceiveReply \/ Retransmit) /\ WF_vars(EdgeReceive)

FairSpec == Spec /\ Fairness

-----------------------------------------------------------------------------
(* Correctness *)

\* The values the variables range over; the client keeps no more packets than it
\* may.
TypeOK ==
  /\ packet_counter \in 0..MaxPackets
  /\ queue \in Seq(Ids) /\ Len(queue) <= MAX_STORAGE_SIZE
  /\ cpc \in {"ready", "reply", "resent"}
  /\ age \in 0..MaxAge /\ skew \in Skews
  /\ request \in [id : Ids, retransmitted : BOOLEAN] \cup {None}
  /\ reply \in {OK, None} \cup Ids
  /\ data_storage \in [Ids -> [time : Int, retransmitted : BOOLEAN] \cup {None}]
  /\ copies \in [Ids -> Nat]
  /\ missed \in BOOLEAN

\* The exchange of packet n is over.
Settled(n) == n < packet_counter \/ (n = packet_counter /\ cpc = "ready")

\* "packet not found, maybe expired" never happens: the packet the edge asks for
\* again is in the client's storage, whatever has been removed from it.
RequestedIsKept == ~missed

\* What stays on record, and is exported in the end, came in time: a packet
\* within its threshold, or a copy within both, measured from the first sending.
RecordedIsInTime ==
  \A n \in Ids :
    Settled(n) /\ data_storage[n] # None =>
      data_storage[n].time < IF data_storage[n].retransmitted
                             THEN LOSS_THRESHOLD + RETRANSMIT_THRESHOLD
                             ELSE RETRANSMIT_THRESHOLD

\* A packet that is not on record had its second chance, and none is sent a third
\* time: the edge has received each settled packet once or twice, and twice if it
\* holds it for lost.
LostHadSecondChance ==
  \A n \in Ids :
    Settled(n) => copies[n] \in {1, 2} /\ (data_storage[n] = None => copies[n] = 2)

\* However late its packets and copies are, the client gets an answer to each and
\* goes on.
PacketIsSettled == \A n \in Ids : (packet_counter >= n) ~> Settled(n)
=============================================================================
