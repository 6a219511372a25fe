------------------------ MODULE EdgeRetransmitProofs ------------------------
(***************************************************************************)
(* Machine-checked proofs about EdgeRetransmit, for any capacity of the    *)
(* client's storage, any thresholds and any differences of the clocks.     *)
(***************************************************************************)
EXTENDS EdgeRetransmit, SequenceTheorems, TLAPS

-----------------------------------------------------------------------------
(* The inductive invariant *)

\* The packet made last is the youngest the client keeps.
NewestInv == packet_counter > 0 => queue # <<>> /\ queue[Len(queue)] = packet_counter

Original == [id |-> packet_counter, retransmitted |-> FALSE]
Copy == [id |-> packet_counter, retransmitted |-> TRUE]

\* One message is on its way, about the packet made last, in one direction.
ExchangeInv ==
  /\ cpc = "ready" => request = None /\ reply = None
  /\ cpc # "ready" => packet_counter > 0
  /\ cpc = "reply" => \/ request = Original /\ reply = None
                      \/ request = None /\ reply \in {OK, packet_counter}
  /\ cpc = "resent" => \/ request = Copy /\ reply = None
                       \/ request = None /\ reply = OK

InTime(n) ==
  data_storage[n].time < IF data_storage[n].retransmitted
                         THEN LOSS_THRESHOLD + RETRANSMIT_THRESHOLD
                         ELSE RETRANSMIT_THRESHOLD

\* What the edge knows of packet n once the exchange is over.
Over(n) ==
  /\ copies[n] \in {1, 2} /\ (data_storage[n] = None => copies[n] = 2)
  /\ data_storage[n] # None => InTime(n)

Unheard(n) == copies[n] = 0 /\ data_storage[n] = None
Wanted(n) == copies[n] = 1 /\ data_storage[n] # None /\ data_storage[n].retransmitted

\* The edge has received a packet as often as the exchange says, and marks the one
\* it has asked for again.
RecordInv ==
  \A n \in Ids :
    /\ n > packet_counter => Unheard(n)
    /\ Settled(n) => Over(n)
    /\ n = packet_counter =>
         /\ cpc = "reply" /\ request # None => Unheard(n)
         /\ cpc = "resent" /\ request # None => Wanted(n)
         /\ cpc = "reply" /\ reply \in Ids => Wanted(n)
         /\ cpc # "ready" /\ request = None /\ reply = OK => Over(n)

IInv == TypeOK /\ NewestInv /\ ExchangeInv /\ RecordInv /\ RequestedIsKept

-----------------------------------------------------------------------------
(* The client's storage *)

\* Storing a packet removes the oldest one at most: the capacity is kept, and the
\* packet just stored is the youngest.
LEMMA StoreFacts ==
  ASSUME NEW n \in Ids, queue \in Seq(Ids), Len(queue) <= MAX_STORAGE_SIZE
  PROVE  /\ Store(n) \in Seq(Ids) /\ Store(n) # <<>> /\ Len(Store(n)) <= MAX_STORAGE_SIZE
         /\ Store(n)[Len(Store(n))] = n
  <1> USE EdgeAssumption
  <1>1. PICK rest \in Seq(Ids) : Store(n) = Append(rest, n) /\ Len(rest) < MAX_STORAGE_SIZE
    <2>1. Len(queue) \in Nat
      BY LenProperties
    <2>2. CASE Len(queue) >= MAX_STORAGE_SIZE
      <3>1. queue # <<>>
        BY <2>2, EmptySeq
      <3>2. Tail(queue) \in Seq(Ids) /\ Len(Tail(queue)) = Len(queue) - 1
        BY <3>1, HeadTailProperties
      <3>3. Store(n) = Append(Tail(queue), n)
        BY <2>2 DEF Store
      <3>4. Len(Tail(queue)) < MAX_STORAGE_SIZE
        BY <2>1, <3>2
      <3>. QED  BY <3>2, <3>3, <3>4, Zenon
    <2>3. CASE Len(queue) < MAX_STORAGE_SIZE
      BY <2>1, <2>3 DEF Store
    <2>. QED  BY <2>1, <2>2, <2>3
  <1>2. /\ Append(rest, n) \in Seq(Ids) /\ Append(rest, n) # <<>>
        /\ Len(Append(rest, n)) = Len(rest) + 1
        /\ Append(rest, n)[Len(rest) + 1] = n
    BY AppendProperties
  <1>3. Len(rest) \in Nat
    BY LenProperties
  <1>. QED  BY <1>1, <1>2, <1>3

\* The youngest packet is among those kept.
LEMMA NewestIsKept ==
  ASSUME TypeOK, NewestInv, packet_counter > 0
  PROVE  packet_counter \in Kept
  <1>1. Len(queue) \in Nat \ {0} /\ DOMAIN queue = 1..Len(queue)
    BY LenProperties, EmptySeq DEF TypeOK, NewestInv
  <1>2. Len(queue) \in DOMAIN queue
    BY <1>1
  <1>. QED  BY <1>2 DEF Kept, NewestInv

-----------------------------------------------------------------------------
(* The inductive invariant is one *)

LEMMA IInvInit == Init => IInv
  <1> SUFFICES ASSUME Init PROVE IInv
    OBVIOUS
  <1> USE EdgeAssumption
  <1>1. TypeOK
    <2>1. queue \in Seq(Ids) /\ Len(queue) = 0
      BY DEF Init
    <2>2. /\ data_storage \in [Ids -> [time : Int, retransmitted : BOOLEAN] \cup {None}]
          /\ copies \in [Ids -> Nat]
      BY DEF Init
    <2>3. /\ packet_counter \in 0..MaxPackets /\ age \in 0..MaxAge /\ skew \in Skews
          /\ Len(queue) <= MAX_STORAGE_SIZE
      BY <2>1 DEF Init
    <2>4. /\ cpc \in {"ready", "reply", "resent"} /\ missed \in BOOLEAN
          /\ request \in [id : Ids, retransmitted : BOOLEAN] \cup {None}
          /\ reply \in {OK, None} \cup Ids
      BY DEF Init
    <2>. QED  BY <2>1, <2>2, <2>3, <2>4 DEF TypeOK
  <1>2. NewestInv /\ ExchangeInv /\ RequestedIsKept
    BY DEF Init, NewestInv, ExchangeInv, RequestedIsKept
  <1>3. RecordInv
    BY DEF Init, RecordInv, Settled, Unheard, Ids
  <1>. QED  BY <1>1, <1>2, <1>3 DEF IInv

LEMMA IInvNext == IInv /\ [Next]_vars => IInv'
  <1> SUFFICES ASSUME IInv, [Next]_vars PROVE IInv'
    OBVIOUS
  <1> USE EdgeAssumption
  <1>0. TypeOK /\ NewestInv /\ ExchangeInv /\ RecordInv /\ ~missed
    BY DEF IInv, RequestedIsKept
  <1>a. UNCHANGED <<data_storage, copies>> =>
          \A n \in Ids : /\ Over(n)' = Over(n)
                         /\ Unheard(n)' = Unheard(n) /\ Wanted(n)' = Wanted(n)
    BY DEF Over, InTime, Unheard, Wanted
  <1>1. CASE SendPacket
    <2> DEFINE n == packet_counter + 1
    <2>1. /\ n \in Ids /\ cpc = "ready" /\ cpc' = "reply" /\ packet_counter' = n
          /\ queue' = Store(n) /\ request' = [id |-> n, retransmitted |-> FALSE]
          /\ request = None /\ reply = None /\ age' = 0 /\ n > 0
          /\ UNCHANGED <<skew, reply, data_storage, copies, missed>>
      BY <1>0, <1>1 DEF SendPacket, edgeVars, TypeOK, ExchangeInv, Ids
    <2>2. /\ queue' \in Seq(Ids) /\ queue' # <<>> /\ Len(queue') <= MAX_STORAGE_SIZE
          /\ queue'[Len(queue')] = n
      BY <1>0, <2>1, StoreFacts DEF TypeOK
    <2>3. TypeOK'
      BY <1>0, <2>1, <2>2 DEF TypeOK, Ids
    <2>4. NewestInv' /\ ExchangeInv' /\ RequestedIsKept'
      BY <1>0, <2>1, <2>2 DEF NewestInv, ExchangeInv, RequestedIsKept, Original
    <2>5. RecordInv'
      <3> SUFFICES ASSUME NEW m \in Ids
                   PROVE  (m > packet_counter => Unheard(m)) /\ (m <= packet_counter => Over(m))
        <4>1. packet_counter \in Int /\ \A m \in Ids : m \in Int
          BY <1>0 DEF TypeOK, Ids
        <4>. QED  BY <1>a, <2>1, <4>1 DEF RecordInv, Settled, OK
      <3>1. m \in Int /\ packet_counter \in Int
        BY <1>0 DEF Ids, TypeOK
      <3>. QED  BY <1>0, <2>1, <3>1 DEF RecordInv, Settled
    <2>. QED  BY <2>3, <2>4, <2>5 DEF IInv
  <1>2. CASE ReceiveReply
    <2>1. /\ cpc \in {"reply", "resent"} /\ cpc' = "ready" /\ reply' = None
          /\ request = None /\ reply = OK
          /\ UNCHANGED <<packet_counter, queue, age, skew, request, data_storage, copies, missed>>
      BY <1>0, <1>2 DEF ReceiveReply, ExchangeInv, edgeVars
    <2>2. TypeOK' /\ NewestInv' /\ ExchangeInv' /\ RequestedIsKept'
      BY <1>0, <2>1 DEF TypeOK, NewestInv, ExchangeInv, RequestedIsKept
    <2>3. RecordInv'
      BY <1>0, <1>a, <2>1 DEF RecordInv, Settled
    <2>. QED  BY <2>2, <2>3 DEF IInv
  <1>3. CASE Retransmit
    <2>1. cpc = "reply" /\ request = None /\ reply = packet_counter /\ packet_counter > 0
      BY <1>0, <1>3 DEF Retransmit, ExchangeInv, OK, Ids
    <2>2. reply \in Kept
      BY <1>0, <2>1, NewestIsKept
    <2>3. /\ cpc' = "resent" /\ reply' = None
          /\ request' = [id |-> packet_counter, retransmitted |-> TRUE]
          /\ UNCHANGED <<packet_counter, queue, age, skew, data_storage, copies, missed>>
      BY <1>3, <2>1, <2>2 DEF Retransmit, edgeVars
    <2>4. packet_counter \in Ids
      BY <1>0, <2>1 DEF TypeOK, Ids
    <2>5. TypeOK' /\ NewestInv' /\ RequestedIsKept'
      BY <1>0, <2>3, <2>4 DEF TypeOK, NewestInv, RequestedIsKept
    <2>6. ExchangeInv'
      BY <1>0, <2>1, <2>3 DEF ExchangeInv, Copy
    <2>7. RecordInv'
      <3>1. None \notin Ids /\ None # OK /\ OK \notin Ids
        BY DEF Ids, OK
      <3>2. Wanted(packet_counter)
        BY <1>0, <2>1, <2>4 DEF RecordInv
      <3>3. \A m \in Ids : Settled(m)' => Settled(m)
        BY <2>3 DEF Settled
      <3>. QED  BY <1>0, <1>a, <2>3, <3>1, <3>2, <3>3 DEF RecordInv
    <2>. QED  BY <2>5, <2>6, <2>7 DEF IInv
  <1>4. CASE Tick
    <2>1. /\ age' \in 0..MaxAge
          /\ UNCHANGED <<packet_counter, queue, cpc, skew, request, reply, data_storage, copies,
                         missed>>
      BY <1>0, <1>4 DEF Tick, clientVars, edgeVars, TypeOK
    <2>2. TypeOK'
      BY <1>0, <2>1 DEF TypeOK
    <2>3. NewestInv' /\ ExchangeInv' /\ RequestedIsKept'
      BY <1>0, <2>1 DEF NewestInv, ExchangeInv, Original, Copy, RequestedIsKept
    <2>4. RecordInv'
      BY <1>0, <1>a, <2>1 DEF RecordInv, Settled
    <2>. QED  BY <2>2, <2>3, <2>4 DEF IInv
  <1>5. CASE EdgeReceive
    <2> DEFINE n == packet_counter
    <2>1. /\ n \in Ids /\ request # None /\ request.id = n /\ reply = None
          /\ cpc \in {"reply", "resent"}
          /\ cpc = "reply" => request.retransmitted = FALSE
          /\ cpc = "resent" => request.retransmitted = TRUE
      BY <1>0, <1>5 DEF EdgeReceive, ExchangeInv, Original, Copy, TypeOK, Ids
    <2>2. UNCHANGED <<packet_counter, queue, cpc, age, skew, missed>> /\ request' = None
      BY <1>5 DEF EdgeReceive, clientVars
    <2>3. /\ copies' \in [Ids -> Nat] /\ copies'[n] = copies[n] + 1
          /\ \A m \in Ids : m # n => copies'[m] = copies[m]
      BY <1>0, <1>5, <2>1 DEF EdgeReceive, TypeOK
    <2>4. TransmissionTime \in Int
      BY <1>0 DEF TransmissionTime, TypeOK
    <2> DEFINE Records == [time : Int, retransmitted : BOOLEAN]
               fresh == [time |-> TransmissionTime, retransmitted |-> FALSE]
               old == data_storage[n]
    <2>5. fresh \in Records /\ fresh.time = TransmissionTime /\ ~fresh.retransmitted
      BY <2>4
    <2>6. cpc = "reply" => old = None /\ copies[n] = 0
      BY <1>0, <2>1 DEF RecordInv, Unheard
    <2>7. cpc = "resent" => old \in Records /\ old # None /\ old.retransmitted /\ copies[n] = 1
      BY <1>0, <2>1 DEF RecordInv, Wanted, TypeOK
    <2>8. Record = IF cpc = "reply" THEN fresh ELSE old
      BY <2>1, <2>6, <2>7 DEF Record
    <2> DEFINE new == data_storage'[n]
    <2>9. \A r : data_storage' = [data_storage EXCEPT ![n] = r] =>
                   new = r /\ \A m \in Ids : m # n => data_storage'[m] = data_storage[m]
      BY <1>0, <2>1 DEF TypeOK
    <2>10. /\ \A m \in Ids : m # n => data_storage'[m] = data_storage[m]
           /\ new \in Records \cup {None}
           /\ \/ /\ cpc = "reply" /\ reply' = OK
                 /\ new # None /\ ~new.retransmitted /\ new.time < RETRANSMIT_THRESHOLD
              \/ /\ cpc = "reply" /\ reply' = n
                 /\ new # None /\ new.retransmitted
              \/ /\ cpc = "resent" /\ reply' = OK
                 /\ new # None => new.retransmitted
                                    /\ new.time < LOSS_THRESHOLD + RETRANSMIT_THRESHOLD
      <3>1. CASE Accept
        <4>1. cpc = "reply" /\ Record = fresh
          BY <2>1, <2>8, <3>1 DEF Accept
        <4>2. data_storage' = [data_storage EXCEPT ![n] = fresh] /\ reply' = OK
          BY <2>1, <3>1, <4>1 DEF Accept
        <4>3. TransmissionTime < RETRANSMIT_THRESHOLD /\ fresh # None
          BY <2>5, <3>1 DEF Accept
        <4> HIDE DEF fresh, new
        <4>4. new = fresh /\ \A m \in Ids : m # n => data_storage'[m] = data_storage[m]
          BY <2>9, <4>2
        <4>. QED  BY <2>5, <4>1, <4>2, <4>3, <4>4
      <3>2. CASE AskAgain
        <4> DEFINE r == [fresh EXCEPT !.retransmitted = TRUE]
        <4>1. cpc = "reply" /\ Record = fresh
          BY <2>1, <2>8, <3>2 DEF AskAgain
        <4>2. data_storage' = [data_storage EXCEPT ![n] = r] /\ reply' = n
          BY <2>1, <3>2, <4>1 DEF AskAgain
        <4>3. r \in Records /\ r.retransmitted /\ r # None
          BY <2>4
        <4> HIDE DEF r, new
        <4>4. new = r /\ \A m \in Ids : m # n => data_storage'[m] = data_storage[m]
          BY <2>9, <4>2
        <4>. QED  BY <4>1, <4>2, <4>3, <4>4
      <3>3. CASE AcceptCopy
        <4> DEFINE r == [old EXCEPT !.time = TransmissionTime]
        <4>1. cpc = "resent" /\ Record = old
          BY <2>1, <2>8, <3>3 DEF AcceptCopy
        <4>2. data_storage' = [data_storage EXCEPT ![n] = r] /\ reply' = OK
          BY <2>1, <3>3, <4>1 DEF AcceptCopy
        <4>3. r \in Records /\ r.retransmitted /\ r.time = TransmissionTime
          BY <2>4, <2>7, <4>1
        <4>4. TransmissionTime < LOSS_THRESHOLD + RETRANSMIT_THRESHOLD
          BY <3>3 DEF AcceptCopy
        <4> HIDE DEF r, new
        <4>5. new = r /\ \A m \in Ids : m # n => data_storage'[m] = data_storage[m]
          BY <2>9, <4>2
        <4>. QED  BY <4>1, <4>2, <4>3, <4>4, <4>5
      <3>4. CASE GiveUp
        <4>1. cpc = "resent" /\ data_storage' = [data_storage EXCEPT ![n] = None] /\ reply' = OK
          BY <2>1, <3>4 DEF GiveUp
        <4> HIDE DEF new
        <4>2. new = None /\ \A m \in Ids : m # n => data_storage'[m] = data_storage[m]
          BY <2>9, <4>1
        <4>. QED  BY <4>1, <4>2
      <3>. QED  BY <1>5, <3>1, <3>2, <3>3, <3>4 DEF EdgeReceive
    <2>11. data_storage' \in [Ids -> Records \cup {None}]
      <3>1. DOMAIN data_storage' = Ids /\ data_storage' = [m \in Ids |-> data_storage'[m]]
        BY <1>0, <1>5 DEF EdgeReceive, Accept, AskAgain, AcceptCopy, GiveUp, TypeOK
      <3>2. \A m \in Ids : data_storage'[m] \in Records \cup {None}
        BY <1>0, <2>10 DEF TypeOK
      <3>. QED  BY <3>1, <3>2
    <2> HIDE DEF fresh, old
    <2>12. TypeOK'
      BY <1>0, <2>1, <2>2, <2>3, <2>10, <2>11 DEF TypeOK
    <2>13. NewestInv' /\ ExchangeInv' /\ RequestedIsKept'
      BY <1>0, <2>1, <2>2, <2>10 DEF NewestInv, ExchangeInv, RequestedIsKept
    <2>14. ASSUME NEW m \in Ids, m # n
           PROVE  (Unheard(m) => Unheard(m)') /\ (Over(m) => Over(m)') /\ (Settled(m)' => Settled(m))
      BY <2>2, <2>3, <2>10, <2>14 DEF Unheard, Settled, Over, InTime
    <2>15. ASSUME reply' = OK PROVE Over(n)'
      <3>1. copies'[n] \in {1, 2} /\ (new = None => copies'[n] = 2)
        BY <2>1, <2>3, <2>6, <2>7, <2>10
      <3>2. new # None =>
              new.time < IF new.retransmitted THEN LOSS_THRESHOLD + RETRANSMIT_THRESHOLD
                         ELSE RETRANSMIT_THRESHOLD
        BY <2>10, <2>15, <2>1 DEF OK, Ids
      <3>. QED  BY <2>2, <3>1, <3>2 DEF Over, InTime
    <2>16. ASSUME reply' \in Ids PROVE Wanted(n)' /\ cpc = "reply"
      <3>1. reply' # OK
        BY <2>16 DEF OK, Ids
      <3>2. copies'[n] = 1 /\ new # None /\ new.retransmitted /\ cpc = "reply"
        BY <2>3, <2>6, <2>10, <3>1
      <3>. QED  BY <2>2, <3>2 DEF Wanted
    <2>17. ~(n > n) /\ ~Settled(n)' /\ packet_counter' = n
      BY <2>1, <2>2 DEF Settled, Ids
    <2> HIDE DEF n, new
    <2>18. RecordInv'
      BY <1>0, <2>1, <2>2, <2>14, <2>15, <2>16, <2>17 DEF RecordInv, n
    <2>. QED  BY <2>12, <2>13, <2>18 DEF IInv
  <1>6. CASE UNCHANGED vars
    <2>1. UNCHANGED <<packet_counter, queue, cpc, age, skew, request, reply, data_storage, copies,
                      missed>>
      BY <1>6 DEF vars, clientVars, edgeVars
    <2>2. TypeOK'
      BY <1>0, <2>1 DEF TypeOK
    <2>3. NewestInv' /\ ExchangeInv' /\ RequestedIsKept'
      BY <1>0, <2>1 DEF NewestInv, ExchangeInv, Original, Copy, RequestedIsKept
    <2>4. RecordInv'
      BY <1>0, <1>a, <2>1 DEF RecordInv, Settled
    <2>. QED  BY <2>2, <2>3, <2>4 DEF IInv
  <1>. QED  BY <1>1, <1>2, <1>3, <1>4, <1>5, <1>6 DEF Next

\* Every reachable state satisfies the inductive invariant.
THEOREM IInvHolds == Spec => []IInv
  <1>1. Init => IInv
    BY IInvInit
  <1>2. IInv /\ [Next]_vars => IInv'
    BY IInvNext
  <1>. QED  BY <1>1, <1>2, PTL DEF Spec

\* The variables keep their types, and the storage its capacity.
THEOREM TypeCorrect == Spec => []TypeOK
  <1>1. IInv => TypeOK
    BY DEF IInv
  <1>. QED  BY <1>1, IInvHolds, PTL

\* With a storage of any capacity of one or more, a packet that the edge asks for
\* again is still kept.
THEOREM WantedIsKept == Spec => []RequestedIsKept
  <1>1. IInv => RequestedIsKept
    BY DEF IInv
  <1>. QED  BY <1>1, IInvHolds, PTL

\* Whatever the difference of the clocks, what stays on record came in time by it.
THEOREM RecordsAreInTime == Spec => []RecordedIsInTime
  <1>1. IInv => RecordedIsInTime
    BY DEF IInv, RecordInv, RecordedIsInTime, Over, InTime
  <1>. QED  BY <1>1, IInvHolds, PTL

\* Every packet is received once or twice, and twice before it is given up.
THEOREM LostOnlyAfterSecondChance == Spec => []LostHadSecondChance
  <1>1. IInv => LostHadSecondChance
    BY DEF IInv, RecordInv, LostHadSecondChance, Over
  <1>. QED  BY <1>1, IInvHolds, PTL

\* What the edge has decided on a packet is final once its exchange is over: no copy
\* of it is on its way any more that could change its record or bring it back.
THEOREM RecordsAreFinal ==
  Spec => [][\A n \in Ids : Settled(n) =>
               /\ Settled(n)'
               /\ data_storage'[n] = data_storage[n] /\ copies'[n] = copies[n]]_vars
  <1>1. IInv /\ [Next]_vars =>
          [\A n \in Ids : Settled(n) =>
             /\ Settled(n)'
             /\ data_storage'[n] = data_storage[n] /\ copies'[n] = copies[n]]_vars
    <2> SUFFICES ASSUME IInv, [Next]_vars, NEW n \in Ids, Settled(n)
                 PROVE  /\ Settled(n)'
                        /\ data_storage'[n] = data_storage[n] /\ copies'[n] = copies[n]
      OBVIOUS
    <2>0. TypeOK /\ ExchangeInv /\ packet_counter \in Nat /\ n \in Nat
      BY EdgeAssumption DEF IInv, TypeOK, Ids
    <2>1. CASE SendPacket
      BY <2>0, <2>1 DEF SendPacket, Settled, edgeVars
    <2>2. CASE ReceiveReply
      BY <2>0, <2>2 DEF ReceiveReply, Settled, edgeVars
    <2>3. CASE Retransmit
      BY <2>0, <2>3 DEF Retransmit, Settled, edgeVars
    <2>4. CASE Tick
      BY <2>4 DEF Tick, Settled, clientVars, edgeVars
    <2>5. CASE EdgeReceive
      <3>1. request.id = packet_counter /\ cpc # "ready"
        BY <2>0, <2>5 DEF EdgeReceive, ExchangeInv, Original, Copy, TypeOK
      <3>2. n # request.id /\ UNCHANGED <<packet_counter, cpc>>
        BY <2>0, <2>5, <3>1 DEF EdgeReceive, Settled, clientVars
      <3>. QED
        BY <2>0, <2>5, <3>2
           DEF EdgeReceive, Accept, AskAgain, AcceptCopy, GiveUp, Settled, TypeOK
    <2>6. CASE UNCHANGED vars
      BY <2>6 DEF vars, clientVars, edgeVars, Settled
    <2>. QED  BY <2>1, <2>2, <2>3, <2>4, <2>5, <2>6 DEF Next
  <1>. QED  BY <1>1, IInvHolds, PTL DEF Spec

-----------------------------------------------------------------------------
(* An exchange comes to its end *)

\* The client has a reply to read that it knows what to do with; the edge has a packet.
ClientMayGoOn == (cpc = "resent" /\ reply # None) \/ (cpc = "reply" /\ reply \in {OK} \cup Ids)
EdgeMayGoOn == request # None

\* How many messages are left to be read, at most: the packet, the demand for a copy,
\* the copy, and the reply.
StepsLeft ==
  CASE cpc = "ready" -> 0
    [] cpc = "reply" /\ request # None -> 4
    [] cpc = "reply" /\ request = None /\ reply # OK -> 3
    [] cpc = "resent" /\ request # None -> 2
    [] cpc # "ready" /\ request = None /\ reply = OK -> 1

\* However late they are, packets and copies are always answered, and after four
\* messages at most: until the exchange is over one of the two has a message to read,
\* and only one; whoever reads it leaves fewer to come; and time that passes meanwhile
\* changes nothing of that.  This is the part of PacketIsSettled that does not speak of
\* fairness.
THEOREM ExchangeEnds ==
  Spec => /\ [](cpc # "ready" => (ClientMayGoOn /\ ~EdgeMayGoOn) \/ (EdgeMayGoOn /\ ~ClientMayGoOn))
          /\ [][cpc # "ready" => /\ packet_counter' = packet_counter /\ StepsLeft \in 1..4
                                 /\ \/ StepsLeft' < StepsLeft
                                    \/ age' > age /\ StepsLeft' = StepsLeft]_vars
  <1> USE EdgeAssumption
  <1>1. IInv /\ cpc # "ready" => (ClientMayGoOn /\ ~EdgeMayGoOn) \/ (EdgeMayGoOn /\ ~ClientMayGoOn)
    BY DEF IInv, TypeOK, ExchangeInv, Original, Copy, Ids, OK, ClientMayGoOn, EdgeMayGoOn
  <1>2. ASSUME IInv, Next, cpc # "ready"
        PROVE  /\ packet_counter' = packet_counter /\ StepsLeft \in 1..4
               /\ StepsLeft' < StepsLeft \/ (age' > age /\ StepsLeft' = StepsLeft)
    <2> USE <1>2 DEF Ids, OK
    <2>0. packet_counter \in Ids /\ packet_counter # OK /\ None # OK /\ None # packet_counter
      BY DEF IInv, TypeOK, ExchangeInv
    <2>a. Original # None /\ Copy # None
      <3>1. {Original, Copy} \subseteq [id : Int, retransmitted : BOOLEAN]
        BY <2>0 DEF Original, Copy
      <3>. QED  BY <3>1
    <2>b. /\ cpc = "reply" /\ request = Original /\ reply = None => StepsLeft = 4
          /\ cpc = "reply" /\ request = None /\ reply = packet_counter => StepsLeft = 3
          /\ cpc = "resent" /\ request = Copy /\ reply = None => StepsLeft = 2
          /\ cpc # "ready" /\ request = None /\ reply = OK => StepsLeft = 1
      BY <2>0, <2>a DEF StepsLeft
    <2>c. /\ cpc' = "ready" => StepsLeft' = 0
          /\ cpc' = "reply" /\ request' = None /\ reply' # OK => StepsLeft' = 3
          /\ cpc' = "resent" /\ request' # None => StepsLeft' = 2
          /\ cpc' # "ready" /\ request' = None /\ reply' = OK => StepsLeft' = 1
      BY DEF StepsLeft
    <2>d. \/ cpc = "reply" /\ request = Original /\ reply = None
          \/ cpc = "reply" /\ request = None /\ reply = packet_counter
          \/ cpc = "resent" /\ request = Copy /\ reply = None
          \/ cpc \in {"reply", "resent"} /\ request = None /\ reply = OK
      BY DEF IInv, TypeOK, ExchangeInv
    <2>e. StepsLeft \in 1..4
      BY <2>b, <2>d
    <2>1. CASE ReceiveReply
      <3>1. request = None /\ reply = OK
        BY <2>0, <2>d, <2>1 DEF ReceiveReply
      <3>. QED  BY <2>1, <2>b, <2>c, <2>e, <3>1 DEF ReceiveReply
    <2>2. CASE Retransmit
      <3>1. cpc = "reply" /\ request = None /\ reply = packet_counter
        BY <2>0, <2>d, <2>2 DEF Retransmit
      <3>2. cpc' = "ready" \/ (cpc' = "resent" /\ request' = Copy)
        BY <2>2, <3>1 DEF Retransmit, Copy
      <3>. QED  BY <2>2, <2>a, <2>b, <2>c, <2>e, <3>1, <3>2 DEF Retransmit
    <2>3. CASE Tick
      <3>1. UNCHANGED <<cpc, request, reply, packet_counter>> /\ age' > age
        BY <2>3 DEF Tick, clientVars, IInv, TypeOK
      <3>2. StepsLeft' = StepsLeft
        BY <3>1 DEF StepsLeft
      <3>. QED  BY <2>e, <3>1, <3>2
    <2>4. CASE EdgeReceive
      <3>1. UNCHANGED <<cpc, packet_counter>> /\ request' = None
        BY <2>4 DEF EdgeReceive, clientVars
      <3>2. CASE cpc = "reply" /\ request = Original
        <4>1. reply' = OK \/ reply' # OK
          OBVIOUS
        <4>2. StepsLeft = 4
          BY <2>b, <2>d, <2>a, <3>2
        <4>. QED  BY <2>c, <2>e, <3>1, <3>2, <4>1, <4>2
      <3>3. CASE cpc = "resent" /\ request = Copy
        <4>1. reply' = OK
          BY <2>4, <3>3 DEF EdgeReceive, Accept, AskAgain, AcceptCopy, GiveUp, Copy
        <4>2. StepsLeft = 2
          BY <2>b, <2>d, <2>a, <3>3
        <4>. QED  BY <2>c, <2>e, <3>1, <3>3, <4>1, <4>2
      <3>. QED  BY <2>d, <2>4, <3>2, <3>3 DEF EdgeReceive
    <2>5. ~SendPacket
      BY DEF SendPacket
    <2>. QED  BY <2>1, <2>2, <2>3, <2>4, <2>5 DEF Next
  <1>3. IInv /\ [Next]_vars =>
          [cpc # "ready" => /\ packet_counter' = packet_counter /\ StepsLeft \in 1..4
                            /\ StepsLeft' < StepsLeft \/ (age' > age /\ StepsLeft' = StepsLeft)]_vars
    BY <1>2
  <1>. QED  BY <1>1, <1>3, IInvHolds, PTL DEF Spec
=============================================================================
