--------------------------- MODULE HBRoutineProofs ---------------------------
(***************************************************************************)
(* Machine-checked proofs about HBRoutine, for any intervals and limits    *)
(* that fit each other as those of lbworker.h and lbbroker.h do, and for   *)
(* any messages.                                                           *)
(***************************************************************************)
EXTENDS HBRoutine, SequenceTheorems, TLAPS

-----------------------------------------------------------------------------
(* The constants *)

\* backoff[t] is how long usleep lasts when t polls have timed out before: it is
\* doubled each time.
Backoff(backoff) ==
  /\ backoff \in [Nat -> Nat]
  /\ backoff[0] = INTERVAL_INIT
  /\ \A t \in Nat : backoff[t + 1] = 2 * backoff[t]

\* Liveness is used up no later than the backoff: 1, 2, 4 and 8 s against
\* INTERVAL_MAX in lbworker.h.
LivenessFits(backoff) == \A t \in 0..HEARTBEAT_LIVENESS : backoff[t] <= INTERVAL_MAX

\* liveness, once it has wrapped around, does not get to 0 again: 8000 and 2^64.
WrapFits == INTERVAL_MAX <= SIZE_MAX + HEARTBEAT_LIVENESS

\* The broker's limit is longer than the longest silence: one heartbeat interval and
\* the longest usleep, or two intervals and the shortest; 9 s and 3 s of 10 s.
ExpiryFits ==
  /\ HEARTBEAT_INTERVAL + INTERVAL_MAX < Expiry
  /\ 2 * HEARTBEAT_INTERVAL + INTERVAL_INIT < Expiry

\* An answer is there before the last poll has timed out: that is when the second
\* poll and all that follow it have lasted, and usleep after each but the last.
AnswerFits(backoff) ==
  /\ MaxUnread > 0
  /\ ReplyDelay + 2 * INTERVAL_INIT <
       HEARTBEAT_LIVENESS * HEARTBEAT_INTERVAL + backoff[HEARTBEAT_LIVENESS]

-----------------------------------------------------------------------------
(* The inductive invariants *)

\* The addresses in the queue are those the broker has sent.
QueueInv == \A i \in DOMAIN inq : inq[i] # HbOk => inq[i] \in told

\* How the clocks of the loop hang together: the heartbeat's and the one that is
\* running.  After a backoff a heartbeat is overdue.
ClockInv ==
  /\ interval >= INTERVAL_INIT
  /\ sinceSend = HEARTBEAT_INTERVAL - dueIn
  /\ pc = "check" /\ interval > INTERVAL_INIT => dueIn < 0
  /\ pc = "poll" =>
       /\ dueIn <= left /\ left <= HEARTBEAT_INTERVAL
       /\ dueIn >= left - HEARTBEAT_INTERVAL
       /\ interval > INTERVAL_INIT => dueIn >= left
  /\ pc = "sleep" =>
       /\ dueIn <= left - interval /\ left <= interval
       /\ dueIn >= left - interval - HEARTBEAT_INTERVAL
       /\ interval > INTERVAL_INIT => dueIn >= left - interval

\* The polls that have timed out since the last message, while liveness counts them.
Timeouts == HEARTBEAT_LIVENESS - liveness

\* The interval is the one the timeouts have led to, before liveness wraps around
\* and after.
LivenessInv(backoff) ==
  /\ pc \in {"check", "poll"} =>
       \/ Timeouts >= 0 /\ interval = backoff[Timeouts] /\ interval > Timeouts
       \/ liveness >= 1 /\ interval > Timeouts + SIZE_MAX + 1
  /\ pc = "sleep" =>
       \/ Timeouts >= 1 /\ interval = backoff[Timeouts - 1] /\ interval >= Timeouts
       \/ liveness >= 1 /\ interval >= Timeouts + SIZE_MAX + 1
  /\ pc \in {"poll", "sleep"} => interval <= INTERVAL_MAX
  /\ pc = "check" => sinceSend < Expiry

\* While the broker is up, a queue that is still empty means that a heartbeat has
\* been waiting for its answer since the second poll began.
Waiting(time) == unanswered # None /\ unanswered >= time

PatienceInv(backoff) ==
  brokerUp = TRUE =>
    /\ pc # "detached"
    /\ pc \in {"check", "poll"} =>
         /\ Timeouts >= 0 /\ interval = backoff[Timeouts]
         /\ Timeouts >= 1 => interval > INTERVAL_INIT
    /\ pc = "sleep" => Timeouts >= 1 /\ interval = backoff[Timeouts - 1]
    /\ pc = "check" /\ inq = <<>> /\ Timeouts >= 2 =>
         Waiting((Timeouts - 1) * HEARTBEAT_INTERVAL + interval - 2 * INTERVAL_INIT)
    /\ pc = "poll" /\ inq = <<>> /\ Timeouts >= 1 =>
         Waiting(Timeouts * HEARTBEAT_INTERVAL - left + interval - 2 * INTERVAL_INIT)
    /\ pc = "sleep" /\ inq = <<>> /\ Timeouts >= 2 =>
         Waiting((Timeouts - 1) * HEARTBEAT_INTERVAL + interval - 2 * INTERVAL_INIT
                   + interval - left)

FreshInv(backoff) == TypeOK /\ ClockInv /\ LivenessInv(backoff)
AnswerInv(backoff) == TypeOK /\ ClockInv /\ PatienceInv(backoff)

TypeInv == TypeOK /\ QueueInv

-----------------------------------------------------------------------------
(* Types, and the messages *)

LEMMA TypeInit == Init => TypeInv
  <1> SUFFICES ASSUME Init PROVE TypeInv
    OBVIOUS
  <1> USE HBAssumption
  <1>1. /\ pc \in {"check", "poll", "sleep", "detached"} /\ liveness \in 0..SIZE_MAX
        /\ interval \in Nat /\ dueIn \in Int /\ dueIn <= HEARTBEAT_INTERVAL
    BY DEF Init
  <1>2. left \in Nat /\ inq \in Seq(Clients \cup {HbOk}) /\ Len(inq) <= MaxUnread
    BY DEF Init
  <1>3. /\ submitted \subseteq told /\ told \subseteq Clients /\ sinceSend \in Nat
        /\ brokerUp \in BOOLEAN /\ unanswered \in 0..ReplyDelay \cup {None}
    BY DEF Init
  <1>4. QueueInv
    BY DEF Init, QueueInv
  <1>. QED  BY <1>1, <1>2, <1>3, <1>4 DEF TypeInv, TypeOK

\* Reading takes the first message and keeps the others.
LEMMA ReadFacts ==
  ASSUME TypeInv, inq # <<>>
  PROVE  /\ Head(inq) \in told \cup {HbOk}
         /\ Tail(inq) \in Seq(Clients \cup {HbOk}) /\ Len(Tail(inq)) <= MaxUnread
         /\ \A i \in DOMAIN Tail(inq) : Tail(inq)[i] # HbOk => Tail(inq)[i] \in told
  <1>1. inq \in Seq(Clients \cup {HbOk}) /\ Len(inq) <= MaxUnread
    BY DEF TypeInv, TypeOK
  <1>2. /\ Len(inq) \in Nat \ {0} /\ DOMAIN inq = 1..Len(inq) /\ Head(inq) = inq[1]
        /\ Tail(inq) \in Seq(Clients \cup {HbOk}) /\ Len(Tail(inq)) = Len(inq) - 1
        /\ \A i \in 1..Len(Tail(inq)) : Tail(inq)[i] = inq[i + 1]
    BY <1>1, HeadTailProperties, EmptySeq, LenProperties
  <1>3. DOMAIN Tail(inq) = 1..Len(Tail(inq))
    BY <1>2, LenProperties
  <1>4. Head(inq) \in told \cup {HbOk}
    <2>1. 1 \in DOMAIN inq
      BY <1>2
    <2>. QED  BY <1>2, <2>1 DEF TypeInv, QueueInv
  <1>5. ASSUME NEW i \in DOMAIN Tail(inq), Tail(inq)[i] # HbOk PROVE Tail(inq)[i] \in told
    <2>1. i + 1 \in DOMAIN inq /\ Tail(inq)[i] = inq[i + 1]
      BY <1>2, <1>3
    <2>. QED  BY <1>5, <2>1 DEF TypeInv, QueueInv
  <1>6. Len(Tail(inq)) <= MaxUnread
    BY <1>1, <1>2, HBAssumption
  <1>. QED  BY <1>2, <1>4, <1>5, <1>6

\* A message that comes is the last of the queue.
LEMMA ComeFacts ==
  ASSUME TypeInv, NEW m \in Clients \cup {HbOk}, Len(inq) < MaxUnread
  PROVE  /\ Append(inq, m) \in Seq(Clients \cup {HbOk}) /\ Len(Append(inq, m)) <= MaxUnread
         /\ Append(inq, m) # <<>>
         /\ \A i \in DOMAIN Append(inq, m) :
              Append(inq, m)[i] # HbOk => Append(inq, m)[i] \in told \cup {m}
  <1>1. inq \in Seq(Clients \cup {HbOk})
    BY DEF TypeInv, TypeOK
  <1>2. Len(inq) \in Nat /\ DOMAIN inq = 1..Len(inq)
    BY <1>1, LenProperties
  <1>3. /\ Append(inq, m) \in Seq(Clients \cup {HbOk}) /\ Append(inq, m) # <<>>
        /\ Len(Append(inq, m)) = Len(inq) + 1
        /\ Append(inq, m)[Len(inq) + 1] = m
        /\ \A i \in 1..Len(inq) : Append(inq, m)[i] = inq[i]
    BY <1>1, AppendProperties
  <1>4. DOMAIN Append(inq, m) = 1..(Len(inq) + 1)
    BY <1>3, LenProperties
  <1>5. ASSUME NEW i \in DOMAIN Append(inq, m), Append(inq, m)[i] # HbOk
        PROVE  Append(inq, m)[i] \in told \cup {m}
    <2>1. i = Len(inq) + 1 \/ i \in 1..Len(inq)
      BY <1>2, <1>4
    <2>2. i \in 1..Len(inq) => inq[i] \in told \cup {HbOk}
      BY <1>2 DEF TypeInv, QueueInv
    <2>. QED  BY <1>3, <1>5, <2>1, <2>2
  <1>6. Len(Append(inq, m)) <= MaxUnread
    BY <1>2, <1>3, HBAssumption
  <1>. QED  BY <1>3, <1>5, <1>6

LEMMA TypeNext == TypeInv /\ [Next]_vars => TypeInv'
  <1> SUFFICES ASSUME TypeInv, [Next]_vars PROVE TypeInv'
    OBVIOUS
  <1> USE HBAssumption
  <1>0. TypeOK /\ QueueInv
    BY DEF TypeInv
  <1>1. UNCHANGED <<inq, told>> => QueueInv'
    BY <1>0 DEF QueueInv
  <1>2. CASE Check
    BY <1>0, <1>1, <1>2 DEF Check, SendHeartbeat, brokerVars, TypeInv, TypeOK
  <1>3. CASE Detach
    BY <1>0, <1>1, <1>3 DEF Detach, brokerVars, TypeInv, TypeOK
  <1>4. CASE Receive
    <2>1. submitted' \subseteq told /\ told' = told
      BY <1>0, <1>4, ReadFacts DEF Receive, brokerVars, TypeInv, TypeOK
    <2>2. inq' \in Seq(Clients \cup {HbOk}) /\ Len(inq') <= MaxUnread /\ QueueInv'
      BY <1>4, ReadFacts DEF Receive, brokerVars, QueueInv
    <2>. QED  BY <1>0, <1>4, <2>1, <2>2 DEF Receive, brokerVars, TypeInv, TypeOK
  <1>5. CASE PollTimeout
    BY <1>0, <1>1, <1>5 DEF PollTimeout, brokerVars, TypeInv, TypeOK
  <1>6. CASE WakeUp
    BY <1>0, <1>1, <1>6 DEF WakeUp, brokerVars, TypeInv, TypeOK
  <1>7. CASE Tick
    <2>1. /\ left' \in Nat /\ dueIn' \in Int /\ dueIn' <= HEARTBEAT_INTERVAL /\ sinceSend' \in Nat
      BY <1>0, <1>7 DEF Tick, TypeOK
    <2>2. unanswered' \in 0..ReplyDelay \cup {None}
      BY <1>0, <1>7 DEF Tick, TypeOK
    <2>. QED  BY <1>0, <1>1, <1>7, <2>1, <2>2 DEF Tick, brokerVars, TypeInv, TypeOK
  <1>8. CASE Answer
    <2>1. inq' \in Seq(Clients \cup {HbOk}) /\ Len(inq') <= MaxUnread /\ QueueInv'
      BY <1>8, ComeFacts DEF Answer, brokerVars, QueueInv
    <2>. QED  BY <1>0, <1>8, <2>1 DEF Answer, loopVars, brokerVars, TypeInv, TypeOK
  <1>9. ASSUME NEW c \in Clients, SendAddress(c) PROVE TypeInv'
    <2>1. inq' \in Seq(Clients \cup {HbOk}) /\ Len(inq') <= MaxUnread /\ QueueInv'
      BY <1>9, ComeFacts DEF SendAddress, QueueInv
    <2>. QED  BY <1>0, <1>9, <2>1 DEF SendAddress, loopVars, TypeInv, TypeOK
  <1>10. CASE BrokerStops
    BY <1>0, <1>1, <1>10 DEF BrokerStops, loopVars, TypeInv, TypeOK
  <1>11. CASE UNCHANGED vars
    BY <1>0, <1>1, <1>11 DEF vars, loopVars, brokerVars, TypeInv, TypeOK
  <1>. QED
    BY <1>2, <1>3, <1>4, <1>5, <1>6, <1>7, <1>8, <1>9, <1>10, <1>11 DEF Next, LoopStep

\* The variables keep their types; every address that was submitted was sent by the
\* broker.
THEOREM TypeCorrect == Spec => []TypeOK
  <1>1. Init => TypeInv
    BY TypeInit
  <1>2. TypeInv /\ [Next]_vars => TypeInv'
    BY TypeNext
  <1>3. TypeInv => TypeOK
    BY DEF TypeInv
  <1>. QED  BY <1>1, <1>2, <1>3, PTL DEF Spec

-----------------------------------------------------------------------------
(* The clocks *)

LEMMA ClockInit == Init => ClockInv
  BY HBAssumption DEF Init, ClockInv

LEMMA ClockNext == TypeOK /\ ClockInv /\ [Next]_vars => ClockInv'
  <1> SUFFICES ASSUME TypeOK, ClockInv, [Next]_vars PROVE ClockInv'
    OBVIOUS
  <1> USE HBAssumption
  <1>1. CASE Check
    BY <1>1 DEF Check, SendHeartbeat, HeartbeatMayBeDue, HeartbeatMayNotBeDue, ClockInv, TypeOK
  <1>2. CASE Detach
    BY <1>2 DEF Detach, ClockInv, TypeOK
  <1>3. CASE Receive
    BY <1>3 DEF Receive, ClockInv, TypeOK
  <1>4. CASE PollTimeout
    BY <1>4 DEF PollTimeout, ClockInv, TypeOK
  <1>5. CASE WakeUp
    BY <1>5 DEF WakeUp, ClockInv, TypeOK
  <1>6. CASE Tick
    BY <1>6 DEF Tick, ClockInv, TypeOK
  <1>7. CASE \/ UNCHANGED <<loopVars, left>>
             \/ UNCHANGED vars
    BY <1>7 DEF vars, loopVars, ClockInv
  <1>. QED
    BY <1>1, <1>2, <1>3, <1>4, <1>5, <1>6, <1>7
       DEF Next, LoopStep, Answer, SendAddress, BrokerStops

-----------------------------------------------------------------------------
(* Who is alive *)

LEMMA LivenessInit ==
  ASSUME NEW backoff, Backoff(backoff), ExpiryFits
  PROVE  Init => LivenessInv(backoff)
  BY HBAssumption DEF Init, LivenessInv, Timeouts, Backoff, ExpiryFits

LEMMA LivenessNext ==
  ASSUME NEW backoff, Backoff(backoff), LivenessFits(backoff), WrapFits, ExpiryFits
  PROVE  TypeOK /\ ClockInv /\ LivenessInv(backoff) /\ [Next]_vars => LivenessInv(backoff)'
  <1> SUFFICES ASSUME TypeOK, ClockInv, LivenessInv(backoff), [Next]_vars
               PROVE  LivenessInv(backoff)'
    OBVIOUS
  <1> USE HBAssumption
  <1>0. /\ liveness \in 0..SIZE_MAX /\ interval \in Nat /\ Timeouts \in Int
        /\ dueIn \in Int /\ left \in Nat
    BY DEF TypeOK, Timeouts
  <1>1. CASE Check
    <2>1. /\ pc = "check" /\ pc' = "poll" /\ UNCHANGED <<liveness, interval>>
          /\ interval <= INTERVAL_MAX \/ liveness = 0
      BY <1>0, <1>1 DEF Check, Continue
    <2>2. interval <= INTERVAL_MAX
      BY <1>0, <2>1 DEF LivenessInv, LivenessFits, Timeouts
    <2>. QED  BY <2>1, <2>2 DEF LivenessInv, Timeouts
  <1>2. CASE Detach
    BY <1>2 DEF Detach, LivenessInv
  <1>3. CASE Receive
    <2>1. sinceSend' < Expiry
      BY <1>0, <1>3 DEF Receive, ClockInv, ExpiryFits
    <2>. QED  BY <1>3, <2>1 DEF Receive, LivenessInv, Timeouts, Backoff
  <1>4. CASE PollTimeout
    <2>1. /\ pc = "poll" /\ pc' = "sleep" /\ interval' = interval
          /\ liveness = 0 => liveness' = SIZE_MAX
          /\ liveness # 0 => liveness' = liveness - 1
      BY <1>4 DEF PollTimeout
    <2>2. interval <= INTERVAL_MAX
      BY <2>1 DEF LivenessInv
    <2>3. CASE Timeouts >= 0 /\ interval = backoff[Timeouts] /\ interval > Timeouts
      BY <1>0, <2>1, <2>2, <2>3 DEF LivenessInv, Timeouts
    <2>4. CASE liveness >= 1 /\ interval > Timeouts + SIZE_MAX + 1
      BY <1>0, <2>1, <2>2, <2>4 DEF LivenessInv, Timeouts, WrapFits
    <2>. QED  BY <2>1, <2>3, <2>4 DEF LivenessInv
  <1>5. CASE WakeUp
    <2>1. /\ pc = "sleep" /\ pc' = "check" /\ interval' = interval * 2 /\ left = 0
          /\ UNCHANGED <<liveness, dueIn, sinceSend>>
      BY <1>5 DEF WakeUp
    <2>2. interval <= INTERVAL_MAX /\ interval >= 1
      BY <1>0, <2>1 DEF LivenessInv, ClockInv
    <2>3. sinceSend < Expiry
      BY <1>0, <2>1, <2>2 DEF ClockInv, ExpiryFits
    <2>4. CASE Timeouts >= 1 /\ interval = backoff[Timeouts - 1] /\ interval >= Timeouts
      <3>1. backoff[(Timeouts - 1) + 1] = 2 * backoff[Timeouts - 1]
        BY <1>0, <2>4 DEF Backoff
      <3>2. (Timeouts - 1) + 1 = Timeouts /\ Timeouts' = Timeouts
        BY <1>0, <2>1 DEF Timeouts
      <3>3. interval' = backoff[Timeouts] /\ interval' > Timeouts
        BY <1>0, <2>1, <2>2, <2>4, <3>1, <3>2
      <3>. QED  BY <1>0, <2>1, <2>3, <2>4, <3>2, <3>3 DEF LivenessInv
    <2>5. CASE liveness >= 1 /\ interval >= Timeouts + SIZE_MAX + 1
      BY <1>0, <2>1, <2>2, <2>3, <2>5 DEF LivenessInv, Timeouts
    <2>. QED  BY <2>1, <2>4, <2>5 DEF LivenessInv
  <1>6. CASE Tick
    BY <1>6 DEF Tick, LivenessInv, Timeouts
  <1>7. CASE \/ UNCHANGED <<loopVars, left>>
             \/ UNCHANGED vars
    BY <1>7 DEF vars, loopVars, LivenessInv, Timeouts
  <1>. QED
    BY <1>1, <1>2, <1>3, <1>4, <1>5, <1>6, <1>7
       DEF Next, LoopStep, Answer, SendAddress, BrokerStops

\* Constants that fit keep every worker whose loop goes on younger than the broker's
\* limit, whatever is answered or lost.
THEOREM AttachedStaysFresh ==
  ASSUME NEW backoff, Backoff(backoff), LivenessFits(backoff), WrapFits, ExpiryFits
  PROVE  Spec => []AttachedIsFresh
  <1>1. Init => FreshInv(backoff)
    BY TypeInit, ClockInit, LivenessInit DEF FreshInv, TypeInv
  <1>2. TypeOK /\ TypeOK' /\ FreshInv(backoff) /\ [Next]_vars => FreshInv(backoff)'
    BY ClockNext, LivenessNext DEF FreshInv
  <1>3. FreshInv(backoff) => AttachedIsFresh
    <2> SUFFICES ASSUME FreshInv(backoff), pc # "detached" PROVE sinceSend < Expiry
      BY DEF AttachedIsFresh
    <2>1. CASE pc = "check"
      BY <2>1 DEF FreshInv, LivenessInv
    <2>2. CASE pc = "poll"
      BY <2>2, HBAssumption DEF FreshInv, ClockInv, ExpiryFits, TypeOK
    <2>3. CASE pc = "sleep"
      BY <2>3, HBAssumption DEF FreshInv, ClockInv, LivenessInv, ExpiryFits, TypeOK
    <2>. QED  BY <2>1, <2>2, <2>3 DEF FreshInv, TypeOK
  <1>. QED  BY <1>1, <1>2, <1>3, TypeCorrect, PTL DEF Spec

-----------------------------------------------------------------------------
(* Who is answered *)

\* One more timeout is one more heartbeat interval.
LEMMA OneMore ==
  ASSUME NEW t \in Int
  PROVE  /\ t * HEARTBEAT_INTERVAL \in Int
         /\ (t - 1) * HEARTBEAT_INTERVAL + HEARTBEAT_INTERVAL = t * HEARTBEAT_INTERVAL
         /\ t = 1 => (t - 1) * HEARTBEAT_INTERVAL = 0 /\ t * HEARTBEAT_INTERVAL = HEARTBEAT_INTERVAL
  BY HBAssumption

LEMMA PatienceInit ==
  ASSUME NEW backoff, Backoff(backoff)
  PROVE  Init => PatienceInv(backoff)
  BY HBAssumption DEF Init, PatienceInv, Timeouts, Backoff

LEMMA PatienceNext ==
  ASSUME NEW backoff, Backoff(backoff), LivenessFits(backoff), AnswerFits(backoff)
  PROVE  TypeOK /\ ClockInv /\ PatienceInv(backoff) /\ [Next]_vars => PatienceInv(backoff)'
  <1> SUFFICES ASSUME TypeOK, ClockInv, PatienceInv(backoff), [Next]_vars, brokerUp' = TRUE
               PROVE  PatienceInv(backoff)'
    BY DEF PatienceInv
  <1> USE HBAssumption
  <1>a. brokerUp = TRUE
    BY DEF Next, LoopStep, Check, Detach, Receive, PollTimeout, WakeUp, Tick, Answer, SendAddress,
           BrokerStops, vars, loopVars, brokerVars, TypeOK
  <1>0. /\ liveness \in 0..SIZE_MAX /\ interval \in Nat /\ Timeouts \in Int
        /\ dueIn \in Int /\ left \in Nat /\ unanswered \in Nat \cup {None} /\ None \notin Nat
        /\ Timeouts <= HEARTBEAT_LIVENESS
    BY DEF TypeOK, Timeouts
  <1> DEFINE H == HEARTBEAT_INTERVAL
             before == (Timeouts - 1) * H
             after == Timeouts * H
  <1>b. /\ before \in Int /\ after \in Int /\ before + H = after
        /\ Timeouts = 1 => before = 0
    BY <1>0, OneMore
  <1>1. CASE Check
    <2>1. /\ pc = "check" /\ pc' = "poll" /\ left' = H
          /\ UNCHANGED <<liveness, interval, inq>>
      BY <1>1 DEF Check
    <2>2. /\ Timeouts >= 0 /\ interval = backoff[Timeouts]
          /\ Timeouts >= 1 => interval > INTERVAL_INIT
          /\ inq = <<>> /\ Timeouts >= 2 => Waiting(before + interval - 2 * INTERVAL_INIT)
      BY <1>a, <2>1 DEF PatienceInv
    <2>3. /\ unanswered # None => unanswered' = unanswered
          /\ Timeouts >= 1 => unanswered' # None
          /\ Timeouts >= 1 /\ unanswered = None => unanswered' = 0
      BY <1>0, <1>1, <2>1, <2>2 DEF Check, SendHeartbeat, HeartbeatMayNotBeDue, ClockInv
    <2>4. Timeouts = 1 => interval = 2 * INTERVAL_INIT
      BY <2>2 DEF Backoff
    <2>5. unanswered # None => unanswered >= 0
      BY DEF TypeOK
    <2>6. ASSUME inq = <<>>, Timeouts >= 1
          PROVE  unanswered' # None /\ unanswered' >= after - H + interval - 2 * INTERVAL_INIT
      <3>1. CASE Timeouts = 1
        BY <1>0, <1>b, <2>3, <2>4, <2>5, <2>6, <3>1
      <3>2. CASE Timeouts >= 2
        <4>1. unanswered # None /\ unanswered >= before + interval - 2 * INTERVAL_INIT
          BY <2>2, <2>6, <3>2 DEF Waiting
        <4>. QED  BY <1>0, <1>b, <2>3, <4>1
      <3>. QED  BY <1>0, <2>6, <3>1, <3>2
    <2>7. Timeouts' = Timeouts
      BY <2>1 DEF Timeouts
    <2>. QED  BY <2>1, <2>2, <2>6, <2>7 DEF PatienceInv, Waiting
  <1>2. CASE Detach
    <2>1. pc = "check" /\ interval > INTERVAL_MAX
      BY <1>0, <1>2 DEF Detach, Continue
    <2>2. Timeouts >= 0 /\ interval = backoff[Timeouts]
      BY <1>a, <2>1 DEF PatienceInv
    <2>. QED  BY <1>0, <2>1, <2>2 DEF LivenessFits
  <1>3. CASE Receive
    <2>1. pc' = "check" /\ liveness' = HEARTBEAT_LIVENESS /\ interval' = INTERVAL_INIT
      BY <1>3 DEF Receive
    <2>2. Timeouts' = 0
      BY <2>1 DEF Timeouts
    <2>. QED  BY <2>1, <2>2 DEF PatienceInv, Backoff
  <1>4. CASE PollTimeout
    <2>1. /\ pc = "poll" /\ pc' = "sleep" /\ inq = <<>> /\ left = 0 /\ left' = interval
          /\ UNCHANGED <<interval, inq, unanswered>>
          /\ liveness # 0 => liveness' = liveness - 1
      BY <1>4 DEF PollTimeout
    <2>2. /\ Timeouts >= 0 /\ interval = backoff[Timeouts]
          /\ Timeouts >= 1 => unanswered # None
                                /\ unanswered >= after - left + interval - 2 * INTERVAL_INIT
      BY <1>a, <2>1 DEF PatienceInv, Waiting
    <2>3. liveness # 0
      <3> SUFFICES ASSUME liveness = 0 PROVE FALSE
        OBVIOUS
      <3>1. Timeouts = HEARTBEAT_LIVENESS /\ Timeouts >= 1
        BY DEF Timeouts
      <3>2. unanswered # None /\ unanswered <= ReplyDelay
        BY <2>2, <3>1 DEF TypeOK
      <3>3. after = HEARTBEAT_LIVENESS * H /\ interval = backoff[HEARTBEAT_LIVENESS]
        BY <2>2, <3>1
      <3>4. unanswered \in Nat /\ interval \in Nat
        BY <1>0, <3>2
      <3>5. ReplyDelay + 2 * INTERVAL_INIT < after + interval
        BY <3>3 DEF AnswerFits
      <3>6. unanswered >= after - left + interval - 2 * INTERVAL_INIT
        BY <2>2, <3>1
      <3> HIDE DEF after
      <3>. QED  BY <1>b, <2>1, <3>2, <3>4, <3>5, <3>6
    <2>4. Timeouts' = Timeouts + 1 /\ Timeouts' - 1 = Timeouts
      BY <1>0, <2>1, <2>3 DEF Timeouts
    <2>5. Timeouts' >= 2 =>
            unanswered # None
              /\ unanswered >= after + interval - 2 * INTERVAL_INIT + interval - left'
      BY <1>0, <1>b, <2>1, <2>2, <2>4
    <2>. QED  BY <1>0, <2>1, <2>2, <2>4, <2>5 DEF PatienceInv, Waiting
  <1>5. CASE WakeUp
    <2>1. /\ pc = "sleep" /\ pc' = "check" /\ interval' = interval * 2 /\ left = 0
          /\ UNCHANGED <<liveness, inq, unanswered>>
      BY <1>5 DEF WakeUp
    <2>2. /\ Timeouts >= 1 /\ interval = backoff[Timeouts - 1]
          /\ inq = <<>> /\ Timeouts >= 2 =>
               unanswered # None
                 /\ unanswered >= before + interval - 2 * INTERVAL_INIT + interval - left
      BY <1>a, <2>1 DEF PatienceInv, Waiting
    <2>3. backoff[(Timeouts - 1) + 1] = 2 * backoff[Timeouts - 1] /\ (Timeouts - 1) + 1 = Timeouts
      BY <1>0, <2>2 DEF Backoff
    <2>4. interval' = backoff[Timeouts] /\ interval' > INTERVAL_INIT
      BY <1>0, <2>1, <2>2, <2>3 DEF ClockInv
    <2>5. Timeouts' = Timeouts
      BY <2>1 DEF Timeouts
    <2>6. inq = <<>> /\ Timeouts >= 2 =>
            unanswered # None /\ unanswered >= before + interval' - 2 * INTERVAL_INIT
      BY <1>0, <1>b, <2>1, <2>2
    <2>. QED  BY <1>0, <2>1, <2>2, <2>4, <2>5, <2>6 DEF PatienceInv, Waiting
  <1>6. CASE Tick
    <2>1. /\ pc \in {"poll", "sleep"} /\ left' = left - 1
          /\ UNCHANGED <<pc, liveness, interval, inq>>
      BY <1>6 DEF Tick
    <2>2. ASSUME inq = <<>>, unanswered # None PROVE unanswered' = unanswered + 1
      <3>1. Len(inq) < MaxUnread
        BY <2>2 DEF AnswerFits
      <3>. QED  BY <1>a, <1>0, <1>6, <2>2, <3>1 DEF Tick
    <2>3. Timeouts' = Timeouts
      BY <2>1 DEF Timeouts
    <2>4. CASE pc = "poll"
      <3>1. /\ Timeouts >= 0 /\ interval = backoff[Timeouts]
            /\ Timeouts >= 1 => interval > INTERVAL_INIT
            /\ inq = <<>> /\ Timeouts >= 1 =>
                 unanswered # None /\ unanswered >= after - left + interval - 2 * INTERVAL_INIT
        BY <1>a, <2>4 DEF PatienceInv, Waiting
      <3>2. inq = <<>> /\ Timeouts >= 1 =>
              unanswered' # None /\ unanswered' >= after - left' + interval - 2 * INTERVAL_INIT
        <4> SUFFICES ASSUME inq = <<>>, Timeouts >= 1
                     PROVE  unanswered' # None /\ unanswered' >= after - left' + interval - 2 * INTERVAL_INIT
          OBVIOUS
        <4>1. unanswered # None /\ unanswered \in Nat /\ unanswered' = unanswered + 1
          BY <1>0, <2>2, <3>1
        <4>2. left' = left - 1 /\ left \in Int /\ interval \in Int /\ INTERVAL_INIT \in Int
          BY <1>0, <2>1
        <4>3. unanswered' # None
          BY <4>1
        <4> HIDE DEF after
        <4>. QED  BY <1>b, <3>1, <4>1, <4>2, <4>3
      <3>. QED  BY <2>1, <2>3, <2>4, <3>1, <3>2 DEF PatienceInv, Waiting
    <2>5. CASE pc = "sleep"
      <3>1. /\ Timeouts >= 1 /\ interval = backoff[Timeouts - 1]
            /\ inq = <<>> /\ Timeouts >= 2 =>
                 unanswered # None
                   /\ unanswered >= before + interval - 2 * INTERVAL_INIT + interval - left
        BY <1>a, <2>5 DEF PatienceInv, Waiting
      <3>2. inq = <<>> /\ Timeouts >= 2 =>
              unanswered' # None
                /\ unanswered' >= before + interval - 2 * INTERVAL_INIT + interval - left'
        <4> SUFFICES ASSUME inq = <<>>, Timeouts >= 2
                     PROVE  unanswered' # None /\ unanswered' >= before + interval - 2 * INTERVAL_INIT
                                                                + interval - left'
          OBVIOUS
        <4>1. unanswered # None /\ unanswered \in Nat /\ unanswered' = unanswered + 1
          BY <1>0, <2>2, <3>1
        <4>2. left' = left - 1 /\ left \in Int /\ interval \in Int /\ INTERVAL_INIT \in Int
          BY <1>0, <2>1
        <4>3. unanswered' # None
          BY <4>1
        <4>4. unanswered >= before + interval - 2 * INTERVAL_INIT + interval - left
          BY <3>1
        <4> HIDE DEF before
        <4>. QED  BY <1>b, <4>1, <4>2, <4>3, <4>4
      <3>. QED  BY <2>1, <2>3, <2>5, <3>1, <3>2 DEF PatienceInv, Waiting
    <2>. QED  BY <2>1, <2>4, <2>5
  <1>7. CASE Answer \/ \E c \in Clients : SendAddress(c)
    <2>1. inq' # <<>> /\ UNCHANGED <<loopVars, left>>
      <3>1. inq \in Seq(Clients \cup {HbOk}) /\ HbOk \in Clients \cup {HbOk}
        BY DEF TypeOK
      <3>2. \A m \in Clients \cup {HbOk} : Append(inq, m) # <<>>
        BY <3>1, AppendProperties
      <3>. QED  BY <1>7, <3>1, <3>2 DEF Answer, SendAddress
    <2>. QED  BY <1>a, <2>1 DEF loopVars, PatienceInv, Timeouts
  <1>8. CASE UNCHANGED vars
    BY <1>8 DEF vars, loopVars, brokerVars, PatienceInv, Timeouts, Waiting
  <1>9. CASE BrokerStops
    BY <1>9 DEF BrokerStops
  <1>. QED
    BY <1>1, <1>2, <1>3, <1>4, <1>5, <1>6, <1>7, <1>8, <1>9 DEF Next, LoopStep

\* Constants that fit keep a worker attached for as long as its broker answers, be
\* the answers as late as they may: it does not leave a broker that is up.
THEOREM AnsweredIsPatient ==
  ASSUME NEW backoff, Backoff(backoff), LivenessFits(backoff), AnswerFits(backoff)
  PROVE  Spec => []AnsweredStaysAttached
  <1>1. Init => AnswerInv(backoff)
    BY TypeInit, ClockInit, PatienceInit DEF AnswerInv, TypeInv
  <1>2. TypeOK /\ TypeOK' /\ AnswerInv(backoff) /\ [Next]_vars => AnswerInv(backoff)'
    BY ClockNext, PatienceNext DEF AnswerInv
  <1>3. AnswerInv(backoff) => AnsweredStaysAttached
    BY DEF AnswerInv, PatienceInv, AnsweredStaysAttached, TypeOK
  <1>. QED  BY <1>1, <1>2, <1>3, TypeCorrect, PTL DEF Spec

-----------------------------------------------------------------------------
(* No address is lost *)

\* An address that the broker has sent is waiting or has been submitted.
NoAddressLost == \A c \in told : c \in submitted \/ \E i \in DOMAIN inq : inq[i] = c

LEMMA NotLostNext == TypeInv /\ NoAddressLost /\ [Next]_vars => NoAddressLost'
  <1> SUFFICES ASSUME TypeInv, NoAddressLost, [Next]_vars PROVE NoAddressLost'
    OBVIOUS
  <1> USE HBAssumption
  <1>0. inq \in Seq(Clients \cup {HbOk}) /\ Len(inq) \in Nat /\ DOMAIN inq = 1..Len(inq)
    BY LenProperties DEF TypeInv, TypeOK
  <1>1. UNCHANGED <<inq, told, submitted>> => NoAddressLost'
    BY DEF NoAddressLost
  <1>2. CASE Receive
    <2>1. /\ inq # <<>> /\ inq' = Tail(inq) /\ told' = told
          /\ submitted' = IF Head(inq) = HbOk THEN submitted ELSE submitted \cup {Head(inq)}
      BY <1>2 DEF Receive, brokerVars
    <2>2. /\ Len(inq) \in Nat \ {0} /\ Head(inq) = inq[1] /\ DOMAIN inq' = 1..(Len(inq) - 1)
          /\ \A i \in 1..(Len(inq) - 1) : inq'[i] = inq[i + 1]
      BY <1>0, <2>1, HeadTailProperties, EmptySeq, LenProperties
    <2>3. ASSUME NEW c \in told, c \notin submitted, c # inq[1]
          PROVE  \E i \in DOMAIN inq' : inq'[i] = c
      <3>1. PICK i \in DOMAIN inq : inq[i] = c
        BY <2>3 DEF NoAddressLost
      <3>2. i - 1 \in 1..(Len(inq) - 1) /\ (i - 1) + 1 = i
        BY <1>0, <2>3, <3>1
      <3>. QED  BY <2>2, <3>1, <3>2
    <2>4. HbOk \notin told
      BY DEF TypeInv, TypeOK
    <2>. QED  BY <2>1, <2>2, <2>3, <2>4 DEF NoAddressLost
  <1>3. ASSUME NEW m \in Clients \cup {HbOk}, inq' = Append(inq, m), submitted' = submitted,
               told' \subseteq told \cup {m}
        PROVE  NoAddressLost'
    <2>1. /\ DOMAIN inq' = 1..(Len(inq) + 1) /\ inq'[Len(inq) + 1] = m
          /\ \A i \in DOMAIN inq : inq'[i] = inq[i]
      BY <1>0, <1>3, AppendProperties, LenProperties
    <2>2. Len(inq) + 1 \in DOMAIN inq' /\ \A i \in DOMAIN inq : i \in DOMAIN inq'
      BY <1>0, <2>1
    <2>3. ASSUME NEW c \in told', c \notin submitted PROVE \E i \in DOMAIN inq' : inq'[i] = c
      <3>1. CASE c = m
        BY <2>1, <2>2, <3>1
      <3>2. CASE c # m
        <4>1. PICK i \in DOMAIN inq : inq[i] = c
          BY <1>3, <2>3, <3>2 DEF NoAddressLost
        <4>. QED  BY <2>1, <2>2, <4>1
      <3>. QED  BY <3>1, <3>2
    <2>. QED  BY <1>3, <2>3 DEF NoAddressLost
  <1>4. CASE Answer
    BY <1>3, <1>4 DEF Answer, loopVars, brokerVars
  <1>5. ASSUME NEW c \in Clients, SendAddress(c) PROVE NoAddressLost'
    BY <1>3, <1>5 DEF SendAddress, loopVars
  <1>. QED
    BY <1>1, <1>2, <1>4, <1>5
       DEF Next, LoopStep, Check, Detach, PollTimeout, WakeUp, Tick, BrokerStops, vars, loopVars,
           brokerVars

\* No address is read and dropped, taken for an answer or overwritten, whenever it
\* comes in the loop's turn: for as long as the worker has not submitted it, it waits to
\* be read.  This is the part of AddressIsTaken that does not speak of fairness.
THEOREM AddressWaitsOrIsTaken == Spec => []NoAddressLost
  <1>1. Init => TypeInv /\ NoAddressLost
    BY TypeInit DEF Init, NoAddressLost
  <1>2. TypeInv /\ NoAddressLost /\ [Next]_vars => TypeInv' /\ NoAddressLost'
    BY TypeNext, NotLostNext
  <1>. QED  BY <1>1, <1>2, PTL DEF Spec

-----------------------------------------------------------------------------
(* A worker leaves a silent broker *)

\* Where the loop's turn is: it goes from 3 to 1, and on to the next turn or out of
\* the loop.
Rank(p) == CASE p = "check" -> 3 [] p = "poll" -> 2 [] p = "sleep" -> 1 [] p = "detached" -> 0

\* A step towards the end of the loop: a message less to read, or a longer backoff, or
\* another place in the turn, or less to wait for there.
Nearer ==
  \/ Len(inq') < Len(inq)
  \/ /\ inq' = inq
     /\ \/ interval' > interval
        \/ /\ interval' = interval
           /\ Rank(pc') < Rank(pc) \/ (pc' = pc /\ left' < left)

\* The loop's thread can go on, or is in poll or usleep and time can pass.
LoopMayGoOn ==
  \/ pc = "check"
  \/ pc = "poll" /\ (inq # <<>> \/ left = 0)
  \/ pc = "sleep" /\ left = 0
TickMayGoOn == left > 0 /\ (pc = "sleep" \/ (pc = "poll" /\ inq = <<>>))

BackoffInv == interval <= 2 * INTERVAL_MAX

LEMMA BackoffNext ==
  ASSUME NEW backoff, Backoff(backoff), LivenessFits(backoff),
         FreshInv(backoff), BackoffInv, [Next]_vars
  PROVE  BackoffInv'
  <1> USE HBAssumption
  <1>1. CASE Receive
    <2>1. INTERVAL_INIT <= INTERVAL_MAX
      BY DEF Backoff, LivenessFits
    <2>. QED  BY <1>1, <2>1 DEF Receive, BackoffInv
  <1>2. CASE WakeUp
    <2>1. interval <= INTERVAL_MAX /\ interval \in Nat
      BY <1>2 DEF WakeUp, FreshInv, LivenessInv, TypeOK
    <2>. QED  BY <1>2, <2>1 DEF WakeUp, BackoffInv
  <1>3. CASE UNCHANGED interval
    BY <1>3 DEF BackoffInv
  <1>. QED
    BY <1>1, <1>2, <1>3
       DEF Next, LoopStep, Check, Detach, PollTimeout, Tick, Answer, SendAddress, BrokerStops,
           vars, loopVars

LEMMA SilentStep ==
  ASSUME TypeOK, ClockInv, ~brokerUp, Next
  PROVE  ~brokerUp' /\ Nearer
  <1> USE HBAssumption
  <1>1. CASE Receive
    <2>1. inq' = Tail(inq) /\ inq # <<>> /\ inq \in Seq(Clients \cup {HbOk}) /\ ~brokerUp'
      BY <1>1 DEF Receive, brokerVars, TypeOK
    <2>2. Len(inq') = Len(inq) - 1 /\ Len(inq) \in Nat
      BY <2>1, HeadTailProperties, LenProperties
    <2>3. Len(inq') < Len(inq)
      BY <2>2
    <2>. QED  BY <2>1, <2>3, Zenon DEF Nearer
  <1>2. CASE WakeUp
    <2>1. interval' > interval
      BY <1>2 DEF WakeUp, ClockInv, TypeOK
    <2>. QED  BY <1>2, <2>1 DEF WakeUp, brokerVars, Nearer
  <1>3. CASE Check \/ Detach \/ PollTimeout
    BY <1>3 DEF Check, Detach, PollTimeout, brokerVars, Nearer, Rank
  <1>4. CASE Tick
    BY <1>4 DEF Tick, brokerVars, Nearer, TypeOK
  <1>5. ~Answer /\ ~BrokerStops /\ \A c \in Clients : ~SendAddress(c)
    BY DEF Answer, BrokerStops, SendAddress
  <1>. QED  BY <1>1, <1>2, <1>3, <1>4, <1>5 DEF Next, LoopStep

\* With constants that fit, a worker whose broker has stopped detaches or takes a step
\* towards it: the loop or the clock can go on, every step of theirs is one nearer, and
\* the backoff, which every turn without a message makes longer, is bounded.  This is
\* the part of SilentBrokerIsLeft that does not speak of fairness; the size_t liveness,
\* which goes on from 0 to SIZE_MAX, does not keep the worker in the loop.
THEOREM SilentBrokerCountdown ==
  ASSUME NEW backoff, Backoff(backoff), LivenessFits(backoff), WrapFits, ExpiryFits
  PROVE  Spec => /\ [](~brokerUp => pc = "detached" \/ LoopMayGoOn \/ TickMayGoOn)
                 /\ []BackoffInv
                 /\ [][~brokerUp => ~brokerUp' /\ Nearer]_vars
  <1>1. Init => FreshInv(backoff) /\ BackoffInv
    <2>1. INTERVAL_INIT <= 2 * INTERVAL_MAX
      BY HBAssumption DEF Backoff, LivenessFits
    <2>. QED  BY <2>1, TypeInit, ClockInit, LivenessInit DEF Init, FreshInv, TypeInv, BackoffInv
  <1>2. TypeOK' /\ FreshInv(backoff) /\ BackoffInv /\ [Next]_vars =>
          FreshInv(backoff)' /\ BackoffInv'
    BY ClockNext, LivenessNext, BackoffNext DEF FreshInv
  <1>3. TypeOK => (~brokerUp => pc = "detached" \/ LoopMayGoOn \/ TickMayGoOn)
    BY DEF TypeOK, LoopMayGoOn, TickMayGoOn
  <1>4. FreshInv(backoff) /\ [Next]_vars => [~brokerUp => ~brokerUp' /\ Nearer]_vars
    BY SilentStep DEF FreshInv
  <1>. QED  BY <1>1, <1>2, <1>3, <1>4, TypeCorrect, PTL DEF Spec
=============================================================================
