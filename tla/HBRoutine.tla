------------------------------ MODULE HBRoutine ------------------------------
(***************************************************************************)
(* The heartbeat loop of a worker, LBWorker::HBRoutine (lbworker.h), in    *)
(* discrete time.  The broker answers each heartbeat within ReplyDelay as  *)
(* long as it is up, and may send the address of a client at any time; it  *)
(* may stop for good.                                                      *)
(*                                                                         *)
(* Only the distance between two instants matters, so there is no clock:   *)
(* every instant is kept as the time elapsed since it or left until it.    *)
(* The statements of the loop take no time; poll and usleep do.            *)
(***************************************************************************)
EXTENDS Integers, Sequences

CONSTANTS
  HEARTBEAT_LIVENESS, HEARTBEAT_INTERVAL, INTERVAL_INIT, INTERVAL_MAX,
  SIZE_MAX,    \* the largest size_t
  Expiry,      \* the age at which the broker holds a worker for dead (lbbroker.h:211)
  ReplyDelay,  \* the broker answers a heartbeat within this time
  Clients,     \* the clients whose address the broker may send, once each
  MaxUnread,   \* bound: messages waiting in m_hbworker
  HbOk,        \* the message "HB_OK"
  None         \* no heartbeat is unanswered

ASSUME HBAssumption ==
  /\ HEARTBEAT_LIVENESS \in 1..SIZE_MAX
  /\ HEARTBEAT_INTERVAL \in Nat \ {0}
  /\ INTERVAL_INIT \in Nat \ {0}
  /\ INTERVAL_MAX \in Nat
  /\ SIZE_MAX \in Nat /\ Expiry \in Nat /\ ReplyDelay \in Nat /\ MaxUnread \in Nat
  /\ HbOk \notin Clients
  /\ None \notin Nat

VARIABLES pc,          \* "check", "poll", "sleep" or "detached"
          liveness,    \* size_t, wraps around
          interval,    \* of the next usleep
          dueIn,       \* heartbeat_at, less the time
          left,        \* what is left of the poll or of the usleep
          inq,         \* messages waiting in m_hbworker
          submitted,   \* the addresses for which CreateSocket was submitted
          sinceSend,   \* time since the last HBREQ
          brokerUp,    \* the broker runs
          unanswered,  \* age of the oldest heartbeat not answered, or None
          told         \* the clients whose address the broker has sent

loopVars == <<pc, liveness, interval, dueIn, submitted, sinceSend>>
brokerVars == <<brokerUp, told>>
vars == <<loopVars, left, inq, brokerVars, unanswered>>

\* The first HBREQ has been sent.
Init ==
  /\ pc = "check"
  /\ liveness = HEARTBEAT_LIVENESS
  /\ interval = INTERVAL_INIT
  /\ dueIn = HEARTBEAT_INTERVAL
  /\ left = 0
  /\ inq = <<>>
  /\ submitted = {}
  /\ sinceSend = 0
  /\ brokerUp = TRUE
  /\ unanswered = 0
  /\ told = {}

-----------------------------------------------------------------------------
(* The loop *)

\* Mutant: the test of liveness is the other way round.
ContinueWhileAlive == interval <= INTERVAL_MAX \/ liveness > 0

Continue == interval <= INTERVAL_MAX \/ liveness <= 0

\* clock_time() > heartbeat_at: at the very instant the answer depends on what
\* the statements of the loop have taken.
HeartbeatMayBeDue == dueIn <= 0
HeartbeatMayNotBeDue == dueIn >= 0

SendHeartbeat ==
  /\ HeartbeatMayBeDue
  /\ dueIn' = HEARTBEAT_INTERVAL
  /\ sinceSend' = 0
  /\ unanswered' = IF unanswered = None THEN 0 ELSE unanswered

Check ==
  /\ pc = "check"
  /\ Continue
  /\ \/ SendHeartbeat
     \/ HeartbeatMayNotBeDue /\ UNCHANGED <<dueIn, sinceSend, unanswered>>
  /\ pc' = "poll"
  /\ left' = HEARTBEAT_INTERVAL
  /\ UNCHANGED <<liveness, interval, submitted, inq, brokerVars>>

Detach ==
  /\ pc = "check"
  /\ ~Continue
  /\ pc' = "detached"
  /\ UNCHANGED <<liveness, interval, dueIn, submitted, sinceSend,
                 left, inq, brokerVars, unanswered>>

\* Mutant: the backoff is not reset.
ReceiveKeepsInterval ==
  /\ pc = "poll"
  /\ inq # <<>>
  /\ inq' = Tail(inq)
  /\ liveness' = HEARTBEAT_LIVENESS
  /\ submitted' = IF Head(inq) = HbOk THEN submitted ELSE submitted \cup {Head(inq)}
  /\ pc' = "check"
  /\ UNCHANGED <<dueIn, sinceSend, left, brokerVars, unanswered, interval>>

\* Mutant: the address is read and not used.
ReceiveForgets ==
  /\ pc = "poll"
  /\ inq # <<>>
  /\ inq' = Tail(inq)
  /\ liveness' = HEARTBEAT_LIVENESS
  /\ interval' = INTERVAL_INIT
  /\ pc' = "check"
  /\ UNCHANGED <<dueIn, sinceSend, left, brokerVars, unanswered, submitted>>

\* poll returns with a message: it is read, and anything but "HB_OK" is taken for
\* an address.
Receive ==
  /\ pc = "poll"
  /\ inq # <<>>
  /\ inq' = Tail(inq)
  /\ liveness' = HEARTBEAT_LIVENESS
  /\ interval' = INTERVAL_INIT
  /\ submitted' = IF Head(inq) = HbOk THEN submitted ELSE submitted \cup {Head(inq)}
  /\ pc' = "check"
  /\ UNCHANGED <<dueIn, sinceSend, left, brokerVars, unanswered>>

\* Mutant: liveness is signed.
PollTimeoutSigned ==
  /\ pc = "poll"
  /\ inq = <<>> /\ left = 0
  /\ liveness' = liveness - 1
  /\ left' = interval
  /\ pc' = "sleep"
  /\ UNCHANGED <<interval, dueIn, submitted, sinceSend, inq, brokerVars, unanswered>>

\* poll returns without: --liveness, and usleep is called.
PollTimeout ==
  /\ pc = "poll"
  /\ inq = <<>> /\ left = 0
  /\ liveness' = IF liveness = 0 THEN SIZE_MAX ELSE liveness - 1
  /\ left' = interval
  /\ pc' = "sleep"
  /\ UNCHANGED <<interval, dueIn, submitted, sinceSend, inq, brokerVars, unanswered>>

\* Mutant: there is no backoff.
WakeUpWithoutBackoff ==
  /\ pc = "sleep"
  /\ left = 0
  /\ pc' = "check"
  /\ UNCHANGED <<liveness, interval, dueIn, submitted, sinceSend, left, inq,
                 brokerVars, unanswered>>

\* usleep returns, and the next one will be twice as long.
WakeUp ==
  /\ pc = "sleep"
  /\ left = 0
  /\ interval' = interval * 2
  /\ pc' = "check"
  /\ UNCHANGED <<liveness, dueIn, submitted, sinceSend, left, inq, brokerVars, unanswered>>

-----------------------------------------------------------------------------
(* The broker and time *)

\* The broker's HbGetHandle, as the worker sees it.
Answer ==
  /\ brokerUp
  /\ unanswered # None
  /\ Len(inq) < MaxUnread
  /\ unanswered' = None
  /\ inq' = Append(inq, HbOk)
  /\ UNCHANGED <<loopVars, left, brokerVars>>

\* The broker's TkGetHandle, as the worker sees it.
SendAddress(c) ==
  /\ brokerUp
  /\ c \notin told
  /\ Len(inq) < MaxUnread
  /\ told' = told \cup {c}
  /\ inq' = Append(inq, c)
  /\ UNCHANGED <<loopVars, left, brokerUp, unanswered>>

BrokerStops ==
  /\ brokerUp
  /\ brokerUp' = FALSE
  /\ UNCHANGED <<loopVars, left, inq, told, unanswered>>

\* Time passes in usleep, and in poll while nothing has come; not beyond the
\* instant at which the broker must have answered.
Tick ==
  /\ left > 0
  /\ pc = "sleep" \/ (pc = "poll" /\ inq = <<>>)
  /\ brokerUp /\ unanswered # None /\ Len(inq) < MaxUnread => unanswered < ReplyDelay
  /\ left' = left - 1
  /\ dueIn' = dueIn - 1
  /\ sinceSend' = sinceSend + 1
  /\ unanswered' = IF unanswered = None \/ unanswered >= ReplyDelay THEN unanswered
                   ELSE unanswered + 1
  /\ UNCHANGED <<pc, liveness, interval, submitted, inq, brokerVars>>

LoopStep == Check \/ Detach \/ Receive \/ PollTimeout \/ WakeUp

Next ==
  \/ LoopStep
  \/ Tick
  \/ Answer
  \/ \E c \in Clients : SendAddress(c)
  \/ BrokerStops

Spec == Init /\ [][Next]_vars

\* The thread runs, time passes, and a broker that is up answers.
Fairness == WF_vars(LoopStep) /\ WF_vars(Tick) /\ WF_vars(Answer)

FairSpec == Spec /\ Fairness

-----------------------------------------------------------------------------
(* Correctness *)

\* The values the variables range over.
TypeOK ==
  /\ pc \in {"check", "poll", "sleep", "detached"}
  /\ liveness \in 0..SIZE_MAX
  /\ interval \in Nat
  /\ dueIn \in Int /\ dueIn <= HEARTBEAT_INTERVAL
  /\ left \in Nat
  /\ inq \in Seq(Clients \cup {HbOk}) /\ Len(inq) <= MaxUnread
  /\ submitted \subseteq told /\ told \subseteq Clients
  /\ sinceSend \in Nat
  /\ brokerUp \in BOOLEAN
  /\ unanswered \in 0..ReplyDelay \cup {None}

\* The worker and the broker agree on who is alive: while the loop goes on, with
\* its backoff, the last heartbeat is younger than the broker's limit, so a worker
\* that has not detached has not expired by its own silence.
AttachedIsFresh == pc # "detached" => sinceSend < Expiry

\* The worker detaches only when it has read nothing for the whole backoff, which
\* no broker that answers within ReplyDelay lets happen.
AnsweredStaysAttached == pc = "detached" => ~brokerUp

\* A worker whose broker has stopped detaches.
SilentBrokerIsLeft == ~brokerUp ~> pc = "detached"

\* An address that has come is given to CreateSocket, unless the worker detaches.
AddressIsTaken ==
  \A c \in Clients : (c \in told) ~> (c \in submitted \/ pc = "detached")
=============================================================================
