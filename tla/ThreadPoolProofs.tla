-------------------------- MODULE ThreadPoolProofs --------------------------
(***************************************************************************)
(* Machine-checked proofs about ThreadPool, for any set of workers and any *)
(* set of tasks.                                                           *)
(***************************************************************************)
EXTENDS ThreadPool, TLAPS

-----------------------------------------------------------------------------
(* The inductive invariant *)

\* m_conditional_mutex is held exactly between its acquisition and the end of
\* the locked block, wait excepted.
MutexInv ==
  \A w \in Workers : pc[w] \in {"block", "dequeue"} <=> condMutex = w

\* A worker holds a function exactly while it runs it.
HeldInv ==
  \A w \in Workers : pc[w] = "run" <=> func[w] # NoTask

\* The owner's place in its calls determines the flag, which threads exist and
\* which have ended.
OwnerInv ==
  /\ m_shutdown <=> owner \in {"notifyAll", "join", "returned"}
  /\ owner = "init" => m_queue = <<>>
  /\ owner # "init" => \A w \in Workers : pc[w] # "unborn"
  /\ owner = "returned" => \A w \in Workers : pc[w] = "exited"
  /\ (\E w \in Workers : pc[w] = "exited") => m_shutdown

\* A worker that took a task after m_shutdown has not begun another turn.
LateInv ==
  \A w \in late : m_shutdown /\ pc[w] \in {"run", "test", "exited"}

IInv == TypeOK /\ MutexInv /\ HeldInv /\ OwnerInv /\ LateInv

-----------------------------------------------------------------------------
(* Sequences *)

\* What the first element and the rest of a nonempty queue are.
LEMMA HeadTailFacts ==
  ASSUME NEW S, NEW q \in Seq(S), q # <<>>
  PROVE  /\ Len(q) \in Nat \ {0}
         /\ Head(q) = q[1]
         /\ Head(q) \in S
         /\ Tail(q) \in Seq(S)
         /\ DOMAIN q = 1..Len(q)
         /\ DOMAIN Tail(q) = 1..(Len(q) - 1)
         /\ \A i \in DOMAIN Tail(q) : Tail(q)[i] = q[i + 1]
  OBVIOUS

\* What a queue is after an element has been appended.
LEMMA AppendFacts ==
  ASSUME NEW S, NEW q \in Seq(S), NEW e \in S
  PROVE  /\ Append(q, e) \in Seq(S)
         /\ DOMAIN q = 1..Len(q)
         /\ DOMAIN Append(q, e) = 1..(Len(q) + 1)
         /\ \A i \in DOMAIN q : Append(q, e)[i] = q[i]
         /\ Append(q, e)[Len(q) + 1] = e
         /\ Len(q) \in Nat
         /\ Append(q, e) # <<>>
  OBVIOUS

-----------------------------------------------------------------------------
(* Type correctness *)

LEMMA TypeInit == Init => TypeOK
  <1> SUFFICES ASSUME Init PROVE TypeOK
    OBVIOUS
  <1>1. m_queue \in Seq(Tasks)
    BY DEF Init
  <1>. QED  BY <1>1 DEF Init, TypeOK, WorkerPC, OwnerPC

LEMMA TypeNext == TypeOK /\ HeldInv /\ [Next]_vars => TypeOK'
  <1> SUFFICES ASSUME TypeOK, HeldInv, [Next]_vars PROVE TypeOK'
    OBVIOUS
  <1> USE DEF TypeOK, WorkerPC, OwnerPC
  <1>1. CASE OwnerStep
    BY <1>1 DEF OwnerStep, SpawnThread, NotifyOne, GetReturns, NotifyAll, JoinAll, workerVars
  <1>2. ASSUME NEW t \in Tasks, Enqueue(t) PROVE TypeOK'
    BY <1>2 DEF Enqueue, workerVars
  <1>3. ASSUME NEW t \in Tasks, CallGet(t) PROVE TypeOK'
    BY <1>3 DEF CallGet, workerVars
  <1>4. CASE SetShutdown
    BY <1>4 DEF SetShutdown, workerVars
  <1>5. ASSUME NEW w \in Workers, Dequeue(w) PROVE TypeOK'
    <2>1. CASE m_queue = <<>>
      BY <1>5, <2>1 DEF Dequeue, ownerVars
    <2>2. CASE m_queue # <<>>
      <3>1. Head(m_queue) \in Tasks /\ Tail(m_queue) \in Seq(Tasks)
        BY <2>2, HeadTailFacts
      <3>. QED  BY <1>5, <2>2, <3>1 DEF Dequeue, Take, ownerVars
    <2>. QED  BY <2>1, <2>2
  <1>6. ASSUME NEW w \in Workers, Run(w) PROVE TypeOK'
    <2>1. func[w] \in Tasks
      BY <1>6 DEF Run, HeldInv
    <2>2. finished' \subseteq Tasks
      BY <1>6, <2>1 DEF Run
    <2>. QED  BY <1>6, <2>2 DEF Run, ownerVars
  <1>7. ASSUME NEW w \in Workers,
               TestShutdown(w) \/ LockAndCheck(w) \/ Wait(w) \/ Relock(w) \/ SpuriousWake(w)
        PROVE  TypeOK'
    BY <1>7 DEF TestShutdown, LockAndCheck, Wait, Relock, SpuriousWake, ownerVars
  <1>8. CASE UNCHANGED vars
    BY <1>8 DEF vars
  <1>. QED  BY <1>1, <1>2, <1>3, <1>4, <1>5, <1>6, <1>7, <1>8 DEF Next, WorkerStep

-----------------------------------------------------------------------------
(* The inductive invariant is one *)

LEMMA IInvInit == Init => IInv
  <1> SUFFICES ASSUME Init PROVE IInv
    OBVIOUS
  <1>1. TypeOK
    BY TypeInit
  <1>2. MutexInv
    BY PoolAssumption DEF Init, MutexInv
  <1>3. HeldInv /\ OwnerInv /\ LateInv
    BY DEF Init, HeldInv, OwnerInv, LateInv
  <1>. QED  BY <1>1, <1>2, <1>3 DEF IInv

LEMMA IInvNext == IInv /\ [Next]_vars => IInv'
  <1> SUFFICES ASSUME IInv, [Next]_vars PROVE IInv'
    OBVIOUS
  <1>0. TypeOK'
    BY TypeNext DEF IInv
  <1> USE PoolAssumption
  <1> USE DEF IInv, TypeOK, WorkerPC, OwnerPC, MutexInv, HeldInv, OwnerInv, LateInv
  <1>1. ASSUME NEW w \in Workers, SpawnThread(w) PROVE IInv'
    BY <1>0, <1>1 DEF SpawnThread
  <1>2. CASE NotifyOne
    BY <1>0, <1>2 DEF NotifyOne
  <1>3. CASE GetReturns \/ JoinAll \/ SetShutdown
    BY <1>0, <1>3 DEF GetReturns, JoinAll, SetShutdown, workerVars
  <1>4. CASE NotifyAll
    BY <1>0, <1>4 DEF NotifyAll
  <1>5. ASSUME NEW t \in Tasks, Enqueue(t) \/ CallGet(t) PROVE IInv'
    BY <1>0, <1>5 DEF Enqueue, CallGet, workerVars
  <1>6. ASSUME NEW w \in Workers, TestShutdown(w) PROVE IInv'
    BY <1>0, <1>6 DEF TestShutdown, ownerVars
  <1>7. ASSUME NEW w \in Workers, LockAndCheck(w) PROVE IInv'
    BY <1>0, <1>7 DEF LockAndCheck, ownerVars
  <1>8. ASSUME NEW w \in Workers, Wait(w) \/ SpuriousWake(w) PROVE IInv'
    BY <1>0, <1>8 DEF Wait, SpuriousWake, ownerVars
  <1>9. ASSUME NEW w \in Workers, Relock(w) PROVE IInv'
    BY <1>0, <1>9 DEF Relock, ownerVars
  <1>10. ASSUME NEW w \in Workers, Dequeue(w) PROVE IInv'
    <2>1. CASE m_queue = <<>>
      BY <1>0, <1>10, <2>1 DEF Dequeue, ownerVars
    <2>2. CASE m_queue # <<>>
      <3>1. Head(m_queue) \in Tasks
        BY <2>2, HeadTailFacts
      <3>2. owner # "init" /\ Head(m_queue) # NoTask
        BY <2>2, <3>1
      <3>. QED  BY <1>0, <1>10, <2>2, <3>1, <3>2 DEF Dequeue, Take, ownerVars
    <2>. QED  BY <2>1, <2>2
  <1>11. ASSUME NEW w \in Workers, Run(w) PROVE IInv'
    BY <1>0, <1>11 DEF Run, ownerVars
  <1>12. CASE UNCHANGED vars
    BY <1>12 DEF vars
  <1>. QED
    BY <1>1, <1>2, <1>3, <1>4, <1>5, <1>6, <1>7, <1>8, <1>9, <1>10, <1>11, <1>12
       DEF Next, OwnerStep, WorkerStep

\* Every reachable state satisfies the inductive invariant.
THEOREM IInvHolds == Spec => []IInv
  <1>1. Init => IInv
    BY IInvInit
  <1>2. IInv /\ [Next]_vars => IInv'
    BY IInvNext
  <1>. QED  BY <1>1, <1>2, PTL DEF Spec

\* The variables keep their types, however the threads interleave.
THEOREM TypeCorrect == Spec => []TypeOK
  <1>1. IInv => TypeOK
    BY DEF IInv
  <1>. QED  BY <1>1, IInvHolds, PTL

-----------------------------------------------------------------------------
(* No task is stranded in a pool of two threads or more *)

\* While submit has yet to notify, the worker the notification can be lost for
\* holds the mutex, so any other worker is awake or in wait: what is lost for
\* the one reaches another.
LEMMA StrandedNext == IInv /\ NoTaskStranded /\ [Next]_vars => NoTaskStranded'
  <1> SUFFICES ASSUME IInv, NoTaskStranded, [Next]_vars,
                      NEW v1 \in Workers, NEW v2 \in Workers, v1 # v2,
                      m_queue' # <<>>, owner' \notin {"init", "notify"}, ~m_shutdown'
               PROVE  \E w \in Workers : Awake(w)'
    BY DEF NoTaskStranded
  <1> USE PoolAssumption
  <1> USE DEF IInv, TypeOK, WorkerPC, OwnerPC, MutexInv, OwnerInv, Awake
  <1>1. CASE NotifyOne
    <2>1. CASE \E w \in Workers : pc[w] = "waiting"
      BY <1>1, <2>1 DEF NotifyOne
    <2>2. CASE \A w \in Workers : pc[w] # "waiting"
      <3>1. pc[v1] # "block" \/ pc[v2] # "block"
        OBVIOUS
      <3>2. \E w \in Workers : Awake(w)
        BY <1>1, <2>2, <3>1 DEF NotifyOne
      <3>. QED  BY <1>1, <2>2, <3>2 DEF NotifyOne
    <2>. QED  BY <2>1, <2>2
  <1>2. ASSUME NEW w \in Workers, SpawnThread(w) PROVE \E v \in Workers : Awake(v)'
    BY <1>2 DEF SpawnThread
  <1>3. CASE GetReturns \/ JoinAll \/ SetShutdown \/ NotifyAll
    BY <1>3 DEF GetReturns, JoinAll, SetShutdown, NotifyAll, workerVars, NoTaskStranded
  <1>4. ASSUME NEW t \in Tasks, Enqueue(t) \/ CallGet(t) PROVE \E v \in Workers : Awake(v)'
    BY <1>4 DEF Enqueue, CallGet, workerVars, NoTaskStranded
  <1>5. ASSUME NEW w \in Workers,
               TestShutdown(w) \/ LockAndCheck(w) \/ Wait(w) \/ SpuriousWake(w) \/ Relock(w)
        PROVE  \E v \in Workers : Awake(v)'
    <2>1. PICK u \in Workers : Awake(u)
      BY <1>5 DEF TestShutdown, LockAndCheck, Wait, SpuriousWake, Relock, ownerVars, NoTaskStranded
    <2>2. Awake(u)'
      BY <1>5, <2>1 DEF TestShutdown, LockAndCheck, Wait, SpuriousWake, Relock, ownerVars
    <2>. QED  BY <2>2
  <1>6. ASSUME NEW w \in Workers, Dequeue(w) \/ Run(w) PROVE \E v \in Workers : Awake(v)'
    <2>1. Awake(w)'
      BY <1>6 DEF Dequeue, Run
    <2>. QED  BY <2>1
  <1>7. CASE UNCHANGED vars
    BY <1>7 DEF vars, NoTaskStranded
  <1>. QED
    BY <1>1, <1>2, <1>3, <1>4, <1>5, <1>6, <1>7 DEF Next, OwnerStep, WorkerStep

\* With two threads or more, while the pool is open and submit has returned, a
\* queued task always has an awake worker: the notification that submit sends
\* without the mutex cannot leave it behind.
THEOREM NoneStranded == Spec => []NoTaskStranded
  <1>1. Init => NoTaskStranded
    BY DEF Init, NoTaskStranded
  <1>2. IInv /\ NoTaskStranded /\ [Next]_vars => NoTaskStranded'
    BY StrandedNext
  <1>. QED  BY <1>1, <1>2, IInvHolds, PTL DEF Spec

-----------------------------------------------------------------------------
(* At most one task per worker after shutdown *)

\* A worker that took a task after m_shutdown was set takes no other.
THEOREM OneTaskEachAfterShutdown == Spec => OneTaskAfterShutdown
  <1>1. IInv /\ [Next]_vars => [\A w \in late : func[w] = NoTask => func'[w] = NoTask]_vars
    <2> SUFFICES ASSUME IInv, [Next]_vars, NEW w \in late, func[w] = NoTask
                 PROVE  func'[w] = NoTask
      OBVIOUS
    <2> USE DEF IInv, TypeOK, HeldInv, LateInv
    <2>1. pc[w] \in {"test", "exited"} /\ w \in Workers
      OBVIOUS
    <2>2. CASE func' = func
      BY <2>2
    <2>3. ASSUME NEW v \in Workers, Dequeue(v) \/ Run(v) PROVE func'[w] = NoTask
      BY <2>1, <2>3 DEF Dequeue, Run, Take
    <2>. QED
      BY <2>2, <2>3 DEF Next, OwnerStep, WorkerStep, vars, workerVars, SpawnThread, NotifyOne,
         GetReturns, NotifyAll, JoinAll, Enqueue, CallGet, SetShutdown, TestShutdown,
         LockAndCheck, Wait, SpuriousWake, Relock
  <1>. QED  BY <1>1, IInvHolds, PTL DEF Spec, OneTaskAfterShutdown

-----------------------------------------------------------------------------
(* A task is executed at most once *)

\* What dequeue does to the places a task can be in: the head leaves the queue,
\* and, having been there once, is no longer in it.
LEMMA TakePlaces ==
  ASSUME IInv, TaskInOnePlace, m_queue # <<>>, NEW w \in Workers, func[w] = NoTask, Take(w)
  PROVE  /\ Head(m_queue) \in Queued
         /\ Queued' = Queued \ {Head(m_queue)}
         /\ Held' = Held \cup {Head(m_queue)}
         /\ QueueHasNoDuplicates'
         /\ NoTaskHeldTwice'
  <1> USE PoolAssumption
  <1> DEFINE h == Head(m_queue)
             q == m_queue
  <1>1. /\ q \in Seq(Tasks) /\ Len(q) \in Nat \ {0} /\ h = q[1] /\ h \in Tasks
        /\ DOMAIN q = 1..Len(q) /\ DOMAIN q' = 1..(Len(q) - 1)
        /\ \A i \in DOMAIN q' : q'[i] = q[i + 1]
    BY HeadTailFacts DEF IInv, TypeOK, Take
  <1>2. \A i, j \in DOMAIN q : q[i] = q[j] => i = j
    BY DEF TaskInOnePlace, QueueHasNoDuplicates
  <1>3. func' = [func EXCEPT ![w] = h] /\ func \in [Workers -> Tasks \cup {NoTask}]
    BY DEF Take, IInv, TypeOK
  <1> HIDE DEF h, q
  <1>4. h \in {q[i] : i \in DOMAIN q}
    <2>1. 1 \in DOMAIN q
      BY <1>1
    <2>. QED  BY <1>1, <2>1
  <1>5. {q'[i] : i \in DOMAIN q'} = {q[i] : i \in DOMAIN q} \ {h}
    <2>1. ASSUME NEW i \in DOMAIN q' PROVE q'[i] \in {q[j] : j \in DOMAIN q} \ {h}
      <3>1. i + 1 \in DOMAIN q /\ 1 \in DOMAIN q /\ i + 1 # 1
        BY <1>1, <2>1
      <3>. QED  BY <1>1, <1>2, <3>1, <2>1
    <2>2. ASSUME NEW j \in DOMAIN q, q[j] # h PROVE q[j] \in {q'[i] : i \in DOMAIN q'}
      <3>1. j - 1 \in DOMAIN q' /\ (j - 1) + 1 = j
        BY <1>1, <2>2
      <3>. QED  BY <1>1, <3>1
    <2>. QED  BY <2>1, <2>2
  <1>6. \A i, j \in DOMAIN q' : q'[i] = q'[j] => i = j
    <2> SUFFICES ASSUME NEW i \in DOMAIN q', NEW j \in DOMAIN q', q'[i] = q'[j]
                 PROVE  i = j
      OBVIOUS
    <2>1. i + 1 \in DOMAIN q /\ j + 1 \in DOMAIN q /\ i \in Nat /\ j \in Nat
      BY <1>1
    <2>2. i + 1 = j + 1
      BY <1>1, <1>2, <2>1
    <2>. QED  BY <2>1, <2>2
  <1>7. h \notin Held
    BY <1>4 DEF TaskInOnePlace, Queued, q
  <1>8. Held' = Held \cup {h}
    BY <1>1, <1>3 DEF Held
  <1>9. NoTaskHeldTwice'
    BY <1>3, <1>7 DEF NoTaskHeldTwice, TaskInOnePlace, Held
  <1>. QED  BY <1>4, <1>5, <1>6, <1>8, <1>9 DEF Queued, QueueHasNoDuplicates, h, q

\* What enqueue does to the queue.
LEMMA EnqueuePlaces ==
  ASSUME IInv, QueueHasNoDuplicates, NEW t \in Tasks, t \notin Queued, m_queue' = Append(m_queue, t)
  PROVE  Queued' = Queued \cup {t} /\ QueueHasNoDuplicates'
  <1> DEFINE q == m_queue
  <1>1. /\ DOMAIN q = 1..Len(q) /\ DOMAIN q' = 1..(Len(q) + 1) /\ Len(q) \in Nat
        /\ \A i \in DOMAIN q : q'[i] = q[i]
        /\ q'[Len(q) + 1] = t
    BY AppendFacts DEF IInv, TypeOK
  <1>2. \A i, j \in DOMAIN q : q[i] = q[j] => i = j
    BY DEF QueueHasNoDuplicates
  <1>3. \A i \in DOMAIN q : q[i] # t
    BY DEF Queued
  <1> HIDE DEF q
  <1>4. \A i \in DOMAIN q' : i \in DOMAIN q \/ i = Len(q) + 1
    BY <1>1
  <1>5. {q'[i] : i \in DOMAIN q'} = {q[i] : i \in DOMAIN q} \cup {t}
    <2>1. DOMAIN q \subseteq DOMAIN q' /\ Len(q) + 1 \in DOMAIN q'
      BY <1>1
    <2>. QED  BY <1>1, <1>4, <2>1
  <1>6. \A i, j \in DOMAIN q' : q'[i] = q'[j] => i = j
    BY <1>1, <1>2, <1>3, <1>4
  <1>. QED  BY <1>5, <1>6 DEF Queued, QueueHasNoDuplicates, q

LEMMA PlacesNext == IInv /\ TaskInOnePlace /\ [Next]_vars => TaskInOnePlace'
  <1> SUFFICES ASSUME IInv, TaskInOnePlace, [Next]_vars PROVE TaskInOnePlace'
    OBVIOUS
  <1> USE PoolAssumption
  <1>1. ASSUME NEW t \in Tasks, Enqueue(t) PROVE TaskInOnePlace'
    <2>1. Queued' = Queued \cup {t} /\ QueueHasNoDuplicates'
      BY <1>1, EnqueuePlaces DEF Enqueue, Submitted, TaskInOnePlace
    <2>2. Held' = Held /\ finished' = finished /\ func' = func
      BY <1>1 DEF Enqueue, Held, workerVars
    <2>. QED  BY <1>1, <2>1, <2>2 DEF Enqueue, Submitted, TaskInOnePlace, NoTaskHeldTwice
  <1>2. ASSUME NEW w \in Workers, Dequeue(w), m_queue # <<>> PROVE TaskInOnePlace'
    <2>1. func[w] = NoTask /\ Take(w) /\ finished' = finished
      BY <1>2 DEF Dequeue, IInv, HeldInv
    <2>2. /\ Head(m_queue) \in Queued
          /\ Queued' = Queued \ {Head(m_queue)}
          /\ Held' = Held \cup {Head(m_queue)}
          /\ QueueHasNoDuplicates'
          /\ NoTaskHeldTwice'
      BY <1>2, <2>1, TakePlaces
    <2>. QED  BY <2>1, <2>2 DEF TaskInOnePlace
  <1>3. ASSUME NEW w \in Workers, Run(w) PROVE TaskInOnePlace'
    <2> USE <1>3 DEF Run, IInv, TypeOK
    <2>1. func[w] # NoTask /\ func[w] \in Held
      BY DEF HeldInv, Held
    <2>2. Held' = Held \ {func[w]}
      <3>1. \A v \in Workers : func'[v] = IF v = w THEN NoTask ELSE func[v]
        OBVIOUS
      <3>2. \A v \in Workers : v # w /\ func[v] # NoTask => func[v] # func[w]
        BY DEF TaskInOnePlace, NoTaskHeldTwice
      <3>. QED  BY <2>1, <3>1, <3>2 DEF Held
    <2>3. NoTaskHeldTwice'
      BY DEF TaskInOnePlace, NoTaskHeldTwice
    <2>4. Queued' = Queued /\ QueueHasNoDuplicates'
      BY DEF TaskInOnePlace, QueueHasNoDuplicates, Queued
    <2>5. finished' = finished \cup {func[w]}
      OBVIOUS
    <2> HIDE DEF Run, IInv, TypeOK
    <2>. QED  BY <2>1, <2>2, <2>3, <2>4, <2>5 DEF TaskInOnePlace
  <1>4. CASE UNCHANGED <<m_queue, func, finished>>
    BY <1>4 DEF TaskInOnePlace, Queued, Held, QueueHasNoDuplicates, NoTaskHeldTwice
  <1>5. ASSUME NEW w \in Workers, Dequeue(w), m_queue = <<>> PROVE TaskInOnePlace'
    BY <1>4, <1>5 DEF Dequeue
  <1>. QED
    BY <1>1, <1>2, <1>3, <1>4, <1>5 DEF Next, OwnerStep, WorkerStep, vars, workerVars, ownerVars,
       SpawnThread, NotifyOne, GetReturns, NotifyAll, JoinAll, CallGet, SetShutdown,
       TestShutdown, LockAndCheck, Wait, SpuriousWake, Relock

\* A submitted function is in the queue, or with one worker, or finished: it is
\* never executed twice.
THEOREM ExecutedAtMostOnce == Spec => []TaskInOnePlace
  <1>1. Init => TaskInOnePlace
    BY DEF Init, TaskInOnePlace, QueueHasNoDuplicates, NoTaskHeldTwice, Queued, Held
  <1>2. IInv /\ TaskInOnePlace /\ [Next]_vars => TaskInOnePlace'
    BY PlacesNext
  <1>. QED  BY <1>1, <1>2, IInvHolds, PTL DEF Spec

-----------------------------------------------------------------------------
(* The pool implements TaskPool *)

LEMMA PoolInit == Init => Pool!Init
  BY DEF Init, Pool!Init

LEMMA PoolNext == IInv /\ [Next]_vars => [Pool!Next]_(Pool!vars)
  <1> SUFFICES ASSUME IInv, [Next]_vars PROVE [Pool!Next]_(Pool!vars)
    OBVIOUS
  <1> USE PoolAssumption
  <1> USE DEF IInv, TypeOK, OwnerPC, OwnerInv
  <1>1. ASSUME NEW t \in Tasks, Enqueue(t) PROVE Pool!Submit(t)
    <2>1. t \notin Pool!Known
      BY <1>1 DEF Enqueue, Submitted, Queued, Held, Pool!Known
    <2>. QED  BY <1>1, <2>1 DEF Enqueue, workerVars, Pool!Submit
  <1>2. ASSUME NEW w \in Workers, Dequeue(w), m_queue # <<>> PROVE Pool!Start(w)
    <2>1. func[w] = NoTask /\ pc[w] = "dequeue"
      BY <1>2 DEF Dequeue, HeldInv
    <2>2. w \notin late /\ owner # "returned"
      BY <2>1 DEF LateInv
    <2>3. m_shutdown' = m_shutdown /\ owner' = owner
      BY <1>2 DEF Dequeue, ownerVars
    <2>. QED  BY <1>2, <2>1, <2>2, <2>3 DEF Dequeue, Take, Pool!Start
  <1>3. ASSUME NEW w \in Workers, Run(w) PROVE Pool!Finish(w)
    BY <1>3 DEF Run, HeldInv, ownerVars, Pool!Finish
  <1>4. ASSUME SetShutdown PROVE Pool!Close
    BY <1>4 DEF SetShutdown, workerVars, Pool!Close
  <1>5. ASSUME JoinAll PROVE Pool!Closed
    <2>1. \A w \in Workers : func[w] = NoTask
      BY <1>5 DEF JoinAll, HeldInv
    <2>. QED  BY <1>5, <2>1 DEF JoinAll, workerVars, Pool!Closed
  <1>6. ASSUME NEW w \in Workers, Dequeue(w), m_queue = <<>> PROVE UNCHANGED Pool!vars
    BY <1>6 DEF Dequeue, ownerVars, Pool!vars
  <1>7. (\E w \in Workers : SpawnThread(w)) \/ NotifyOne \/ GetReturns \/ NotifyAll
          => UNCHANGED Pool!vars
    BY DEF SpawnThread, NotifyOne, GetReturns, NotifyAll, workerVars, Pool!vars
  <1>8. ASSUME NEW t \in Tasks, CallGet(t) PROVE UNCHANGED Pool!vars
    BY <1>8 DEF CallGet, workerVars, Pool!vars
  <1>9. ASSUME NEW w \in Workers,
                TestShutdown(w) \/ LockAndCheck(w) \/ Wait(w) \/ SpuriousWake(w) \/ Relock(w)
         PROVE  UNCHANGED Pool!vars
    BY <1>9 DEF TestShutdown, LockAndCheck, Wait, SpuriousWake, Relock, ownerVars, Pool!vars
  <1>10. CASE UNCHANGED vars
    BY <1>10 DEF vars, Pool!vars
  <1>. QED
    BY <1>1, <1>2, <1>3, <1>4, <1>5, <1>6, <1>7, <1>8, <1>9, <1>10
       DEF Next, OwnerStep, WorkerStep, Pool!Next

\* The pool, with its mutex, condition variable and flag, is an implementation
\* of TaskPool for any workers and tasks.
THEOREM PoolImplementsTaskPool == Spec => ImplementsTaskPool
  <1>1. Init => Pool!Init
    BY PoolInit
  <1>2. IInv /\ [Next]_vars => [Pool!Next]_(Pool!vars)
    BY PoolNext
  <1>. QED  BY <1>1, <1>2, IInvHolds, PTL DEF Spec, ImplementsTaskPool, Pool!Spec

-----------------------------------------------------------------------------
(* Who is left to move *)

\* A worker that does not wait: it holds the mutex, or can have it, or needs none.
MayGoOn(w) ==
  \/ pc[w] \in {"test", "block", "dequeue", "run"}
  \/ pc[w] \in {"acquire", "woken"} /\ condMutex = NoThread

\* Where one worker is neither asleep nor gone, one can move: it, or the holder of the
\* mutex it waits for.
LEMMA SomeoneMoves ==
  ASSUME IInv, NEW w \in Workers, Awake(w) \/ pc[w] \in {"acquire", "block"}
  PROVE  \E v \in Workers : MayGoOn(v)
  <1>1. CASE condMutex = NoThread
    BY <1>1 DEF MayGoOn, Awake
  <1>2. CASE condMutex # NoThread
    <2>1. condMutex \in Workers
      BY <1>2 DEF IInv, TypeOK
    <2>2. pc[condMutex] \in {"block", "dequeue"}
      BY <2>1 DEF IInv, MutexInv
    <2>. QED  BY <2>1, <2>2 DEF MayGoOn
  <1>. QED  BY <1>1, <1>2

\* In a pool of two threads or more, a queued task never waits for nothing: until the
\* pool is shut down, submit has yet to notify or a worker can move.  This is the part
\* of SubmittedIsExecuted that does not speak of fairness.
QueuedCanProceed ==
  (m_queue # <<>> /\ ~m_shutdown /\ \E v, w \in Workers : v # w)
    => owner = "notify" \/ \E w \in Workers : MayGoOn(w)

\* The workers never deadlock on m_conditional_mutex with a task before them, although
\* submit notifies without holding it.
THEOREM QueuedNeverStuck == Spec => []QueuedCanProceed
  <1>1. IInv /\ NoTaskStranded => QueuedCanProceed
    <2> SUFFICES ASSUME IInv, NoTaskStranded, m_queue # <<>>, ~m_shutdown, owner # "notify",
                        \E v, w \in Workers : v # w
                 PROVE  \E w \in Workers : MayGoOn(w)
      BY DEF QueuedCanProceed
    <2>1. owner # "init"
      BY DEF IInv, OwnerInv
    <2>2. PICK w \in Workers : Awake(w)
      BY <2>1 DEF NoTaskStranded
    <2>. QED  BY <2>2, SomeoneMoves
  <1>. QED  BY <1>1, IInvHolds, NoneStranded, PTL

\* No worker is on its way to sleep, or asleep once notify_all has been called, and
\* none can get there, because the flag stops all that come to test it.
Settled ==
  /\ m_shutdown
  /\ \A w \in Workers : pc[w] \notin {"unborn", "acquire", "block"}
  /\ owner # "notifyAll" => \A w \in Workers : pc[w] # "waiting"

LEMMA SettledNext == IInv /\ Settled /\ [Next]_vars => Settled'
  <1> SUFFICES ASSUME IInv, Settled, [Next]_vars PROVE Settled'
    OBVIOUS
  <1> USE PoolAssumption
  <1> USE DEF IInv, TypeOK, WorkerPC, OwnerPC, OwnerInv, Settled
  <1>1. CASE OwnerStep
    BY <1>1 DEF OwnerStep, SpawnThread, NotifyOne, GetReturns, NotifyAll, JoinAll, workerVars
  <1>2. ASSUME NEW t \in Tasks, Enqueue(t) \/ CallGet(t) PROVE Settled'
    BY <1>2 DEF Enqueue, CallGet
  <1>3. ASSUME NEW w \in Workers, TestShutdown(w) \/ LockAndCheck(w) \/ Wait(w) PROVE Settled'
    BY <1>3 DEF TestShutdown, LockAndCheck, Wait, ownerVars
  <1>4. ASSUME NEW w \in Workers, SpuriousWake(w) \/ Relock(w) PROVE Settled'
    BY <1>4 DEF SpuriousWake, Relock, ownerVars
  <1>5. ASSUME NEW w \in Workers, Dequeue(w) \/ Run(w) PROVE Settled'
    BY <1>5 DEF Dequeue, Run, ownerVars
  <1>6. CASE SetShutdown \/ UNCHANGED vars
    BY <1>6 DEF SetShutdown, vars
  <1>. QED  BY <1>1, <1>2, <1>3, <1>4, <1>5, <1>6 DEF Next, WorkerStep

\* shutdown() waits in join for threads that have ended or one of which can move.
JoinCanProceed ==
  owner = "join" =>
    (\A w \in Workers : pc[w] = "exited") \/ \E w \in Workers : MayGoOn(w)

\* If no worker is between its test of m_shutdown and its wait when the flag is set,
\* the join loop never waits for a sleeping thread.  This is the part of
\* ShutdownReturnsUnlessAsleep that does not speak of fairness.
THEOREM ShutdownNeverStuck ==
  Spec => []((owner = "notifyAll" /\ \A w \in Workers : pc[w] \notin {"acquire", "block"})
               => []JoinCanProceed)
  <1> DEFINE Called == owner = "notifyAll" /\ \A w \in Workers : pc[w] \notin {"acquire", "block"}
  <1>1. IInv /\ Called => Settled
    BY DEF IInv, OwnerInv, Settled
  <1>2. IInv /\ Settled /\ [Next]_vars => Settled'
    BY SettledNext
  <1>3. IInv /\ Settled => JoinCanProceed
    <2> SUFFICES ASSUME IInv, Settled, owner = "join", NEW w \in Workers, pc[w] # "exited"
                 PROVE  \E v \in Workers : MayGoOn(v)
      BY DEF JoinCanProceed
    <2>1. Awake(w)
      BY DEF IInv, TypeOK, WorkerPC, Settled, Awake
    <2>. QED  BY <2>1, SomeoneMoves
  <1> HIDE DEF Called
  <1>4. Spec => [](Called => []JoinCanProceed)
    BY <1>1, <1>2, <1>3, IInvHolds, PTL DEF Spec
  <1>. QED  BY <1>4 DEF Called

\* How many steps a worker is from the end of its thread, if it tests the flag when
\* it comes to it.
Rank(l) ==
  CASE l = "acquire" -> 7 [] l = "block" -> 6 [] l = "waiting" -> 5 [] l = "woken" -> 4
    [] l = "dequeue" -> 3 [] l = "run" -> 2 [] l = "test" -> 1 [] OTHER -> 0

\* From the time the flag is set every step of a thread, a spurious wakeup included, is
\* one nearer to its end, and nothing sends it back, however long the queue and whatever
\* the other threads do: none tests it twice.  With ShutdownNeverStuck
\* it leaves ShutdownReturnsUnlessAsleep to fairness alone.
THEOREM ShutdownCountdown ==
  Spec => [][m_shutdown =>
               /\ m_shutdown'
               /\ \A w \in Workers : pc'[w] = pc[w] \/ Rank(pc'[w]) < Rank(pc[w])
               /\ \A w \in Workers : WorkerStep(w) => Rank(pc'[w]) < Rank(pc[w])]_vars
  <1>1. IInv /\ [Next]_vars =>
          [m_shutdown =>
             /\ m_shutdown'
             /\ \A w \in Workers : pc'[w] = pc[w] \/ Rank(pc'[w]) < Rank(pc[w])
             /\ \A w \in Workers : WorkerStep(w) => Rank(pc'[w]) < Rank(pc[w])]_vars
    <2> SUFFICES ASSUME IInv, Next, m_shutdown
                 PROVE  /\ m_shutdown'
                        /\ \A w \in Workers : pc'[w] = pc[w] \/ Rank(pc'[w]) < Rank(pc[w])
                        /\ \A w \in Workers : WorkerStep(w) => Rank(pc'[w]) < Rank(pc[w])
      OBVIOUS
    <2>0. owner # "init" /\ pc \in [Workers -> WorkerPC]
      BY DEF IInv, OwnerInv, TypeOK
    <2>1. ASSUME NEW w \in Workers, WorkerStep(w) \/ SpuriousWake(w)
          PROVE  /\ m_shutdown' = m_shutdown /\ Rank(pc'[w]) < Rank(pc[w])
                 /\ \A v \in Workers \ {w} : pc'[v] = pc[v]
      <3> USE <2>0 DEF Rank, ownerVars
      <3>1. CASE TestShutdown(w)
        BY <3>1 DEF TestShutdown
      <3>2. CASE LockAndCheck(w)
        BY <3>2 DEF LockAndCheck
      <3>3. CASE Wait(w)
        BY <3>3 DEF Wait
      <3>4. CASE SpuriousWake(w)
        BY <3>4 DEF SpuriousWake
      <3>5. CASE Relock(w)
        BY <3>5 DEF Relock
      <3>6. CASE Dequeue(w)
        BY <3>6 DEF Dequeue
      <3>7. CASE Run(w)
        BY <3>7 DEF Run
      <3>. QED  BY <2>1, <3>1, <3>2, <3>3, <3>4, <3>5, <3>6, <3>7 DEF WorkerStep
    <2>2. \A w \in Workers : WorkerStep(w) => Rank(pc'[w]) < Rank(pc[w])
      BY <2>1
    <2>3. CASE \E w \in Workers : WorkerStep(w) \/ SpuriousWake(w)
      BY <2>1, <2>2, <2>3
    <2>4. CASE OwnerStep
      <3>1. m_shutdown' = m_shutdown /\ \A w \in Workers : pc'[w] = pc[w] \/ Rank(pc'[w]) < Rank(pc[w])
        <4>1. CASE NotifyOne \/ NotifyAll
          <5>1. /\ m_shutdown' = m_shutdown
                /\ \A w \in Workers : pc'[w] = pc[w] \/ (pc[w] = "waiting" /\ pc'[w] = "woken")
            BY <2>0, <4>1 DEF NotifyOne, NotifyAll
          <5>. QED  BY <5>1 DEF Rank
        <4>2. CASE GetReturns \/ JoinAll
          BY <4>2 DEF GetReturns, JoinAll, workerVars
        <4>. QED  BY <2>0, <2>4, <4>1, <4>2 DEF OwnerStep, SpawnThread
      <3>. QED  BY <2>2, <3>1
    <2>5. CASE SetShutdown \/ \E t \in Tasks : Enqueue(t) \/ CallGet(t)
      BY <2>2, <2>5 DEF SetShutdown, Enqueue, CallGet, workerVars
    <2>. QED  BY <2>3, <2>4, <2>5 DEF Next
  <1>. QED  BY <1>1, IInvHolds, PTL DEF Spec
=============================================================================
