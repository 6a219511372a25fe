----------------------------- MODULE ThreadPool -----------------------------
(***************************************************************************)
(* The thread pool of src/src/thread-pool: ThreadPool (thread-pool.h) and  *)
(* its SafeQueue (safe-queue.h).                                           *)
(*                                                                         *)
(* The worker threads run ThreadWorker::operator().  One more thread, the  *)
(* owner, calls init, submit, future::get and shutdown: in every user of   *)
(* the pool (thread-test.cc, lbbroker.h, lbworker.h, lbclient.h) all these *)
(* calls come from a single thread.                                        *)
(*                                                                         *)
(* Each SafeQueue method holds SafeQueue::m_mutex from its first to its    *)
(* last statement, so it is one atomic operation on m_queue.  The mutex    *)
(* m_conditional_mutex is modelled: only the workers take it.  The plain   *)
(* bool m_shutdown is read and written atomically; a read that the race    *)
(* lets return the old value is a read that happens before the write.      *)
(***************************************************************************)
EXTENDS Naturals, Sequences, FiniteSets

CONSTANTS Workers,   \* the threads of m_threads
          Tasks,     \* the functions the owner may submit
          NoThread,  \* condMutex is free
          NoTask     \* the worker holds no function, the owner awaits none

ASSUME PoolAssumption ==
  /\ NoThread \notin Workers
  /\ NoTask \notin Tasks

VARIABLES m_queue,    \* SafeQueue::m_queue, the tasks not yet taken
          m_shutdown, \* ThreadPool::m_shutdown
          condMutex,  \* the holder of m_conditional_mutex, or NoThread
          pc,         \* where each worker is in operator()
          func,       \* the function a worker has taken and not finished
          owner,      \* where the owner is in the calls it makes
          awaited,    \* the task whose future the owner waits on
          finished,   \* the tasks whose future is ready
          late        \* history: the workers that took a task after m_shutdown

workerVars == <<condMutex, pc, func, late>>
ownerVars == <<m_shutdown, owner, awaited>>
vars == <<m_queue, m_shutdown, condMutex, pc, func, owner, awaited, finished, late>>

\* "unborn" before init() starts the thread; "test" reads m_shutdown; "acquire"
\* locks; "block" has seen an empty queue and calls wait; "waiting" is in wait;
\* "woken" must take the mutex again; "dequeue" and "run" as in the code.
WorkerPC ==
  {"unborn", "test", "acquire", "block", "waiting", "woken", "dequeue", "run", "exited"}

OwnerPC == {"init", "idle", "notify", "get", "notifyAll", "join", "returned"}

Queued == {m_queue[i] : i \in DOMAIN m_queue}
Held == {func[w] : w \in Workers} \ {NoTask}
Submitted == Queued \cup Held \cup finished

Init ==
  /\ m_queue = <<>>
  /\ m_shutdown = FALSE
  /\ condMutex = NoThread
  /\ pc = [w \in Workers |-> "unborn"]
  /\ func = [w \in Workers |-> NoTask]
  /\ owner = "init"
  /\ awaited = NoTask
  /\ finished = {}
  /\ late = {}

-----------------------------------------------------------------------------
(* The owner *)

\* init(): the threads start one by one and run at once.
SpawnThread(w) ==
  /\ owner = "init"
  /\ pc[w] = "unborn"
  /\ pc' = [pc EXCEPT ![w] = "test"]
  /\ owner' = IF \A v \in Workers \ {w} : pc[v] # "unborn" THEN "idle" ELSE "init"
  /\ UNCHANGED <<m_queue, m_shutdown, condMutex, func, awaited, finished, late>>

\* submit(), up to enqueue: m_conditional_mutex is not taken.
Enqueue(t) ==
  /\ owner = "idle"
  /\ t \notin Submitted
  /\ m_queue' = Append(m_queue, t)
  /\ owner' = "notify"
  /\ UNCHANGED <<m_shutdown, awaited, finished, workerVars>>

\* Mutant: the notification is forgotten.
NotifyOneForgotten ==
  /\ owner = "notify"
  /\ owner' = "idle"
  /\ UNCHANGED <<m_queue, m_shutdown, awaited, finished, workerVars>>

\* notify_one(): wakes one thread that is in wait, if there is one.
NotifyOne ==
  /\ owner = "notify"
  /\ owner' = "idle"
  /\ \/ \E w \in Workers : pc[w] = "waiting" /\ pc' = [pc EXCEPT ![w] = "woken"]
     \/ (\A w \in Workers : pc[w] # "waiting") /\ UNCHANGED pc
  /\ UNCHANGED <<m_queue, m_shutdown, condMutex, func, awaited, finished, late>>

\* The owner calls get() on the future submit returned, and blocks in it.
CallGet(t) ==
  /\ owner = "idle"
  /\ t \in Submitted
  /\ owner' = "get"
  /\ awaited' = t
  /\ UNCHANGED <<m_queue, m_shutdown, finished, workerVars>>

GetReturns ==
  /\ owner = "get"
  /\ awaited \in finished
  /\ owner' = "idle"
  /\ awaited' = NoTask
  /\ UNCHANGED <<m_queue, m_shutdown, finished, workerVars>>

\* shutdown(), its first line.
SetShutdown ==
  /\ owner = "idle"
  /\ m_shutdown' = TRUE
  /\ owner' = "notifyAll"
  /\ UNCHANGED <<m_queue, awaited, finished, workerVars>>

\* Mutant: shutdown() calls notify_one.
NotifyAllWakesOne ==
  /\ owner = "notifyAll"
  /\ owner' = "join"
  /\ \/ \E w \in Workers : pc[w] = "waiting" /\ pc' = [pc EXCEPT ![w] = "woken"]
     \/ (\A w \in Workers : pc[w] # "waiting") /\ UNCHANGED pc
  /\ UNCHANGED <<m_queue, m_shutdown, condMutex, func, awaited, finished, late>>

NotifyAll ==
  /\ owner = "notifyAll"
  /\ owner' = "join"
  /\ pc' = [w \in Workers |-> IF pc[w] = "waiting" THEN "woken" ELSE pc[w]]
  /\ UNCHANGED <<m_queue, m_shutdown, condMutex, func, awaited, finished, late>>

\* The join loop ends when the last thread has returned.
JoinAll ==
  /\ owner = "join"
  /\ \A w \in Workers : pc[w] = "exited"
  /\ owner' = "returned"
  /\ UNCHANGED <<m_queue, m_shutdown, awaited, finished, workerVars>>

-----------------------------------------------------------------------------
(* A worker *)

\* Mutant: while (true).
TestNothing(w) ==
  /\ pc[w] = "test"
  /\ pc' = [pc EXCEPT ![w] = "acquire"]
  /\ UNCHANGED <<m_queue, condMutex, func, finished, late, ownerVars>>

\* while (!m_shutdown)
TestShutdown(w) ==
  /\ pc[w] = "test"
  /\ pc' = [pc EXCEPT ![w] = IF m_shutdown THEN "exited" ELSE "acquire"]
  /\ UNCHANGED <<m_queue, condMutex, func, finished, late, ownerVars>>

\* Take m_conditional_mutex and read m_queue.empty().
LockAndCheck(w) ==
  /\ pc[w] = "acquire"
  /\ condMutex = NoThread
  /\ condMutex' = w
  /\ pc' = [pc EXCEPT ![w] = IF m_queue = <<>> THEN "block" ELSE "dequeue"]
  /\ UNCHANGED <<m_queue, func, finished, late, ownerVars>>

\* wait(lock) releases the mutex and blocks, in one step.
Wait(w) ==
  /\ pc[w] = "block"
  /\ condMutex' = NoThread
  /\ pc' = [pc EXCEPT ![w] = "waiting"]
  /\ UNCHANGED <<m_queue, func, finished, late, ownerVars>>

\* wait may return although nobody notified.
SpuriousWake(w) ==
  /\ pc[w] = "waiting"
  /\ pc' = [pc EXCEPT ![w] = "woken"]
  /\ UNCHANGED <<m_queue, condMutex, func, finished, late, ownerVars>>

\* wait takes the mutex again before it returns.
Relock(w) ==
  /\ pc[w] = "woken"
  /\ condMutex = NoThread
  /\ condMutex' = w
  /\ pc' = [pc EXCEPT ![w] = "dequeue"]
  /\ UNCHANGED <<m_queue, func, finished, late, ownerVars>>

\* Mutant: front() without pop().
TakeWithoutPop(w) ==
  /\ func' = [func EXCEPT ![w] = Head(m_queue)]
  /\ UNCHANGED m_queue

\* Mutant: the element moved out is not the one popped.
TakeBack(w) ==
  /\ func' = [func EXCEPT ![w] = m_queue[Len(m_queue)]]
  /\ m_queue' = Tail(m_queue)

\* SafeQueue::dequeue, the queue not being empty.
Take(w) ==
  /\ func' = [func EXCEPT ![w] = Head(m_queue)]
  /\ m_queue' = Tail(m_queue)

\* dequeue(func) and the end of the locked block.
Dequeue(w) ==
  /\ pc[w] = "dequeue"
  /\ condMutex' = NoThread
  /\ \/ /\ m_queue = <<>>
        /\ pc' = [pc EXCEPT ![w] = "test"]
        /\ UNCHANGED <<m_queue, func, late>>
     \/ /\ m_queue # <<>>
        /\ Take(w)
        /\ pc' = [pc EXCEPT ![w] = "run"]
        /\ late' = IF m_shutdown THEN late \cup {w} ELSE late
  /\ UNCHANGED <<finished, ownerVars>>

\* Mutant: the function is dropped before it is recorded.
RunClearsFirst(w) ==
  /\ pc[w] = "run"
  /\ func' = [func EXCEPT ![w] = NoTask]
  /\ finished' = finished \cup {func'[w]}
  /\ pc' = [pc EXCEPT ![w] = "test"]
  /\ UNCHANGED <<m_queue, condMutex, late, ownerVars>>

\* func() returns: the packaged task has made its future ready.
Run(w) ==
  /\ pc[w] = "run"
  /\ finished' = finished \cup {func[w]}
  /\ func' = [func EXCEPT ![w] = NoTask]
  /\ pc' = [pc EXCEPT ![w] = "test"]
  /\ UNCHANGED <<m_queue, condMutex, late, ownerVars>>

WorkerStep(w) ==
  TestShutdown(w) \/ LockAndCheck(w) \/ Wait(w) \/ Relock(w) \/ Dequeue(w) \/ Run(w)

\* The steps the owner takes by itself once it is inside a call.
OwnerStep ==
  (\E w \in Workers : SpawnThread(w)) \/ NotifyOne \/ GetReturns \/ NotifyAll \/ JoinAll

Next ==
  \/ OwnerStep
  \/ \E t \in Tasks : Enqueue(t) \/ CallGet(t)
  \/ SetShutdown
  \/ \E w \in Workers : WorkerStep(w) \/ SpuriousWake(w)

Spec == Init /\ [][Next]_vars

\* Threads that can run do run; what the owner calls, and spurious wakeups, are
\* under no obligation.
Fairness == WF_vars(OwnerStep) /\ \A w \in Workers : WF_vars(WorkerStep(w))

FairSpec == Spec /\ Fairness
-----------------------------------------------------------------------------
(* Correctness *)

\* The values the variables range over.
TypeOK ==
  /\ m_queue \in Seq(Tasks)
  /\ m_shutdown \in BOOLEAN
  /\ condMutex \in Workers \cup {NoThread}
  /\ pc \in [Workers -> WorkerPC]
  /\ func \in [Workers -> Tasks \cup {NoTask}]
  /\ owner \in OwnerPC
  /\ awaited \in Tasks \cup {NoTask}
  /\ finished \subseteq Tasks
  /\ late \subseteq Workers

QueueHasNoDuplicates ==
  \A i, j \in DOMAIN m_queue : m_queue[i] = m_queue[j] => i = j

NoTaskHeldTwice ==
  \A v, w \in Workers : func[v] = func[w] /\ func[v] # NoTask => v = w

\* A submitted function is executed at most once, whatever the interleaving of
\* submit, dequeue and the workers: it is queued once, or in the hands of one
\* worker, or finished, and never two of these.
TaskInOnePlace ==
  /\ QueueHasNoDuplicates
  /\ NoTaskHeldTwice
  /\ Queued \cap Held = {}
  /\ (Queued \cup Held) \cap finished = {}

\* m_shutdown is tested once per turn of the loop, before the wait for the
\* mutex: a worker may still take a task after shutdown() has begun, but only
\* one, because it tests the flag again before it takes the next.
OneTaskAfterShutdown ==
  [][\A w \in late : func[w] = NoTask => func'[w] = NoTask]_vars

\* The pool implements what TaskPool promises: the queue is what is pending and
\* a worker's func is its slot.
Pool == INSTANCE TaskPool WITH
  Slots <- Workers,
  pending <- m_queue,
  slot <- func,
  done <- finished,
  phase <- IF ~m_shutdown THEN "open"
           ELSE IF owner = "returned" THEN "closed" ELSE "closing"

\* Every step of the pool, with its locks and wakeups, is a step of TaskPool or
\* none: first in first out, one task per worker, none lost, none after the end.
ImplementsTaskPool == Pool!Spec

\* The worker will reach dequeue without the help of a notification.
Awake(w) == pc[w] \in {"test", "acquire", "woken", "dequeue", "run"}

\* In a pool of two threads or more the notification that submit loses is not
\* missed: the one worker it can be lost for is between its look at the empty
\* queue and its wait, which it does under the mutex, so another worker is awake
\* or is notified in its place.  While the pool is open, some worker is awake
\* whenever a task is queued and submit has returned.
NoTaskStranded ==
  (/\ \E v, w \in Workers : v # w
   /\ m_queue # <<>>
   /\ owner \notin {"init", "notify"}
   /\ ~m_shutdown)
     => \E w \in Workers : Awake(w)

\* shutdown() returns, with every sleeping worker woken by notify_all, unless a
\* worker had passed its test of m_shutdown and not yet slept when the flag was
\* set.
ShutdownReturnsUnlessAsleep ==
  (owner = "notifyAll" /\ \A w \in Workers : pc[w] \notin {"acquire", "block"})
     ~> (owner = "returned")

\* "Submit a function to be executed asynchronously by the pool"
\* (thread-pool.h:84): a submitted function is executed unless the pool is shut
\* down.  It holds with two workers or more.  With one, as in thread-test.cc:86,
\* the code breaks it: notify_one finds no thread in wait when the worker has
\* seen the empty queue and not yet blocked.
SubmittedIsExecuted ==
  \A t \in Tasks : (t \in Queued) ~> (t \in finished \/ m_shutdown)
=============================================================================
