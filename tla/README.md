# A TLA+ model of the edge-intelligence scheduler

This directory holds the verification project for the C++ system under `src/`: edge devices and a
cloud that run inference tasks together, a load balancer that finds a worker for a client, the
transfer of a task's files from the client to that worker, and the thread pool all of them run on.
Paths below are relative to the directory that holds the sources, so `src/src/thread-pool` is the
thread pool and `src/test/net` the inference programs.

## 1. The system

| Component | Code | State | Operations | Talks to |
|---|---|---|---|---|
| Thread pool | `thread-pool/thread-pool.h`, `safe-queue.h` | queue of functions, `m_shutdown`, threads, mutex and condition variable | `init`, `submit`, `shutdown`; the loop of a worker thread | every component below submits its handlers to one |
| Broker | `load-balance/lbbroker.h` | two ROUTER sockets, two pools of four threads, the sorted set `Worker` in redis | `EventLoop`, `HbGetHandle`, `TkGetHandle` | workers (heartbeats, addresses), clients (requests), redis |
| Worker | `load-balance/lbworker.h` | one DEALER socket, a liveness counter and a backoff, a pool of four threads | `HBRoutine`, `CreateSocket` | the broker; one client per `CreateSocket` |
| Client | `load-balance/lbclient.h`, `get_ip` of `lbhelper.h` | the REQ socket it binds, its port | `ToBroker`, `CreateSocket`, choice of the port | the broker, then the worker that dials it |
| Task synchronisation | `distribute/synchronous.h` | task id, in redis the sorted set `taskid` and the list `receive-task`, the task's directory | `ClientSyn`, `ServerSyn`, `CliGetFile` | file transfer, redis |
| File transfer | `ftp/file-transfer.h` | file position, REQ/REP turn | `SendFile`, `ReceiveFile`, `WriteFile`, `LocalCopy` | the socket it is given |
| Edge with retransmission | `src/test/net/client.cc`, `server.cc`, `utils.h` | the last packets sent; a record per packet received | send, send again; accept, ask again, give up | each other, over TCP |
| Edge and cloud inference | `src/test/net/client-cloud.cc`, `server-cloud.cc`, `cloud.cc` | records of packets and samples, latest batch number, who waits for whom | receive and confirm, forward a sample, send it back | clients, edge and cloud in a cycle |
| First prototypes | `load-balance/broker.cc`, `client.cc`, `worker.cc` | the broker's queue of workers | request, answer; announce readiness | each other, over ROUTER sockets |
| CPU monitors | `monitor/cpu-monitor.cc`, `time-zone/cpu-moni.h` | two readings of the counters of `/proc/stat` | `cpu_percentage`, `get_sysCpuUsage` | the kernel |
| Redis demonstration | `hiredis/hello.h` | - | `test`: ZADD, ZRANGE | the set `taskid` that the tasks are in |
| Service discovery, RPC, redis wrapper | `distribute/discovery.h`, `rpc/`, `hiredis/hiredis-helper.h` | - | sketches that do not compile | - |
| Memory monitors, experiments | `time-zone/mem-moni.*`, `file-try`, `c-s-try`, the rest of `src/test` | - | trials of library calls | - |

How a task flows: workers send `HBREQ` to the broker and are answered `HB_OK`; the broker's handler
stores the time of the heartbeat under the worker's identity in redis. A client binds a socket and
sends its address to the broker; the handler of the request picks the member of the table with the
highest score and sends it that address, on the socket the heartbeats are answered on. The worker
reads a frame; whatever is not `HB_OK` is an address, and it submits `CreateSocket`, which connects
and runs `ServerSyn` against the client's `ClientSyn`. The inference programs are separate: clients
send numbered packets to an edge, which judges their delay and, in the second variant, sends a sample
of each new batch to a cloud that works on it and sends it back.

What makes it hard: handlers of two pools share one socket and one table; a condition variable is
notified without its mutex; a flag is tested at one place and acted on at another; the transfer
relies on a strict alternation of request and reply with no timeout; a worker measures the broker's
silence with a backoff while the broker measures the worker's with an expiry; the table outlives
the process that fills it; the edge and the cloud each wait for the other's replies; sockets connect to a
port, whoever holds it; tasks share a directory that nobody locks. `PROJECT.json` lists these hazards at
the lines where they bite, with the properties that watch each of them.

What makes each part correct:

* **pool**: a function is executed once, in order, by one thread; none is left behind; `shutdown` ends;
* **broker**: a request goes to one worker, the one picked for it, alive and known; nobody is sent a
  frame meant for another; nothing is confirmed that was not stored;
* **heartbeat loop**: a worker is attached exactly as long as the broker holds it for alive;
* **intake**: whoever finds a task's id finds its files, and what is sent is one user's task;
* **transfer**: what is announced is complete, what is acknowledged is stored, both sides end;
* **session**: a worker registers the task of one client, the client ends, and its thread is free again;
* **retransmission**: what is on record came in time, what is lost had a second chance, the packet asked
  for is still kept, and the client always gets on;
* **edge and cloud**: batches travel once and in order, and clients are answered, as long as the two
  do not wait for each other;
* **monitors**: what is reported is the share of the time that was not idle.

## 2. Modules

| Module | Models | Extends / composes |
|---|---|---|
| `TaskPool` | what a pool promises: pending functions, one slot per thread, first in first out, one more function per thread once it is closing | - |
| `ThreadPool` | the pool as written: mutex, condition variable, flag, `SafeQueue`; the owner and the threads | `INSTANCE TaskPool` under a refinement mapping |
| `TaskSync` | `ClientSyn`/`ServerSyn` over `SendFile`/`ReceiveFile`, several sessions on one worker | - |
| `TaskIntake` | how a task gets into its directory and is found there: `CliGetFile`, `LocalCopy`, the first half of `ClientSyn`; redis' `test` | - |
| `Dispatch` | what the broker promises: a request is assigned once, to a stored worker, and that worker is told of it, once | - |
| `LBBroker` | event loop, handlers, ROUTER socket, metric table; workers and clients as they use them | `INSTANCE Dispatch` under a refinement mapping; the pools are used as `TaskPool` describes them |
| `LBSession` | several clients, workers and threads from the choice of a port to the closed socket | `INSTANCE Dispatch` for the broker; pool and transfer in short |
| `LBPrototype` | the first broker, client and worker programs | - |
| `HBRoutine` | the heartbeat loop in discrete time against a broker that may answer late or stop | - |
| `EdgeRetransmit` | one client and the edge, with delays and clocks that differ | - |
| `EdgeCloud` | clients, edge and cloud, their blocking receives and their timers | - |
| `CpuUsage` | the two computations of the CPU's load, with the width of their numbers | - |
| `MC*` | instances for TLC | the module after `MC` |
| `ThreadPoolProofs`, `TaskSyncProofs`, `TaskIntakeProofs`, `LBBrokerProofs`, `LBSessionProofs`, `HBRoutineProofs`, `EdgeRetransmitProofs` | theorems about the module before `Proofs` | that module, `TLAPS` |
| `StandaloneProofs` | theorems about the three that share nothing with the rest | `EdgeCloud`, `INSTANCE LBPrototype`, `INSTANCE CpuUsage`, `TLAPS` |

In each module the operators that begin with `\* Mutant:` are not part of the specification. Each is
a variant of the definition after it, the plausible slip that the property named for it in
`PROJECT.json` catches.

### ThreadPool

Variables carry the names of the members; `pc` is a worker's place in `ThreadWorker::operator()` and
`owner` that of the one thread that calls the pool (in all users of the pool it is a single thread).
`Enqueue` and `NotifyOne` are the two halves of `submit`, `SetShutdown`, `NotifyAll` and `JoinAll`
the lines of `shutdown`; `TestShutdown`, `LockAndCheck`, `Wait`, `Relock`, `Dequeue`, `Run` are the
loop. `Wait` releases and blocks in one step; `SpuriousWake` is always possible. A `SafeQueue` method
holds its own mutex throughout and is one step. `m_shutdown` is a plain `bool` used by several
threads; it is read and written atomically here, a stale read being a read that came earlier.
Functions return; one that does not keeps its thread (see section 6).

### TaskSync

A session is one client and the thread of the worker that serves it. A file is a length; a message
is the file it is cut from and a size. `NextSize` and `EndsFile` are the two arithmetic conditions
that have to agree: `SendFile` sends full buffers while it can and then one more message with what is
left; `ReceiveFile` stops at a message shorter than the buffer, and its loop condition is the size,
so a size of 0 ends it *before* the reply. `owes` is the state of a REP socket that has received and
not replied: receiving again is refused, `rc` becomes -1 and the process dies (`RecvRefused`),
with the replies other sessions had handed over and not sent. `SkipUnreadable` is the early return of
`SendFile` for a file that does not open. `disk` counts, per stored file, the bytes appended by
source, because the task id is a constant and the file is opened with `ios::app`.

### LBBroker

`Poll` and `HandleTk` are the two parts of a turn of `EventLoop` (the decision for the request socket
is made when `zmq_poll` returns). A handler is a thread with a `stage`: `StartHb`, `ReadClock`,
`Store`, `SendIdentity`, `SendBody` for `HbGetHandle`, `StartTk`, `Pick`, `SendIdentity`, `SendBody`
for `TkGetHandle`. The ROUTER is modelled frame by frame: the first frame of a message selects the
peer, further frames are given to it until one without `SNDMORE`; unknown peers lose the message.
`Init` takes any set of entries left by an earlier broker. `RedisDown` covers the failed connection:
the handler goes on with a freed context, and either the process dies or the heartbeat is answered
unstored. Redis may also answer with errors, which the code meets in two ways: the reply to ZADD is not looked
at, so `Store` may leave the table as it is and the heartbeat is confirmed all the same (`unstored` remembers the
worker); a reply to ZRANGE that is no array makes the handler return, so `Pick` may end with the request dropped
and nobody told (`refused` remembers the client). `Tick` is the clock the scores come from.

`Disp` maps this to `Dispatch`: the requests taken, the stored workers, `chosen`, and the one worker the
address of a client is on its way to or has reached (`Taker`; two of them would be no value of `taker`).
`garbled` is `overlapped`, the history of a handler that began its message in the middle of another's. `refused`
is itself, and `Dispatch` has `Refuse` for it: it is part of what the broker promises that a request which was
dropped is never given away later.

### LBSession

The composition of client, broker, worker and pool, at the level of requests and connections. The broker is
`Dispatch` without `Garble`; its steps are `Announce`, `Heartbeat`, `Assign`, `Refuse` and `Tell`. A client is
`TryBind`, `NoAvailablePort`, `Announce`, `TakeTask`, then three requests (`Send`, `RecvReply`, `Finish`);
a thread is `CreateSocket`, `Connect`, three `RecvRequest`, `Register`. What the code does with ports is
kept: every attempt binds 10000, while the counter of attempts is what is announced, and a client that
never binds still calls `ClientSyn`. So is what ZeroMQ does with peers that leave: the REP socket of a
thread goes on connecting to the same address, and a REQ socket deals its requests to whatever is connected.
`Kill`, `WorkerDies` and `NoRedis` may happen anywhere. `enp` is the set of hosts where `get_ip` finds an
interface.

### TaskIntake

`Begin`, `Open`, `CopyChunk`, `CloseCopy`, `EnterId` are `CliGetFile` over `LocalCopy`, for the model and then
for the data; `OpenFails`, `WriteFails` and `Die` are its failures, the second of which it does not see. All
intakes use one directory and one id. `FindTask`, `Scan`, `ReadChunk`, `EndFile` are `ClientSyn` up to the
end of its reading, chunk by chunk, so that intakes may write in between. When redis answers `FindTask` with an
error, `taskId` stays empty and `ClientSyn` goes on with `model/` itself: `Content` is what lies in the directory it
has opened, the task's (`stored`) or the parent (`Outside`, files that no intake wrote). `last` is history, the last
intake to begin before `ClientSyn` did. `TestEnters` is `test` of
`hello.h`, which swaps score and member and so leaves in the same set an id without a directory, ahead of
every task: from then on `FindTask` crashes.

### LBPrototype

The broker answers every request to one fixed identity, so a client that has drawn it (`Lucky`) is
answered for others too and all others wait for ever. `SendHello` may lose answers that came early, as a
REQ socket does. Workers are queued and never used, and requests are read whether one is queued or not: the lines
that asked are commented out, while the comment above the loop still says that the frontend is polled only if a worker
is ready. `FrontendOnlyWithWorker` states that comment, and is violated.

### CpuUsage

`Tick` is the kernel; `BeginSample` and `EndSample` are the two readings of a monitor. The computations are
operators on the two readings: `cpu_percentage` in 64 bits, `get_sysCpuUsage` with every counter and their
sum reduced to `W` bits. What `sscanf` leaves of a counter that does not fit depends on the build: it is cut off where
`unsigned long` is wider than `unsigned int` (`wide`), and saturates where it is not, as on a 32-bit Raspberry Pi.
Percentages are pairs of a numerator and a denominator, compared by cross products.

### HBRoutine

One unit is half a second, so the numbers of `lbworker.h` (interval 1000 ms, first backoff 1000 ms,
maximum 8000 ms, liveness 3) become 2, 2, 16 and 3, and the expiry of 10 s becomes 20. Instants are
kept as distances, so the state space is finite without a bound on time. `liveness` is a `size_t`
and wraps (`SIZE_MAX` is a small constant). `Check` is the loop condition with the sending of a due
heartbeat (at the very instant either answer of the comparison is possible), `Receive`,
`PollTimeout`, `WakeUp` the rest of the turn. The broker is up until `BrokerStops`, and while it is up
answers within `ReplyDelay`.

### EdgeRetransmit

`Store` is the bounded list of packets, `SendPacket`, `ReceiveReply` and `Retransmit` the client's loop;
`Retransmit` has the code's second outcome, "packet not found, maybe expired". `Accept`, `AskAgain`,
`AcceptCopy` and `GiveUp` are the four verdicts of the edge. Time is the age of the packet on its way,
and what the edge measures is that age plus the difference of the two hosts' clocks, which any behaviour
fixes at its start. One client is enough: clients are processes of their own and the edge keeps what it
knows per client.

### EdgeCloud

One action per piece of a loop between two places where it can block: `EdgePoll` takes the `revents` of
both sockets, `EdgeReceive` handles a packet and may send a batch to the cloud (`wait`), `EdgeReceiveOk` is
the return of `s_recv(edge_send)`, `EdgeReceiveSample` the backend; `CloudReceive`, `CloudForward`,
`CloudReceiveOk` are the cloud's loop. The link variables hold at most one message each, which the REQ
sockets enforce. `EdgeStops` and `CloudStops` close the sockets: what has arrived in them and was not read is lost,
what is still at its sender is not, so each message there may go or stay. Whether a packet was late, and is thus not
kept on record, is a free choice. The actions take no time: the deadlock needs a packet to be read between two points
of the cloud's work, which with the sleeps of the code (100 to 1000 ms against 1 s between packets of a client) is the
ordinary case with several clients and a narrow one with a single client.

## 3. Runs

Every run finishes within two minutes with two workers.

| Run | Instance | Shows |
|---|---|---|
| `pool` | 3 threads, 2 tasks; 18 873 states | `TypeOK`, `TaskInOnePlace`, `NoTaskStranded`, `OneTaskAfterShutdown`, refinement of `TaskPool`, `SubmittedIsExecuted`, `ShutdownReturnsUnlessAsleep` |
| `sync` | 2 sessions, buffer of 2, lengths 0, 1, 2, 5 and unreadable; 104 505 states | `TypeOK`, `RegisteredIsComplete`, `ClientDoneIsStored`, `BytesConserved`, `OrdinarySessionsEnd` |
| `sync_ends` | 1 session, lengths 0 to 5 | *violated*: a length that is a multiple of the buffer leaves the client waiting |
| `broker` | 2 workers, 1 client, 2 heartbeat threads, 1 request thread; 656 722 states | `TypeOK`, `StrayOnlyByOverlap`, `OnlyStoredWorkersHear`, `RequestIsServed`, refinement of `Dispatch` |
| `broker_frames` | the same without the clock | *violated*: a worker is sent another's identity |
| `session` | 2 workers of 1 thread, 2 clients, 2 hosts; 364 086 states | `TypeOK`, `RegisteredIsOneTask`, `NoThreadIsStranded`, `SessionEnds` |
| `intake` | 2 intakes, 2 names, files of 2 chunks, `.h5` files in `model/` itself; 4 360 065 states up to symmetry | `TaskHasItsFiles`, `SentIsOneTask` |
| `hb` | the constants of the code, replies within 8.5 s, 2 clients; 5 443 states | `TypeOK`, `AttachedIsFresh`, `AnsweredStaysAttached`, `SilentBrokerIsLeft`, `AddressIsTaken` |
| `edge_retransmit` | storage of 2, 4 packets, clocks apart by -1, 0 or 1 s; 31 959 states | `TypeOK`, `RequestedIsKept`, `RecordedIsInTime`, `LostHadSecondChance`, `PacketIsSettled` |
| `edge_cloud` | 2 clients of 3 packets; 105 245 states | `TypeOK`, `SamplesInOrder`, `ClientIsAnswered`, `SampleComesBack` |
| `prototype_worker` | 3 clients, 2 workers, 4 identities | *violated*: a request is read and answered while no worker is ready |
| `cpu` | counters of 2 bits, 4 ticks after any start; 1 058 256 states | `UsageIsSound` |

Where the code does not keep what one would wish, most properties say exactly when: a disjunct names the
circumstance, and without it TLC finds the property violated. What they show of the code in this way:

* with one thread in the pool (as in `thread-test.cc`) a submitted function may never be executed, because
  `notify_one` comes between the worker's look at the queue and its wait; `NoTaskStranded` needs two;
* `shutdown` returns only if no worker was between its test of the flag and its wait
  (`ShutdownReturnsUnlessAsleep`);
* expired workers are never deleted from the table, though the comment at `lbbroker.h:11` says so: a request
  may be given to a worker that is gone, and its client then waits for ever (`RequestIsServed`);
* a session ends unless it is `Disturbed`, and every one of the circumstances there does disturb it; a task
  registered as one is mixed of two only after a client of that host ended early (`RegisteredIsOneTask`);
* a request is lost without a word if redis answers the handler's query with an error (`refused`), and a worker is
  told `HB_OK` without being in the table if redis does not carry out the ZADD (`unstored`);
* what is sent is the last intake's task, whole, if no two programs overlapped, `ClientSyn` was told an id, and that
  intake was complete: it came to its end, no write of its failed, its files were not copied onto themselves, and
  nobody has brought files of other names (`Complete`). Earlier intakes may have died, failed or lost writes: their
  remains do not show, because every copy begins by truncating what was there. A `ClientSyn` without an id sends
  whatever files lie in `model/`, if there are any (`FindTask`);
* edge and cloud can each wait for the other's reply for ever (`Crossed`).

The violated properties quote a comment or document of the repository; `PROJECT.json` gives the line
and the line of code that breaks it under `findings`.

**Why the bounds are enough.** *Pool*: the lost notification needs one thread between its look at the
queue and its wait, the argument that it is harmless needs a second, and three also let one run while
another blocks; with two tasks the queue is empty, has one or several, and order can be wrong; the
theorems below cover any number. *Transfer*: only the relation of a length to the buffer matters:
zero, below, equal, and more than one full buffer with a remainder are there, and lengths 3 and 4
in `sync_ends`; two sessions interleave on the process and on the files. *Broker*: two frames per
message, so two handlers give all overlaps of two messages; a second heartbeat handler lets either
kind overlap the other or itself; one clock step lets scores be equal or different. One heartbeat per worker
(`MaxBeats`) and one request per client bound the counters; a second heartbeat of the same worker
adds only that a score is replaced. *Heartbeats*: time is unbounded; `MaxUnread` = 2 unread messages
let an address queue behind an answer. `ReplyDelay` = 17 is the largest value for which
`AnsweredStaysAttached` holds (18 breaks it): a broker slower than 8.5 s is left although it answers.
*Retransmission*: with thresholds of 2 s + 2 s in seconds, ages up to 5 are below, at and above each of
them for each of the three clock differences; a storage of two and four packets make it drop some.
*Edge and cloud*: two clients of three packets let a number be new, equal to and older than the latest,
and a packet wait at each point of the cloud's work. *Sessions*: two clients on one host compete for the
port and on two hosts for a thread; one thread per worker makes the pool full at once, and with two workers
one can die while the other serves; `Tries` = 1 stands for 5001, as every attempt but the first announces a
wrong port. The state constraint `Representative` leaves out renamings of hosts and workers only: what it
fixes is chosen once and stays, so no behaviour it keeps is cut in the middle. *Intake*: with two chunks a
copy can be seen empty, half and whole, and a hole can be left; two intakes overlap each other and the
reader, or one leaves remains for the other; two names make the same file or different ones. `model/` itself has
several models and no data, so that both an ambiguous and an empty name occur. Intakes and names are symmetric
(`Alike`); both properties are invariants, for which TLC's symmetry is sound. *Monitors*: in two
bits a counter, the sum, both or neither wrap within four ticks, from every start.

`CHECK_DEADLOCK FALSE` is set everywhere because the systems do stop: the pool has been shut down or all
its threads wait, every session is over or stuck, every request has been given away, the worker has
detached, ClientSyn has read what there was, both readings are taken.

## 4. Fairness

`ThreadPool!Fairness`: a thread that can take a step takes one in the end (weak fairness per
thread); what the owner decides to call, and spurious wakeups, are under no obligation. Weak fairness
is enough although the mutex is contended, because what the liveness properties need is that *some*
waiting thread takes it. `TaskSync!Fairness`: each side of each session goes on while it can, a
message on a connection that is up arrives. `LBBroker!Fairness`: the event loop, each handler, and
the reading of a worker that is up; clients, heartbeats, the clock and failures are not fair, so
`RequestIsServed` does not rely on a further heartbeat. `HBRoutine!Fairness`: the loop, the passage of
time, and the answer of a broker that is up. `EdgeRetransmit!Fairness`: messages arrive, both loops run.
`EdgeCloud!Fairness`: the same, and the ROUTER serves each of its clients in turn.
`LBSession!Fairness`: clients that run go on, the broker's handlers and the worker's loop run, threads of
workers that are up run; heartbeats, deaths and failures are under no obligation, so `SessionEnds` starts
from a worker that is stored and does not need another heartbeat. `TaskIntake`, `LBPrototype` and `CpuUsage` have
safety properties only.

## 5. What is proved

Every invariant that a passing run checks on an instance is proved for all values of the constants, and so are both
refinements and the action property of the pool. The argument is the same everywhere: an inductive invariant
(`IInv` in most modules), one step per action for it, and the property as its consequence. The assumptions are those
the modules name (`PoolAssumption`, `SyncAssumption` and so on): that constants are numbers or sets, that "none" is
none of the values, and nothing about how many there are. Where more is assumed it is said below.

For the liveness properties the part that does not speak of fairness is proved: who waits waits for something
that is under way, so that somebody can take a step (`...NeverStuck`, `OnlyCrossingBlocks`), or what is asked for is
never dropped (`PickedIsNotForgotten`, `AddressWaitsOrIsTaken`), and of five components also that every such step
decreases a measure, so that there cannot be infinitely many. The guards in these theorems (`MayGoOn` and the
like) are the conjuncts of the actions written out, because the prover does not handle ENABLED.

**ThreadPool** (any workers and tasks). `TypeCorrect`, `NoneStranded`, the reason why the notification that
`submit` loses does no harm with two threads or more, `OneTaskEachAfterShutdown`, `ExecutedAtMostOnce`, and
`PoolImplementsTaskPool` by step simulation. `IInv` adds what they rest on: the mutex
is held exactly at the two places of the loop between lock and unlock (`MutexInv`); a worker holds a
function exactly while it runs it (`HeldInv`); the flag, the owner's place and the joined
threads agree (`OwnerInv`); and a worker that took a task after the flag was set is running it or about
to test the flag again (`LateInv`). `NoTaskStranded` is inductive on top of `IInv`, because of
`MutexInv`: the only worker that can go to sleep over a nonempty queue is the one at `block`, and since
it holds the mutex, any other worker is either awake or in `wait`, where `notify_one` finds it.
`TaskInOnePlace` is proved on top of `IInv`
from two lemmas on what `Append` and `Tail` do to the set of queued tasks. `QueuedNeverStuck` says of two threads or
more that a queued task has a worker that can move, or a `submit` that has yet to notify; `ShutdownNeverStuck` that
the join loop has one too, if no worker was between its test of the flag and its wait when the flag was set. Its
invariant `Settled` is what stays true from then on. `ShutdownCountdown`: once the flag is set every step of a
thread is one nearer to its end, so none comes to test the flag twice.

**LBBroker** (any workers, clients and handlers). `TypeCorrect`; `NothingStraysWithoutOverlap`: as long as no
handler begins its message in the middle of another's, every frame reaches the worker it is for;
`HearersAreStored`: nobody is answered who is not in the table, unless redis did not do what the handler of that very
worker asked of it; `AddressSentOnce`; and
`BrokerImplementsDispatch`. `RouterInv` says what the socket is inside of: the message of the one handler that is
between its two calls. `HandlerInv` and `OnceInv` say that a request is in one place, and is given a worker when
its handler picks one, or is refused and in no place at all; `StoredInv` that whoever a message is for has been stored,
or is on record as `unstored`. The refinement also needs
`ToldInv`, that all occurrences of an address, in the lines to the workers and where it was dialled, are one: it
holds even when frames overlap, since an astray address is lost or read by the wrong worker but never doubled.
Only with that is `Taker` a value of `Dispatch`, and each action of the broker one of its steps or a stutter. `PickedIsNotForgotten` follows a request from the choice of its worker: the message is still to be sent, or
half sent and the socket inside it (`OnItsWay`), or a worker has been told, which is never taken back (`ToldForGood`).
It is about any further course of the process, its death included, but for overlaps.

**TaskSync** (any sessions, lengths and buffer). `TypeCorrect`, `AnnouncedIsComplete`, `DoneIsStored`,
`NoByteIsLost`; and of every step, `AnnouncedIsFinal`: nothing is stored for a session after it is announced.
The invariant is one of a single session (`ClientInv`, `ExchangeInv`, `ServerInv`, `StoredInv`),
and lemma `SameKeeps` says that what other sessions do, the death of the process included, leaves it alone. The
heart is `StoredInv`: what is sent of a file is what is stored of it, in its place, and the message in flight; the
place of the model is that of the data if the data could not be read (`Place`), because `SendFile` then skips
a file that `ReceiveFile` waits for. It gives completeness although the two loops end by different conditions.
`WaitInv` adds who owes whom a message. With it, `OnlyMultiplesCrash`: a reply is owed when the next receive is due,
which ends the process, only after a file whose length is a multiple of the buffer; `OnlyOrdinaryEnds`: such a
transfer never ends, for any length and buffer (`sync_ends` shows one); `OrdinaryNeverStuck`: where there is no such file
every session that is not over has a step to take. `SessionsComeNearer` counts down the stages of the two sides,
the bytes left of the file and the message in flight, in this order of weight, for any files.

**TaskIntake** (any intakes, names, lengths and files in `model/`). `FilesComeFirst` and `OneTaskIsSent`. The first
rests on `FilesInv`: the id is entered last, files are opened before it and never removed. The second has three parts.
Without an overlap one program is at work at a time (`Alone`). The files of the last intake are then, up to where it
is, its own and nobody else's: what it has copied of them is a beginning of the user's file, whatever lay there
before, because `Open` truncates, and it stays so after the intake's end while nobody else begins (`LastInv`). What
`ClientSyn` has read is a beginning of what lies there (`Kept`), under names that only that intake can have given if
nobody has brought others (`NamesInv`). No assumption is made about the intakes before. `SentIsWhatIsStored` assumes
less: however broken what lies in the task's directory is, `ClientSyn` sends just that unless a program was at work
together with another (`ReadInv`).

**LBSession** (any clients, workers, hosts and threads). `TypeCorrect`, `RegisteredIsOneClients`,
`NobodyIsStranded`, `ServedByOneThread`. `WireInv` and `TenantInv`: a client has its host's port from before the broker hears of it
until it closes, and sockets are connected to whoever has the port. `OnceInv`: an address is in one pool once, or
with one thread. `InTurn` is the argument proper: while no client of a host ends early, a client's requests are
read by the thread that was called for it, and any other socket that is connected to it belongs to a thread
that has read all it wants (`register`), so its connection takes nothing. `SessionNeverStuck` needs one more invariant,
on who has sent what nobody has read yet (`WaitInv`), and that the search for a port is tried at all (`Tries` # 0): a
session that is not disturbed is over, or somebody can take a step for it, or it waits behind others in its worker's
pool. Of those at least one thread is free or in a session that goes on, or all are with disturbed sessions.

**HBRoutine** (any constants that fit each other). `TypeCorrect` has no further hypothesis. `AttachedStaysFresh`
and `AnsweredIsPatient` are about numbers, and state which: `LivenessFits` (liveness is used up no later
than the backoff), `WrapFits`, `ExpiryFits` (the broker's limit is longer than the longest silence) and
`AnswerFits` (an answer is there before the last poll has timed out). The numbers of `lbworker.h` and
`lbbroker.h` satisfy them; with replies after 9 s the last does not hold, and TLC finds that
the worker leaves. The power of two in the backoff is not known to the provers, so the theorems are about
any function with its two equations (`Backoff`). `ClockInv` relates the clock of the heartbeat to the one that
runs; `LivenessInv` says that the interval is that of the polls that timed out, before liveness wraps around and
after; `PatienceInv` that an empty queue means that an answer has been due for as long as the polls have lasted. `AddressWaitsOrIsTaken`
needs no such hypothesis. `SilentBrokerCountdown` does: once the broker is silent the worker has detached, or the loop or
the clock can go on; each of their steps is nearer to the end (a message less to read, else a longer backoff, else
a later place in the turn, else less time left of a poll or sleep), and the backoff is bounded.

**EdgeRetransmit** (any storage, thresholds and clocks). `TypeCorrect`, `WantedIsKept`, `RecordsAreInTime`,
`LostOnlyAfterSecondChance`; and of every step, `RecordsAreFinal`: no copy comes after the exchange. One message is on its way, and it is about the packet made last (`ExchangeInv`), which is
the youngest in the storage (`NewestInv`), so that it is kept even in a storage of one; `RecordInv` says how often
the edge has received each packet, and that a record is marked exactly while its copy is awaited. `ExchangeEnds`:
exactly one of the two sides has a message to read, and four messages are the most until the exchange is over.

**EdgeCloud** (any clients and packets). `TypeCorrect`, `SamplesComeInOrder` and, as a property of steps,
`CrossedForEver`: once the two programs wait for each other, nothing in either of them ends it. `IInv` orders the
numbers: what is recorded, what the cloud works on, what waits for it, and the latest number. `OnlyCrossingBlocks`: while a client waits for its
answer, or a batch for its sample, one of the programs can go on, unless they have crossed or one has stopped;
`OnlyStopsLoseBatches`: while both programs run the latest batch is under way or back, crossed or not (`KeptInv`), and no
step loses a batch that is, but for the one that waits in the socket of a program that stops (`LostInStop`).

**LBPrototype** (any clients, workers and identities): `AnsweredForOthers`, and `BrokerComesNearer`: while the lucky
client waits and no answer is there, the broker has something to read, and each of its steps answers or leaves fewer
workers or less of the loop before the next answer (`LoopInv`). Both are statements about what the code does instead of
what its comment says; the run of the module is the violated `prototype_worker`. **CpuUsage** (numbers of any
width, any run of the counters): `BothMeasureUsage`, from lemmas on remainders: sums of remainders have the
remainder of the sum, and between two multiples of 2^W remainders are as far apart as the numbers. That 2^W is a
positive number is its hypothesis; the provers do not know powers. It is proved for both builds, and on the one that
saturates as long as no counter has.

**Only model-checked.** Liveness itself: `SubmittedIsExecuted`, `ShutdownReturnsUnlessAsleep`,
`OrdinarySessionsEnd`, `RequestIsServed`, `SessionEnds`, `SilentBrokerIsLeft`, `AddressIsTaken`, `PacketIsSettled`,
`ClientIsAnswered`, `SampleComesBack`. It needs fairness, and so ENABLED, which the prover does not
handle. From the theorems above to these properties it takes two things: that the guards in them are those
of the actions (TLC agrees on the instances that they are ENABLED), and induction on the measures.
No measure is proved for `SubmittedIsExecuted`, `RequestIsServed`, `SessionEnds`, `AddressIsTaken` and the two of `EdgeCloud`:
other tasks, heartbeats, further clients and timers give the loops more to do in between, and who is served first is fairness again.
That 2^t doubles with t, and is positive, is induction over numbers and is not proved either.
The three violations are TLC's.

## 6. What is not modelled

* Functions that never return, in `ThreadPool` itself: what a transfer that hangs does to the pool is in
  `LBSession` (`Exhausted`).
* Peers that go away within the messages of a file: `LBSession` has them go away between the requests of a
  session, each of one message, and `TaskSync` has the messages of peers that stay.
* Two calls of `zmq_send` on one socket at the very same instant (undefined by ZeroMQ); only whole
  calls interleave.
* Equal identities of two workers started in the same second (`srand(time(NULL))`).
* The destructors of `LBWorker` and `LBBroker` with threads that can still be joined, which end the process.
* The constant task id in the transfer: `TaskSync` counts what a stored file holds by source, so its properties
  hold although two tasks append to the same files; that they do follows from `synchronous.h:24` alone.
  On the client's side `TaskIntake` has it: a second intake may truncate what `ClientSyn` is sending. `SentIsOneTask`
  excludes that by its condition (`overlap`), since a comment is all that says otherwise (`synchronous.h:14`).
* Heartbeats at regular intervals (`lbworker.h:55`): after each answer the next poll times out before the
  heartbeat is due and is followed by a sleep, so they are up to two intervals apart. `HBRoutine` shows it
  in any trace; no property asks for it.
* `discovery.h`, `rpc/`, `hiredis-helper.h`, `file-mesg-try.cc`, `file-total.cc`, `cpu-moni.cc`: they do not
  compile, for want of types, functions or variables they use. `file-transfer.cc` in `file-try` sends on a socket
  it never makes.
* `zhelpers.hpp` is vendored from the ZeroMQ guide, `luts.h` is generated tables, `thread-pool-class.h` is a
  copy of the pool that nothing includes, `mem-moni.h` is one call of `sysinfo`.
* The rest of `file-try`, `c-s-try`, `time-zone` and `src/test`: trials of one library call each. The code that is
  commented out in `lbclient.h`, `lbworker.h` and the prototypes (it has moved to `synchronous.h`, or was never
  finished).

## 7. Plan

Done: every component that compiles and has a state of its own is modelled, with its runs; every invariant and
both refinements are proved, and of the liveness properties what does not need fairness.

What could come next:

1. Measures for `AddressIsTaken` and the two properties of `EdgeCloud`, under the assumption that the other clients
   are quiet.
2. A measure for the pool of `SessionNeverStuck`: it says that a thread of the pool goes on, not that the queue in
   front of the address gets shorter.
3. Peers that go away within the messages of a file (section 6), which would join `TaskSync` to `LBSession`.
