------------------------------ MODULE TaskPool ------------------------------
(***************************************************************************)
(* What a thread pool promises its user (thread-pool.h): tasks are started *)
(* in the order they were submitted, each at most once, at most one at a   *)
(* time by each slot; once the pool is closing no task is accepted and a   *)
(* slot starts at most one more; when it is closed nothing runs.           *)
(* The module says nothing of locks, condition variables or wakeups, and   *)
(* deliberately does not promise that a pending task is ever started.      *)
(***************************************************************************)
EXTENDS Sequences, FiniteSets

CONSTANTS Slots,    \* the threads of the pool
          Tasks,    \* the functions given to submit
          NoTask    \* the content of an idle slot

VARIABLES pending,  \* submitted and not started, in submission order
          slot,     \* the task each slot is executing, or NoTask
          done,     \* the tasks that have been executed
          phase,    \* "open", "closing" or "closed"
          late      \* the slots that started a task while closing

vars == <<pending, slot, done, phase, late>>

Phases == {"open", "closing", "closed"}

Init ==
  /\ pending = <<>>
  /\ slot = [s \in Slots |-> NoTask]
  /\ done = {}
  /\ phase = "open"
  /\ late = {}

Known == {pending[i] : i \in DOMAIN pending} \cup {slot[s] : s \in Slots} \cup done

Submit(t) ==
  /\ phase = "open"
  /\ t \notin Known
  /\ pending' = Append(pending, t)
  /\ UNCHANGED <<slot, done, phase, late>>

Start(s) ==
  /\ phase = "open" \/ (phase = "closing" /\ s \notin late)
  /\ pending # <<>>
  /\ slot[s] = NoTask
  /\ slot' = [slot EXCEPT ![s] = Head(pending)]
  /\ pending' = Tail(pending)
  /\ late' = IF phase = "open" THEN late ELSE late \cup {s}
  /\ UNCHANGED <<done, phase>>

Finish(s) ==
  /\ slot[s] # NoTask
  /\ done' = done \cup {slot[s]}
  /\ slot' = [slot EXCEPT ![s] = NoTask]
  /\ UNCHANGED <<pending, phase, late>>

Close ==
  /\ phase = "open"
  /\ phase' = "closing"
  /\ UNCHANGED <<pending, slot, done, late>>

Closed ==
  /\ phase = "closing"
  /\ \A s \in Slots : slot[s] = NoTask
  /\ phase' = "closed"
  /\ UNCHANGED <<pending, slot, done, late>>

Next ==
  \/ \E t \in Tasks : Submit(t)
  \/ \E s \in Slots : Start(s) \/ Finish(s)
  \/ Close
  \/ Closed

Spec == Init /\ [][Next]_vars
=============================================================================
