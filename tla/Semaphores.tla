------------------------------ MODULE Semaphores ------------------------------
(***************************************************************************)
(* One semaphore of Kernel/ipc/semaphores.c and the tasks that use it      *)
(* through sys_sem_wait and sys_sem_sig (Kernel/syscalls.c).  The calls run *)
(* with interrupts disabled, except that task_pause and task_sleep give    *)
(* the CPU away in the middle: the rest of wait_sem is the action Enqueue, *)
(* taken when the caller runs again.  The scheduler is abstracted to "any  *)
(* task that is RUNNING may act" (Tasks.tla has it in full), the message   *)
(* queue to the sequence of BoundedFifo.tla that it implements when nobody *)
(* calls undo.                                                             *)
(***************************************************************************)
EXTENDS Integers, Sequences, FiniteSets

CONSTANTS
  Tasks,       \* the tasks, by pid; none of them ends
  NoTask,
  Blocks,      \* Blocks[t]: the pids t passes to sys_sem_wait
  Signallers,  \* the tasks that call sys_sem_sig
  Woken,       \* the tasks that something else readies too: Enter, a system call
  Initial,     \* the value the semaphore is created with
  MaxQueue,    \* the capacity create_sem gives the queue: 256
  MaxEntries,  \* bound: the entries in the queue and on their way to it
  MaxValue     \* bound: the value

ASSUME SemaphoresAssumption ==
  /\ NoTask \notin Tasks /\ IsFiniteSet(Tasks)
  /\ Blocks \in [Tasks -> SUBSET Tasks]
  /\ Signallers \subseteq Tasks /\ Woken \subseteq Tasks
  /\ MaxQueue \in Nat /\ MaxEntries \in Nat
  /\ MaxValue \in Nat /\ Initial \in 0 .. MaxValue

VARIABLES
  value,    \* sem->value
  queue,    \* sem->queue: the pids of the copies of task_t in it
  state,    \* task->state
  pending,  \* the task t is to enqueue when it runs again inside wait_sem
  dropped   \* history: the paused tasks whose last entry found the queue full

vars == <<value, queue, state, pending, dropped>>

Init ==
  /\ value = Initial
  /\ queue = <<>>
  /\ state = [t \in Tasks |-> "RUNNING"]
  /\ pending = [t \in Tasks |-> NoTask]
  /\ dropped = {}

-----------------------------------------------------------------------------
\* t executes its program: it has the CPU and is not inside wait_sem.
Runs(t) == state[t] = "RUNNING" /\ pending[t] = NoTask

OnTheirWay == {t \in Tasks : pending[t] # NoTask}

\* Mutant of Take: the value is not looked at.
TakeAlways(t) ==
  /\ Runs(t)
  /\ value > -2
  /\ value' = value - 1
  /\ UNCHANGED <<queue, state, pending, dropped>>

\* wait_sem, wait_cond and wait_time when the value is not 0.
Take(t) ==
  /\ Runs(t)
  /\ value # 0
  /\ value' = value - 1
  /\ UNCHANGED <<queue, state, pending, dropped>>

\* wait_sem(who) when the value is 0: task_pause(who) gives the CPU away before
\* who is in the queue.
Pause(t, who) ==
  /\ Runs(t)
  /\ value = 0
  /\ Len(queue) + Cardinality(OnTheirWay) < MaxEntries
  /\ state' = [state EXCEPT ![who] = "PAUSED"]
  /\ pending' = [pending EXCEPT ![t] = who]
  /\ dropped' = dropped \ {who}
  /\ UNCHANGED <<value, queue>>

\* The entry t is to add, if somebody waits for it and the queue has no room.
NoRoomFor(t) ==
  {who \in {pending[t]} : Len(queue) >= MaxQueue /\ state[who] = "PAUSED"}

\* Mutant of Enqueue: the caller is put in the queue.
EnqueueCaller(t) ==
  /\ state[t] = "RUNNING"
  /\ pending[t] # NoTask
  /\ queue' = IF Len(queue) < MaxQueue THEN Append(queue, t) ELSE queue
  /\ pending' = [pending EXCEPT ![t] = NoTask]
  /\ dropped' = dropped \union NoRoomFor(t)
  /\ UNCHANGED <<value, state>>

\* wait_sem after the reschedule; a full queue drops the entry.
Enqueue(t) ==
  /\ state[t] = "RUNNING"
  /\ pending[t] # NoTask
  /\ queue' = IF Len(queue) < MaxQueue THEN Append(queue, pending[t]) ELSE queue
  /\ pending' = [pending EXCEPT ![t] = NoTask]
  /\ dropped' = dropped \union NoRoomFor(t)
  /\ UNCHANGED <<value, state>>

\* wait_time(who) when the value is 0: who sleeps, and is never queued.
Sleep(t, who) ==
  /\ Runs(t)
  /\ value = 0
  /\ state' = [state EXCEPT ![who] = "SLEEPING"]
  /\ dropped' = dropped \ {who}
  /\ UNCHANGED <<value, queue, pending>>

\* Mutant of Signal: a value that is not 0 grows, whoever waits.
SignalValueFirst(t) ==
  /\ Runs(t)
  /\ IF queue # <<>> /\ value = 0
     THEN /\ state' = [state EXCEPT ![Head(queue)] = "RUNNING"]
          /\ queue' = Tail(queue)
          /\ dropped' = dropped \ {Head(queue)}
          /\ UNCHANGED value
     ELSE /\ value < MaxValue
          /\ value' = value + 1
          /\ UNCHANGED <<queue, state, dropped>>
  /\ UNCHANGED pending

\* signal_sem: the oldest entry is readied, in whatever state the task is.
Signal(t) ==
  /\ Runs(t)
  /\ IF queue # <<>>
     THEN /\ state' = [state EXCEPT ![Head(queue)] = "RUNNING"]
          /\ queue' = Tail(queue)
          /\ dropped' = dropped \ {Head(queue)}
          /\ UNCHANGED value
     ELSE /\ value < MaxValue
          /\ value' = value + 1
          /\ UNCHANGED <<queue, state, dropped>>
  /\ UNCHANGED pending

\* The sleep of wait_time is over.
SleepOver(t) ==
  /\ state[t] = "SLEEPING"
  /\ state' = [state EXCEPT ![t] = "RUNNING"]
  /\ UNCHANGED <<value, queue, pending, dropped>>

\* input_add or sys_task_ready ready a paused task.
WakeUp(t) ==
  /\ t \in Woken
  /\ state[t] = "PAUSED"
  /\ state' = [state EXCEPT ![t] = "RUNNING"]
  /\ dropped' = dropped \ {t}
  /\ UNCHANGED <<value, queue, pending>>

Next ==
  \E t \in Tasks :
    \/ Take(t) \/ Enqueue(t) \/ SleepOver(t) \/ WakeUp(t)
    \/ t \in Signallers /\ Signal(t)
    \/ \E who \in Blocks[t] : Pause(t, who) \/ Sleep(t, who)

Spec == Init /\ [][Next]_vars

(* The scheduler runs a caller that is ready again, and the semaphore keeps *)
(* being signalled by those who may do so again and again.                  *)
Fairness ==
  /\ \A t \in Tasks : WF_vars(Enqueue(t))
  /\ SF_vars(\E t \in Signallers : Signal(t))

FairSpec == Spec /\ Fairness

-----------------------------------------------------------------------------
\* The value is never taken below 0 (it is a uint32_t and would wrap), the
\* queue keeps to its capacity, and only tasks are named.
TypeOK ==
  /\ value \in 0 .. MaxValue
  /\ queue \in Seq(Tasks) /\ Len(queue) <= MaxQueue
  /\ state \in [Tasks -> {"RUNNING", "PAUSED", "SLEEPING"}]
  /\ pending \in [Tasks -> Tasks \union {NoTask}]
  /\ dropped \subseteq Tasks

\* The tasks that no signal reaches, although the help of semsig says that it
\* unblocks the next task: one that waits for itself, which can only put itself
\* into the queue when something else has readied it, and one whose entry a full
\* queue dropped.
OutOfReach(t) == pending[t] = t \/ t \in dropped

\* No other paused task is forgotten: it is in the queue, or the call of another
\* task that paused it has still to put it there (when that task runs again, of
\* which the same is asked).
PausedIsAccounted ==
  \A t \in Tasks :
    state[t] = "PAUSED" /\ ~OutOfReach(t) =>
      \/ \E i \in DOMAIN queue : queue[i] = t
      \/ \E c \in Tasks \ {t} : pending[c] = t

\* Signals go to those that wait, in order: while a task is paused and has an
\* entry in the queue, no signal is kept in the value, and each brings the entry
\* one nearer to the head, until one readies the task; nobody else's waiting,
\* sleeping or waking moves it.
SignalsInOrder ==
  [][\A t \in Tasks, i \in DOMAIN queue :
       queue[i] = t /\ state[t] = "PAUSED" /\ state'[t] = "PAUSED" =>
         \/ queue' = Tail(queue) /\ i > 1 /\ value' = value
         \/ i \in DOMAIN queue' /\ queue'[i] = t /\ value' <= value]_vars

\* The bound on the entries, which the guard of Pause keeps.
Room == Len(queue) + Cardinality(OnTheirWay) <= MaxEntries

\* A task that is paused while it has an entry in the queue is readied if the
\* semaphore keeps being signalled, whoever paused it.
QueuedReleased ==
  \A t \in Tasks :
    (state[t] = "PAUSED" /\ \E i \in DOMAIN queue : queue[i] = t)
      ~> state[t] # "PAUSED"

=============================================================================
