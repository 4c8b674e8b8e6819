-------------------------------- MODULE Tasks --------------------------------
(***************************************************************************)
(* The task list, the round-robin scheduler and the life of a command of   *)
(* UnicOS (Kernel/task.c, Kernel/scheduler.c, the timer interrupt and      *)
(* reschedule of Kernel/loader.asm, the task system calls of               *)
(* Kernel/syscalls.c and the command loop of the shell).                   *)
(*                                                                         *)
(* There is one CPU.  A system call runs with interrupts disabled, so an   *)
(* action is one system call up to the point where it calls reschedule();  *)
(* what the call does after reschedule() is an action of its own, taken    *)
(* when the task is current again (pc).  The timer may interrupt between   *)
(* any two actions.  The keyboard task runs in the kernel with interrupts  *)
(* enabled, so it too can lose the CPU: between finding the task in the    *)
(* foreground and readying it (target).                                    *)
(***************************************************************************)
EXTENDS Integers, Sequences

CONSTANTS
  NConsoles,  \* VIRTUAL_CONSOLES
  Shell,      \* Shell[c] is the init_shell of console c: the array consoles[]
  Kbd,        \* the keyboard task
  NullTask,   \* null_task
  Programs,   \* the task_t structures available for the commands the shells run
  NoTask,     \* the NULL pointer
  Killable,   \* the tasks SIGKILL is sent to
  Waitable,   \* the tasks a command waits for at a semaphore, by their pid
  Quantum,    \* QUANTUM, in timer interrupts
  MaxSleep,   \* bound: the longest sleep requested, in timer interrupts
  MaxAtomic   \* bound: the deepest nesting of atomic sections

Consoles == 0 .. NConsoles - 1
Shells   == {Shell[c] : c \in Consoles}
TaskSet  == {Kbd, NullTask} \union Shells \union Programs

ASSUME TasksAssumption ==
  /\ NConsoles \in Nat \ {0}
  /\ Shell \in [Consoles -> Shells]
  /\ \A c, d \in Consoles : Shell[c] = Shell[d] => c = d
  /\ Kbd # NullTask
  /\ Shells \intersect (Programs \union {Kbd, NullTask}) = {}
  /\ Programs \intersect {Kbd, NullTask} = {}
  /\ NoTask \notin TaskSet
  /\ Killable \subseteq TaskSet
  /\ Waitable \subseteq TaskSet
  /\ Quantum \in Nat
  /\ MaxSleep \in Nat
  /\ MaxAtomic \in Nat

VARIABLES
  ring,        \* the circular list from last->next to last
  current,     \* the task that has the CPU
  quantum,     \* current->quantum: timer interrupts before it is preempted
  state,       \* task->state
  join,        \* task->join: the task to wake when this one ends
  atomic,      \* task->atomic_level
  left,        \* timer interrupts until get_ms_since_boot() > task->sleep_limit
  console,     \* task->console
  foreground,  \* foreground[]: the task each console sends a line to
  pc,          \* where each task is in its program
  child,       \* the shell's taskpid: the command it is running
  target       \* foreground_task in input_add: the task about to be readied

vars == <<ring, current, quantum, state, join, atomic, left, console,
          foreground, pc, child, target>>

States   == {"PAUSED", "RUNNING", "SLEEPING", "JOINING", "ZOMBIE"}
ShellPCs == {"prompt", "reading", "command", "created", "readied", "joining"}

PCs      == ShellPCs \union {"run", "exited", "entered"}

InRing(t) == \E i \in DOMAIN ring : ring[i] = t

-----------------------------------------------------------------------------
\* main() and the first timer interrupt: keyboard_init created the keyboard
\* task, task_init the shells and last of all null_task, which the scan that
\* starts at `last` finds running.
Init ==
  /\ ring = [i \in 1 .. NConsoles + 2 |->
               IF i = 1 THEN Kbd
               ELSE IF i = NConsoles + 2 THEN NullTask ELSE Shell[i - 2]]
  /\ current = NullTask
  /\ quantum = Quantum
  /\ state = [t \in TaskSet |-> IF t \in Programs THEN "PAUSED" ELSE "RUNNING"]
  /\ join = [t \in TaskSet |-> NoTask]
  /\ atomic = [t \in TaskSet |-> 0]
  /\ left = [t \in TaskSet |-> 0]
  /\ console = [t \in TaskSet |->
                  IF t \in Shells THEN CHOOSE c \in Consoles : Shell[c] = t ELSE 0]
  /\ foreground = Shell
  /\ pc = [t \in TaskSet |-> IF t \in Shells THEN "prompt" ELSE "run"]
  /\ child = [s \in Shells |-> NoTask]
  /\ target = NoTask

-----------------------------------------------------------------------------
(* The scheduler *)

\* The position k places after position i of the circular list.
After(i, k) == IF i + k <= Len(ring) THEN i + k ELSE i + k - Len(ring)

\* Mutant of Switch: every scan starts at the head of the list.
SwitchFromHead(st, lf) ==
  \E k \in DOMAIN ring :
    /\ st[ring[k]] = "RUNNING"
    /\ \A j \in 1 .. k - 1 : st[ring[j]] # "RUNNING"
    /\ current' = ring[k]
    /\ state' = [t \in TaskSet |->
                   IF /\ st[t] = "SLEEPING" /\ lf[t] = 0
                      /\ \E j \in 1 .. k - 1 : ring[j] = t
                   THEN "RUNNING" ELSE st[t]]
    /\ quantum' = Quantum

\* Mutant of Switch: the scan does not look at the limit of the sleepers.
SwitchBlind(st, lf) ==
  \E i, k \in DOMAIN ring :
    LET Scanned(j) == ring[After(i, j)]
        Stop(j)    == st[Scanned(j)] = "RUNNING" \/ Scanned(j) = current
    IN /\ ring[i] = current
       /\ Stop(k)
       /\ \A j \in 1 .. k - 1 : ~Stop(j)
       /\ current' = IF Scanned(k) = current THEN NullTask ELSE Scanned(k)
       /\ state' = st
       /\ quantum' = Quantum

\* scheduler_u2k, task_next, scheduler_k2u: give the CPU to the first running
\* task after the current one.  A sleeper that is due is readied when the scan
\* meets it, and passed over this time; a scan that comes back to the current
\* task gives the CPU to null_task.  st and lf are the states and the sleeping
\* times the caller leaves behind.
Switch(st, lf) ==
  \E i, k \in DOMAIN ring :
    LET Scanned(j) == ring[After(i, j)]
        Stop(j)    == st[Scanned(j)] = "RUNNING" \/ Scanned(j) = current
    IN /\ ring[i] = current
       /\ Stop(k)
       /\ \A j \in 1 .. k - 1 : ~Stop(j)
       /\ current' = IF Scanned(k) = current THEN NullTask ELSE Scanned(k)
       /\ state' = [t \in TaskSet |->
                      IF /\ st[t] = "SLEEPING" /\ lf[t] = 0
                         /\ \E j \in 1 .. k - 1 : Scanned(j) = t
                      THEN "RUNNING" ELSE st[t]]
       /\ quantum' = Quantum

\* The clock moves one timer interrupt.
Elapse(lf) == [t \in TaskSet |-> IF lf[t] > 0 THEN lf[t] - 1 ELSE 0]

\* pit_handler while the current task is in an atomic section.
TickAtomic ==
  /\ atomic[current] > 0
  /\ left' = Elapse(left)
  /\ UNCHANGED <<ring, current, quantum, state, join, atomic, console,
                 foreground, pc, child, target>>

\* pit_handler while the current task has quantum left.
TickQuantum ==
  /\ atomic[current] = 0
  /\ quantum > 0
  /\ quantum' = quantum - 1
  /\ left' = Elapse(left)
  /\ UNCHANGED <<ring, current, state, join, atomic, console, foreground, pc,
                 child, target>>

\* Mutant of TickSwitch: the atomic level is not looked at.
TickSwitchAlways ==
  /\ quantum = 0
  /\ left' = Elapse(left)
  /\ Switch(state, left')
  /\ UNCHANGED <<ring, join, atomic, console, foreground, pc, child, target>>

\* pit_handler when the quantum is used up.
TickSwitch ==
  /\ atomic[current] = 0
  /\ quantum = 0
  /\ left' = Elapse(left)
  /\ Switch(state, left')
  /\ UNCHANGED <<ring, join, atomic, console, foreground, pc, child, target>>

-----------------------------------------------------------------------------
(* Operations of task.c that the system calls are built from *)

\* Mutant of WakeJoiner: the joiner is forgotten without being readied.
WakeNobody(st, t) == st

\* "if (task->join != NULL) task_ready(task->join)", over the states st.
WakeJoiner(st, t) ==
  IF join[t] = NoTask THEN st ELSE [st EXCEPT ![join[t]] = "RUNNING"]

\* Mutant of WithoutPos: the predecessor is linked over the successor too.
WithoutNext(s, i) ==
  [j \in 1 .. Len(s) - 1 |-> IF j < i \/ i = Len(s) THEN s[j]
                             ELSE IF j + 2 <= Len(s) THEN s[j + 2] ELSE s[1]]

\* The list without the task at position i: task_remove's unlinking.
WithoutPos(s, i) == [j \in 1 .. Len(s) - 1 |-> IF j < i THEN s[j] ELSE s[j + 1]]

\* Mutant of TaskCreate: the console of the new task is left at 0.
TaskCreateNoConsole(p, cons) ==
  /\ ring' = Append(ring, p)
  /\ state' = [state EXCEPT ![p] = "PAUSED"]
  /\ join' = [join EXCEPT ![p] = NoTask]
  /\ atomic' = [atomic EXCEPT ![p] = 0]
  /\ console' = [console EXCEPT ![p] = 0]
  /\ foreground' = [foreground EXCEPT ![cons] = p]

\* Mutant of TaskCreate: the new task takes the focus of console 0.
TaskCreateFirstFocus(p, cons) ==
  /\ ring' = Append(ring, p)
  /\ state' = [state EXCEPT ![p] = "PAUSED"]
  /\ join' = [join EXCEPT ![p] = NoTask]
  /\ atomic' = [atomic EXCEPT ![p] = 0]
  /\ console' = [console EXCEPT ![p] = cons]
  /\ foreground' = [foreground EXCEPT ![0] = p]

\* task_create (as sys_task_create calls it, for a foreground task of cons):
\* a fresh paused task at the end of the list.
TaskCreate(p, cons) ==
  /\ ring' = Append(ring, p)
  /\ state' = [state EXCEPT ![p] = "PAUSED"]
  /\ join' = [join EXCEPT ![p] = NoTask]
  /\ atomic' = [atomic EXCEPT ![p] = 0]
  /\ console' = [console EXCEPT ![p] = cons]
  /\ foreground' = [foreground EXCEPT ![cons] = p]

\* Mutant of TaskRemove: the focus of the removed task is not given back.
TaskRemoveKeepFocus(p) ==
  /\ \E i \in DOMAIN ring : ring[i] = p /\ ring' = WithoutPos(ring, i)
  /\ state' = [WakeJoiner(state, p) EXCEPT ![p] = "PAUSED"]
  /\ join' = [join EXCEPT ![p] = NoTask]
  /\ foreground' = foreground
  /\ atomic' = [atomic EXCEPT ![p] = 0]
  /\ left' = [left EXCEPT ![p] = 0]
  /\ console' = [console EXCEPT ![p] = 0]

\* task_remove: wake the joiner, give the focus back, unlink.  The structure is
\* freed, so what it held is reset to what a structure not in use holds.  The
\* pointer of a keyboard task that was preempted in input_add is left alone.
TaskRemove(p) ==
  /\ \E i \in DOMAIN ring : ring[i] = p /\ ring' = WithoutPos(ring, i)
  /\ state' = [WakeJoiner(state, p) EXCEPT ![p] = "PAUSED"]
  /\ join' = [join EXCEPT ![p] = NoTask]
  /\ foreground' = IF foreground[console[p]] = p
                   THEN [foreground EXCEPT ![console[p]] = Shell[console[p]]]
                   ELSE foreground
  /\ atomic' = [atomic EXCEPT ![p] = 0]
  /\ left' = [left EXCEPT ![p] = 0]
  /\ console' = [console EXCEPT ![p] = 0]

-----------------------------------------------------------------------------
(* The shell of console c *)

\* scanf, sys_read(stdin): task_pause, whatever has been typed already.
ShellRead(c) ==
  LET s == Shell[c] IN
  /\ current = s /\ pc[s] = "prompt"
  /\ pc' = [pc EXCEPT ![s] = "reading"]
  /\ Switch([state EXCEPT ![s] = "PAUSED"], left)
  /\ UNCHANGED <<ring, join, atomic, left, console, foreground, child, target>>

\* sys_read returns a line: a command of the list, or nothing to run.
ShellLine(c) ==
  LET s == Shell[c] IN
  /\ current = s /\ pc[s] = "reading"
  /\ \E next \in {"command", "prompt"} : pc' = [pc EXCEPT ![s] = next]
  /\ UNCHANGED <<ring, current, quantum, state, join, atomic, left, console,
                 foreground, child, target>>

\* sys_task_create(func, TASK_FOREGROUND, ...).  The kernel's heap never gives
\* freed memory out again, so the new structure is none that the keyboard task
\* still points to.
ShellCreate(c, p) ==
  LET s == Shell[c] IN
  /\ current = s /\ pc[s] = "command"
  /\ ~InRing(p) /\ p # target
  /\ TaskCreate(p, console[s])
  /\ child' = [child EXCEPT ![s] = p]
  /\ pc' = [pc EXCEPT ![s] = "created", ![p] = "run"]
  /\ UNCHANGED <<current, quantum, left, target>>

\* sys_task_ready(taskpid): whatever state the task is in by now.
ShellReady(c) ==
  LET s == Shell[c] IN
  /\ current = s /\ pc[s] = "created"
  /\ state' = [state EXCEPT ![child[s]] = "RUNNING"]
  /\ pc' = [pc EXCEPT ![s] = "readied"]
  /\ UNCHANGED <<ring, current, quantum, join, atomic, left, console,
                 foreground, child, target>>

\* sys_task_join(taskpid, shellpid), up to the reschedule.  Only this shell
\* removes its command, so task_find_by_pid finds it (ChildInRing).
ShellJoin(c) ==
  LET s == Shell[c] IN
  /\ current = s /\ pc[s] = "readied"
  /\ join' = [join EXCEPT ![child[s]] = s]
  /\ pc' = [pc EXCEPT ![s] = "joining"]
  /\ Switch([state EXCEPT ![s] = "JOINING"], left)
  /\ UNCHANGED <<ring, atomic, left, console, foreground, child, target>>

\* task_join after the reschedule: take the return value, remove the task.
ShellReap(c) ==
  LET s == Shell[c] IN
  /\ current = s /\ pc[s] = "joining"
  /\ TaskRemove(child[s])
  /\ pc' = [pc EXCEPT ![s] = "prompt", ![child[s]] = "run"]
  /\ child' = [child EXCEPT ![s] = NoTask]
  /\ UNCHANGED <<current, quantum, target>>

ShellStep(c) ==
  \/ ShellRead(c) \/ ShellLine(c) \/ ShellReady(c) \/ ShellJoin(c) \/ ShellReap(c)
  \/ \E p \in Programs : ShellCreate(c, p)

-----------------------------------------------------------------------------
(* A command, the program p *)

\* sys_read(stdin): task_pause.
Read(p) ==
  /\ current = p
  /\ Switch([state EXCEPT ![p] = "PAUSED"], left)
  /\ UNCHANGED <<ring, join, atomic, left, console, foreground, pc, child, target>>

\* sys_sleep; sys_task_yield is a sleep of 0.  The limit has to be exceeded,
\* hence one timer interrupt more than asked for.
Sleep(p, d) ==
  /\ current = p
  /\ left' = [left EXCEPT ![p] = d + 1]
  /\ Switch([state EXCEPT ![p] = "SLEEPING"], left')
  /\ UNCHANGED <<ring, join, atomic, console, foreground, pc, child, target>>

\* sys_atomic
Atomic(p) ==
  /\ current = p
  /\ atomic[p] < MaxAtomic
  /\ atomic' = [atomic EXCEPT ![p] = @ + 1]
  /\ UNCHANGED <<ring, current, quantum, state, join, left, console,
                 foreground, pc, child, target>>

\* Mutant of Unatomic: a program leaves a section it is not in.
UnatomicUnguarded(p) ==
  /\ current = p
  /\ atomic[p] > -2
  /\ atomic' = [atomic EXCEPT ![p] = @ - 1]
  /\ UNCHANGED <<ring, current, quantum, state, join, left, console,
                 foreground, pc, child, target>>

\* sys_unatomic
Unatomic(p) ==
  /\ current = p
  /\ atomic[p] > 0
  /\ atomic' = [atomic EXCEPT ![p] = @ - 1]
  /\ UNCHANGED <<ring, current, quantum, state, join, left, console,
                 foreground, pc, child, target>>

\* sys_signal_kill(t, SIGKILL): task_schedule_removal.  The target may be any
\* task of the list, the caller included, which then goes on until it blocks.
Kill(p, t) ==
  /\ current = p
  /\ InRing(t)
  /\ state' = WakeJoiner([state EXCEPT ![t] = "ZOMBIE"], t)
  /\ join' = [join EXCEPT ![t] = NoTask]
  /\ UNCHANGED <<ring, current, quantum, atomic, left, console, foreground, pc,
                 child, target>>

\* The program returns into wrapper: wake the joiner, become a zombie, give
\* the focus to the shell of the console, reschedule.
Exit(p) ==
  /\ current = p
  /\ Switch([WakeJoiner(state, p) EXCEPT ![p] = "ZOMBIE"], left)
  /\ join' = [join EXCEPT ![p] = NoTask]
  /\ foreground' = [foreground EXCEPT ![console[p]] = Shell[console[p]]]
  /\ pc' = [pc EXCEPT ![p] = "exited"]
  /\ UNCHANGED <<ring, atomic, left, console, child, target>>

\* wait_sem with the pid of t at a semaphore of value 0: task_pause(t), which
\* gives the CPU of the caller away, whoever t is.
SemWait(p, t) ==
  /\ current = p
  /\ InRing(t)
  /\ Switch([state EXCEPT ![t] = "PAUSED"], left)
  /\ UNCHANGED <<ring, join, atomic, left, console, foreground, pc, child, target>>

\* wait_time with the pid of t at a semaphore of value 0: task_sleep(t, d).
SemWaitFor(p, t, d) ==
  /\ current = p
  /\ InRing(t)
  /\ left' = [left EXCEPT ![t] = d + 1]
  /\ Switch([state EXCEPT ![t] = "SLEEPING"], left')
  /\ UNCHANGED <<ring, join, atomic, console, foreground, pc, child, target>>

\* signal_sem: task_ready of a task that was queued, whatever state it is in by
\* now.
SemSignal(p, t) ==
  /\ current = p
  /\ InRing(t)
  /\ state' = [state EXCEPT ![t] = "RUNNING"]
  /\ UNCHANGED <<ring, current, quantum, join, atomic, left, console, foreground,
                 pc, child, target>>

ProgramStep(p) ==
  \/ Read(p) \/ Atomic(p) \/ Unatomic(p) \/ Exit(p)
  \/ \E d \in 0 .. MaxSleep : Sleep(p, d)
  \/ \E t \in Killable : Kill(p, t)
  \/ \E t \in Waitable : SemWait(p, t) \/ SemSignal(p, t)
  \/ \E t \in Waitable, d \in 0 .. MaxSleep : SemWaitFor(p, t, d)

-----------------------------------------------------------------------------
\* keyboard_task, input_add: Enter is typed on console c; the task in the
\* foreground there is found, to be readied.
Newline(c) ==
  /\ current = Kbd /\ pc[Kbd] = "run"
  /\ target' = foreground[c]
  /\ pc' = [pc EXCEPT ![Kbd] = "entered"]
  /\ UNCHANGED <<ring, current, quantum, state, join, atomic, left, console,
                 foreground, child>>

\* input_add's task_ready(foreground_task): whatever state it is in by now, and
\* also when it has been removed and freed meanwhile.
NewlineReady ==
  /\ current = Kbd /\ pc[Kbd] = "entered"
  /\ state' = [state EXCEPT ![target] = "RUNNING"]
  /\ target' = NoTask
  /\ pc' = [pc EXCEPT ![Kbd] = "run"]
  /\ UNCHANGED <<ring, current, quantum, join, atomic, left, console,
                 foreground, child>>

Next ==
  \/ TickAtomic \/ TickQuantum \/ TickSwitch \/ NewlineReady
  \/ \E c \in Consoles : ShellStep(c) \/ Newline(c)
  \/ \E p \in Programs : ProgramStep(p)

Spec == Init /\ [][Next]_vars

(* Fairness: the timer is free running, so it also interrupts outside the   *)
(* atomic sections (which the programs leave again), and a shell that has   *)
(* the CPU again and again executes.                                        *)
Fairness ==
  /\ SF_vars(TickQuantum \/ TickSwitch)
  /\ \A p \in Programs : WF_vars(Unatomic(p))
  /\ \A c \in Consoles : SF_vars(ShellStep(c))

FairSpec == Spec /\ Fairness

-----------------------------------------------------------------------------
\* Every variable has its type.
TypeOK ==
  /\ ring \in Seq(TaskSet)
  /\ current \in TaskSet
  /\ quantum \in 0 .. Quantum
  /\ state \in [TaskSet -> States]
  /\ join \in [TaskSet -> Shells \union {NoTask}]
  /\ atomic \in [TaskSet -> 0 .. MaxAtomic]
  /\ left \in [TaskSet -> 0 .. MaxSleep + 1]
  /\ console \in [TaskSet -> Consoles]
  /\ foreground \in [Consoles -> TaskSet]
  /\ pc \in [TaskSet -> PCs]
  /\ child \in [Shells -> Programs \union {NoTask}]
  /\ target \in TaskSet \union {NoTask}

\* Every pointer to a task that the kernel keeps leads to a task of the list:
\* current (scanned from at every switch), the foreground of each console
\* (found by Enter), the task each task wakes (readied by its end) and the task
\* each shell is to remove.  The foreground task of a console belongs to that
\* console, which is what lets task_remove find and replace it.  The copy that
\* input_add holds from one instruction to the next (target) is not among them:
\* it may lead to a task that has been freed.
NoDanglingTask ==
  /\ InRing(current)
  /\ \A c \in Consoles : InRing(foreground[c]) /\ console[foreground[c]] = c
  /\ \A t \in TaskSet : join[t] # NoTask => InRing(t) /\ InRing(join[t])
  /\ \A s \in Shells : child[s] # NoTask => InRing(child[s])

\* A shell put to sleep by task_join is always the one its command will wake:
\* no step ends the command, or clears its join, and leaves the shell JOINING.
JoinerIsRegistered ==
  \A c \in Consoles :
    state[Shell[c]] = "JOINING" =>
      pc[Shell[c]] = "joining" /\ join[child[Shell[c]]] = Shell[c]

\* Whenever a shell waits at its prompt, its console sends lines to it: the
\* focus came back however the last command ended (returned, killed, killed
\* and resurrected by Enter).
PromptHasFocus ==
  \A c \in Consoles :
    pc[Shell[c]] \in {"prompt", "reading", "command"} => foreground[c] = Shell[c]

\* Two shells never run the same task, and the task a shell runs is on the
\* shell's console.
ChildrenAreSeparate ==
  \A c, d \in Consoles :
    child[Shell[c]] # NoTask =>
      /\ child[Shell[c]] = child[Shell[d]] => c = d
      /\ console[child[Shell[c]]] = c

\* The current task calls wait_sem or wait_time with the pid of somebody else.
WaitsForOther ==
  \E t \in Waitable \ {current} :
    SemWait(current, t) \/ \E d \in 0 .. MaxSleep : SemWaitFor(current, t, d)

\* A task in an atomic section loses the CPU only by blocking or ending, or by
\* a wait of its own with the pid of somebody else: never by the timer.
AtomicNotPreempted ==
  [][current' # current /\ atomic[current] > 0
       => state'[current] # "RUNNING" \/ WaitsForOther]_vars

\* i, j and m come in this order, going round the list.
InOrder(i, j, m) == (i < j /\ j < m) \/ (j < m /\ m < i) \/ (m < i /\ i < j)

\* The tasks between the current one and t, going round the list: those that
\* may have the CPU before t.
Ahead(t) ==
  {u \in TaskSet : \E i, j, m \in DOMAIN ring :
     ring[i] = current /\ ring[j] = u /\ ring[m] = t /\ InOrder(i, j, m)}

\* Round robin, step by step: nobody overtakes a task that is and stays ready and
\* waits for the CPU, nor a sleeper that is due and is left asleep.  A task that the
\* scan gives the CPU to was ahead of it and no longer is; whatever else is
\* linked, unlinked, woken or killed meanwhile, only a task that was not in the
\* list can come to be ahead of it.
NobodyOvertakes ==
  [][\A t \in TaskSet :
       /\ InRing(t) /\ t # current /\ InRing(t)' /\ t # current'
       /\ \/ state[t] = "RUNNING" /\ state'[t] = "RUNNING"
          \/ state[t] = "SLEEPING" /\ state'[t] = "SLEEPING" /\ left'[t] = 0
       =>
         /\ Ahead(t)' \subseteq {u \in TaskSet : u \in Ahead(t) \/ ~InRing(u)} \ {current'}
         /\ current' # current \/ quantum' > quantum => current' \in Ahead(t)]_vars

\* Round robin: a task that is ready gets the CPU (or is stopped first).
ReadyGetsCPU ==
  \A t \in TaskSet :
    (InRing(t) /\ state[t] = "RUNNING") ~> (current = t \/ state[t] # "RUNNING")

\* A sleeper is woken, although only the scan of task_next looks at its limit;
\* unless somebody can put it to sleep again and again.
SleeperWakes ==
  \A t \in Programs \ Waitable : state[t] = "SLEEPING" ~> state[t] # "SLEEPING"

\* task_join tells the log that the caller sleeps "Waiting for task with pid=
\* ... to exit.": once the command has returned, the shell's join returns.
JoinReturns ==
  \A c \in Consoles :
    (pc[Shell[c]] = "joining" /\ pc[child[Shell[c]]] = "exited")
      ~> pc[Shell[c]] # "joining"

-----------------------------------------------------------------------------
(* The inductive invariant behind the safety properties.                    *)

\* The list holds no task twice, so unlinking a task takes it out; the tasks
\* of the kernel never leave it.
ListOK ==
  /\ \A i, j \in DOMAIN ring : ring[i] = ring[j] => i = j
  /\ InRing(Kbd) /\ InRing(NullTask) /\ InRing(current)
  /\ \A c \in Consoles : InRing(Shell[c])

\* A shell runs a command exactly from its creation to its removal; until then
\* the command is the foreground of the console, or has returned the focus.
FocusOK ==
  /\ \A c \in Consoles : LET s == Shell[c] IN
       /\ console[s] = c
       /\ pc[s] \in ShellPCs
       /\ pc[s] \in {"prompt", "reading", "command"} =>
            child[s] = NoTask /\ foreground[c] = s
       /\ pc[s] \in {"created", "readied", "joining"} =>
            /\ child[s] \in Programs /\ InRing(child[s]) /\ console[child[s]] = c
            /\ foreground[c] = child[s] \/ (foreground[c] = s /\ pc[child[s]] = "exited")
  /\ \A p \in Programs : InRing(p) => \E c \in Consoles : child[Shell[c]] = p

\* A join names the shell that waits in task_join for that very task; a shell
\* is asleep there only while its command will wake it.
JoinOK ==
  /\ \A t \in TaskSet : join[t] # NoTask =>
       \E c \in Consoles :
         pc[Shell[c]] = "joining" /\ child[Shell[c]] = t /\ join[t] = Shell[c]
  /\ \A c \in Consoles : LET s == Shell[c] IN
       state[s] = "JOINING" => pc[s] = "joining" /\ join[child[s]] = s

\* The inductive invariant: types, the list, the focus and the joins.
IndInv == TypeOK /\ ListOK /\ FocusOK /\ JoinOK

=============================================================================
