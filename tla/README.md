# UnicOS in TLA+

UnicOS is a small 64-bit kernel with a shell, written in C and assembly. This
directory holds its formal models: TLA+ modules translated from the source, TLC
configurations that check them on small instances, and theorems that the TLAPS
proof system checks for every value of the constants. `PROJECT.json` lists, for
every definition that models code, the source lines it stands for; for every run
what it checks; for every property a mutation of the model that breaks it; and
the hazards of the code with the properties that watch over them.

Paths below are relative to the root of the repository.

## 1. The system

### How execution interleaves

There is one CPU and no kernel threads. Three facts decide what can interleave
and shape every module:

* A system call (`int 0x80`, `soft_interrupt` in `Kernel/loader.asm`) runs with
  interrupts disabled, on the kernel's stack of the calling task. Nothing
  interleaves inside it, except that it may call `reschedule()`
  (from `task_pause`, `task_sleep`, `task_join`), which saves the context and
  continues with another task. The rest of the call runs when its task is
  current again. So **an action is a system call up to its `reschedule()`, and
  what follows is a second action**.
* The timer interrupt (`pit_handler`) comes between any two instructions of user
  code. It changes the current task when `atomic_level` is 0 and the quantum is
  used up.
* The keyboard interrupt only puts scancodes in a queue; the keyboard *task*
  reads them and does the work. It runs in the kernel but with interrupts
  enabled (its first context has `rflags` 0x202), so the timer may preempt it
  anywhere except inside the queue operations, which disable interrupts.

### Components

| Component | State | Operations | Interacts with |
|---|---|---|---|
| Tasks and scheduler (`Kernel/task.c`, `scheduler.c`, `loader.asm`) | circular list of `task_t` (state, quantum, sleep limit, atomic level, join, console), `last`, `current`, `foreground[]`, `consoles[]` | create, ready, pause, sleep, yield, atomic/unatomic, join, schedule_removal, remove, wrapper (return of a task), task_next | everything: the only source of interleaving |
| System calls (`Kernel/syscalls.c`, `loader.asm`) | `ret_addr`, the descriptor table of a task | one handler per call | all kernel components |
| Shell (`Userland/ShellModule`) | one task per console; the command it runs | read, create, ready, join, reap | system calls |
| Message queues (`Kernel/ipc/msgqueue.c`) | doubly linked list, first, last, size, maxsize | add, undo, deq, peeklast, clear | scancodes, input of each console, semaphores |
| Semaphores (`Kernel/ipc/semaphores.c`) | table of 256; value and queue of pids | get, wait, wait_cond, wait_time, signal | task_pause, task_sleep, task_ready, message queues |
| Frames and page tables (`Kernel/mem.c`, `paging.c`) | stack of free frames; four levels of tables per process | alloc, free, new process, page fault, free tables | task_create, task_remove |
| Signals (`Kernel/ipc/signal.c`) | handlers and saved context in the `task_t` | set, send, kill | tasks, stacks of tasks |
| Keyboard and input (`Kernel/drivers/keyboard.c`, `input.c`) | scancode queue, modifier state, handler table, input queue per console, focus | interrupt, keyboard_task, handlers (capitals, Backspace, consoles), input_add/undo/clear, sys_read | message queues, tasks, screen |
| Shared memory (`Kernel/ipc/smem.c`) | table of 256; lock, size, used, buffer | get, read, write, clear | semaphores, in `prodcons` |
| File system (`Kernel/drivers/fs.c`, `filesystem/*`) | tree of nodes, open descriptors, contents | open, create, read, write, mkdir, close | system calls |
| Screen (`Kernel/drivers/video.c`) | a buffer and a cursor per console, the console on display | write, clear, switch | keyboard handlers |
| Boot, clock, sound, serial, C library, build tools | | run once, port I/O or pure functions | |

### What makes each one correct, and what is hard about it

* **Tasks.** The list never holds a task twice nor loses one; no pointer that the
  kernel keeps leads to a removed task; a shell that waits for a command is
  registered with it; the focus comes back to the shell; ready tasks get the
  CPU. Hard: the timer between the shell's create, ready, join and reap; a kill at
  each of these points, of any task in any state; Enter, which readies the
  foreground task whatever it is doing.
* **Message queues.** FIFO order, nothing lost below the capacity, the counter
  agrees with the list. Hard: two directions of links, of which each operation
  repairs one; freed messages keep their pointers.
* **Semaphores.** Nobody is paused and forgotten, the value never wraps. Hard: the
  CPU is given away in the middle of wait (with whoever waits for itself not in the
  queue yet), the queue may be full, and tasks are woken by other things.
* **Frames.** One use per frame, the kernel's tables are never freed, everything
  comes back. Hard: sequences of creations, faults and destructions until memory
  runs out; the entries shared with the kernel.
* **Keyboard and input.** A line reaches the reader of its console, once. Hard:
  reader and typist interleave, the focus changes and Backspace undoes in between,
  multi-byte scancodes, the limits of the tables.
* **System calls.** Each call returns its own result. Hard: `ret_addr` is one
  global and interrupts are enabled before it is read back.
* **Key handlers of tasks.** A handler ends with its task. Hard: whoever knows an index
  may clear it, the same facts are kept in a table of 256 and in a list of
  16 per task, with different limits, and indexes are used again.
* **Shared memory.** What is written is read once and whole. Hard: the calls report
  failure and their users ignore it, locks are given back by who did not take
  them, and the users look at `used` without a system call.
* **File system.** The directories are a tree; a path means the same file for
  ever; bytes change only where they are written. Hard: names are compared by
  prefix, files of the same name are made again and again, cursors outlive what
  they point at, slots and descriptors run out in the middle of a call.
* **Signals.** The context that a handler interrupted comes back.

## 2. The modules

### Tasks.tla

The core: the list, the scheduler, the life of a command, joins, kills, the focus
of each console.

| Model | Code |
|---|---|
| `ring` | the circular list from `last->next` to `last` |
| `current`, `quantum` | `current`, `current->quantum` |
| `state`, `join`, `atomic`, `console` | the fields of `task_t` |
| `left` | timer interrupts until `sleep_limit` is exceeded |
| `foreground`, `Shell` | `foreground[]`, `consoles[]` |
| `pc`, `child` | where a shell is in its command loop, its `taskpid` |
| `TickAtomic`, `TickQuantum`, `TickSwitch` | the three ways through `pit_handler` |
| `Switch` | `scheduler_u2k`, `task_next`, `scheduler_k2u` |
| `ShellRead` ... `ShellReap` | the system calls of `command_dispatcher`, in order |
| `Read`, `Sleep`, `Atomic`, `Unatomic`, `Kill`, `Exit` | the calls of a command, in any order |
| `SemWait`, `SemWaitFor`, `SemSignal` | what `sys_sem_wait` and `sys_sem_sig` do to tasks, of a semaphore of value 0 |
| `Newline`, `NewlineReady` | `input_add` of a newline by `keyboard_task`, which may lose the CPU between the two |
| `target` | `foreground_task`, the local variable that lives between them; nobody clears it when the task is removed |

`ShellJoin` is `sys_task_join` up to the reschedule, `ShellReap` what follows it.
A command is a program that makes these calls in any order: it reads, sleeps or yields,
enters and leaves atomic sections, sends SIGKILL, pauses, puts to sleep or readies a
task through a semaphore, and returns. This is what the commands in the repository do
to tasks, except for the other signals, whose handlers need saved contexts; none of
them creates, readies or joins a task, which only the shell does here too. Calls that change no
task (screen, files, memory) are steps of the program that are not seen.
The semaphore itself is in `Semaphores`: here any task of `Waitable` may be paused,
put to sleep or readied by its pid, whatever the value and the queue are.
`task_remove` frees the structure; `TaskRemove` gives it the values of a
structure not in use, so that each `task_t` is one element of `Programs`. It leaves
`target` alone, and `NewlineReady` writes through it whatever has become of the task;
`ShellCreate` takes no structure that `target` points to, because `free` is empty and a
freed `task_t` is never handed out again.
A system call with a task id uses a task of the list (`InRing`), as
`task_find_by_pid` returns it. Left out: names, return values, errno, the
registers saved and restored.

### BoundedFifo.tla and MsgQueue.tla

`BoundedFifo` is what users of a queue rely on: a sequence with `Put` (dropping
what does not fit), `Take`, `TakeBack`, `PeekLast` and `Empty`. `MsgQueue` is the
code, pointer by pointer. `malloc` only moves forward and `free` is empty, so
`node` is the sequence of all messages ever allocated and a pointer is an index.
`Content` walks from `first` to `last`; `Fifo == INSTANCE BoundedFifo WITH content
<- Content` is the refinement. The variable `use`, chosen among `Uses` and never
changed, says how a queue is used: scancode and semaphore queues are read and
never undone (`"read"`), the line being edited is undone and not yet read
(`"edit"`), and an input queue knows `"both"`.

### Semaphores.tla

One semaphore and the tasks that use it. `wait_sem(id, who)` pauses *any* task
`who`, gives the CPU away, and only then puts `who` in the queue: `Pause` and
`Enqueue`, with `pending[t]` what `t` has still to enqueue. The scheduler is
abstracted to "a running task may act", and the queue to the sequence that
`MsgQueueProofs` shows it to be (nobody calls undo on it). Only other users of the task calls (`WakeUp`) and
the end of a timed wait (`SleepOver`) wake tasks besides `Signal`. `dropped` is
history: the paused tasks whose last entry found the queue full. `OutOfReach` names the
two kinds of tasks that no signal reaches: those, and a task that waits for itself,
which would have to run to put itself in the queue. `PausedIsAccounted` is about all the
others. Tasks do not end in this module.

### PageFrames.tla

The stack of free frames and the tables of each process. A place in the tables is
a tuple (`<<4>>`, `<<3>>`, `<<2>>`, `<<1, d>>`, `<<0, d, e>>`), `frame[p]` maps the present
places of `p` to frames. `Create` is `new_process_cr3` with
`alloc_new_process_stack`, `Fault` is `page_fault_handler` with `add_page`, `Destroy`
is `free_l4_table` with the loops below it, entry by entry including where they end.
The order of the loops is the constant operator `Visit`, of which only that it
visits everything once is assumed. `lost` is a history variable: the frames that a process
took with it when it ended, because the loop of `free_l1_table` ends one entry
early. `FramesAccounted` says that these are all that is ever lost. `mem_panic`
stops the machine, so this run does not check for deadlock.

### Keyboard.tla

From keys to readers, with every interleaving of the interrupt, `keyboard_task`
and the shells.

| Model | Code |
|---|---|
| `wire` | the bytes of a key that the controller still holds |
| `kbdqueue`, `input` | the queues of scancodes and of input, as the sequences of `BoundedFifo` |
| `stale` | of each input queue: whether the `prev` of its first message, the `next` of its last one, or `first` and `last` themselves lead to messages that were taken or undone |
| `pc`, `code`, `reps`, `found` | the loop and the locals of `keyboard_task` and `input_add` |
| `caps`, `shown`, `focus` | `keyboard_status.caps`, `current_console`, `input_focus` |
| `reader` | the shell of a console: busy, paused in `sys_read`, or readied |
| `stuck` | `msgqueue_deq` spins with interrupts disabled: the end of everything |
| `KbdTake` ... `Ready` | the steps of `keyboard_task` between which the timer may preempt it |
| `Pause`, `Read` | `sys_read` up to its reschedule, and after it |
| `capital`, `spoilt` | history: what the keys say of the capitals; an Enter or a byte that was dropped, a console left while its woken shell had not read yet, a newline undone or the ends of a queue lost by Backspace |

A byte is abstracted to what `keyboard_task` does with it. A code with a prefix
that nobody catches indexes the character table far beyond its end (`Lookup`): the
model takes any character for it. The handlers are those that the kernel installs:
`Toggle` (one step), `SwitchShown` and `SwitchFocus` (the two assignments of
`video_fn_handler`, between which the timer may come), and `BackLook` and `BackUndo` (the
test of `keyboard_backspace_handler` and its `input_undo`, between which a shell may
empty the queue). Handlers that tasks install, such as those of the shell that replace
the line, are not in the model. Of what makes a paused shell ready, only
`keyboard_task` is: the properties say nothing of a shell that a `semsig` or a
`sys_task_ready` wakes in the middle of `sys_read`.

An input queue is undone *and* read, so `MsgQueue` shows it is not a FIFO. `stale`
carries what of the pointers matters: as long as a queue has its `"ends"`, its content is
the sequence; a dequeue of the last message follows a stale `next`, an undo of the only
message a stale `prev`, and from then on `first` and `last` may lead anywhere (`"ends"`): then
what the queue seems to hold is left open, and `spoilt` has `"undo"`.

### FileStore.tla and FileSystem.tla

`FileStore` is what programs may expect of files: paths are bound to files once and
for ever, and the bytes of a file change only where somebody writes them or when it
is truncated. `FileSystem` is the code; a system call runs with interrupts
disabled, so each is one action, and the calls of the tasks interleave.

| Model | Code |
|---|---|
| `dir` | every `fs_directory_t` ever made, with its name, its `childs` and its `leaves` as the sequences of used slots (nothing is ever taken out of a slot) |
| `mounted` | `mountinfo` |
| `file` | every `fs_file_t` ever made, with its name and the bytes that `ramfs.c` keeps |
| `fd` | `task->files` from descriptor 3: file, cursor, flags |
| `Child`, `Leaf`, `Walk` | `fs_traverse` with its `strncmp`, `find_file`, and the walk along a path |
| `MkDir`, `Mount` | `sys_mkdir` / `fs_mkdir`, `fs_mount` |
| `Create`, `Open` | `sys_open` and `fs_open` with and without `O_CREAT`: the first always makes a file |
| `Read`, `Write`, `LSeek`, `Close`, `Exit` | `sys_read`, `sys_write`, `sys_lseek`, `sys_close`, the end of a task |

The names a name is a prefix of are the constant `Begins`. A path is the sequence of its components, as
`fs_traverse` cuts it. A read moves the cursor as the code does, also past the end;
what it copies is not in the model. `StoreSpec` is the refinement: a path is
bound to what opening it without `O_CREAT` would find. `fs_open` with `O_CREAT` does not
look for the file: if the path has none it is bound to the new one
(`FileStore!Create`), and if it has one the new file has the same name and no path, so
that only its descriptor reaches it (`FileStore!CreateAgain`). `FileStore` has no
cursors: that a write goes to the place of its descriptor's cursor is in `Write` of
`FileSystem`, what it may change is in `StoreSpec`.

### ProdCons.tla

The commands `producer` and `consumer` and the shared memory they meet in, on top
of `Semaphores`: a composition in which the semaphore is used as the code uses it
(whoever has to wait waits for itself) and everybody else may meddle with it.

| Model | Code |
|---|---|
| `used`, `locked`, `cells` | the fields of `mp` and the bytes at `shmaddr` |
| `pc` | where a task is in `put` or `get` |
| `item`, `got` | the string to write; the string read last |
| `Test` | the condition of the `while` loop, read without a system call |
| `Wait` | `sys_sem_wait(sem, pid, 0)`: `Take`, or `Pause` and later `Enqueue` of `Semaphores` |
| `Lock`, `Write`, `Read`, `Done` | `sys_shm_ctl(SHM_WLOCK)`, `shm_write`, `shm_read`, `sys_sem_sig` |

Each is a step of its own, since the timer may preempt between any two.
`ItemsInOrder` is the refinement of `BoundedFifo` with capacity 1 (`ExchangeSpec`: only
`Put` and `Take`).

### Handlers.tla

The table of key handlers (`table`), the list each task keeps of its own (`list`),
and what the program thinks it holds (`held`, the indexes it was given and did not
clear). `Catch` is `keyboard_catch`, `Clear` `keyboard_clear_handler`, `Remove` the
call of `keyboard_clear_from_task` in `task_remove`. `keyboard_clear_handler` and its system
call ask for no owner: any task clears any index that has a handler, of another task or of
the kernel. `lost` is history: the indexes a task holds that another one cleared.
(An index without a handler, or outside the table, is used through a `NULL` or beyond
the array, as `rawkbd` may do with the -1 of a failed `keyboard_catch`: not modelled.)
`over` is history too: the tasks
that installed a handler when their list was full, which `keyboard_catch` lets
pass because it compares with the size of the other array.

### Proof modules

`TasksProofs`, `MsgQueueProofs`, `SemaphoresProofs`, `PageFramesProofs`,
`KeyboardProofs`, `FileSystemProofs`, `ProdConsProofs` and `HandlersProofs` extend the
modules they prove about. `MCTasks`, `MCMsgQueue`, `MCSemaphores`, `MCPageFrames`,
`MCKeyboard`, `MCFileSystem`, `MCProdCons` and `MCHandlers` give the constants their
values for TLC.

## 3. The runs

| Run | Shows |
|---|---|
| `tasks_two_consoles` | with two shells and three commands that kill, pause and ready each other and the shells: no pointer that the kernel keeps dangles, every joining shell is registered, the prompt has the focus, shells have separate commands, the inductive invariant |
| `tasks_scheduling` | with a quantum of two ticks, sleeps, kills, waits at semaphores and atomic sections: a section keeps the CPU unless its task blocks, ends, or makes another one wait; nobody overtakes a task that waits for the CPU; under fairness every ready task gets the CPU or stops, every sleeper wakes |
| `tasks_join` | **violated**: a command that returns before its shell joins it leaves the shell waiting for ever |
| `msgqueue_uses` | a queue that is read and cleared, and a line being edited (add, undo, clear), is a bounded FIFO with undo; in both `size` messages lie between `first` and `last`, linked both ways, whatever undo has skipped, and without gaps where nobody calls undo (`Chained`) |
| `msgqueue_undo` | **violated**: with undo and reads together an undone message comes back |
| `semaphores_waits` | also beyond the capacity of the queue: value never below 0; a paused task is in the queue or on its way to it, unless it waits for itself or its entry was dropped; signals bring those in the queue forward, in order, and are not kept in the value meanwhile; once in the queue a task is released if the semaphore keeps being signalled |
| `pageframes_exclusive` | a frame has one use; the tables form a tree; the kernel's tables stay; nothing is lost but the last page of each level 1 table |
| `keyboard_lines` | with two consoles and every kind of key that the kernel handles: a shell woken by `keyboard_task` finds a line and reads its own console's, the capitals stay in step, Enter always wakes; each except after the events in `spoilt` |
| `filesystem_names` | with equal names and names that begin alike, directories that are made again and mounted over, and slots and descriptors that run out: the directories are a tree, a name keeps what it names, an opened descriptor is in the right place, no file is made without a descriptor, and the calls implement `FileStore` |
| `prodcons_items` | a producer, two consumers and an operator who signals, blocks and wakes anybody, with the timer between any two steps: every item is consumed once, whole, in order; the lock is never left behind |
| `handlers_lists` | two tasks install handlers, clear their own and those of others, and end, beyond both limits: lists and table agree, nobody loses a handler it holds unless another clears that very index, and none outlives its task except the one its list had no room for |
| `keyboard_full` | **violated**: the newline is dropped by a full queue, the shell is woken without a line and hangs the machine |

The violated properties are what a comment, a log message or a help text of the
repository says; `PROJECT.json` quotes each line under "findings".

### Bounds, and why they are enough

* `Tasks`: two consoles and two commands at a time give every pair of roles: two shells,
  two commands, a command and the other's shell, a command that kills itself, its
  shell or the other's command; a third structure lets both shells start a new command
  while `target` still holds a freed one. `Waitable` are one shell and the commands:
  the other shell shows what happens to one that nobody waits for. Programs are symmetric.
  `tasks_two_consoles` uses a quantum of 0 (every timer
  interrupt preempts, which gives the most interleavings), yields instead of
  longer sleeps, and no atomic sections; `tasks_scheduling` adds these, and kills of the
  keyboard and `null_task`, with one console and one command that makes its shell wait: quantum 2 as in the code, sleeps of several ticks, one
  level of nesting (deeper nesting adds only a count). The safety theorems hold
  for any.
* `MsgQueue`: capacity 3 and 6 allocations fill the queue, drain it and fill it
  again with stale nodes behind it; with 3 messages order and identity show.
  `SizeMod = 8` keeps the unsigned wrap of `size` in the model.
* `Semaphores`: two operators and two workers, so that two waits are in flight at
  once, a queue of 3 and up to 5 entries, so that the queue runs over as the 256 of
  `create_sem` may.
* `PageFrames`: two processes, one directory each of kernel, stack and heap, two
  entries per table (the last one, which the loop misses, and one it visits), and
  memory for two processes with the heap of one only, so that the panic
  happens at every point, also because of the frames that are lost.
* `Keyboard`: four keys are two lines, or a line and two changes of console, with
  every interleaving of readers and queues of 2, so that they overflow;
  `ReadSize` exceeds `Capacity` as 512 exceeds 128. The machine may hang, so these
  runs do not check for deadlock.
* `FileSystem`: one task with two descriptors (tasks share only the tree and the
  contents, which the two descriptors share as well), two slots per directory, so
  that a directory fills up; the names `d` and `d2`, of which the first begins the
  second; three directories: the two devices, the second of them named `d2` and
  mounted at the root or in `d`, and one made by a program; two files, so that two may
  have the same name; contents and cursors up to 2, which gives overwriting,
  appending, gaps and cursors past the end. The theorems hold for any of these.
* `ProdCons`: one producer, two consumers (one more than there are items, so that one
  comes late) and one operator; a memory of 2 bytes and items of 1 and of 3, so that
  one does not fill it and one is cut; a semaphore of value 0 whose queue of 2 is
  never overrun.
* `Handlers`: two interchangeable tasks, 5 places in the table of which the kernel
  has one, lists of 2: one task fills its list before the table and goes on, and the
  table is then full before the list of the other one is. When all tasks are gone nothing happens any more, so
  this run does not check for deadlock.

### Fairness

* The timer is hardware and interrupts whatever runs: `SF(TickQuantum \/
  TickSwitch)`, strong because an atomic section disables these two again and
  again.
* A program leaves an atomic section it is in: `WF(Unatomic)`. Without it one task
  may legally keep the CPU for ever (and with `MaxAtomic` above 1, a program that
  alternates between two levels would, too).
* A shell executes when it has the CPU; since it may lose it before each step,
  `SF(ShellStep)`.
* A command gets no fairness: it may loop for ever.
* In `Keyboard`, `keyboard_task` goes on (`WF`): it never pauses, and the
  scheduler runs whatever is ready. Nothing is assumed of the typist or the shells.
* In `Semaphores`, a caller inside `wait_sem` continues when it is ready
  (`WF(Enqueue)`, what `ReadyGetsCPU` shows of the scheduler). `SF(Signal)`, of whoever signals, is the
  premise of the property ("if it keeps being signalled"), not a claim on the code.

## 4. The theorems

All are checked by TLAPS with the Z3, Zenon and LS4 backends and hold for every
value of the constants allowed by the named assumptions (`TasksAssumption`,
`MsgQueueAssumption`, `SemaphoresAssumption`, `PageFramesAssumption`,
`VisitAssumption`, `KeyboardAssumption`, `FileSystemAssumption`, `ProdConsAssumption`,
`HandlersAssumption`), which TLC evaluates in the runs.

**TasksProofs.** For any number of consoles, shells, commands, any quantum and
bounds. `Invariance` proves `Spec => []IndInv` with `IndInv == TypeOK /\ ListOK /\
FocusOK /\ JoinOK`; `TypeCorrect`, `NoDangling`, `JoinersRegistered`,
`PromptFocused`, `ChildrenSeparate`, `AtomicKeepsCPU` and `RoundRobin` follow from it. None of the properties is inductive alone. That a removed task leaves no
pointer behind needs that it occurred once in the list (`ListOK`) and that nobody
but its shell runs or joins it (`FocusOK`, `JoinOK`). That a shell at its prompt has
the focus needs to know, while the command runs, that the focus is either the
command's or already returned because the command exited. Nothing is said of `target`,
the pointer in the window of `input_add`: it may lead to a task that has been removed
(section 6), and the invariant holds although `NewlineReady` then writes to it.
The proof has a lemma per action and, under it, a step
per conjunct that the action can disturb.

`RoundRobin` is `NobodyOvertakes`, the safety half of the scheduler's liveness: `Ahead(t)` are
the tasks between the current one and `t`, going round the list. While `t` is ready (or
asleep, due, and left asleep) every hand-over of the CPU takes one of them away, and
nothing but a task that was not in the list comes to be among them, whatever is linked,
unlinked, woken or killed meanwhile. `StepKinds` sorts the steps into those that run
`task_next` from states in which those that were ready still are, and those that leave the
CPU alone and at most link or unlink one task; `SwitchAhead`, `AppendAhead` and
`RemoveAhead` are about the cyclic order. `ScanEnds` stands in for `ENABLED`: the loop
of `task_next`, which runs with interrupts disabled, stops after one turn at most,
because the task it started from is still in the list. What is left to TLC is that the
timer goes on and that the list stays finite.

**MsgQueueProofs.** For every capacity and number of messages, for queues that are read
(scancodes, semaphores) and for the line being edited, with undo: `QueueTypeCorrect` (the
size stays within the capacity, so the unsigned arithmetic does not wrap),
`QueueIsChained` with `QueueInARow`, `QueueHasShape`, and `QueueIsFifo`, the refinement
`Spec => FifoSpec`. Each assumes `"both" \notin Uses`: for a queue that is read *and*
undone they are false, which is what the run `msgqueue_undo` shows.

The inductive invariant is `QInv`, of which `LinkedBothWays`, the part of `Chained` that does not say that there are no gaps, is the heart: there is an increasing row
`c` of `size` messages from `first` to `last`, linked both ways (`Linked`). It need not be a row of
consecutive allocations: undo leaves gaps. What goes stale depends on the use. A queue that
is read leaves the `prev` of its first message stale, and undo, which would follow it,
is not called; its last message leads nowhere, which is what `msgqueue_deq` tests. A line
that is edited leaves the `next` of its last message stale, and `msgqueue_deq`, which would
follow it, is not called; its first message has no `prev`. No `next` pointer, of freed messages
either, leads back to an older allocation: so the walk from any message ends, and the
recursive function in `Content` exists (`FromExists`, by induction downwards from the latest
allocation). `ContentIs` then says that the walk finds the messages of the row,
`BackToFirst` that `prev` leads back along it, and `AddStep` ... `ClearStep` do one operation
each, for the invariant and for the step of `BoundedFifo` it implements. The refinement alone would
not show that messages are dropped only when the queue is full (a dropped message is a stutter):
that is `ListShape`, in which the counter is the length of the row. `Consecutive` is stronger for
queues that are only read: the row is the latest allocations without a gap.

**SemaphoresProofs.** `SemTypeCorrect`; `NobodyElseForgotten`: whatever the capacity, a
paused task is in the queue or another task has still to put it there, unless it waits for
itself or a full queue dropped its entry. `NothingDropped`: the second exception does not
occur if the entries fit (`MaxEntries <= MaxQueue`); it needs `Room`, the bound on
entries in the queue plus those on their way, whose preservation counts a finite set of
pending calls. `SignalsReachWaiters` is the safety half of `QueuedReleased`: the entry of a task
that stays paused keeps its place or moves up with a signal. The lemmas are about
`AnyStep`, any use of the semaphore, so that they hold of the systems that `Semaphores`
is a part of.

**KeyboardProofs.** `KeyboardTypeCorrect`, and `WokenShellHasLine`: for any consoles,
keys and capacity, as long as no Enter was dropped, Backspace undid no newline nor lost
the ends of a queue, and no console was left before its woken shell had read, a shell
that `keyboard_task` woke finds a line. `WokenHasLine` is not
inductive: a wake-up in flight could be for a line that has been read meanwhile.
`LineKept` counts: one newline for the shell that has been woken and another for
the wake-up that `keyboard_task` is about to make; `OneLineTaken` shows that a read
leaves the later of two, and `AllButLast` that undoing a character leaves the newlines. `ShellReadsOwn` is the action property `ReadsOwnConsole` from
the same invariant. `CapitalsInStep` is `ShiftInStep` for keys that send whole codes
(`WholeStrokes`: one byte, `E0` and a byte, or `E1` and two, as the keyboard does).
It needs the bytes on their way: `LeadsTo(c, r, q, w, z)` says that handling the
queue `q` and then the wire `w`, from capitals `c` with `r` bytes still to skip,
ends at `z` with none to skip, and `CapsKept` that this holds from `caps` to what the
keys say. A byte that moves from the wire to the queue, one that is taken and a
key that is pressed each have a lemma.

**PageFramesProofs.** For any number of processes, frames and entries, and any order of the
loops: `FramesTypeCorrect`, `OneUsePerFrame`, `KernelKeepsTables`, `NoOtherLoss`. The
properties the run checks are inductive together with one more, `KernelNotLost`:
the frames a process takes with it are never the kernel's (else a table
that is still in use would count as lost). Creation and page fault are instances of one
lemma, `Grown`: a process takes the top of the stack for places it does not have. `DestroyKeeps` is
the other half: what `free_l4_table` gives back was the process's alone.

**FileSystemProofs.** For any tasks, names, paths, devices, slots and descriptors:
`FilesTypeCorrect`, `DirectoriesAreTree`, `DescriptorsStart`, `MakerHolds`,
`NamesAreStable` and `CallsImplementStore`, from `FInv == TypeOK /\ TreeShape /\
MountedOnce /\ BareUntilMounted /\ ClosedAtZero`. The tree needs to know that the
root of a device is in no directory before it is mounted, and that it is mounted
once: the table `mountinfo` may be full, and `fs_mount` then mounts without
recording it, but as long as there are no more devices than places it is never
full when there is one left to mount (`RoomToMount`). `BareUntilMounted` says that no path leads to such
a device, so nothing is made in it. `ClosedAtZero`
is why `O_TRUNC` may leave the cursor alone: every way of giving a descriptor back,
the creation of a task included, has set it to 0. That names keep their
meaning rests on the order of the search: things are added behind what
is there, and the first hit counts. The walk along a path is a recursive function;
`WalkTakesSteps` proves its equation from the well-foundedness of the naturals,
and an induction on the number of components carries stability from
directories to paths, hence the refinement. `CreatedFound` tells its two kinds of new
files apart: one for a path without a file is found at that path, and one for a path that
has a file is found nowhere.

**ProdConsProofs.** With one producer (`OneProducer`, an assumption of each theorem) and
any number of consumers, operators and bytes, whatever happens to the semaphore: `MemoryBounded`,
`ProducerHasLock`, `MailboxIsFifo`. The invariant needed is `EmptyForProducer`: what the
producer saw when it tested `used` is still true when it writes. It is false for two producers.
`CommandsSignalled` needs no such assumption: every step of the composed system is, for the
semaphore, an `AnyStep` or a stutter (`StepUsesSemaphore`), so `SignalsInOrder` carries over
to it (the run `semaphores_waits` checks it with operators and workers of every kind). That the
waits of the commands end is not claimed: each waits for itself, which is the first
exception of `PausedIsAccounted`.

**HandlersProofs.** For any tasks and sizes: `HandlersTypeCorrect`,
`ListsInAgreement`, `HoldersInstalled`, `NoHandlerOutlives`; the four properties are
inductive together. `ListsAgree` is what makes the foreign clear of
`keyboard_clear_handler` harmless for the lists: it finds the owner by the index and
corrects the owner's list, so that the end of a task clears no index that has been
given to somebody else meanwhile, which `HoldersInstalled` needs. `HoldersInstalled`
excepts the indexes that another task cleared (`lost`).

Only model-checked: liveness and `ENABLED`, which are out of the prover's reach. These are
`ReadyGetsCPU`, `SleeperWakes`, `QueuedReleased` and `EnterWakes`, and the violated
`JoinReturns`. Every other property of a passing run is a theorem.

## 5. Plan

Done, in the order of their importance: `Tasks`, `MsgQueue` with `BoundedFifo`,
`Semaphores`, `PageFrames`, `Keyboard`, `Handlers`, `ProdCons` (shared memory composed
with a semaphore), `FileSystem` with `FileStore`, and a proof module for each. What
remains, and what it would take:

1. `Context`: `soft_interrupt`, `ret_addr`, `reschedule` and the one kernel stack, at
   the level of registers and stack pointers. `Signals`, the pushed contexts, needs
   the same level.
2. `SemTable`: the tables of semaphores and memories with their ids, and the
   composition of `Semaphores` with tasks that end.
3. The scan of `keyboard_run_handlers` against `Handlers`, entry by entry.

## 6. Deviations and what is not modelled

### What the code does and no property hides

Besides the violated runs, the models show, or were built around, the following; the
properties name them as exceptions or the theorems as assumptions.

* **Enter and a new command.** `input_add` looks up the foreground task at
  `Kernel/drivers/input.c:31` and readies it at `:32`. If the timer comes in
  between, the task found, a shell, may by then have started a command and be
  `JOINING` it: readied early, it removes the command while that is running.
* **Enter and a removed command.** In the same window the task found, a command, may end
  and be removed by its shell: `task_ready` then writes the state of a freed structure.
  `NoDanglingTask` is about the pointers the kernel keeps and leaves this one (`target`) out; with a
  kernel heap that never hands freed memory out again, the write reaches nobody else.
* **A task that waits for itself.** `wait_sem` (`Kernel/ipc/semaphores.c:54`) pauses
  the task and reschedules before it puts it in the queue. If the task is the
  caller (`prodcons.c:59` and `:70`, `semtest.c:85`) it gets to the queue only when
  something else has readied it, and a signal in between only raises the value.
  The help of `semsig` (`semtest.c:85`) says that a signal unblocks the next task; this one it
  does not reach, and `PausedIsAccounted` excepts it (`OutOfReach`). `ItemsInOrder` is about safety alone and does not promise that a
  producer or consumer goes on.
* **Backspace after Enter.** `keyboard_backspace_handler` (`Kernel/drivers/keyboard.c:237`)
  undoes the last message whatever it is. If it is the newline that has just readied a
  shell, the shell waits for characters with interrupts disabled: without its exception
  `"undo"`, `WokenHasLine` is violated by Enter and Backspace in a row.
* **Waits in an atomic section.** `wait_sem` and `wait_time` with the pid of another task
  give the CPU of the caller away although it stays ready, also inside a section:
  `AtomicNotPreempted` excepts them.
* **Handlers of others.** Any task may clear any index of the table of key handlers,
  those of the kernel included (`Kernel/drivers/keyboard.c:493`, `Kernel/syscalls.c:407`).
* **Files of the same name.** `O_CREAT` makes a new file each time; while an older one of
  that name is there no path leads to the new one (`Kernel/drivers/fs.c:402`).
* **The last page.** `free_l1_table` (`Kernel/paging.c:506`) stops one entry early:
  each command that ends takes the last page of each of its stack tables along,
  four in the kernel's layout, and the last page of the heap's table if it was used.
* **Two producers** that both find `used = 0` overwrite each other's item or are refused
  without noticing, as nobody looks at the result of `SHM_WLOCK`.
* **The 17th handler** of a task stays in the table when the task ends (`over`).
* **Reads** past the end of a file copy what lies behind its buffer
  (`ramfs.c:25`); `sys_mkdir` below a directory that is not there writes at address
  `NULL` (`fs.c:352`). Memory is not in the model: the cursor moves, the tree stays.

### What is not modelled

* **Contexts and signals.** The return of results through `ret_addr`, `reschedule`
  itself, and the frames that `signal_push` puts on a stack are about registers and
  stack pointers. All the modules take a system call as returning its own result and
  `reschedule` as one step. `Kernel/loader.asm:157` and `Kernel/task.c:240`, where this is
  doubtful, are listed as hazards without a property.
* **Signals other than SIGKILL**: the wrapper that runs a handler puts back the state the task
  had when the signal came (`Kernel/ipc/signal.c:34`), so that a wake-up in between is lost.
* **Tables** of 256 semaphores and memories: one of each is modelled.
* **Data**: access bits of pages, `argv` copies and `malloc`, drawing and formatting,
  string and number functions, the layouts of the keyboard.
* **Devices and tools**: the ports of timer, clock, sound and serial line, the
  screensaver (never started by `main`), `procfs` (never mounted), `fs_unmount` (never
  called), the boot loader, the module packer, and the cross compiler with its
  headers (`Cross64`), which is most of the text in the repository.

`PROJECT.json` gives the reason for each component.
