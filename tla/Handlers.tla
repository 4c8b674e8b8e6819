------------------------------- MODULE Handlers -------------------------------
(***************************************************************************)
(* The key handlers that tasks install (Kernel/drivers/keyboard.c): the    *)
(* table that keyboard_task goes through at every key, and in each task    *)
(* the list of its own handlers, by which the end of the task takes them   *)
(* out of the table again.  All of it runs in system calls and in          *)
(* task_remove, with interrupts disabled.  A task_t is never used again    *)
(* (free does nothing), so a task that is gone stays gone.  What           *)
(* keyboard_task does with the table is one step of Keyboard.tla.          *)
(***************************************************************************)
EXTENDS Integers

CONSTANTS
  Tasks,
  Kernel,          \* the handlers with task NULL
  NoHandler,
  KernelHandlers,  \* how many the kernel installs: 7
  TableSize,       \* MAX_KBD_HANDLERS: 256
  ListSize         \* MAX_TASK_KBD_HANDLERS: 16

ASSUME HandlersAssumption ==
  /\ Kernel \notin Tasks /\ NoHandler \notin Tasks /\ NoHandler # Kernel
  /\ TableSize \in Nat /\ KernelHandlers \in 0 .. TableSize
  /\ ListSize \in Nat \ {0}

VARIABLES
  table,   \* dka_catched_scancodes: whose each handler is
  list,    \* task->kbdhandlers
  life,    \* new, alive, or gone with its task_t
  held,    \* the indexes the program was given and did not clear
  lost,    \* history: those of them that another task cleared
  over     \* history: the tasks that held more handlers than their list has room for

vars == <<table, list, life, held, lost, over>>

Index == 0 .. TableSize - 1
Slot  == 0 .. ListSize - 1
Empty == -1

\* i is where a loop that looks for a member of S stops.
First(i, S) == i \in S /\ \A j \in S : i <= j

FreeSlots(t) == {k \in Slot : list[t][k] = Empty}

Init ==
  /\ table = [i \in Index |-> IF i < KernelHandlers THEN Kernel ELSE NoHandler]
  /\ list = [t \in Tasks |-> [k \in Slot |-> Empty]]
  /\ life = [t \in Tasks |-> "new"]
  /\ held = [t \in Tasks |-> {}] /\ lost = [t \in Tasks |-> {}]
  /\ over = {}

-----------------------------------------------------------------------------
\* Mutant of Create: the list is filled with 0.
CreateZero(t) ==
  /\ life[t] = "new"
  /\ life' = [life EXCEPT ![t] = "alive"]
  /\ list' = [list EXCEPT ![t] = [k \in Slot |-> 0]]
  /\ UNCHANGED <<table, held, lost, over>>

\* task_create
Create(t) ==
  /\ life[t] = "new"
  /\ life' = [life EXCEPT ![t] = "alive"]
  /\ list' = [list EXCEPT ![t] = [k \in Slot |-> Empty]]
  /\ UNCHANGED <<table, held, lost, over>>

\* Mutant of Catch: a full table is not refused.
CatchPastEnd(t) ==
  /\ life[t] = "alive"
  /\ \E i \in 0 .. TableSize :
       /\ First(i, {j \in Index : table[j] = NoHandler} \union {TableSize})
       /\ table' = [table EXCEPT ![i] = t]
       /\ list' = [list EXCEPT ![t] =
                     [k \in Slot |-> IF First(k, FreeSlots(t)) THEN i ELSE @[k]]]
       /\ held' = [held EXCEPT ![t] = @ \union {i}]
       /\ lost' = [lost EXCEPT ![t] = @ \ {i}]
  /\ over' = IF FreeSlots(t) = {} THEN over \union {t} ELSE over
  /\ UNCHANGED life

\* keyboard_catch.  A full table refuses it; a full list does not, because
\* the test that should see it compares with the size of the table.
Catch(t) ==
  /\ life[t] = "alive"
  /\ \E i \in Index :
       /\ First(i, {j \in Index : table[j] = NoHandler})
       /\ table' = [table EXCEPT ![i] = t]
       /\ list' = [list EXCEPT ![t] =
                     [k \in Slot |-> IF First(k, FreeSlots(t)) THEN i ELSE @[k]]]
       /\ held' = [held EXCEPT ![t] = @ \union {i}]
       /\ lost' = [lost EXCEPT ![t] = @ \ {i}]
  /\ over' = IF FreeSlots(t) = {} THEN over \union {t} ELSE over
  /\ UNCHANGED life

\* Mutant of Unlist: the search starts behind the first place.
UnlistLate(l, i) ==
  [k \in Slot |-> IF First(k, {j \in Slot : l[j] = i /\ j > 0}) THEN Empty ELSE l[k]]

\* A list without the first place that holds i.
Unlist(l, i) ==
  [k \in Slot |-> IF First(k, {j \in Slot : l[j] = i}) THEN Empty ELSE l[k]]

\* keyboard_clear_handler, with any index that has a handler, of whatever task or
\* of the kernel: it is the list of the handler's task that changes.  An index
\* without a handler, or outside the table, would be read through a NULL; it is
\* not modelled.
Clear(t, i) ==
  /\ life[t] = "alive"
  /\ table[i] # NoHandler
  /\ table' = [table EXCEPT ![i] = NoHandler]
  /\ list' = [u \in Tasks |-> IF table[i] = u THEN Unlist(list[u], i) ELSE list[u]]
  /\ held' = [held EXCEPT ![t] = @ \ {i}]
  /\ lost' = [u \in Tasks |-> IF u = t THEN lost[u] \ {i}
                              ELSE IF table[i] = u THEN lost[u] \union {i} ELSE lost[u]]
  /\ UNCHANGED <<life, over>>

\* Mutant of Remove: the loop stops at the first empty place.
RemoveToGap(t) ==
  /\ life[t] = "alive"
  /\ table' = [i \in Index |->
                 IF \E k \in Slot : /\ list[t][k] = i
                                    /\ \A j \in 0 .. k : list[t][j] # Empty
                 THEN NoHandler ELSE table[i]]
  /\ list' = [list EXCEPT ![t] = [k \in Slot |-> Empty]]
  /\ life' = [life EXCEPT ![t] = "gone"]
  /\ held' = [held EXCEPT ![t] = {}] /\ lost' = [lost EXCEPT ![t] = {}]
  /\ UNCHANGED over

\* task_remove: keyboard_clear_from_task clears what the list names.
Remove(t) ==
  /\ life[t] = "alive"
  /\ table' = [i \in Index |-> IF \E k \in Slot : list[t][k] = i
                               THEN NoHandler ELSE table[i]]
  /\ list' = [list EXCEPT ![t] = [k \in Slot |-> Empty]]
  /\ life' = [life EXCEPT ![t] = "gone"]
  /\ held' = [held EXCEPT ![t] = {}] /\ lost' = [lost EXCEPT ![t] = {}]
  /\ UNCHANGED over

Next ==
  \E t \in Tasks :
    \/ Create(t) \/ Catch(t) \/ Remove(t)
    \/ \E i \in Index : Clear(t, i)

Spec == Init /\ [][Next]_vars

-----------------------------------------------------------------------------
TypeOK ==
  /\ table \in [Index -> Tasks \union {Kernel, NoHandler}]
  /\ list \in [Tasks -> [Slot -> Index \union {Empty}]]
  /\ life \in [Tasks -> {"new", "alive", "gone"}]
  /\ held \in [Tasks -> SUBSET Index] /\ lost \in [Tasks -> SUBSET Index]
  /\ over \subseteq Tasks

\* A list names handlers of its own task that are in the table, each once: the
\* end of a task clears no handler of another task or of the kernel, nor one
\* that is not there, which would be used through a NULL.
ListsAgree ==
  \A t \in Tasks, k \in Slot :
    list[t][k] # Empty =>
      /\ table[list[t][k]] = t
      /\ \A j \in Slot : list[t][j] = list[t][k] => j = k

\* The index a program was given stays its own until the program clears it or
\* ends, whatever the other tasks install and however they end, unless one of them
\* clears that very index: keyboard_clear_handler does not ask whose it is.
HeldInstalled == \A t \in Tasks : \A i \in held[t] \ lost[t] : table[i] = t

\* No handler outlives its task, unless the task once had more of them than its
\* list has room for: keyboard_task finds no other task_t that was freed.
HandlersAlive ==
  \A i \in Index : table[i] \in Tasks =>
    \/ table[i] \in over
    \/ life[table[i]] = "alive" /\ \E k \in Slot : list[table[i]][k] = i

=============================================================================
